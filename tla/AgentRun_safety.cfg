SPECIFICATION Spec
CONSTANTS
    r1 = r1
    r2 = r2
    Runs = {r1, r2}
    Blank = {}
    Retention = 2
    MaxEvents = 3
    MaxFaults = 1
SYMMETRY RunSymmetry
INVARIANT NoTaskAfterStop
INVARIANT StatusFollowsEvent
INVARIANT EventLogShape
INVARIANT VerdictAgreement
 
