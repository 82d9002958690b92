SPECIFICATION FairSpec
CONSTANTS
    r1 = r1
    r2 = r2
    Runs = {r1, r2}
    Blank = {r2}
    Retention = 1
    MaxEvents = 2
    MaxFaults = 0
PROPERTY AcceptedRunSettles
PROPERTY ShutdownCompletes
