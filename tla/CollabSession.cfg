SPECIFICATION FairSpec
CONSTANTS
    Sids = {s1, s2}
    None = None
    MaxTasks = 2
    MaxUnread = 0
    MaxExpiries = 1
INVARIANT TypeOK
INVARIANT FlagsAgreeUnlessOverlap
INVARIANT NoGhostMembers
PROPERTY LeaderRepaired
CHECK_DEADLOCK FALSE
