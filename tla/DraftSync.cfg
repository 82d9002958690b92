SPECIFICATION FairSpec
CONSTANTS
    Editors = {e1, e2}
    Edits = {x1, x2}
    MaxEvents = 1
INVARIANT HashKnown
PROPERTY LossHasCause
 
 
CHECK_DEADLOCK FALSE
