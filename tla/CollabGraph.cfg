SPECIFICATION FairSpec
CONSTANTS
    Clients = {1, 2}
    Edits = {x1}
    MaxDrops = 1
INVARIANT TypeOK
 
 
PROPERTY JoinerServed
CHECK_DEADLOCK FALSE
