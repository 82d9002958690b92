SPECIFICATION FairSpec
CONSTANTS
    Page = 2
    MaxReconnects = 2
    MaxDrops = 3
    MaxLen = 5
INVARIANT DeliveredOnce
INVARIANT StopsAtTerminal
PROPERTY ImplementsFeed
PROPERTY TerminalSeen
CHECK_DEADLOCK FALSE
