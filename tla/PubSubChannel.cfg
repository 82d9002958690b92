SPECIFICATION FairSpec
CONSTANTS
    Cap = 2
    MaxMessages = 4
    MaxPeers = 2
    MaxFaults = 1
INVARIANT AtMostOnceInOrder
INVARIANT NothingLostSilently
PROPERTY ListenerReleased
PROPERTY ConsumerReleased
CHECK_DEADLOCK FALSE
