SPECIFICATION Spec
CONSTANTS
    Cap = 2
    MaxMessages = 2
    MaxPeers = 1
    MaxFaults = 0
INVARIANT OpenSubscriptionGetsAll
CHECK_DEADLOCK FALSE
