SPECIFICATION Spec
CONSTANTS
    Tabs = {t1, t2}
    Calls = {c1, c2}
    Timeout = 1
    MaxTime = 3
INVARIANT OnlyOneRequest
CHECK_DEADLOCK FALSE
