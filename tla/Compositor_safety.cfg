SPECIFICATION LayersSpec
CONSTANTS
    N = 3
    MaxRuns = 3
INVARIANT ScopesNest
INVARIANT NothingLeftOpen
INVARIANT FailureReported
INVARIANT ScopeSeesFailure
INVARIANT ClosedSessionUntouched
INVARIANT SnapshotMatchesWorld
CHECK_DEADLOCK FALSE
