CONSTANT MaxCalls = 4
SPECIFICATION Spec
INVARIANTS DebounceInv OneLiveInner OwnResult
PROPERTIES FollowsLatestCount ForwardsLatest CallReturns PendingIsForwarded
\* the callers may stop calling
CHECK_DEADLOCK FALSE
