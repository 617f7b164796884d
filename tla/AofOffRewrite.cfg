SPECIFICATION Spec
CONSTANT Configs <- OffThenRestart
INVARIANT NothingLost
CHECK_DEADLOCK FALSE
