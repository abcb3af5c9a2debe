SPECIFICATION Spec
CONSTANT EngineTargets <- MCEngineTargets
INVARIANTS PathIsShortest RejectedOnlyWithoutPath EngineTargetsAlwaysReached
PROPERTY CallReturns
CHECK_DEADLOCK FALSE
