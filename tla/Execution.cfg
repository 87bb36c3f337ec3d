CONSTANT Unset = Unset
CONSTANT NoMetrics = NoMetrics
CONSTANT Deployments = {"inventory", "absent"}
CONSTANT Images = {"before", "release"}
CONSTANT Existing = {"inventory"}
CONSTANT FirstPods <- MCFirstPods
CONSTANT Plans <- MCPlans
CONSTANT Undo <- MCUndo
SPECIFICATION Spec
INVARIANT CompensatesInReverse
INVARIANT StopsAtFirstFailure
INVARIANT MetricsFollowPods
INVARIANT RollbackUndoesRelease
CHECK_DEADLOCK FALSE
