CONSTANT Unset = Unset
CONSTANT BaseContracts <- MCBaseContracts
CONSTANT Actions <- MCActions
CONSTANT Histories <- MCHistories
CONSTANT Measurements <- MCMeasurements
SPECIFICATION Spec
INVARIANT NeverElevates
INVARIANT AdaptationOnlyRestricts
INVARIANT LoopComputesEffective
PROPERTY PermissionsOnlyShrink
CHECK_DEADLOCK FALSE
