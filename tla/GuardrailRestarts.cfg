CONSTANT Unset = Unset
CONSTANT Requests <- MCRequests
SPECIFICATION Spec
INVARIANT RestartsWithinLimit
CHECK_DEADLOCK FALSE
