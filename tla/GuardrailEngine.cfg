CONSTANT Unset = Unset
CONSTANT Requests <- MCRequests
SPECIFICATION Spec
INVARIANT LoopComputesVerdict
INVARIANT ForbiddenAlwaysWins
INVARIANT PreChecksAreFinal
CHECK_DEADLOCK FALSE
