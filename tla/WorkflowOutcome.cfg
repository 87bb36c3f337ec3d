CONSTANT Unset = Unset
CONSTANT NoContract = NoContract
CONSTANT ContractFiles <- OneRule
CONSTANT Incidents <- LowIncident
CONSTANT Plans <- RestartOnly
CONSTANT MaxRuns = 2
CONSTANT AttemptLimit = 1
SPECIFICATION Spec
INVARIANT PostconditionsDecide
CHECK_DEADLOCK FALSE
