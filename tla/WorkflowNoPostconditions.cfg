CONSTANT Unset = Unset
CONSTANT NoContract = NoContract
CONSTANT ContractFiles <- NoRules
CONSTANT Incidents <- LowIncident
CONSTANT Plans <- RestartOnly
CONSTANT MaxRuns = 1
CONSTANT AttemptLimit = 2
SPECIFICATION Spec
INVARIANT NoPostconditionsIsSuccess
CHECK_DEADLOCK FALSE
