CONSTANT Unset = Unset
CONSTANT NoContract = NoContract
CONSTANT ContractFiles <- MCContractFiles
CONSTANT Incidents <- MCIncidents
CONSTANT Plans <- MCPlans
CONSTANT MaxRuns = 2
CONSTANT AttemptLimit = 2
SPECIFICATION FairSpec
INVARIANT TypeOK
INVARIANT ExecutionGoverned
INVARIANT AuditEvidence
INVARIANT HumanGate
INVARIANT AttemptsBounded
INVARIANT OutcomeSound
PROPERTY HumanVeto
PROPERTY RestartBudget
PROPERTY Settles
PROPERTY ImplementsGovernance
CHECK_DEADLOCK FALSE
