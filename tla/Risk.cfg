CONSTANT Unset = Unset
CONSTANT Actions <- MCActions
CONSTANT TheContract <- MCContract
CONSTANT MaxActions = 4
CONSTANT MaxAttempts = 3
CONSTANT MaxRejections = 7
SPECIFICATION AssessmentSpec
INVARIANT CriticalNeedsHuman
PROPERTY RiskGrows
CHECK_DEADLOCK FALSE
