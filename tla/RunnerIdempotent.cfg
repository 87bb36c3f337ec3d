CONSTANT Workers = {w1}
CONSTANT Outcomes <- MCOutcomes
CONSTANT MaxPlans = 2
CONSTANT MaxSubmissions = 1
CONSTANT MaxAnswers = 2
CONSTANT MaxFaults = 0
CONSTANT MaxInputs = 3
SPECIFICATION Spec
INVARIANT ResolutionIsIdempotent
CHECK_DEADLOCK FALSE
