CONSTANT Workers = {w1, w2}
CONSTANT Outcomes <- MCOutcomes
CONSTANT MaxPlans = 2
CONSTANT MaxSubmissions = 2
CONSTANT MaxAnswers = 2
CONSTANT MaxFaults = 1
CONSTANT MaxInputs = 3
SPECIFICATION FairSpec
INVARIANT PausedIsShown
INVARIANT ClosedIsRecorded
INVARIANT FlushedOnce
INVARIANT RepeatsAreCounted
PROPERTY Drains
CHECK_DEADLOCK FALSE
