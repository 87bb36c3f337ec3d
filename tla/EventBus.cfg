CONSTANT Clients = {c1, c2}
CONSTANT HistoryLimit = 2
CONSTANT StreamLimit = 2
CONSTANT Batch = 2
CONSTANT MaxEvents = 4
SPECIFICATION FairSpec
INVARIANT InOrder
INVARIANT NoneSkipped
INVARIANT EndsAtTerminal
INVARIANT NoQueueLeaks
PROPERTY StreamEnds
CHECK_DEADLOCK FALSE
