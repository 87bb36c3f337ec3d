CONSTANT Apis = {a1, a2}
CONSTANT Workers = {w1}
CONSTANT Restarted = a1
CONSTANT Nobody = Nobody
CONSTANT Emails = {"admin", "operator"}
CONSTANT Admin = "admin"
CONSTANT PasswordSet = TRUE
CONSTANT Chunks = {"a", "b", "c", "d"}
CONSTANT Documents <- MCDocuments
CONSTANT Services = {"bff", "gateway", "checkout", "payment", "redis"}
CONSTANT TopologyFile <- MCNoFile
CONSTANT BuiltIn <- MCBuiltIn
CONSTANT MaxBoots = 2
CONSTANT MaxFaults = 2
CONSTANT MaxRequests = 1
SPECIFICATION FairSpec
INVARIANT RunbooksFound
INVARIANT GraphWhole
INVARIANT AccountsSound
INVARIANT BlastRadiusHonest
PROPERTY SomeoneStarts
PROPERTY RestartSucceeds
CHECK_DEADLOCK FALSE
