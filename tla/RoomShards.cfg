SPECIFICATION FairSpec
CONSTANTS
    Shards = {s1, s2}
    Clients = {c1, c2}
    Boot = c1
    Operations <- AgentOperations
    Allowed = {"stop", "reload", "kill", "shutdown", "fault", "configure", "hold", "native", "update"}
    MAX_REQUESTS = 2
INVARIANTS
    StoppedMeansDown
PROPERTIES
    StopIsHonest
    FaultStopsRoom
    OperationsEnd
CHECK_DEADLOCK FALSE
