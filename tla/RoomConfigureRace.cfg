SPECIFICATION Spec
CONSTANTS
    Shards = {s1}
    Clients = {c1, c2, c3}
    Boot = c1
    Operations <- AgentOperations
    Allowed = {"stop", "configure"}
    MAX_REQUESTS = 2
PROPERTIES
    StopRecordsFault
CHECK_DEADLOCK FALSE
