SPECIFICATION RequestsSpec
CONSTANTS
    Shards = {s1}
    Clients = {c1, c2, c3}
    Boot = agent_boot
    Operations <- AnyOperation
    Allowed = {"start", "stop", "restart", "update", "update_restart", "native", "reload", "kill", "fault", "hold"}
    MAX_REQUESTS = 2
    RoomShards <- OrderOfShards
    Main = "Master"
    Requests <- AllRequests
    MaxMoves <- MovesDuring
SYMMETRY Symmetry
INVARIANTS
    RequestsAreHonest
PROPERTIES
    NoLaunchAfterFault
    StopRecordsFault
CHECK_DEADLOCK FALSE
