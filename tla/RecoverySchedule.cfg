SPECIFICATION FairSpec
CONSTANTS
    CURRENT_RESTARTS = 2
    MAX_SNAPSHOT_GAP = 1
    Shards = {Master}
    Topologies = {{Master}}
    AlwaysOpen = FALSE
    KeepSnapshots = 2
    MaxSnapshot = 2
    MaxSession = 2
    MaxOpening = 2
    MaxLosses = 1
PROPERTIES
    FaultSettles
CHECK_DEADLOCK FALSE
