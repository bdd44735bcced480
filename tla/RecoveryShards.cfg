SPECIFICATION Spec
CONSTANTS
    CURRENT_RESTARTS = 1
    MAX_SNAPSHOT_GAP = 1
    Shards = {Master, Caves}
    Topologies = {{Master}, {Master, Caves}}
    AlwaysOpen = TRUE
    KeepSnapshots = 3
    MaxSnapshot = 3
    MaxSession = 1
    MaxOpening = 0
    MaxLosses = 1
INVARIANTS
    TypeOK
    ValidRecovery
    OneIncident
    LaunchMatchesDecision
    BudgetBoundsLaunches
PROPERTIES
    TargetStaysFixed
    DiscardIsBounded
CHECK_DEADLOCK FALSE
