SPECIFICATION Spec
CONSTANTS
    Callers = {a, b}
    Subscribers = {s}
    STREAM_ITEMS = 2
    MAX_SUBSCRIPTIONS = 1
    DISPATCH_ITEMS = 1
    BatchLimit = 2
    MaxPublished = 3
    Players = {p}
    SUBSCRIPTION_LINES = 1
    OUTPUT_RECORDS = 1
    MaxAttempts = 2
    MaxGenerations = 2
    MaxEvents = 2
    Owners = {agent_process, host_tool}
    Nobody = Nobody
    Changed <- ChangedFiles
    Removed <- RemovedFiles
    MaxJobs = 3
    MaxFailures = 2
    Clients = {c1, c2}
    Agent = Agent
    Free = Free
    MaxBoots = 2
    MaxUpdates = 2
    MaxOperations = 2
    Tools = {t1, t2}
    None = None
    DeployedRooms = {r1, r2}
    ShardNames <- NamesOfShards
    PoolEnd = 7
    Unrelated <- UnrelatedQuadlets
    Images = {1}
    MaxSaves = 3
    Parts = 2
    Importers = {1, 2, 3}
    Nothing = 0
    ProcessOf <- ProcessOfImport
    ImportFiles = {f1, f2}
    KleiIds <- PlayerIds
    Tiers <- WorldTiers
    Retention <- RetentionOf
    LongestRetention = 1
    WallJumps <- ClockJumps
    MaxWallJumps = 1
    MaxWorlds = 1
    MaxCrashes = 1
INVARIANTS
    AnswersAreTrue ObservationsAreHonest FilesAreDurable
    HostAnswersAreHonest PublishedPortsAreSound ArchivesAreWhole
PROPERTIES
    WipesAreDue
CHECK_DEADLOCK FALSE
