SPECIFICATION FairSpec
CONSTANTS
    MOD_ATTEMPTS = 2
    MOD_RETRY_DELAY = 1
    MOD_NOTICE_DELAY = 2
    Windows <- TwoWindows
    Horizon = 8
    Jumps <- SomeJumps
    MaxJumps = 1
    MaxLosses = 1
INVARIANTS
    BudgetBoundsDownloads
    GamesOverSoundMods
    NoticeBeforeStop
PROPERTIES
    MaintenanceNotLost
    ManualUpdateSettles
    ClosedRoomStops
CHECK_DEADLOCK FALSE
