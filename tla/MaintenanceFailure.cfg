SPECIFICATION Spec
CONSTANTS
    MOD_ATTEMPTS = 2
    MOD_RETRY_DELAY = 1
    MOD_NOTICE_DELAY = 2
    Windows <- TwoWindows
    Horizon = 8
    Jumps <- SomeJumps
    MaxJumps = 0
    MaxLosses = 0
INVARIANTS
    FailedModsStayClosed
CHECK_DEADLOCK FALSE
