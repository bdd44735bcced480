SPECIFICATION FairSpec
CONSTANTS
    Requests = {a, b}
    HealthRequests = {}
    MAX_PENDING = 1
    MaxGeneration = 1
    MaxBusy = 0
    MaxFaults = 0
PROPERTIES
    EveryCallAnswered
    StopSettles
CHECK_DEADLOCK FALSE
