SPECIFICATION Spec
CONSTANTS
    Requests = {a, b}
    HealthRequests = {}
    MAX_PENDING = 2
    MaxGeneration = 1
    MaxBusy = 2
    MaxFaults = 1
SYMMETRY Symmetry
PROPERTIES
    ImplementsRemoteCall
CHECK_DEADLOCK FALSE
