SPECIFICATION Spec
CONSTANTS
    Requests = {g, h}
    HealthRequests = {g, h}
    MAX_PENDING = 2
    MaxGeneration = 2
    MaxBusy = 0
    MaxFaults = 0
SYMMETRY Symmetry
INVARIANTS
    AnswersAreHonest
    NoFalseAlarm
PROPERTIES
    ReadyIsCurrent
    ShutdownIsLast
CHECK_DEADLOCK FALSE
