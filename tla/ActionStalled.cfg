SPECIFICATION Spec
CONSTANTS
    Actions = {a1}
    Workers = {w1}
    NoWorker = NoWorker
    NoAction = NoAction
    ExitCodes = {}
    Fits = {w1}
    Diagnostics = {}
    MaxCrashes = 2
    Crashers = {w1}
    MaxCancels = 0
    DeletesAllowed = FALSE
    RequeueMayFail = FALSE
    DockerMayFail = FALSE
INVARIANTS
    AtMostOneStart
PROPERTIES
    HealthyRunSpared
CHECK_DEADLOCK FALSE
