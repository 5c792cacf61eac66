SPECIFICATION Spec
CONSTANTS
    Actions = {a1}
    Workers = {w1, w2}
    NoWorker = NoWorker
    NoAction = NoAction
    ExitCodes = {0}
    Fits = {w1, w2}
    Diagnostics = {}
    MaxCrashes = 1
    Crashers = {w1}
    MaxCancels = 0
    DeletesAllowed = FALSE
    RequeueMayFail = TRUE
    DockerMayFail = FALSE
INVARIANTS
    NoOrphanedAction
PROPERTIES
    ImplementsCustody
CHECK_DEADLOCK FALSE
