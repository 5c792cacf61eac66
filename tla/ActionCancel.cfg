SPECIFICATION FairSpec
CONSTANTS
    Actions = {a1}
    Workers = {w1}
    NoWorker = NoWorker
    NoAction = NoAction
    ExitCodes = {0}
    Fits = {w1}
    Diagnostics = {}
    MaxCrashes = 0
    Crashers = {w1}
    MaxCancels = 1
    DeletesAllowed = TRUE
    RequeueMayFail = FALSE
    DockerMayFail = TRUE
INVARIANTS
    MemoryForgotten
    CancelledNeverRuns
PROPERTIES
    EventuallyFinal
CHECK_DEADLOCK FALSE
