SPECIFICATION FileSpec
CONSTANTS
    Ids = {f1, f2}
    JobIds = {j1}
    Bases = {"b"}
    NoId = NoId
    NoJob = NoJob
    Requests = {r1, r2}
    MaxRequests = 4
    Kinds = {"reserve", "confirm", "cancel", "edit", "delete", "deleteMany",
             "queueDelete", "cancelProcessing", "stop"}
    UploadTypes = {"MCAP"}
    RequestsMayFail = TRUE
    Slots = {s1}
    MaxStalls = 0
    AutoConvert = TRUE
    DriveTypes = {}
    MaxChildren = 0
    AddMayFail = FALSE
    Crons = {"cleanup"}
    TimePasses = TRUE
SYMMETRY FileSymmetry
INVARIANTS
    FileTypeOK
    OkIsBacked
    NoOrphanedJob
PROPERTIES
    DeletedStaysDeleted
    ConfirmedKept
    CanceledKept
CHECK_DEADLOCK FALSE
