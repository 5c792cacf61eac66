SPECIFICATION FileFairSpec
CONSTANTS
    Ids = {f1, f2}
    JobIds = {j1, j2}
    Bases = {"b"}
    NoId = NoId
    NoJob = NoJob
    Requests = {r1}
    MaxRequests = 1
    Kinds = {"import"}
    UploadTypes = {"MCAP"}
    RequestsMayFail = FALSE
    Slots = {s1}
    MaxStalls = 2
    AutoConvert = TRUE
    DriveTypes = {"BAG", "YAML"}
    MaxChildren = 1
    AddMayFail = TRUE
    Crons = {"cleanup", "repair"}
    TimePasses = TRUE
INVARIANTS
    OkIsBacked
    CompletedIsSettled
PROPERTIES
    JobsSettle
    UploadsSettle
CHECK_DEADLOCK FALSE
