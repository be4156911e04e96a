\* Two clients with any request, and any library.
CONSTANTS
    c1 = c1
    c2 = c2
    Clients = {c1, c2}
    EarlyErrors = {"kFileOpenError"}
    Sizes = {0, 1}
    Failures = {"STOPPED_BY_SLAVE"}
    MaxDownloads = 2
    FullProgress = TRUE
    LateReports = TRUE
    AbortFails = TRUE
SPECIFICATION Spec
INVARIANTS
    SuccessIsTold
    HandlersFindServices
    ReportsComeInTime
    NoDownloadLeft
    NeverBusy
PROPERTIES
    RequestsAreAnswered
    ShutdownCompletes
    ImplementsRadarServices
CHECK_DEADLOCK FALSE
