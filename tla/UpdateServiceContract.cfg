\* The library keeps to the contract.
CONSTANTS
    c1 = c1
    c2 = c2
    Callers = {c1, c2}
    EarlyErrors = {"kFileOpenError"}
    Sizes = {1, 2}
    Failures = {"STOPPED_BY_SLAVE"}
    MaxDownloads = 2
    FullProgress = FALSE
    LateReports = FALSE
    AbortFails = FALSE
SPECIFICATION Spec
PROPERTIES
    ImplementsOneUpdate
