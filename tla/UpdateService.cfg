\* Any library: full progress reports, empty images, late reports, aborts that fail.
CONSTANTS
    c1 = c1
    c2 = c2
    Callers = {c1, c2}
    EarlyErrors = {"kFileOpenError"}
    Sizes = {0, 1}
    Failures = {"STOPPED_BY_SLAVE"}
    MaxDownloads = 2
    FullProgress = TRUE
    LateReports = TRUE
    AbortFails = TRUE
SPECIFICATION Spec
SYMMETRY CallerSymmetry
INVARIANTS
    MutualExclusion
    FlagMeansUpdating
    NoLostWakeup
    TimedOutMeansStopped
    AnswerWasReported
    DownloadEndsWithRequest
    SuccessIsOwn
