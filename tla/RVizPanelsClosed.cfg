\* One panel, closed while a download is on its way.
CONSTANTS
    Requests <- NodeRequests
    MaxDownloads = 1
    MaxCalls = 1
    MaxLaunches = 0
    Models = {"m1", "m2"}
    RowType <- RowTypes
    FaultTopics = {"f1"}
    HeaderTopics = {"h1"}
    Kind <- HeaderKinds
    Sessions <- DownloadAlone
SPECIFICATION Spec
INVARIANTS
    PanelOutlivesItsThreads
CHECK_DEADLOCK FALSE
