CONSTANTS
    Requests <- NodeRequests
    MaxDownloads = 2
    MaxCalls = 2
    MaxLaunches = 1
    Models = {"m1", "m2"}
    RowType <- RowTypes
    FaultTopics = {"f1", "f2"}
    HeaderTopics = {"h1", "h2"}
    Kind <- HeaderKinds
    Sessions <- PairsOfPanels
SPECIFICATION Spec
INVARIANTS
    ButtonMeansPending
    TypesAgreeWithNode
    FaultsAreOfSelection
    LabelsMatchData
PROPERTIES
    QtComesBack
    ButtonComesBack
    ListFollowsGraph
CHECK_DEADLOCK FALSE
