\* Two sensors and two threads of the library.
CONSTANTS
    t1 = t1
    t2 = t2
    NumberOfSensors = 2
    SensorIds = {100, 200}
    LinkTypes = {"eth", "can", "usb"}
    Models <- EveryModel
    PubTypes = {"mse", "target", ""}
    Configurations <- PairsAndSingles
    Threads = {t1, t2}
    MaxLists = 2
    RestOutlasts = TRUE
SPECIFICATION Spec
SYMMETRY ThreadSymmetry
INVARIANTS
    CallbacksHavePublishers
    FaultHasCause
    PublishedWhereConfigured
    HeadersFollowClouds
    SilentAfterReset
    EveryListIsHeard
CHECK_DEADLOCK FALSE
