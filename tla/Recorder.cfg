CONSTANTS
    Topics <- MCTopics
    RadarTopics <- MCRadarTopics
    TargetTopics <- MCTargetTopics
    NoTopic = "Select a Topic"
    MaxClouds = 4
    MaxPoints = 2
    WritesFail = TRUE
SPECIFICATION Spec
INVARIANTS
    ControlsFit
    RecordingIsWhole
PROPERTIES
    RowsLeaveByChoice
    ImplementsRecording
