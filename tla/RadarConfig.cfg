\* Two slots for sensors and two for adapters, three launches.
CONSTANTS
    MaxSensors = 2
    MaxAdapters = 2
    SensorIds = {100, 200}
    AdapterIds = {2}
    MaxLaunches = 3
SPECIFICATION Spec
INVARIANTS
    LibraryMatchesParameters
    FilesStayUsable
    LaunchFailsForAReason
CHECK_DEADLOCK FALSE
