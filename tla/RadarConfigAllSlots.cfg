\* As many slots for sensors as the code has (kMaxSensorCount).
CONSTANTS
    MaxSensors = 10
    MaxAdapters = 2
    SensorIds = {100}
    AdapterIds = {2}
    MaxLaunches = 1
SPECIFICATION Spec
INVARIANTS
    ConfiguredSensorsAreSeen
CHECK_DEADLOCK FALSE
