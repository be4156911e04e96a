\* sensor_1 of radar.sensor.example.yaml alone.
CONSTANTS
    t1 = t1
    NumberOfSensors = 1
    SensorIds = {600}
    LinkTypes = {"can"}
    Models = {"umrr9f_can_v2_1_1"}
    PubTypes = {""}
    Configurations <- Example
    Threads = {t1}
    MaxLists = 2
    RestOutlasts = TRUE
SPECIFICATION Spec
INVARIANTS
    NoPublisherMissing
CHECK_DEADLOCK FALSE
