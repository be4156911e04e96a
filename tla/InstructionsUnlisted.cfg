\* The id of the unused slots.
CONSTANTS
    ConfiguredIds = {100, 200}
    Requests <- Lists
    Max8 = 3
    Max16 = 7
    Max32 = 15
    Max64 = 31
    FloatMantissas = 8
    FloatUlps = {1, 2, 4}
    MaxRequests = 1
    ServiceMissing = FALSE
SPECIFICATION Spec
INVARIANTS
    UnlistedSensorIsRejected
CHECK_DEADLOCK FALSE
