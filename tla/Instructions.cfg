\* Two requests, of any service or with any conversion; responses in any order.
CONSTANTS
    ConfiguredIds = {100, 200}
    Requests <- ListsAndConversions
    Max8 = 3
    Max16 = 7
    Max32 = 15
    Max64 = 31
    FloatMantissas = 8
    FloatUlps = {1, 2, 4}
    MaxRequests = 2
    ServiceMissing = TRUE
SPECIFICATION Spec
INVARIANTS
    AllOrNothing
    EveryResponseIsShown
    NumbersArrive
PROPERTY
    ImplementsInstructionServices
CHECK_DEADLOCK FALSE
