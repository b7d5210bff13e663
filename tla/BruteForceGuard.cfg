SPECIFICATION Spec
CONSTANTS
    a = a
    b = b
    Nobody = Nobody
    Sources = {a, b}
    Threshold = 2
    BaseBlock = 1
    MaxBlock = 3
    HistoryTTL = 5
    MaxTime = 11
SYMMETRY Interchangeable
CHECK_DEADLOCK FALSE
INVARIANTS
    TypeOK
    BlocksAreWaitedOut
    BlockEndsBeforeHistory
PROPERTIES
    BackoffDoubles
    ImplementsLockout
