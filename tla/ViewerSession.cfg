SPECIFICATION Spec
CONSTANTS
    lan = lan
    net = net
    h1 = h1
    h2 = h2
    NoId = NoId
    NoTarget = NoTarget
    NoAttempt = NoAttempt
    LanTargets = {lan}
    InternetTargets = {net}
    Ids = {h1, h2}
    First <- SameHost
    MaxAttempts = 2
    MaxMoves = 1
INVARIANTS
    TypeOK
    OnePicture
    NothingLingers
PROPERTIES
    KeepsTrust
CHECK_DEADLOCK FALSE
