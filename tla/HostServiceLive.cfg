SPECIFICATION FairSpec
CONSTANTS
    v1 = v1
    v2 = v2
    lan = zero
    zero = zero
    None = None
    Viewers = {v1, v2}
    Sources = {zero}
    Unspecified = zero
    Lan <- OneMachine
    Threshold = 1
    Internet = TRUE
    MaxClicks = 1
CHECK_DEADLOCK FALSE
PROPERTIES
    StopEndsSession
    QueueMoves
    StopReachesListeners
