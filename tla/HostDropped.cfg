SPECIFICATION FairSpec
CONSTANTS
    v1 = v1
    v2 = v2
    lan = lan
    zero = zero
    None = None
    Viewers = {v1}
    Sources = {lan, zero}
    Unspecified = zero
    Lan <- OneMachine
    Threshold = 1
    Internet = FALSE
    MaxClicks = 0
CHECK_DEADLOCK FALSE
PROPERTIES
    DroppedHostReturns
