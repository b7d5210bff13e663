SPECIFICATION FairSpec
CONSTANTS
    k1 = k1
    k2 = k2
    p1 = p1
    shift = shift
    left = left
    f13 = f13
    NoDevice = NoDevice
    NoItem = NoItem
    Keys = {shift}
    Buttons = {left}
    Mute = {}
    Keyboards = {k1, k2}
    Pointers = {p1}
    Lacks <- PoorKeymap
    MaxUpsets = 1
    MaxEvents = 2
    MaxSessions = 1
    MaxInputs = 1
PROPERTIES
    HostLetsGo
CHECK_DEADLOCK FALSE
