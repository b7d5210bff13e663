SPECIFICATION Spec
CONSTANTS
    k1 = k1
    k2 = k2
    p1 = p1
    shift = shift
    left = left
    f13 = f13
    NoDevice = NoDevice
    NoItem = NoItem
    Keys = {shift, f13}
    Buttons = {}
    Mute = {f13}
    Keyboards = {k1, k2}
    Pointers = {}
    Lacks <- PoorKeymap
    MaxUpsets = 2
    MaxEvents = 2
    MaxSessions = 2
    MaxInputs = 2
INVARIANTS
    TypeOK
    HeldIsAccounted
CHECK_DEADLOCK FALSE
