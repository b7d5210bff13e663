SPECIFICATION Spec
CONSTANTS
    h1 = h1
    h2 = h2
    i1 = i1
    i2 = i2
    None = None
    Hosts = {h1}
    Ids = {i1}
    Ttl = 4
    Delay = 1
    MaxTokens = 1
    MaxTime = 6
    MaxFaults = 1
    MayRestart = FALSE
INVARIANT CodeIsRenewed
CHECK_DEADLOCK FALSE
