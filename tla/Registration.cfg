SPECIFICATION Spec
CONSTANTS
    h1 = h1
    h2 = h2
    i1 = i1
    i2 = i2
    None = None
    Hosts = {h1, h2}
    Ids = {i1}
    Ttl = 4
    Delay = 1
    MaxTokens = 2
    MaxTime = 4
    MaxFaults = 1
    MayRestart = TRUE
SYMMETRY Symmetry
INVARIANTS
    TypeOK
    TimelyHostIsFound
    LookupLeadsToHolder
PROPERTIES
    KeepsLease
    OnlyOwnerRemoves
    DeadStaysDead
CHECK_DEADLOCK FALSE
