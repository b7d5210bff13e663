SPECIFICATION Spec
CONSTANTS
    v1 = v1
    v2 = v2
    lan = lan
    zero = zero
    None = None
    Viewers = {v1, v2}
    Sources = {lan, zero}
    Unspecified = zero
    Lan <- OneMachine
    Threshold = 1
    Internet = TRUE
    MaxClicks = 2
CHECK_DEADLOCK FALSE
SYMMETRY Interchangeable
INVARIANTS
    TypeOK
    PanelConverges
    CodeAdmitsOnce
    OnlyServedIsOpen
    ApprovalAdmitsOnce
    BlockedIsNeverServed
    RefreshOnlyWhileRegistered
PROPERTIES
    KeepsContract
