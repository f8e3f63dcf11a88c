SPECIFICATION Spec
CONSTANTS
    r1 = r1
    r2 = r2
    r3 = r3
    Requests <- MCRequests
    Caps = {1, 2}
    Window = 4
    Delay = 1
    PlanTTL = 2
    PortalTimeout = 1
    MaxTime = 5
    MaxFaults = 1
SYMMETRY Symmetry
INVARIANTS
    TypeOK
    WindowRespected
    OnlyAdmittedCount
    PlanIsRecent
CHECK_DEADLOCK FALSE
