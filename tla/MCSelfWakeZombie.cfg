SPECIFICATION Spec
CONSTANTS
    Keys = {k1, k2}
    Batches = {b1, b2}
    ChainLimit = 2
    FuseAfter = 3
    EndpointMayFail = FALSE
    DoorMayReject = TRUE
    AppMayClaim = FALSE
    SessionMayClose = FALSE
    MaxToggles = 0
    MaxHumans = 0
    MaxFaults = 1
SYMMETRY Symmetry
INVARIANTS NoZombie
CHECK_DEADLOCK FALSE
