SPECIFICATION Spec
CONSTANTS
    Clients = {c1, c2}
    None = None
    ChanCap = 2
    PipeCap = 1
    MaxPackets = 3
    MaxInputs = 2
    OutputMayFail = TRUE
    ReadMayFail = TRUE
    FdReuse = FALSE
CHECK_DEADLOCK FALSE
SYMMETRY ClientSymmetry
INVARIANTS TypeOK PacketsConserved OneConnection WritersFollowInput NoStrandedHandler
PROPERTIES NotDestroyedInUse ImplementsService
