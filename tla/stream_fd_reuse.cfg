SPECIFICATION Spec
CONSTANTS
    Clients = {c1, c2}
    None = None
    ChanCap = 1
    PipeCap = 1
    MaxPackets = 2
    MaxInputs = 1
    OutputMayFail = FALSE
    ReadMayFail = TRUE
    FdReuse = TRUE
CHECK_DEADLOCK FALSE
INVARIANT OwnStreamOnly
