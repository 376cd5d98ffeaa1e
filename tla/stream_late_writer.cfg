SPECIFICATION FairSpec
CONSTANTS
    Clients = {c1, c2}
    None = None
    ChanCap = 1
    PipeCap = 1
    MaxPackets = 2
    MaxInputs = 1
    OutputMayFail = FALSE
    ReadMayFail = TRUE
    FdReuse = FALSE
CHECK_DEADLOCK FALSE
PROPERTY WriterEnds
