SPECIFICATION FairSpec
CONSTANTS
    Clients = {c1, c2}
    None = None
    ChanCap = 1
    PipeCap = 1
    MaxPackets = 3
    MaxInputs = 1
    OutputMayFail = FALSE
    ReadMayFail = FALSE
    FdReuse = FALSE
CHECK_DEADLOCK FALSE
PROPERTIES EncoderKeepsUp ViewerAdmitted AdmittedHandlersEnd RangingWriterEnds
