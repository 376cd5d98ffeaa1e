SPECIFICATION Spec
CONSTANTS
    Times <- FrameTimes
    NoPts = NoPts
    InBases <- Fine
    OutBases <- Coarse
    MaxWrites = 4
PROPERTY StrictlyIncreasing
CHECK_DEADLOCK FALSE
