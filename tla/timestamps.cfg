SPECIFICATION Spec
CONSTANTS
    Times <- SmallTimes
    NoPts = NoPts
    InBases <- SmallBases
    OutBases <- SmallBases
    MaxWrites = 4
INVARIANT TypeOK
PROPERTIES IncreasesInFineBase OnlyIllFormedEnds LeastChange
CHECK_DEADLOCK FALSE
