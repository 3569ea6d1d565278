SPECIFICATION FairSpec
CONSTANTS
    Size = 5
    ReadLens = {6}
    WriteLens = {3, 6}
    UintSpan = 65536
    MaxBytes = 6
    ReaderTimesOut = TRUE
    WriterTimesOut = TRUE
INVARIANTS
    TypeOK
    PointersTrackFill
    NeverBothBlocked
    NoLostWakeup
PROPERTIES
    DoneLeavesLessThanAWord
    FifoSpec
    CallsEnd
