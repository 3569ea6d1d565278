SPECIFICATION FairSpec
CONSTANTS
    Frame = {f1, f2}
    Module = {wifi, decoder}
    NoFrame = NoFrame
    Settings <- MCSettings
    MaxBroken = 1
    MaxMade = 1
    MaxHeld = 1
INVARIANTS
    TypeOK
    OnePlace
    MasksTellHolders
    ReadInOrder
    NotDeaf
PROPERTIES
    LeaseSpec
    Served
CHECK_DEADLOCK FALSE
