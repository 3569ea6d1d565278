SPECIFICATION FairSpec
CONSTANTS
    Callback = {cb1, cb2}
    Frame = {f1, f2}
    None = None
    Settings <- MCSettings
INVARIANTS
    TypeOK
    Quiet
    InStep
PROPERTIES
    HandoffSpec
    NobodyWaits
CHECK_DEADLOCK FALSE
