SPECIFICATION Spec
CONSTANTS
    Callback = {cb1}
    Frame = {f1}
    None = None
    Settings <- MCEarly
INVARIANT
    ClosedMeansClosed
CHECK_DEADLOCK FALSE
