SPECIFICATION Spec
CONSTANTS
    Frame = {f1, f2}
    Module = {wifi, decoder}
    NoFrame = NoFrame
    Settings <- MCBothClose
    MaxBroken = 1
    MaxMade = 1
    MaxHeld = 1
INVARIANT
    ValidFrames
CHECK_DEADLOCK FALSE
