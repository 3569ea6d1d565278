SPECIFICATION FairSpec
CONSTANTS
    Name = {n1, n2}
    AutoName = auto
    Frame = {f1, f2}
    None = None
    QueueSize = 2
    Hasty <- MCBoth
INVARIANTS
    TypeOK
    StopIsQuiet
    
PROPERTIES
    HandoffSpec
    CallsReturn
CHECK_DEADLOCK FALSE
