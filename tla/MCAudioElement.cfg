SPECIFICATION FairSpec
CONSTANTS
    QueueSize = 3
    Uses <- Calls
    Patient = TRUE
    TimesOut = {}
INVARIANTS
    NothingRefused
    StopMarked
    
PROPERTIES
    CommandsTakeEffect
CHECK_DEADLOCK FALSE
