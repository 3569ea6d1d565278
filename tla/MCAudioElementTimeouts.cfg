SPECIFICATION Spec
CONSTANTS
    QueueSize = 5
    Uses <- Calls
    Patient = TRUE
    TimesOut = {"RESUME", "PAUSE", "WAIT", "DESTROY"}
INVARIANTS
    TypeOK
    AsleepIsClosed
    AnsweredIsQuiet
PROPERTIES
    CallbacksSpec
CHECK_DEADLOCK FALSE
