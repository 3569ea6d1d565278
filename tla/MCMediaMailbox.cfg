SPECIFICATION Spec
CONSTANTS
    Calls = {"a1", "a2", "m1"}
    Notes = {}
    From <- MCFrom
    To <- MCTo
    QueueLen = 4
    Faulty = {}
    FailingWrites = {}
    LosableTypes = {}
    MaxFaults = 0
INVARIANTS
    NoDanglingMessage
    ListedOnce
    
    QueueHasRoom
PROPERTIES
    RemoteSpec
CHECK_DEADLOCK FALSE
