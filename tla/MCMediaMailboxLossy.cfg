SPECIFICATION FairSpec
CONSTANTS
    Calls = {"a1"}
    Notes = {"n1"}
    From <- MCFrom
    To <- MCTo
    QueueLen = 3
    Faulty = {"a1"}
    FailingWrites = {"REQ"}
    LosableTypes = {"REQ"}
    MaxFaults = 4
INVARIANTS
    TypeOK
PROPERTIES
    RemoteSpec
    NothingForgotten
CHECK_DEADLOCK FALSE
