SPECIFICATION Spec
CONSTANTS
    Name = {n1}
    AutoName = auto
    Frame = {f1}
    None = None
    QueueSize = 2
    Hasty <- MCPatient
INVARIANT
    RunningMeansSaving
CHECK_DEADLOCK FALSE
