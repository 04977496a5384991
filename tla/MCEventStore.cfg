CONSTANTS
    NoProcess = NoProcess
    Process = {p1, p2, p3}
    MaxBatch = 5
SPECIFICATION Spec
INVARIANTS
    TypeOK
    Serialized
    LogWhole
    AckedSurvive
PROPERTIES
    KeepsLog
CHECK_DEADLOCK FALSE
