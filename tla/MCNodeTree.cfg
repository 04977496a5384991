CONSTANTS
    MaxNode = 4
    Obligation = {}
    Path = {}
SPECIFICATION Spec
INVARIANTS
    TypeOK
    OneTree
    PrereqsAcyclic
    ClosedSubtreesSettled
PROPERTIES
    ArchivedIsFrozen
CHECK_DEADLOCK FALSE
