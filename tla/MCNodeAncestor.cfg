CONSTANTS
    MaxNode = 3
    Obligation = {}
    Path = {}
SPECIFICATION Spec
INVARIANTS
    NoAncestorPrerequisite
CHECK_DEADLOCK FALSE
