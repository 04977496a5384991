CONSTANTS
    MaxNode = 3
    Obligation = {o1}
    Path = {{f1}}
SPECIFICATION Spec
INVARIANTS
    CompletionsStayCovered
    ArchivedStaysComplete
    ClaimedSiblingsApart
    NoOpIsFinal
    BlockedHasCause
CHECK_DEADLOCK FALSE
