CONSTANTS
    s1 = s1  s2 = s2
    alice = alice
    t1 = t1
    NoTask = NoTask  NoActor = NoActor  NoAttempt = NoAttempt
    Task = {t1}
    Session = {s1, s2}
    Actor = {alice}
    Attempt = {a1, a2}
    Check = {c1}
    ActorOf <- SameActor
    Explicit = {s1}
    Killable = {s1}
    Parent <- NoParents
    After <- NoPrereqs
    Obliged = {}
    Bounded = {t1}
    MaxRuns = 1
    MaxEvidence = 1
SYMMETRY Interchangeable
SPECIFICATION WorkerSpec
INVARIANTS
    CompletionJustified
    FrontierMatchesReducer
PROPERTIES
    BoundCompletion
CHECK_DEADLOCK FALSE
