CONSTANTS
    s1 = s1  s2 = s2  s3 = s3
    alice = alice  bob = bob
    t1 = t1  t2 = t2  t3 = t3
    NoTask = NoTask  NoActor = NoActor  NoAttempt = NoAttempt
    Task = {t1}
    Session = {s1, s3}
    Actor = {alice, bob}
    Attempt = {a1, a2}
    Check = {c1}
    ActorOf <- TwoSessions
    Explicit = {s1}
    Killable = {}
    Parent <- NoParents
    After <- NoPrereqs
    Obliged = {t1}
    Bounded = {}
    MaxRuns = 1
    MaxEvidence = 0
SYMMETRY Interchangeable
SPECIFICATION Spec
PROPERTIES
    ExecutedRunsRecorded
CHECK_DEADLOCK FALSE
