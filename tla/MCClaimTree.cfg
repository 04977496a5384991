CONSTANTS
    s1 = s1  s2 = s2  s3 = s3
    alice = alice  bob = bob
    t1 = t1  t2 = t2  t3 = t3
    NoTask = NoTask  NoActor = NoActor  NoAttempt = NoAttempt
    Task = {t1, t2, t3}
    Session = {s1, s3}
    Actor = {alice, bob}
    Attempt = {a1, a2, a3}
    Check = {c1}
    ActorOf <- TwoSessions
    Explicit = {s1}
    Killable = {s1}
    Parent <- ChildOfFirst
    After <- AfterFirst
    Obliged = {}
    Bounded = {}
    MaxRuns = 0
    MaxEvidence = 0
SYMMETRY Interchangeable
SPECIFICATION Spec
INVARIANTS
    ClosedTasksSettled
CHECK_DEADLOCK FALSE
