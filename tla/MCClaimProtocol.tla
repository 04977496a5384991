-------------------------- MODULE MCClaimProtocol --------------------------
(* Small instances of ClaimProtocol for TLC. *)
EXTENDS ClaimProtocol, TLC

CONSTANTS s1, s2, s3, alice, bob, t1, t2, t3

\* s1 and s2 are two processes of one actor, s3 another actor.
TwoActors == (s1 :> alice) @@ (s2 :> alice) @@ (s3 :> bob)
TwoSessions == (s1 :> alice) @@ (s3 :> bob)
SameActor == (s1 :> alice) @@ (s2 :> alice)

NoParents == [t \in Task |-> NoTask]
NoPrereqs == [t \in Task |-> {}]

\* t2 is a child of t1, and t3 waits for t1.
ChildOfFirst == (t1 :> NoTask) @@ (t2 :> t1) @@ (t3 :> NoTask)
AfterFirst == (t1 :> {}) @@ (t2 :> {}) @@ (t3 :> {t1})

Interchangeable == Permutations(Attempt) \cup Permutations(Check)
=============================================================================
