-------------------------- MODULE MCWorkerFrontier --------------------------
(* A small instance of WorkerFrontier for TLC. *)
EXTENDS WorkerFrontier, TLC

CONSTANTS s1, s2, alice, t1

\* Two processes of one actor.
SameActor == (s1 :> alice) @@ (s2 :> alice)

NoParents == [t \in Task |-> NoTask]
NoPrereqs == [t \in Task |-> {}]

Interchangeable == Permutations(Attempt)
=============================================================================
