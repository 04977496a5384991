----------------------------- MODULE AtomicLog -----------------------------
(***************************************************************************)
(* What the event store promises: a log that grows by whole batches, each  *)
(* decided on exactly the batches before it.  A power failure may take the *)
(* latest batches back, never one whose command was answered with success. *)
(***************************************************************************)
EXTENDS Naturals, Sequences

CONSTANTS Id   \* ids of batches

VARIABLES
    log,      \* the batches in the order they were appended
    kept,     \* how many of them a power failure cannot take back
    answered  \* the batches reported as done

vars == <<log, kept, answered>>

Ids(batches) == [i \in DOMAIN batches |-> batches[i].id]

Init == log = <<>> /\ kept = 0 /\ answered = {}

AppendBatch ==
    \E id \in Id :
        /\ \A i \in DOMAIN log : log[i].id # id
        /\ log' = Append(log, [id |-> id, saw |-> Ids(log)])
        /\ UNCHANGED <<kept, answered>>

Keep == kept' = Len(log) /\ UNCHANGED <<log, answered>>

Answer ==
    \E i \in 1 .. kept :
        answered' = answered \cup {log[i].id} /\ UNCHANGED <<log, kept>>

Lose ==
    \E n \in kept .. Len(log) :
        /\ log' = SubSeq(log, 1, n)
        /\ kept' = n
        /\ UNCHANGED answered

Next == AppendBatch \/ Keep \/ Answer \/ Lose

Spec == Init /\ [][Next]_vars
=============================================================================
