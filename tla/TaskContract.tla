--------------------------- MODULE TaskContract ---------------------------
(***************************************************************************)
(* What the ledger promises the agents that share it, without the          *)
(* processes, the guards and the evidence: a task is worked on by one      *)
(* attempt at a time, an attempt is never used twice, only an attempt      *)
(* that still owns a task finishes it, and what is finished or withdrawn   *)
(* stays so.  An owner may lapse; the next command that sweeps takes every *)
(* lapsed task from its owner, and until then the owner may come back.     *)
(*                                                                         *)
(* The actions are the task events the reducer folds into its state.       *)
(***************************************************************************)
CONSTANTS Task, Attempt, None

VARIABLES
    state,   \* absent, open, completed or canceled
    owner,   \* the attempt that works on a task, or None
    lapsed,  \* owned tasks whose lease has run out
    spent    \* attempts that have owned a task

vars == <<state, owner, lapsed, spent>>

Init ==
    /\ state = [t \in Task |-> "absent"]
    /\ owner = [t \in Task |-> None]
    /\ lapsed = {}
    /\ spent = {}

\* The owners once every lapsed task has been taken from its own.
Swept == [t \in Task |-> IF t \in lapsed THEN None ELSE owner[t]]

Add(t) ==
    /\ state[t] = "absent"
    /\ state' = [state EXCEPT ![t] = "open"]
    /\ UNCHANGED <<owner, lapsed, spent>>

Acquire(t, a) ==
    /\ state[t] = "open"
    /\ Swept[t] = None
    /\ a \notin spent
    /\ owner' = [Swept EXCEPT ![t] = a]
    /\ spent' = spent \cup {a}
    /\ lapsed' = {}
    /\ UNCHANGED state

Return(t) ==
    /\ Swept[t] # None
    /\ owner' = [Swept EXCEPT ![t] = None]
    /\ lapsed' = {}
    /\ UNCHANGED <<state, spent>>

Finish(t) ==
    /\ state[t] = "open"
    /\ Swept[t] # None
    /\ state' = [state EXCEPT ![t] = "completed"]
    /\ owner' = [Swept EXCEPT ![t] = None]
    /\ lapsed' = {}
    /\ UNCHANGED spent

Withdraw(t) ==
    /\ state[t] = "open"
    /\ state' = [state EXCEPT ![t] = "canceled"]
    /\ owner' = [Swept EXCEPT ![t] = None]
    /\ lapsed' = {}
    /\ UNCHANGED spent

Sweep ==
    /\ owner' = Swept
    /\ lapsed' = {}
    /\ UNCHANGED <<state, spent>>

Lapse(t) ==
    /\ owner[t] # None
    /\ lapsed' = lapsed \cup {t}
    /\ UNCHANGED <<state, owner, spent>>

Revive(t) ==
    /\ lapsed' = lapsed \ {t}
    /\ UNCHANGED <<state, owner, spent>>

Next ==
    \/ \E t \in Task : \/ Add(t)
                       \/ \E a \in Attempt : Acquire(t, a)
                       \/ Return(t)
                       \/ Finish(t)
                       \/ Withdraw(t)
                       \/ Lapse(t)
                       \/ Revive(t)
    \/ Sweep

Spec == Init /\ [][Next]_vars
=============================================================================
