--------------------------- MODULE WorkerFrontier ---------------------------
(***************************************************************************)
(* The worker frontier: `worker-status` offers the actions an actor may    *)
(* take on a task, each bound to the claim and the evidence it is about,   *)
(* and `worker-run` executes one of them (worker_frontier.go,              *)
(* handlers.go).                                                           *)
(*                                                                         *)
(* An action id is a digest in which the revision of the log takes part:   *)
(* `worker-run` finds it in the frontier only if nothing was appended      *)
(* since it was offered, not even by its own repair of leases.  So the     *)
(* offer and the transaction that accepts the id are one step here.  What  *)
(* is executed then is the ordinary command of ClaimProtocol, in           *)
(* transactions of its own, with everybody else in between.  The execution *)
(* context of the evidence is left to AcceptanceContext: both sides ask    *)
(* the same function about it.                                             *)
(***************************************************************************)
EXTENDS ClaimProtocol

VARIABLE chosen   \* the action that each process executes for `worker-run`

workerVars == <<vars, chosen>>

Kind == {"take", "run_acceptance", "complete_from_acceptance",
         "complete_review"}
Completing == {"complete_from_acceptance", "complete_review"}

\* NoTask as the task: the process executes no such action.
Bound(k, t, cited) ==
    [kind |-> k, task |-> t, attempt |-> claim[t].attempt, cited |-> cited]
NoAction == [kind |-> "none", task |-> NoTask, attempt |-> NoAttempt,
             cited |-> {}]

WorkerInit == Init /\ chosen = [s \in Session |-> NoAction]

-----------------------------------------------------------------------------
(* The frontier *)

\* CanonicalActions: what may come into question on an open task.
CanonicalActions(t) ==
    IF ~Open(t) THEN {}
    ELSE IF claim[t] = NoClaim THEN {Bound("take", t, {})}
    ELSE IF acceptance[t] # {}
    THEN {Bound("run_acceptance", t, {})} \cup
         {Bound("complete_from_acceptance", t, {e}) :
             e \in {f \in evidence : f.task = t /\ f.kind = "run_set"}}
    ELSE {Bound("complete_review", t, {e}) :
             e \in {f \in evidence : f.task = t /\ f.kind \in Reviewing}}

\* Mutant: the acceptance the evidence was recorded under is not compared.
EvidenceAdmissibleByAttempt(t, e) == e.task = t /\ e.attempt = claim[t].attempt

\* completeEvidenceAdmissible, for evidence of the kind asked for.
EvidenceAdmissible(t, e) ==
    /\ e.task = t
    /\ e.attempt = claim[t].attempt
    /\ e.kind = "run_set" => RunSetProves(e, t, claim[t].attempt)

\* Admissible, for an action just bound.
Admissible(s, act) ==
    \/ act.kind = "take" /\ Ready(act.task, claim)
    \/ /\ act.kind # "take"
       /\ CompletionGuard(s, act.task, claim)
       /\ \A e \in act.cited : EvidenceAdmissible(act.task, e)

LegalFrontier(s, t) == {act \in CanonicalActions(t) : Admissible(s, act)}

-----------------------------------------------------------------------------
(* worker-run *)

\* DoWorkerRun, first transaction.  An id that is not in the frontier any more
\* is refused, after the repair of leases (RepairAndRefuse).
Select(s, t) ==
    /\ session[s] = Idle
    /\ chosen[s] = NoAction
    /\ expired = {}
    /\ \E act \in LegalFrontier(s, t) : chosen' = [chosen EXCEPT ![s] = act]
    /\ UNCHANGED vars

Forget(s) == chosen' = [chosen EXCEPT ![s] = NoAction]

\* The selected command starts, if it still can, on whatever it finds.
Execute(s) ==
    LET t == chosen[s].task IN
    \/ /\ chosen[s].kind = "take"
       /\ \E a \in Attempt : Take(s, t, a)
       /\ Forget(s)
    \/ /\ chosen[s].kind = "run_acceptance"
       /\ BeginRunAcceptance(s, t)
       /\ Forget(s)
    \/ /\ chosen[s].kind \in Completing
       /\ BeginCitingDone(s, t)
       /\ UNCHANGED chosen

\* `done` with the evidence of the action and nothing else.
Finish(s, sha) ==
    /\ session[s] # Idle
    /\ chosen[s].cited \subseteq evidence
    /\ CiteAndComplete(s, chosen[s].cited, FALSE, sha)
    /\ Forget(s)

\* Whether the first transaction of the command goes through.
Startable(s) ==
    LET t == chosen[s].task IN
    IF chosen[s].kind = "take" THEN Ready(t, RepairedClaims)
    ELSE /\ CompletionGuard(s, t, claim)
         /\ s \notin Explicit => t \notin expired
         /\ chosen[s].kind = "run_acceptance" => acceptance[t] # {}

\* What the command refuses: its start, after `take` repaired the leases, or
\* the last transaction of `done`, or the arguments before it.
Fail(s) ==
    /\ \/ /\ session[s] = Idle
          /\ ~Startable(s)
          /\ IF chosen[s].kind = "take" /\ expired # {} THEN RepairAndRefuse
             ELSE UNCHANGED vars
       \/ RefuseCitation(s)
    /\ Forget(s)

WorkerRun(s) ==
    \/ \E t \in Task : Select(s, t)
    \/ /\ chosen[s] # NoAction
       /\ Execute(s) \/ (\E sha \in BOOLEAN : Finish(s, sha)) \/ Fail(s)

\* A process that is not at it does something else.
Otherwise(s) ==
    /\ chosen[s] = NoAction
    /\ Command(s) \/ Continue(s)
    /\ UNCHANGED chosen

Elsewhere ==
    /\ \/ \E s \in Session : Renew(s)
       \/ \E t \in Task, acc \in SUBSET Check :
             AddTask(t, acc) \/ ReviseAcceptance(t, acc)
       \/ \E t \in Task : Hold(t) \/ ClearHold(t) \/ Expire(t)
       \/ RepairAndRefuse
    /\ UNCHANGED chosen

WorkerNext ==
    \/ \E s \in Session : WorkerRun(s) \/ Otherwise(s) \/ (Kill(s) /\ Forget(s))
    \/ Elsewhere

WorkerSpec == WorkerInit /\ [][WorkerNext]_workerVars

-----------------------------------------------------------------------------
(* Properties *)

\* The frontier and the reducer agree on completions, although one asks of the
\* evidence of each kind what the other asks of the list of all cited evidence:
\* a recorded run set, boundary or note that alone completes the task is
\* offered, and what is offered would be accepted now, unless a run strayed from
\* the boundary of the task.  That, like a missing obligation, the frontier does
\* not ask, and only the execution refuses it.
FrontierMatchesReducer ==
    \A s \in Session, t \in Task : \A e \in evidence :
        LET offered == \E k \in Completing :
                          Bound(k, t, {e}) \in LegalFrontier(s, t)
            accepted == /\ CompletionGuard(s, t, claim)
                        /\ ReducerAccepts(t, claim[t].attempt, {e})
        IN  /\ accepted => offered
            /\ offered => \/ accepted
                          \/ /\ CompletionGuard(s, t, claim)
                             /\ \E r \in e.runs : "declared" \in r.strays

\* `worker-run` completes a task only by the attempt its action was bound to,
\* and on the evidence it was bound to, although the task may be released,
\* taken again and revised between the choice and each of its transactions.
BoundCompletion ==
    [][\A s \in Session, t \in Task :
          /\ chosen[s].kind \in Completing
          /\ session[s] # Idle /\ session'[s] = Idle
          /\ status[t] = "open" /\ status'[t] = "completed"
          => /\ chosen[s].task = t
             /\ completion'[t].attempt = chosen[s].attempt
             /\ chosen[s].cited \subseteq completion'[t].evidence]_workerVars
=============================================================================
