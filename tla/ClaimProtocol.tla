--------------------------- MODULE ClaimProtocol ---------------------------
(***************************************************************************)
(* The claim protocol of cst: how concurrent CLI processes take, keep,     *)
(* lose and finish the tasks of one ledger.                                *)
(*                                                                         *)
(* Every command is one or more transactions.  A transaction (WithStore,   *)
(* tx.go) holds the file lock from replay to append, so it is one atomic   *)
(* action here.  What is not atomic is what the protocol is about: `done`, *)
(* `run --acceptance` and `run` release the lock while their shell         *)
(* commands execute and come back with a guard captured before.            *)
(*                                                                         *)
(* A lease id and an attempt id are minted together by claim_taken and     *)
(* nowhere else, so one value stands for both.  Wall-clock time is reduced *)
(* to the one thing the code asks of it: whether a claim's lease has       *)
(* expired.  The tree (parents, prerequisites) is fixed by constants, and  *)
(* tasks are added to it in any order the code allows.                     *)
(***************************************************************************)
EXTENDS Naturals, FiniteSets

CONSTANTS
    Task,         \* task ids
    Session,      \* concurrent CLI processes
    Actor,        \* actor names
    Attempt,      \* attempt (and lease) ids
    Check,        \* verify checks: a name with its command
    ActorOf,      \* the actor each session runs as; sessions may share one
    Explicit,     \* sessions whose actor is explicit, not user@hostname
    Killable,     \* sessions that may die in the middle of a command
    Parent,       \* the parent task of a task, or NoTask (a goal)
    After,        \* the prerequisites of a task
    Obliged,      \* tasks with success obligations, which the leaves below
                  \* them may or may not claim: the reducer answers either way
    Bounded,      \* tasks whose checks may find paths changed outside of a
                  \* boundary, or no git that tells which have changed
    NoTask, NoActor, NoAttempt,
    MaxRuns,      \* bound: no shell command starts beyond this many facts
    MaxEvidence   \* bound: no evidence is recorded beyond this many records

ASSUME ConstantsTyped ==
    /\ ActorOf \in [Session -> Actor]
    /\ Explicit \subseteq Session
    /\ Killable \subseteq Session
    /\ Parent \in [Task -> Task \cup {NoTask}]
    /\ After \in [Task -> SUBSET Task]
    /\ Obliged \subseteq Task
    /\ Bounded \subseteq Task
    /\ NoTask \notin Task
    /\ NoActor \notin Actor
    /\ NoAttempt \notin Attempt
    /\ MaxRuns \in Nat /\ MaxEvidence \in Nat

VARIABLES
    status,      \* lifecycle of each task
    held,        \* tasks on hold
    claim,       \* the claim on each task
    expired,     \* claimed tasks whose lease expiry has passed
    attempt,     \* every attempt ever minted
    acceptance,  \* the checks of each task; none means review acceptance
    runs,        \* script_run facts in the log
    evidence,    \* evidence_recorded facts in the log
    completion,  \* what each completed task was completed with
    session      \* the command each process is executing

ledger == <<status, held, claim, expired, attempt, acceptance, runs, evidence,
            completion>>
vars == <<ledger, session>>

-----------------------------------------------------------------------------
(* Types *)

SomeAttempt == Attempt \cup {NoAttempt}

Claim == [actor : Actor, attempt : Attempt]
NoClaim == [actor |-> NoActor, attempt |-> NoAttempt]

Closed == {"claim_released", "claim_abandoned", "task_completed",
           "node_canceled"}
AttemptRecord == [task : Task \cup {NoTask}, actor : Actor \cup {NoActor},
                  state : {"unborn", "open"} \cup Closed]
Unborn == [task |-> NoTask, actor |-> NoActor, state |-> "unborn"]

\* What limits the paths a completion may have changed: the boundary declared
\* on the task, and the one that boundary records state (one for each task).
Limit == {"declared", "cited"}

\* `strays`: the limits that the paths changed when the command ended do not
\* keep to.  `under` is a history field: the attempt it executed under.
Run == [task : Task, attempt : SomeAttempt, under : SomeAttempt,
        trigger : {"probe", "acceptance"}, check : Check, ok : BOOLEAN,
        strays : SUBSET Limit]

\* boundary: a boundary record; note: any other kind that may complete a
\* review; commit: auxiliary; run_set: acceptance_run_set, whose digest and
\* runs are acc and runs.  `by` is a history field: whether cst built the
\* record or a user supplied its data.
Evidence == [task : Task, attempt : SomeAttempt,
             kind : {"note", "boundary", "commit", "run_set"},
             by : {"cst", "user"}, acc : SUBSET Check, runs : SUBSET Run]

\* reviewCompletionEvidenceKind.
Reviewing == {"note", "boundary"}

Completion == [actor : Actor \cup {NoActor}, attempt : SomeAttempt,
               evidence : SUBSET Evidence]
NoCompletion == [actor |-> NoActor, attempt |-> NoAttempt, evidence |-> {}]

\* guarded: `done` has its guard and will cite evidence.  shell: commands are
\* executing.  commit: all passed.  salvage: only the facts are to be recorded.
Phase == {"idle", "guarded", "shell", "commit", "salvage"}
Work == [phase : Phase, cmd : {"none", "probe", "run", "done"},
         task : Task \cup {NoTask}, attempt : SomeAttempt,
         acc : SUBSET Check, passed : SUBSET Check,
         strays : SUBSET (Limit \X Check)]
Idle == [phase |-> "idle", cmd |-> "none", task |-> NoTask,
         attempt |-> NoAttempt, acc |-> {}, passed |-> {}, strays |-> {}]

TypeOK ==
    /\ status \in [Task -> {"absent", "open", "completed", "canceled"}]
    /\ held \in SUBSET Task
    /\ claim \in [Task -> Claim \cup {NoClaim}]
    /\ expired \in SUBSET Task
    /\ attempt \in [Attempt -> AttemptRecord]
    /\ acceptance \in [Task -> SUBSET Check]
    /\ runs \in SUBSET Run
    /\ evidence \in SUBSET Evidence
    /\ completion \in [Task -> Completion]
    /\ session \in [Session -> Work]

Init ==
    /\ status = [t \in Task |-> "absent"]
    /\ held = {}
    /\ claim = [t \in Task |-> NoClaim]
    /\ expired = {}
    /\ attempt = [a \in Attempt |-> Unborn]
    /\ acceptance = [t \in Task |-> {}]
    /\ runs = {}
    /\ evidence = {}
    /\ completion = [t \in Task |-> NoCompletion]
    /\ session = [s \in Session |-> Idle]

-----------------------------------------------------------------------------
(* What a transaction reads.  Every operator takes the claims as the        *)
(* transaction sees them: repaired, or as they stand in the log.            *)

Terminal(t) == status[t] \in {"completed", "canceled"}
Open(t) == status[t] = "open"
OpenChild(t) == \E c \in Task : Parent[c] = t /\ Open(c)
PrereqsDone(t) == \A p \in After[t] : status[p] = "completed"

\* Mutant: the abandonment forgets the attempt and leaves the owner's name.
RepairedClaimsKeepingOwner ==
    [t \in Task |-> IF t \in expired
                    THEN [claim[t] EXCEPT !.attempt = NoAttempt] ELSE claim[t]]

\* LazyAbandonExpired: a transaction that repairs leases first appends
\* claim_abandoned for every expired claim, whatever it does next.
RepairedClaims == [t \in Task |-> IF t \in expired THEN NoClaim ELSE claim[t]]
RepairedAttempts ==
    [a \in Attempt |->
        IF \E t \in expired : claim[t].attempt = a
        THEN [attempt[a] EXCEPT !.state = "claim_abandoned"]
        ELSE attempt[a]]

Repair ==
    /\ claim' = RepairedClaims
    /\ attempt' = RepairedAttempts
    /\ expired' = {}

\* Mutant: the event that ends a claim does not close its attempt.
CloseNothing(attempts, a, reason) == attempts

Close(attempts, a, reason) ==
    IF a \in Attempt THEN [attempts EXCEPT ![a].state = reason] ELSE attempts

\* IsReadyTask, over the claims the transaction sees.
Ready(t, claims) ==
    /\ Open(t)
    /\ claims[t] = NoClaim
    /\ t \notin held
    /\ PrereqsDone(t)
    /\ ~OpenChild(t)

Owns(s, t, claims) == claims[t] # NoClaim /\ claims[t].actor = ActorOf[s]

\* Mutant: whose claim it is is not asked.
OwnAttemptOfAnybody(s, t, claims) == claims[t].attempt

\* attemptIDForActorClaim: the attempt a fact recorded now is filed under.
OwnAttempt(s, t, claims) ==
    IF Owns(s, t, claims) THEN claims[t].attempt ELSE NoAttempt

\* Mutant: the guard does not ask for open children.
CompletionGuardOfLeaf(s, t, claims) ==
    /\ Open(t)
    /\ Owns(s, t, claims)
    /\ PrereqsDone(t)

\* completionGuardFromSnapshot.
CompletionGuard(s, t, claims) ==
    /\ Open(t)
    /\ Owns(s, t, claims)
    /\ ~OpenChild(t)
    /\ PrereqsDone(t)

\* Mutant: the attempt is not compared.
GuardHoldsForActor(s, claims) ==
    LET w == session[s] IN
    /\ CompletionGuard(s, w.task, claims)
    /\ acceptance[w.task] = w.acc

\* sameCompletionGuard, and the comparison CompleteTask makes.
GuardStillHolds(s, claims) ==
    LET w == session[s] IN
    /\ CompletionGuard(s, w.task, claims)
    /\ claims[w.task].attempt = w.attempt
    /\ acceptance[w.task] = w.acc

\* The facts of the commands a session has executed, filed under attempt a.
Facts(s, a) ==
    LET w == session[s] IN
    {[task |-> w.task, attempt |-> a, under |-> w.attempt,
      trigger |-> IF w.cmd = "probe" THEN "probe" ELSE "acceptance",
      check |-> c, ok |-> c \in w.passed,
      strays |-> {l \in Limit : <<l, c>> \in w.strays}] : c \in w.acc}

Record(t, a, kind) ==
    [task |-> t, attempt |-> a, kind |-> kind, by |-> "cst",
     acc |-> {}, runs |-> {}]

\* buildAcceptanceRunSetData over the runs recorded in the same transaction.
RunSet(s) ==
    LET w == session[s]
        a == OwnAttempt(s, w.task, RepairedClaims) IN
    [task |-> w.task, attempt |-> a, kind |-> "run_set", by |-> "cst",
     acc |-> w.acc, runs |-> Facts(s, a)]

\* Mutant: the attempt of the cited runs is not compared.
RunSetProvesForTask(e, t, a) ==
    /\ e.acc = acceptance[t]
    /\ {r.check : r \in e.runs} = acceptance[t]
    /\ \A r \in e.runs : r.task = t /\ r.trigger = "acceptance" /\ r.ok

\* validateAcceptanceRunSetCompletion: the digest is that of the acceptance in
\* force, and each check has a passing acceptance run of attempt a.
RunSetProves(e, t, a) ==
    /\ e.acc = acceptance[t]
    /\ {r.check : r \in e.runs} = acceptance[t]
    /\ \A r \in e.runs : /\ r.task = t
                         /\ r.attempt = a
                         /\ r.trigger = "acceptance"
                         /\ r.ok

\* validateNodeBoundaryCompletion and validateCompletionBoundaryEvidence: the
\* runs of the run set e kept to the boundary of the task and, if a boundary
\* record is cited with it, to that one.
WithinBoundary(e, cited) ==
    \A r \in e.runs :
        /\ "declared" \notin r.strays
        /\ (\E f \in cited : f.kind = "boundary") => "cited" \notin r.strays

\* Mutant: evidence of an earlier attempt is accepted.
ReducerAcceptsAnyAttempt(t, a, cited) ==
    /\ \A e \in cited : e.task = t
    /\ IF acceptance[t] = {}
       THEN /\ \E e \in cited : e.kind \in Reviewing
            /\ \A e \in cited : e.kind \in Reviewing \cup {"commit"}
       ELSE \E e \in cited :
                /\ e.kind = "run_set"
                /\ \A f \in cited : f.kind = "run_set" => f = e
                /\ RunSetProves(e, t, a)
                /\ WithinBoundary(e, cited)
    /\ t \notin held

\* task_completed and validateCompletionAcceptance: what the reducer asks
\* besides the guard and the obligations.
ReducerAccepts(t, a, cited) ==
    /\ \A e \in cited : e.task = t /\ e.attempt = a
    /\ IF acceptance[t] = {}
       THEN /\ \E e \in cited : e.kind \in Reviewing
            /\ \A e \in cited : e.kind \in Reviewing \cup {"commit"}
       ELSE \E e \in cited :
                /\ e.kind = "run_set"
                /\ \A f \in cited : f.kind = "run_set" => f = e
                /\ RunSetProves(e, t, a)
                /\ WithinBoundary(e, cited)
    /\ t \notin held

-----------------------------------------------------------------------------
(* Commands of one transaction *)

\* DoAdd, for a task: no lease repair.
AddTask(t, acc) ==
    /\ status[t] = "absent"
    /\ Parent[t] # NoTask => Open(Parent[t])
    /\ \A p \in After[t] : status[p] # "absent"
    /\ status' = [status EXCEPT ![t] = "open"]
    /\ acceptance' = [acceptance EXCEPT ![t] = acc]
    /\ UNCHANGED <<held, claim, expired, attempt, runs, evidence, completion,
                   session>>

\* DoTake: an expired claim of anybody is abandoned and taken over at once.
Take(s, t, a) ==
    /\ session[s] = Idle
    /\ Ready(t, RepairedClaims)
    /\ attempt[a] = Unborn
    /\ claim' = [RepairedClaims EXCEPT
                    ![t] = [actor |-> ActorOf[s], attempt |-> a]]
    /\ attempt' = [RepairedAttempts EXCEPT
                    ![a] = [task |-> t, actor |-> ActorOf[s], state |-> "open"]]
    /\ expired' = {}
    /\ UNCHANGED <<status, held, acceptance, runs, evidence, completion, session>>

\* Mutant: release does not repair leases first.
ReleaseUnrepaired(s, t) ==
    /\ session[s] = Idle
    /\ Owns(s, t, claim)
    /\ claim' = [claim EXCEPT ![t] = NoClaim]
    /\ attempt' = Close(attempt, claim[t].attempt, "claim_released")
    /\ expired' = expired \ {t}
    /\ UNCHANGED <<status, held, acceptance, runs, evidence, completion, session>>

\* DoRelease: only the owner's name is asked for, not the taking process.
Release(s, t) ==
    /\ session[s] = Idle
    /\ Owns(s, t, RepairedClaims)
    /\ claim' = [RepairedClaims EXCEPT ![t] = NoClaim]
    /\ attempt' = Close(RepairedAttempts, RepairedClaims[t].attempt,
                        "claim_released")
    /\ expired' = {}
    /\ UNCHANGED <<status, held, acceptance, runs, evidence, completion, session>>

\* DoHold and DoHold --clear: any actor, on an unclaimed open task.
Hold(t) ==
    /\ Open(t)
    /\ RepairedClaims[t] = NoClaim
    /\ held' = held \cup {t}
    /\ Repair
    /\ UNCHANGED <<status, acceptance, runs, evidence, completion, session>>

ClearHold(t) ==
    /\ Open(t)
    /\ t \in held
    /\ held' = held \ {t}
    /\ Repair
    /\ UNCHANGED <<status, acceptance, runs, evidence, completion, session>>

\* DoRevise with a new acceptance: refused while anybody has a claim.
ReviseAcceptance(t, acc) ==
    /\ Open(t)
    /\ RepairedClaims[t] = NoClaim
    /\ acceptance' = [acceptance EXCEPT ![t] = acc]
    /\ Repair
    /\ UNCHANGED <<status, held, runs, evidence, completion, session>>

\* Mutant: cancel does not ask whether the task is open.
CancelClosedToo(s, t) ==
    /\ session[s] = Idle
    /\ status[t] # "absent"
    /\ ~OpenChild(t)
    /\ RepairedClaims[t] # NoClaim => Owns(s, t, RepairedClaims)
    /\ status' = [status EXCEPT ![t] = "canceled"]
    /\ held' = held \ {t}
    /\ claim' = [RepairedClaims EXCEPT ![t] = NoClaim]
    /\ attempt' = Close(RepairedAttempts, RepairedClaims[t].attempt,
                        "node_canceled")
    /\ expired' = {}
    /\ UNCHANGED <<acceptance, runs, evidence, completion, session>>

\* DoCancel: an unclaimed task by anybody, a claimed one by its owner.
Cancel(s, t) ==
    /\ session[s] = Idle
    /\ Open(t)
    /\ ~OpenChild(t)
    /\ RepairedClaims[t] # NoClaim => Owns(s, t, RepairedClaims)
    /\ status' = [status EXCEPT ![t] = "canceled"]
    /\ held' = held \ {t}
    /\ claim' = [RepairedClaims EXCEPT ![t] = NoClaim]
    /\ attempt' = Close(RepairedAttempts, RepairedClaims[t].attempt,
                        "node_canceled")
    /\ expired' = {}
    /\ UNCHANGED <<acceptance, runs, evidence, completion, session>>

\* DoEvidence: a note, boundary or commit, also on a closed task; or an
\* acceptance_run_set the user composed from recorded runs.
RecordEvidence(s, t, e) ==
    /\ session[s] = Idle
    /\ status[t] # "absent"
    /\ Cardinality(evidence) < MaxEvidence
    /\ e.attempt = OwnAttempt(s, t, RepairedClaims)
    /\ evidence' = evidence \cup {e}
    /\ Repair
    /\ UNCHANGED <<status, held, acceptance, runs, completion, session>>

RecordNote(s, t) ==
    \E kind \in Reviewing \cup {"commit"} :
        RecordEvidence(s, t, Record(t, OwnAttempt(s, t, RepairedClaims), kind))

RecordRunSet(s, t) ==
    \E acc \in (SUBSET Check) \ {{}}, rs \in (SUBSET runs) \ {{}} :
        RecordEvidence(s, t,
            [task |-> t, attempt |-> OwnAttempt(s, t, RepairedClaims),
             kind |-> "run_set", by |-> "user", acc |-> acc, runs |-> rs])

\* Mutant: the refusal takes the repair back.
RefuseWithoutRepair ==
    /\ expired # {}
    /\ UNCHANGED vars

\* Any command that repairs leases and then refuses: the repair stays.
RepairAndRefuse ==
    /\ expired # {}
    /\ Repair
    /\ UNCHANGED <<status, held, acceptance, runs, evidence, completion, session>>

-----------------------------------------------------------------------------
(* Commands of several transactions *)

\* RenewExecutionClaim, the first step of `done` and `run --acceptance`: no
\* lease repair, so an explicit owner revives even an expired claim.
RenewExecutionClaim(s, t) ==
    /\ Open(t)
    /\ Owns(s, t, claim)
    /\ s \notin Explicit => t \notin expired
    /\ expired' = expired \ {t}

\* Bound on the facts recorded and about to be.
MayRun ==
    Cardinality(runs)
      + Cardinality({s \in Session : session[s].phase \notin {"idle", "guarded"}})
      < MaxRuns

Start(s, phase, cmd, t, a, acc) ==
    session' = [session EXCEPT
        ![s] = [phase |-> phase, cmd |-> cmd, task |-> t, attempt |-> a,
                acc |-> acc, passed |-> {}, strays |-> {}]]

\* DoRun, first transaction: a probe needs no claim; one of the session's own
\* is kept alive meanwhile.
BeginProbe(s, t, c) ==
    /\ session[s] = Idle
    /\ MayRun
    /\ Open(t)
    /\ Start(s, "shell", "probe", t, OwnAttempt(s, t, RepairedClaims), {c})
    /\ Repair
    /\ UNCHANGED <<status, held, acceptance, runs, evidence, completion>>

\* DoDone and runAcceptanceWithoutCompletion, first transaction: renew, then
\* capture the guard (the attempt and the acceptance).
BeginGuarded(s, t, cmd, phase) ==
    /\ session[s] = Idle
    /\ RenewExecutionClaim(s, t)
    /\ CompletionGuard(s, t, claim)
    /\ phase = "shell" => acceptance[t] # {} /\ MayRun
    /\ Start(s, phase, cmd, t, claim[t].attempt, acceptance[t])
    /\ UNCHANGED <<status, held, claim, attempt, acceptance, runs, evidence,
                   completion>>

BeginRunAcceptance(s, t) == BeginGuarded(s, t, "run", "shell")
BeginDone(s, t) == BeginGuarded(s, t, "done", "shell")
BeginCitingDone(s, t) == BeginGuarded(s, t, "done", "guarded")

\* Mutant: the renewal compares the owner's name only.
RenewByName(s) ==
    LET w == session[s] IN
    /\ w.phase = "shell"
    /\ w.attempt # NoAttempt
    /\ Owns(s, w.task, claim)
    /\ expired' = expired \ {w.task}
    /\ UNCHANGED <<status, held, claim, attempt, acceptance, runs, evidence,
                   completion, session>>

\* renewClaimUnderLock, from the goroutine that ticks while a command runs: the
\* claim must still be the one captured.  Neither the lease's expiry nor
\* whether the actor is explicit is asked.
Renew(s) ==
    LET w == session[s] IN
    /\ w.phase = "shell"
    /\ w.attempt # NoAttempt
    /\ Owns(s, w.task, claim)
    /\ claim[w.task].attempt = w.attempt
    /\ expired' = expired \ {w.task}
    /\ UNCHANGED <<status, held, claim, attempt, acceptance, runs, evidence,
                   completion, session>>

\* Every check has run, with no lock held, and git status was captured after
\* each (nobody asks for that of a probe).  A failed check or an artifact that
\* could not be written leads to recordScriptRunsOnly.
FinishShell(s, passed, strays, artifactError) ==
    LET w == session[s] IN
    /\ w.phase = "shell"
    /\ passed \subseteq w.acc
    /\ strays \subseteq IF w.task \in Bounded /\ w.cmd # "probe"
                        THEN Limit \X w.acc ELSE {}
    /\ session' = [session EXCEPT
          ![s].passed = passed,
          ![s].strays = strays,
          ![s].phase = IF w.cmd # "probe" /\ passed = w.acc /\ ~artifactError
                       THEN "commit" ELSE "salvage"]
    /\ UNCHANGED ledger

\* Mutant: the facts are recorded only under a live claim.
RecordScriptRunsOfOwner(s) ==
    LET w == session[s] IN
    /\ w.phase = "salvage"
    /\ Owns(s, w.task, claim)
    /\ runs' = runs \cup Facts(s, claim[w.task].attempt)
    /\ session' = [session EXCEPT ![s] = Idle]
    /\ UNCHANGED <<status, held, claim, expired, attempt, acceptance, evidence,
                   completion>>

\* recordScriptRunsOnly, and DoRun's second transaction: no lease repair, and
\* the facts are filed under whatever claim the actor has by now.
RecordScriptRunsOnly(s) ==
    LET w == session[s] IN
    /\ w.phase = "salvage"
    /\ runs' = runs \cup Facts(s, OwnAttempt(s, w.task, claim))
    /\ session' = [session EXCEPT ![s] = Idle]
    /\ UNCHANGED <<status, held, claim, expired, attempt, acceptance, evidence,
                   completion>>

\* runAcceptanceWithoutCompletion, last transaction.
CommitRunSet(s) ==
    LET w == session[s] IN
    /\ w.phase = "commit" /\ w.cmd = "run"
    /\ GuardStillHolds(s, RepairedClaims)
    /\ runs' = runs \cup RunSet(s).runs
    /\ evidence' = evidence \cup {RunSet(s)}
    /\ session' = [session EXCEPT ![s] = Idle]
    /\ Repair
    /\ UNCHANGED <<status, held, acceptance, completion>>

\* CompleteTask and the reducer's task_completed, in a transaction that has
\* repaired leases.
Complete(s, cited) ==
    LET w == session[s]
        a == OwnAttempt(s, w.task, RepairedClaims) IN
    /\ GuardStillHolds(s, RepairedClaims)
    /\ ReducerAccepts(w.task, a, cited)
    /\ status' = [status EXCEPT ![w.task] = "completed"]
    /\ held' = held \ {w.task}
    /\ claim' = [RepairedClaims EXCEPT ![w.task] = NoClaim]
    /\ attempt' = Close(RepairedAttempts, a, "task_completed")
    /\ expired' = {}
    /\ completion' = [completion EXCEPT
          ![w.task] = [actor |-> ActorOf[s], attempt |-> a, evidence |-> cited]]
    /\ session' = [session EXCEPT ![s] = Idle]
    /\ UNCHANGED acceptance

CommitRecords(s, sha) ==
    LET t == session[s].task IN
    IF sha THEN {Record(t, OwnAttempt(s, t, RepairedClaims), "commit")} ELSE {}

\* DoDone with verify acceptance, last transaction: runs, run set, commit
\* evidence and completion are appended together.
CommitDone(s, sha) ==
    LET w == session[s]
        new == {RunSet(s)} \cup CommitRecords(s, sha) IN
    /\ w.phase = "commit" /\ w.cmd = "done"
    /\ runs' = runs \cup RunSet(s).runs
    /\ evidence' = evidence \cup new
    /\ Complete(s, new)

\* Mutant: a refused commit drops the facts.
RefuseCommitAndReturn(s, drifted) ==
    /\ session[s].phase = "commit"
    /\ ~drifted => ~GuardStillHolds(s, RepairedClaims)
    /\ session' = [session EXCEPT ![s] = Idle]
    /\ Repair
    /\ UNCHANGED <<status, held, acceptance, runs, evidence, completion>>

\* The guard no longer holds, or the execution context drifted between two
\* checks or since: a handler error, after which the facts are saved alone.
RefuseCommit(s, drifted) ==
    /\ session[s].phase = "commit"
    /\ ~drifted => ~GuardStillHolds(s, RepairedClaims)
    /\ session' = [session EXCEPT ![s].phase = "salvage"]
    /\ Repair
    /\ UNCHANGED <<status, held, acceptance, runs, evidence, completion>>

\* The guard holds and the reducer rejects task_completed, for a boundary or a
\* missing obligation: not a handler error, and the facts are not saved.
RejectCommit(s) ==
    LET w == session[s] IN
    /\ w.phase = "commit" /\ w.cmd = "done"
    /\ GuardStillHolds(s, RepairedClaims)
    /\ ReducerAccepts(w.task, w.attempt, {RunSet(s)}) => w.task \in Obliged
    /\ session' = [session EXCEPT ![s] = Idle]
    /\ Repair
    /\ UNCHANGED <<status, held, acceptance, runs, evidence, completion>>

\* DoDone with --from-acceptance, or on a review: cite recorded evidence, and
\* for a review perhaps a note written in the same transaction.
CiteAndComplete(s, cited, note, sha) ==
    LET w == session[s]
        new == CommitRecords(s, sha)
                 \cup IF note
                      THEN {Record(w.task,
                                   OwnAttempt(s, w.task, RepairedClaims), "note")}
                      ELSE {} IN
    /\ w.phase = "guarded"
    /\ note => w.acc = {}
    /\ evidence' = evidence \cup new
    /\ Complete(s, cited \cup new)
    /\ UNCHANGED runs

\* The same transaction when anything in it refuses: only the repair stays.
\* Before it, arguments that do not fit the acceptance are refused.
RefuseCitation(s) ==
    /\ session[s].phase = "guarded"
    /\ session' = [session EXCEPT ![s] = Idle]
    /\ Repair \/ UNCHANGED <<claim, attempt, expired>>
    /\ UNCHANGED <<status, held, acceptance, runs, evidence, completion>>

-----------------------------------------------------------------------------
(* The environment *)

\* The wall clock passes a lease's expiry.
Expire(t) ==
    /\ claim[t] # NoClaim
    /\ expired' = expired \cup {t}
    /\ UNCHANGED <<status, held, claim, attempt, acceptance, runs, evidence,
                   completion, session>>

\* The process is killed; what it had not appended is gone.
Kill(s) ==
    /\ s \in Killable
    /\ session[s] # Idle
    /\ session' = [session EXCEPT ![s] = Idle]
    /\ UNCHANGED ledger

Command(s) ==
    \/ \E t \in Task, a \in Attempt : Take(s, t, a)
    \/ \E t \in Task : \/ Release(s, t)
                       \/ Cancel(s, t)
                       \/ RecordNote(s, t)
                       \/ RecordRunSet(s, t)
                       \/ BeginRunAcceptance(s, t)
                       \/ BeginDone(s, t)
                       \/ BeginCitingDone(s, t)
    \/ \E t \in Task, c \in Check : BeginProbe(s, t, c)

Continue(s) ==
    \/ \E passed \in SUBSET Check, strays \in SUBSET (Limit \X Check),
          artifactError \in BOOLEAN :
          FinishShell(s, passed, strays, artifactError)
    \/ RecordScriptRunsOnly(s)
    \/ CommitRunSet(s)
    \/ \E sha \in BOOLEAN : CommitDone(s, sha)
    \/ \E drifted \in BOOLEAN : RefuseCommit(s, drifted)
    \/ RejectCommit(s)
    \/ \E cited \in SUBSET evidence, note, sha \in BOOLEAN :
          CiteAndComplete(s, cited, note, sha)
    \/ RefuseCitation(s)

Next ==
    \/ \E s \in Session : Command(s) \/ Continue(s) \/ Renew(s) \/ Kill(s)
    \/ \E t \in Task, acc \in SUBSET Check :
          AddTask(t, acc) \/ ReviseAcceptance(t, acc)
    \/ \E t \in Task : Hold(t) \/ ClearHold(t) \/ Expire(t)
    \/ RepairAndRefuse

Spec == Init /\ [][Next]_vars

\* Time passes, a process that is not killed gets on with its command (the
\* runner has a timeout), and somebody keeps using commands that repair leases.
FairSpec ==
    /\ Spec
    /\ \A s \in Session : WF_vars(Continue(s))
    /\ \A t \in Task : WF_vars(Expire(t) /\ t \notin expired)
    /\ WF_vars(RepairAndRefuse)

-----------------------------------------------------------------------------
(* Safety *)

\* The claims and the attempts, two projections of the same events, agree: a
\* claimed task is open and not held, its attempt is open and its own, and an
\* open attempt is the claim of its task.  So a task has at most one open
\* attempt, and claim_abandoned and claim_renewed, which are appended without
\* going through the reducer first, never make the log unreplayable.
ClaimAttemptAgreement ==
    /\ \A t \in Task : claim[t] # NoClaim =>
          /\ Open(t)
          /\ t \notin held
          /\ attempt[claim[t].attempt] =
                [task |-> t, actor |-> claim[t].actor, state |-> "open"]
    /\ \A a \in Attempt : attempt[a].state = "open" =>
          /\ attempt[a].task \in Task
          /\ claim[attempt[a].task].attempt = a
    /\ \A t \in expired : claim[t] # NoClaim

\* A task is completed only by the attempt that owned it, on evidence that is
\* in the log, belongs to that attempt, and proves the acceptance in force:
\* every check passed as an acceptance run of the attempt that kept to the
\* boundaries declared and cited, or a review note.
CompletionJustified ==
    \A t \in Task : status[t] = "completed" =>
        LET c == completion[t] IN
        /\ c.attempt \in Attempt
        /\ attempt[c.attempt] =
              [task |-> t, actor |-> c.actor, state |-> "task_completed"]
        /\ \A e \in c.evidence :
              e \in evidence /\ e.task = t /\ e.attempt = c.attempt
        /\ IF acceptance[t] = {}
           THEN \E e \in c.evidence : e.kind \in Reviewing
           ELSE \E e \in c.evidence :
                   /\ e.kind = "run_set"
                   /\ \A chk \in acceptance[t] : \E r \in runs :
                         /\ r \in e.runs
                         /\ r.check = chk /\ r.ok /\ r.trigger = "acceptance"
                         /\ r.task = t /\ r.attempt = c.attempt
                         /\ "declared" \notin r.strays
                         /\ (\E f \in c.evidence : f.kind = "boundary")
                               => "cited" \notin r.strays

\* A run set that cst built stands for commands that passed while its own
\* attempt held the task, whatever was released, retaken or revised meanwhile.
RunSetsWitnessed ==
    \A e \in evidence : e.kind = "run_set" /\ e.by = "cst" =>
        /\ e.attempt \in Attempt
        /\ {r.check : r \in e.runs} = e.acc
        /\ \A r \in e.runs : /\ r \in runs
                             /\ r.ok
                             /\ r.attempt = e.attempt
                             /\ r.under = e.attempt

\* Facts and evidence are filed under attempts of the task they are about.  A
\* fact may be filed under another attempt than the one its command executed
\* under, if the claim was lost and taken again meanwhile, but never under one
\* of another actor.
FactsStayWithActor ==
    /\ \A r \in runs :
          /\ \A a \in {r.attempt, r.under} \ {NoAttempt} :
                attempt[a].task = r.task
          /\ NoAttempt \notin {r.attempt, r.under} =>
                attempt[r.attempt].actor = attempt[r.under].actor
    /\ \A e \in evidence :
          e.attempt # NoAttempt => attempt[e.attempt].task = e.task

\* A closed task has no open child, and what a completed task waited for is
\* completed: neither a later add nor a racing cancel breaks it.
ClosedTasksSettled ==
    \A t \in Task :
        /\ Terminal(t) => ~OpenChild(t)
        /\ status[t] = "completed" => PrereqsDone(t)

-----------------------------------------------------------------------------
(* Action properties *)

\* A task that is completed or canceled stays as it is: no late transaction of
\* a command that started earlier closes it again or changes its evidence.
TerminalIsFinal ==
    [][\A t \in Task : Terminal(t) =>
          /\ status'[t] = status[t]
          /\ completion'[t] = completion[t]
          /\ acceptance'[t] = acceptance[t]
          /\ claim'[t] = NoClaim]_vars

\* An attempt ends as claim_abandoned exactly when its lease had expired: an
\* expired claim is never released, canceled or completed by its owner, and a
\* live one is never taken away.
LeasesRespected ==
    [][\A a \in Attempt :
          attempt[a].state = "open" /\ attempt'[a].state # "open" =>
              (attempt'[a].state = "claim_abandoned"
                  <=> attempt[a].task \in expired)]_vars

\* A lapsed lease gets time back only through a command that was started under
\* the very attempt that holds it: the renewal of a command that outlived its
\* attempt does not keep alive the one that replaced it, although the owner's
\* name is the same.
LeasesRevivedByHolder ==
    [][\A t \in expired \ expired' : claim'[t] = claim[t] =>
          \E s \in Session :
             /\ session'[s].phase # "idle"
             /\ session'[s].task = t
             /\ session'[s].attempt = claim[t].attempt
             /\ ActorOf[s] = claim[t].actor]_vars

\* The command that completes a task completes the attempt and the acceptance
\* its first transaction captured, not ones that replaced them since.
GuardedCompletion ==
    [][\A s \in Session, t \in Task :
          /\ session[s] # Idle /\ session'[s] = Idle
          /\ status[t] = "open" /\ status'[t] = "completed"
          => /\ session[s].task = t
             /\ session[s].acc = acceptance[t]
             /\ completion'[t].attempt = session[s].attempt
             /\ completion'[t].actor = ActorOf[s]]_vars

\* A command that ran checks and was not killed leaves their facts in the log,
\* whether or not it could complete the task.  It is so for tasks without
\* success obligations and boundaries; see RejectCommit for the others.
ExecutedRunsRecorded ==
    [][\A s \in Session :
          session[s].phase \in {"commit", "salvage"} /\ session'[s] = Idle =>
              \E a \in SomeAttempt : Facts(s, a) \subseteq runs']_vars

\* A fact produced by a command that one attempt executed is not filed under
\* another.
FactsFiledWhereExecuted ==
    \A r \in runs : NoAttempt \notin {r.attempt, r.under} => r.under = r.attempt

-----------------------------------------------------------------------------
(* Liveness *)

\* No command hangs between its transactions.
CommandsReturn == \A s \in Session : session[s] # Idle ~> session[s] = Idle

\* When every process of an actor is gone for good, its claims are given up.
Quiet(x) == \A s \in Session : ActorOf[s] = x => session[s] = Idle

OrphansReclaimed ==
    \A a \in Attempt, x \in Actor :
        <>[]Quiet(x) =>
            (attempt[a].state = "open" /\ attempt[a].actor = x
                ~> attempt[a].state # "open")

-----------------------------------------------------------------------------
(* Refinement *)

Contract == INSTANCE TaskContract WITH
    None <- NoAttempt,
    state <- status,
    owner <- [t \in Task |-> claim[t].attempt],
    lapsed <- expired,
    spent <- {a \in Attempt : attempt[a].state # "unborn"}

\* The commands, with all that happens between their transactions, keep what
\* TaskContract promises of the tasks.
KeepsContract == Contract!Spec
=============================================================================
