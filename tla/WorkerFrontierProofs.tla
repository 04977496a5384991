------------------------ MODULE WorkerFrontierProofs ------------------------
(***************************************************************************)
(* Proofs about the worker frontier, for any tasks, processes and          *)
(* attempts.  Every step of worker-run is a step of the claim protocol, so *)
(* what is proved there holds here, and the frontier needs one invariant   *)
(* of its own: the evidence that a selected action cites is of the task    *)
(* and of the attempt the action is bound to.                              *)
(***************************************************************************)
EXTENDS WorkerFrontier, ClaimProtocolProofs

WellBound(act) ==
    act # NoAction =>
        /\ act.task \in Task
        /\ act.kind \in Completing =>
              \E e : /\ act.cited = {e}
                     /\ e.task = act.task
                     /\ e.attempt = act.attempt

ChosenBound ==
    /\ chosen = [s \in Session |-> chosen[s]]
    /\ \A s \in Session : WellBound(chosen[s])

-----------------------------------------------------------------------------
(* The invariant *)

LEMMA FrontierBound ==
    ASSUME NEW s \in Session, NEW t \in Task, NEW act \in LegalFrontier(s, t)
    PROVE  WellBound(act)
<1>1. act \in CanonicalActions(t) /\ Admissible(s, act)
  BY DEF LegalFrontier
<1>2. CASE act = Bound("take", t, {}) \/ act = Bound("run_acceptance", t, {})
  BY <1>2 DEF WellBound, Bound, Completing
<1>3. ASSUME NEW e, NEW k \in Completing, act = Bound(k, t, {e})
      PROVE  WellBound(act)
  <2>1. /\ act.kind = k /\ act.task = t /\ act.attempt = claim[t].attempt
        /\ act.cited = {e}
    BY <1>3 DEF Bound
  <2>2. EvidenceAdmissible(t, e)
    BY <1>1, <2>1 DEF Admissible, Completing
  <2> QED  BY <2>1, <2>2 DEF EvidenceAdmissible, WellBound
<1> QED  BY <1>1, <1>2, <1>3 DEF CanonicalActions, Completing

LEMMA ForgetBound ==
    ASSUME ChosenBound, NEW s \in Session, Forget(s)
    PROVE  ChosenBound'
BY DEF ChosenBound, Forget, WellBound

LEMMA ChosenBoundStep ==
    ASSUME ChosenBound, [WorkerNext]_workerVars
    PROVE  ChosenBound'
<1>1. CASE UNCHANGED chosen
  BY <1>1 DEF ChosenBound, WellBound
<1>2. ASSUME NEW s \in Session, NEW t \in Task, Select(s, t)
      PROVE  ChosenBound'
  <2>1. PICK act \in LegalFrontier(s, t) : chosen' = [chosen EXCEPT ![s] = act]
    BY <1>2 DEF Select
  <2>2. WellBound(act)
    BY FrontierBound
  <2> QED  BY <2>1, <2>2 DEF ChosenBound, WellBound
<1>3. ASSUME NEW s \in Session, WorkerRun(s)
      PROVE  ChosenBound'
  <2>1. ASSUME Execute(s) PROVE Forget(s) \/ UNCHANGED chosen
    BY <2>1 DEF Execute
  <2>2. ASSUME NEW sha \in BOOLEAN, Finish(s, sha) PROVE Forget(s)
    BY <2>2 DEF Finish
  <2>3. ASSUME Fail(s) PROVE Forget(s)
    BY <2>3 DEF Fail
  <2> QED  BY <1>1, <1>2, <1>3, <2>1, <2>2, <2>3, ForgetBound DEF WorkerRun
<1>4. ASSUME NEW s \in Session, Otherwise(s) PROVE UNCHANGED chosen
  BY <1>4 DEF Otherwise
<1>5. ASSUME Elsewhere PROVE UNCHANGED chosen
  BY <1>5 DEF Elsewhere
<1>6. CASE UNCHANGED workerVars
  BY <1>1, <1>6 DEF workerVars
<1> QED  BY <1>1, <1>3, <1>4, <1>5, <1>6, ForgetBound DEF WorkerNext

LEMMA ChosenStaysBound == WorkerSpec => []ChosenBound
<1>1. WorkerInit => ChosenBound
  BY DEF WorkerInit, ChosenBound, WellBound, NoAction
<1> QED  BY <1>1, ChosenBoundStep, PTL DEF WorkerSpec

-----------------------------------------------------------------------------
(* Implementation of the claim protocol *)

LEMMA WorkerRunSteps ==
    ASSUME ChosenBound, NEW s \in Session, WorkerRun(s)
    PROVE  Command(s) \/ Continue(s) \/ RepairAndRefuse \/ UNCHANGED vars
<1>1. ASSUME chosen[s] # NoAction, Execute(s)
      PROVE  Command(s)
  <2>1. chosen[s].task \in Task
    BY <1>1 DEF ChosenBound, WellBound
  <2> QED  BY <1>1, <2>1 DEF Execute, Command
<1>2. ASSUME NEW sha \in BOOLEAN, Finish(s, sha)
      PROVE  Continue(s)
  <2>1. chosen[s].cited \in SUBSET evidence
    BY <1>2 DEF Finish
  <2>2. CiteAndComplete(s, chosen[s].cited, FALSE, sha)
    BY <1>2 DEF Finish
  <2> QED  BY <2>1, <2>2 DEF Continue
<1>3. ASSUME Fail(s)
      PROVE  Continue(s) \/ RepairAndRefuse \/ UNCHANGED vars
  BY <1>3 DEF Fail, Continue
<1> QED  BY <1>1, <1>2, <1>3 DEF WorkerRun, Select

LEMMA WorkerStep ==
    ASSUME ChosenBound, [WorkerNext]_workerVars
    PROVE  [Next]_vars
<1>1. ASSUME NEW s \in Session, WorkerRun(s)
      PROVE  Command(s) \/ Continue(s) \/ RepairAndRefuse \/ UNCHANGED vars
  BY <1>1, WorkerRunSteps
<1>2. ASSUME NEW s \in Session, Otherwise(s)
      PROVE  Command(s) \/ Continue(s)
  BY <1>2 DEF Otherwise
<1>3. CASE Elsewhere
  BY <1>3 DEF Elsewhere, Next
<1>4. CASE UNCHANGED workerVars
  BY <1>4 DEF workerVars
<1> QED  BY <1>1, <1>2, <1>3, <1>4 DEF WorkerNext, Next

\* Worker commands are built from those of the claim protocol, whose theorems
\* hold of them.
LEMMA WorkersAreClaimants == WorkerSpec => Spec
<1>1. WorkerInit => Init
  BY DEF WorkerInit
<1> QED  BY <1>1, ChosenStaysBound, WorkerStep, PTL
         DEF WorkerSpec, Spec

\* Hence what is invariant there is invariant here.
LEMMA WorkersAreTyped == WorkerSpec => [](Typed /\ ClaimAttemptAgreement)
BY WorkersAreClaimants, IInvInductive, PTL DEF IInv

-----------------------------------------------------------------------------
(* The properties of the frontier *)

\* A process moves no other process.
LEMMA OthersStay ==
    ASSUME session \in [Session -> Work],
           NEW r \in Session, NEW s \in Session, r # s,
           Command(r) \/ Continue(r) \/ Kill(r)
    PROVE  session'[s] = session[s]
<1>1. ASSUME session' = session \/ \E w : session' = [session EXCEPT ![r] = w]
      PROVE  session'[s] = session[s]
  BY <1>1
<1>2. ASSUME NEW t, NEW phase, NEW cmd, BeginGuarded(r, t, cmd, phase)
      PROVE  session'[s] = session[s]
  BY <1>2 DEF BeginGuarded, Start
<1>3. CASE Command(r)
  BY <1>1, <1>2, <1>3
  DEF Command, Take, Release, Cancel, RecordNote, RecordRunSet, RecordEvidence,
      BeginRunAcceptance, BeginDone, BeginCitingDone, BeginProbe, Start
<1>4. ASSUME NEW cited, Complete(r, cited)
      PROVE  session'[s] = session[s]
  BY <1>4 DEF Complete
<1>5. ASSUME NEW passed, NEW strays, NEW artifactError, FinishShell(r, passed, strays, artifactError)
      PROVE  session'[s] = session[s]
  BY <1>5 DEF FinishShell
<1>6. CASE Continue(r)
  BY <1>4, <1>5, <1>6
  DEF Continue, RecordScriptRunsOnly, CommitRunSet, CommitDone, RefuseCommit,
      RejectCommit, CiteAndComplete, RefuseCitation
<1>7. CASE Kill(r)
  BY <1>7 DEF Kill
<1> QED  BY <1>3, <1>6, <1>7

\* The step in which a process that executes a worker action completes a task
\* is the last transaction of `done`.
LEMMA OnlyFinishCompletes ==
    ASSUME Typed, ChosenBound, WorkerNext, NEW s \in Session, NEW t \in Task,
           chosen[s] # NoAction,
           session[s] # Idle, session'[s] = Idle,
           status[t] = "open", status'[t] = "completed"
    PROVE  \E sha \in BOOLEAN : Finish(s, sha)
<1>1. session \in [Session -> Work]
  BY DEF Typed, TypeOK
<1>2. ASSUME Elsewhere PROVE session' = session
  BY <1>2 DEF Elsewhere, Renew, AddTask, ReviseAcceptance, Hold, ClearHold,
              Expire, RepairAndRefuse
<1>3. ASSUME NEW r \in Session, r # s, WorkerRun(r) \/ Otherwise(r) \/ Kill(r)
      PROVE  session'[s] = session[s]
  <2>1. CASE Command(r) \/ Continue(r) \/ Kill(r)
    BY <1>1, <1>3, <2>1, OthersStay
  <2>2. CASE RepairAndRefuse \/ UNCHANGED vars
    BY <2>2 DEF RepairAndRefuse, vars
  <2> QED  BY <1>3, <2>1, <2>2, WorkerRunSteps DEF Otherwise
<1>4. PICK r \in Session : WorkerRun(r) \/ Otherwise(r) \/ (Kill(r) /\ Forget(r))
  BY <1>2 DEF WorkerNext
<1>5. r = s
  BY <1>3, <1>4
<1>6. ~Otherwise(s)
  BY DEF Otherwise
<1>7. ~Kill(s)
  BY DEF Kill, ledger
<1>8. ~\E u \in Task : Select(s, u)
  BY DEF Select, vars
<1>9. ~Execute(s)
  BY DEF Execute, Take, BeginRunAcceptance, BeginCitingDone, BeginGuarded
<1>10. ~Fail(s)
  BY DEF Fail, RefuseCitation
<1> QED  BY <1>4, <1>5, <1>6, <1>7, <1>8, <1>9, <1>10 DEF WorkerRun

\* What worker-run completes is the task and the attempt its action was bound
\* to, on the evidence it was bound to.
THEOREM CompletionsAreBound == WorkerSpec => BoundCompletion
<1>1. ASSUME Typed, ChosenBound, WorkerNext,
             NEW s \in Session, NEW t \in Task,
             chosen[s].kind \in Completing,
             session[s] # Idle, session'[s] = Idle,
             status[t] = "open", status'[t] = "completed"
      PROVE  /\ chosen[s].task = t
             /\ completion'[t].attempt = chosen[s].attempt
             /\ chosen[s].cited \subseteq completion'[t].evidence
  <2>1. PICK e : /\ chosen[s].cited = {e}
                 /\ e.task = chosen[s].task
                 /\ e.attempt = chosen[s].attempt
    BY <1>1 DEF ChosenBound, WellBound, NoAction, Completing
  <2>2. PICK sha \in BOOLEAN : Finish(s, sha)
    BY <1>1, OnlyFinishCompletes DEF NoAction, Completing
  <2>3. PICK new : Complete(s, chosen[s].cited \cup new)
    BY <2>2 DEF Finish, CiteAndComplete
  <2> DEFINE a == OwnAttempt(s, session[s].task, RepairedClaims)
             cited == chosen[s].cited \cup new
  <2>4. /\ ReducerAccepts(session[s].task, a, cited)
        /\ status' = [status EXCEPT ![session[s].task] = "completed"]
        /\ completion' = [completion EXCEPT ![session[s].task] =
              [actor |-> ActorOf[s], attempt |-> a, evidence |-> cited]]
    BY <2>3 DEF Complete
  <2>5. session[s].task = t
    BY <1>1, <2>4 DEF Typed, TypeOK
  <2>6. e \in cited /\ e.task = t /\ e.attempt = a
    BY <2>1, <2>4, <2>5 DEF ReducerAccepts
  <2>7. completion'[t] = [actor |-> ActorOf[s], attempt |-> a, evidence |-> cited]
    BY <1>1, <2>4, <2>5 DEF Typed, TypeOK
  <2> QED  BY <2>1, <2>6, <2>7
<1>2. ASSUME Typed, ChosenBound, [WorkerNext]_workerVars
      PROVE  [\A s \in Session, t \in Task :
                /\ chosen[s].kind \in Completing
                /\ session[s] # Idle /\ session'[s] = Idle
                /\ status[t] = "open" /\ status'[t] = "completed"
                => /\ chosen[s].task = t
                   /\ completion'[t].attempt = chosen[s].attempt
                   /\ chosen[s].cited \subseteq completion'[t].evidence]_workerVars
  BY <1>1, <1>2 DEF workerVars
<1> QED  BY <1>2, ChosenStaysBound, WorkersAreTyped, PTL
         DEF WorkerSpec, BoundCompletion

\* The frontier offers every completion the reducer would accept, and none that
\* it would refuse for another reason than a boundary or an obligation.
THEOREM FrontierMatches == WorkerSpec => []FrontierMatchesReducer
<1>1. ASSUME Typed, ClaimAttemptAgreement, NEW s \in Session, NEW t \in Task,
             NEW e \in evidence
      PROVE  LET offered == \E k \in Completing :
                               Bound(k, t, {e}) \in LegalFrontier(s, t)
                 accepted == /\ CompletionGuard(s, t, claim)
                             /\ ReducerAccepts(t, claim[t].attempt, {e})
             IN  /\ accepted => offered
                 /\ offered => \/ accepted
                               \/ /\ CompletionGuard(s, t, claim)
                                  /\ \E r \in e.runs : "declared" \in r.strays
  <2> DEFINE offered == \E k \in Completing : Bound(k, t, {e}) \in LegalFrontier(s, t)
  <2>2. CompletionGuard(s, t, claim) => claim[t] # NoClaim /\ Open(t) /\ t \notin held
    BY <1>1 DEF CompletionGuard, Owns, ClaimAttemptAgreement
  <2>3. \A k \in Completing : Bound(k, t, {e}) \in CanonicalActions(t) <=>
           /\ Open(t) /\ claim[t] # NoClaim /\ e.task = t
           /\ IF acceptance[t] # {}
              THEN k = "complete_from_acceptance" /\ e.kind = "run_set"
              ELSE k = "complete_review" /\ e.kind \in Reviewing
    BY DEF CanonicalActions, Bound, Completing
  <2>4. \A k \in Completing : Admissible(s, Bound(k, t, {e})) <=>
           /\ CompletionGuard(s, t, claim)
           /\ EvidenceAdmissible(t, e)
    BY DEF Admissible, Bound, Completing
  <2> DEFINE fits == e.kind \in IF acceptance[t] # {} THEN {"run_set"} ELSE Reviewing
  <2>5. offered <=>
           CompletionGuard(s, t, claim) /\ EvidenceAdmissible(t, e) /\ fits
    BY <2>2, <2>3, <2>4 DEF LegalFrontier, Completing, EvidenceAdmissible
  <2>6. CompletionGuard(s, t, claim) =>
           (ReducerAccepts(t, claim[t].attempt, {e}) <=>
              /\ EvidenceAdmissible(t, e) /\ fits
              /\ acceptance[t] # {} => WithinBoundary(e, {e}))
    BY <2>2 DEF ReducerAccepts, EvidenceAdmissible, Reviewing
  <2>7. fits /\ acceptance[t] # {} =>
           (WithinBoundary(e, {e}) <=> \A r \in e.runs : "declared" \notin r.strays)
    BY DEF WithinBoundary
  <2> QED  BY <2>5, <2>6, <2>7
<1>2. Typed /\ ClaimAttemptAgreement => FrontierMatchesReducer
  BY <1>1 DEF FrontierMatchesReducer
<1> QED  BY <1>2, WorkersAreTyped, PTL

\* What holds of claims holds with workers: whatever a worker action executes by
\* then, a task is completed on evidence of the attempt that owned it, and the
\* run sets it cites stand for commands of that attempt.
THEOREM WorkerCompletionsJustified ==
    WorkerSpec => [](CompletionJustified /\ RunSetsWitnessed)
BY WorkersAreClaimants, CompletionsJustified, RunSetsAreWitnessed, PTL
=============================================================================
