------------------------ MODULE ClaimProtocolProofs ------------------------
(***************************************************************************)
(* What TLAPS proves of ClaimProtocol, for every set of tasks, sessions,   *)
(* actors, attempts and checks, and every bound.                           *)
(***************************************************************************)
EXTENDS ClaimProtocol, TLAPS

\* A session that is executing a command has a task.
BusyOnTask ==
    \A s \in Session : session[s].phase # "idle" => session[s].task \in Task

Claims == [Task -> Claim \cup {NoClaim}]

-----------------------------------------------------------------------------
(* What the helpers return *)

\* Repairing leases keeps the claims and the attempts well-typed.
LEMMA RepairTyped ==
    ASSUME TypeOK
    PROVE  /\ RepairedClaims \in Claims
           /\ RepairedAttempts \in [Attempt -> AttemptRecord]
<1>1. RepairedClaims \in Claims
  BY DEF TypeOK, RepairedClaims, Claims
<1>2. \A a \in Attempt :
         [attempt[a] EXCEPT !.state = "claim_abandoned"] \in AttemptRecord
  BY DEF TypeOK, AttemptRecord, Closed
<1>3. RepairedAttempts \in [Attempt -> AttemptRecord]
  BY <1>2 DEF TypeOK, RepairedAttempts
<1> QED
  BY <1>1, <1>3

\* Closing an attempt keeps the attempts well-typed.
LEMMA CloseTyped ==
    ASSUME NEW attempts \in [Attempt -> AttemptRecord], NEW a,
           NEW reason \in Closed
    PROVE  Close(attempts, a, reason) \in [Attempt -> AttemptRecord]
<1>1. CASE a \in Attempt
  <2>1. [attempts[a] EXCEPT !.state = reason] \in AttemptRecord
    BY <1>1 DEF AttemptRecord
  <2> QED
    BY <1>1, <2>1 DEF Close
<1>2. CASE a \notin Attempt
  BY <1>2 DEF Close
<1> QED
  BY <1>1, <1>2

\* A fact is filed under an attempt or under none.
LEMMA OwnAttemptTyped ==
    ASSUME NEW claims \in Claims, NEW s, NEW t \in Task
    PROVE  OwnAttempt(s, t, claims) \in SomeAttempt
BY DEF Claims, Claim, NoClaim, OwnAttempt, SomeAttempt

\* The facts of a session that is executing are runs.
LEMMA FactsTyped ==
    ASSUME TypeOK, BusyOnTask, NEW s \in Session, session[s].phase # "idle",
           NEW a \in SomeAttempt
    PROVE  Facts(s, a) \in SUBSET Run
<1>1. session[s] \in Work
  BY DEF TypeOK
<1>2. session[s].task \in Task
  BY DEF BusyOnTask
<1> DEFINE w == session[s]
           trigger == IF w.cmd = "probe" THEN "probe" ELSE "acceptance"
           strays(c) == {l \in Limit : <<l, c>> \in w.strays}
<1>3. ASSUME NEW c \in w.acc
      PROVE  [task |-> w.task, attempt |-> a, under |-> w.attempt,
              trigger |-> trigger, check |-> c, ok |-> c \in w.passed,
              strays |-> strays(c)] \in Run
  <2>1. w.attempt \in SomeAttempt /\ c \in Check
    BY <1>1, <1>3 DEF Work
  <2>2. (c \in w.passed) \in BOOLEAN
    OBVIOUS
  <2>3. trigger \in {"probe", "acceptance"}
    OBVIOUS
  <2>4. strays(c) \in SUBSET Limit
    OBVIOUS
  <2> HIDE DEF w, trigger, strays
  <2> QED
    BY <1>2, <2>1, <2>2, <2>3, <2>4 DEF Run, w
<1> QED
  BY <1>3 DEF Facts

\* What cst records itself is evidence.
LEMMA RecordTyped ==
    ASSUME NEW t \in Task, NEW a \in SomeAttempt,
           NEW kind \in Reviewing \cup {"commit"}
    PROVE  Record(t, a, kind) \in Evidence
BY DEF Record, Evidence, Reviewing

\* The run set of a session that is executing is evidence.
LEMMA RunSetTyped ==
    ASSUME TypeOK, BusyOnTask, NEW s \in Session, session[s].phase # "idle"
    PROVE  /\ RunSet(s) \in Evidence
           /\ RunSet(s).runs \in SUBSET Run
<1> DEFINE a == OwnAttempt(s, session[s].task, RepairedClaims)
<1>1. session[s] \in Work
  BY DEF TypeOK
<1>2. session[s].task \in Task
  BY DEF BusyOnTask
<1>3. a \in SomeAttempt
  BY <1>2, RepairTyped, OwnAttemptTyped
<1>4. Facts(s, a) \in SUBSET Run
  BY <1>3, FactsTyped
<1>5. session[s].acc \in SUBSET Check
  BY <1>1 DEF Work
<1> HIDE DEF a
<1>6. [task |-> session[s].task, attempt |-> a, kind |-> "run_set",
       by |-> "cst", acc |-> session[s].acc, runs |-> Facts(s, a)]
        \in Evidence
  BY <1>2, <1>3, <1>4, <1>5 DEF Evidence
<1> USE DEF a
<1> QED
  BY <1>4, <1>6 DEF RunSet

\* What starts a command leaves its session a well-typed piece of work.
LEMMA StartTyped ==
    ASSUME TypeOK, BusyOnTask, NEW s \in Session,
           NEW phase \in Phase, NEW cmd \in {"none", "probe", "run", "done"},
           NEW t \in Task, NEW a \in SomeAttempt, NEW acc \in SUBSET Check,
           Start(s, phase, cmd, t, a, acc)
    PROVE  session' \in [Session -> Work] /\ BusyOnTask'
<1> DEFINE w == [phase |-> phase, cmd |-> cmd, task |-> t, attempt |-> a,
                 acc |-> acc, passed |-> {}, strays |-> {}]
<1>1. w \in Work /\ w.task \in Task
  BY DEF Work
<1>2. session' = [session EXCEPT ![s] = w]
  BY DEF Start
<1> HIDE DEF w
<1> QED
  BY <1>1, <1>2 DEF TypeOK, BusyOnTask

\* So does what ends one.
LEMMA IdleTyped ==
    ASSUME TypeOK, BusyOnTask, NEW s \in Session,
           session' = [session EXCEPT ![s] = Idle]
    PROVE  session' \in [Session -> Work] /\ BusyOnTask'
<1>1. Idle \in Work /\ Idle.phase = "idle"
  BY DEF Idle, Work, Phase, SomeAttempt
<1> QED
  BY <1>1 DEF TypeOK, BusyOnTask

\* A claim that is not expired is an attempt of its owner.
LEMMA OwnedAttempt ==
    ASSUME NEW claims \in Claims, NEW s, NEW t \in Task, Owns(s, t, claims)
    PROVE  /\ claims[t] \in Claim
           /\ claims[t].attempt \in Attempt
           /\ OwnAttempt(s, t, claims) = claims[t].attempt
           /\ claims[t].actor = ActorOf[s]
BY DEF Claims, Claim, Owns, OwnAttempt

\* The records of the shas a completion names are evidence.
LEMMA CommitRecordsTyped ==
    ASSUME TypeOK, NEW s \in Session, session[s].task \in Task, NEW sha
    PROVE  CommitRecords(s, sha) \in SUBSET Evidence
BY RepairTyped, OwnAttemptTyped, RecordTyped DEF CommitRecords

\* What a completion that cites evidence writes and cites is evidence; the
\* rest of the action is Complete.
LEMMA CitedTyped ==
    ASSUME TypeOK, BusyOnTask, NEW s \in Session, NEW cited \in SUBSET evidence,
           NEW note, NEW sha, CiteAndComplete(s, cited, note, sha)
    PROVE  \E new \in SUBSET Evidence :
              /\ session[s].task \in Task
              /\ evidence' = evidence \cup new
              /\ \A e \in new : e.runs = {} /\ e.kind # "run_set"
              /\ cited \cup new \in SUBSET Evidence
              /\ Complete(s, cited \cup new)
<1> DEFINE t == session[s].task
           noted == IF note
                    THEN {Record(t, OwnAttempt(s, t, RepairedClaims), "note")}
                    ELSE {}
           new == CommitRecords(s, sha) \cup noted
<1>1. t \in Task
  BY DEF CiteAndComplete, BusyOnTask
<1>2. noted \in SUBSET Evidence
  BY <1>1, RepairTyped, OwnAttemptTyped, RecordTyped DEF Reviewing
<1>3. new \in SUBSET Evidence
  BY <1>1, <1>2, CommitRecordsTyped
<1>4. evidence' = evidence \cup new /\ Complete(s, cited \cup new)
  BY DEF CiteAndComplete
<1>5. \A e \in new : e.runs = {} /\ e.kind # "run_set"
  BY DEF CommitRecords, Record
<1> HIDE DEF new
<1>6. cited \cup new \in SUBSET Evidence
  BY <1>3 DEF TypeOK
<1> QED
  BY <1>1, <1>3, <1>4, <1>5, <1>6

-----------------------------------------------------------------------------
(* Type correctness *)

Typed == TypeOK /\ BusyOnTask

\* Completing a task keeps what it touches well-typed.
LEMMA CompleteTyped ==
    ASSUME Typed, NEW s \in Session, session[s].task \in Task,
           NEW cited \in SUBSET Evidence, Complete(s, cited)
    PROVE  /\ status' \in [Task -> {"absent", "open", "completed", "canceled"}]
           /\ held' \in SUBSET Task
           /\ claim' \in Claims
           /\ attempt' \in [Attempt -> AttemptRecord]
           /\ expired' \in SUBSET Task
           /\ completion' \in [Task -> Completion]
           /\ acceptance' = acceptance
           /\ session' \in [Session -> Work] /\ BusyOnTask'
<1> DEFINE t == session[s].task
           a == OwnAttempt(s, t, RepairedClaims)
<1>1. /\ RepairedClaims \in Claims
      /\ RepairedAttempts \in [Attempt -> AttemptRecord]
  BY RepairTyped DEF Typed
<1>2. a \in SomeAttempt
  BY <1>1, OwnAttemptTyped
<1>3. claim' = [RepairedClaims EXCEPT ![t] = NoClaim] /\ claim' \in Claims
  BY <1>1 DEF Complete, Claims
<1>4. attempt' \in [Attempt -> AttemptRecord]
  BY <1>1, CloseTyped DEF Complete, Closed
<1>5. completion' \in [Task -> Completion]
  <2> DEFINE c == [actor |-> ActorOf[s], attempt |-> a, evidence |-> cited]
  <2>1. ActorOf[s] \in Actor
    BY ConstantsTyped
  <2> HIDE DEF a
  <2>2. c \in Completion
    BY <1>2, <2>1 DEF Completion
  <2>3. completion' = [completion EXCEPT ![t] = c]
    BY DEF Complete, a
  <2> HIDE DEF c
  <2> QED
    BY <2>2, <2>3 DEF Typed, TypeOK
<1>6. session' \in [Session -> Work] /\ BusyOnTask'
  BY IdleTyped DEF Complete, Typed
<1>7. /\ status' \in [Task -> {"absent", "open", "completed", "canceled"}]
      /\ held' \in SUBSET Task /\ expired' \in SUBSET Task
      /\ acceptance' = acceptance
  BY DEF Complete, Typed, TypeOK
<1> QED
  BY <1>3, <1>4, <1>5, <1>6, <1>7

\* Every step keeps the state well-typed.
LEMMA TypedStep ==
    ASSUME Typed, [Next]_vars
    PROVE  Typed'
<1> USE DEF Typed
<1>1. /\ RepairedClaims \in Claims
      /\ RepairedAttempts \in [Attempt -> AttemptRecord]
  BY RepairTyped
<1>2. ASSUME NEW t \in Task, NEW acc \in SUBSET Check, AddTask(t, acc)
      PROVE  Typed'
  BY <1>2 DEF AddTask, TypeOK, BusyOnTask
<1>3. ASSUME NEW s \in Session, NEW t \in Task, NEW a \in Attempt, Take(s, t, a)
      PROVE  Typed'
  <2>1. ActorOf[s] \in Actor
    BY ConstantsTyped
  <2>2. [actor |-> ActorOf[s], attempt |-> a] \in Claim
    BY <2>1 DEF Claim
  <2>3. [task |-> t, actor |-> ActorOf[s], state |-> "open"] \in AttemptRecord
    BY <2>1 DEF AttemptRecord
  <2>4. claim' \in Claims
    BY <1>1, <1>3, <2>2 DEF Take, Claims
  <2>5. attempt' \in [Attempt -> AttemptRecord]
    BY <1>1, <1>3, <2>3 DEF Take
  <2> QED
    BY <1>3, <2>4, <2>5 DEF Take, TypeOK, BusyOnTask, Claims
<1>4. ASSUME NEW s \in Session, NEW t \in Task, Release(s, t)
      PROVE  Typed'
  <2>1. claim' \in Claims
    BY <1>1, <1>4 DEF Release, Claims
  <2>2. attempt' \in [Attempt -> AttemptRecord]
    BY <1>1, <1>4, CloseTyped DEF Release, Closed
  <2> QED
    BY <1>4, <2>1, <2>2 DEF Release, TypeOK, BusyOnTask, Claims
<1>5. ASSUME NEW t \in Task, Hold(t)
      PROVE  Typed'
  BY <1>1, <1>5 DEF Hold, Repair, TypeOK, BusyOnTask, Claims
<1>6. ASSUME NEW t \in Task, ClearHold(t)
      PROVE  Typed'
  BY <1>1, <1>6 DEF ClearHold, Repair, TypeOK, BusyOnTask, Claims
<1>7. ASSUME NEW t \in Task, NEW acc \in SUBSET Check, ReviseAcceptance(t, acc)
      PROVE  Typed'
  BY <1>1, <1>7 DEF ReviseAcceptance, Repair, TypeOK, BusyOnTask, Claims
<1>8. ASSUME NEW s \in Session, NEW t \in Task, Cancel(s, t)
      PROVE  Typed'
  <2>1. claim' \in Claims
    BY <1>1, <1>8 DEF Cancel, Claims
  <2>2. attempt' \in [Attempt -> AttemptRecord]
    BY <1>1, <1>8, CloseTyped DEF Cancel, Closed
  <2> QED
    BY <1>8, <2>1, <2>2 DEF Cancel, TypeOK, BusyOnTask, Claims
<1>9. ASSUME NEW s \in Session, NEW t \in Task, NEW e \in Evidence,
             RecordEvidence(s, t, e)
      PROVE  Typed'
  BY <1>1, <1>9 DEF RecordEvidence, Repair, TypeOK, BusyOnTask, Claims
<1>10. ASSUME NEW s \in Session, NEW t \in Task, RecordNote(s, t)
       PROVE  Typed'
  <2>1. PICK kind \in Reviewing \cup {"commit"} :
           RecordEvidence(s, t, Record(t, OwnAttempt(s, t, RepairedClaims), kind))
    BY <1>10 DEF RecordNote
  <2> QED
    BY <1>1, <1>9, <2>1, OwnAttemptTyped, RecordTyped
<1>11. ASSUME NEW s \in Session, NEW t \in Task, RecordRunSet(s, t)
       PROVE  Typed'
  <2> DEFINE a == OwnAttempt(s, t, RepairedClaims)
  <2>1. PICK acc \in SUBSET Check, rs \in SUBSET runs :
           RecordEvidence(s, t, [task |-> t, attempt |-> a, kind |-> "run_set",
                                 by |-> "user", acc |-> acc, runs |-> rs])
    BY <1>11 DEF RecordRunSet
  <2>2. a \in SomeAttempt
    BY <1>1, OwnAttemptTyped
  <2>3. rs \in SUBSET Run
    BY <2>1 DEF TypeOK
  <2> HIDE DEF a
  <2>4. [task |-> t, attempt |-> a, kind |-> "run_set", by |-> "user",
         acc |-> acc, runs |-> rs] \in Evidence
    BY <2>1, <2>2, <2>3 DEF Evidence
  <2> QED
    BY <1>9, <2>1, <2>4
<1>12. ASSUME RepairAndRefuse
       PROVE  Typed'
  BY <1>1, <1>12 DEF RepairAndRefuse, Repair, TypeOK, BusyOnTask, Claims
<1>13. ASSUME NEW s \in Session, NEW t \in Task, NEW c \in Check,
              BeginProbe(s, t, c)
       PROVE  Typed'
  <2>1. OwnAttempt(s, t, RepairedClaims) \in SomeAttempt
    BY <1>1, OwnAttemptTyped
  <2>2. session' \in [Session -> Work] /\ BusyOnTask'
    BY <1>13, <2>1, StartTyped DEF BeginProbe, Phase
  <2> QED
    BY <1>1, <1>13, <2>2 DEF BeginProbe, Repair, TypeOK, Claims
<1>14. ASSUME NEW s \in Session, NEW t \in Task, NEW cmd \in {"run", "done"},
              NEW phase \in {"shell", "guarded"}, BeginGuarded(s, t, cmd, phase)
       PROVE  Typed'
  <2>1. claim[t].attempt \in SomeAttempt /\ acceptance[t] \in SUBSET Check
    BY DEF TypeOK, Claim, NoClaim, SomeAttempt
  <2>2. session' \in [Session -> Work] /\ BusyOnTask'
    BY <1>14, <2>1, StartTyped DEF BeginGuarded, Phase
  <2> QED
    BY <1>14, <2>2 DEF BeginGuarded, RenewExecutionClaim, TypeOK
<1>15. ASSUME NEW s \in Session, Renew(s)
       PROVE  Typed'
  BY <1>15 DEF Renew, TypeOK, BusyOnTask
<1>16. ASSUME NEW s \in Session, NEW passed \in SUBSET Check, NEW strays,
              NEW artifactError \in BOOLEAN,
              FinishShell(s, passed, strays, artifactError)
       PROVE  Typed'
  <2> DEFINE phase == IF session[s].cmd # "probe" /\ passed = session[s].acc
                           /\ ~artifactError
                      THEN "commit" ELSE "salvage"
  <2>1. session' = [session EXCEPT ![s].passed = passed, ![s].strays = strays,
                                   ![s].phase = phase]
    BY <1>16 DEF FinishShell
  <2>2. phase \in Phase
    BY DEF Phase
  <2>3. session[s].task \in Task
    BY <1>16 DEF FinishShell, BusyOnTask
  <2>4. [session[s] EXCEPT !.passed = passed, !.strays = strays, !.phase = phase]
           \in Work
    <3> HIDE DEF phase
    <3>1. session[s] \in Work /\ strays \in SUBSET (Limit \X Check)
      BY <1>16 DEF FinishShell, TypeOK, Work
    <3> QED
      BY <2>2, <3>1 DEF Work
  <2> HIDE DEF phase
  <2>5. session' \in [Session -> Work] /\ BusyOnTask'
    BY <2>1, <2>3, <2>4 DEF TypeOK, BusyOnTask, Work
  <2> QED
    BY <1>16, <2>5 DEF FinishShell, ledger, TypeOK
<1>17. ASSUME NEW s \in Session, RecordScriptRunsOnly(s)
       PROVE  Typed'
  <2>1. session[s].phase # "idle" /\ session[s].task \in Task
    BY <1>17 DEF RecordScriptRunsOnly, BusyOnTask
  <2>2. OwnAttempt(s, session[s].task, claim) \in SomeAttempt
    BY <2>1, OwnAttemptTyped DEF TypeOK, Claims
  <2>3. Facts(s, OwnAttempt(s, session[s].task, claim)) \in SUBSET Run
    BY <2>1, <2>2, FactsTyped
  <2>4. session' \in [Session -> Work] /\ BusyOnTask'
    BY <1>17, IdleTyped DEF RecordScriptRunsOnly
  <2> QED
    BY <1>17, <2>3, <2>4 DEF RecordScriptRunsOnly, TypeOK
<1>18. ASSUME NEW s \in Session, CommitRunSet(s)
       PROVE  Typed'
  <2>1. session[s].phase # "idle"
    BY <1>18 DEF CommitRunSet
  <2>2. RunSet(s) \in Evidence /\ RunSet(s).runs \in SUBSET Run
    BY <2>1, RunSetTyped
  <2>3. session' \in [Session -> Work] /\ BusyOnTask'
    BY <1>18, IdleTyped DEF CommitRunSet
  <2> QED
    BY <1>1, <1>18, <2>2, <2>3 DEF CommitRunSet, Repair, TypeOK, Claims
<1>19. ASSUME NEW s \in Session, NEW sha \in BOOLEAN, CommitDone(s, sha)
       PROVE  Typed'
  <2>1. session[s].phase # "idle" /\ session[s].task \in Task
    BY <1>19 DEF CommitDone, BusyOnTask
  <2>2. RunSet(s) \in Evidence /\ RunSet(s).runs \in SUBSET Run
    BY <2>1, RunSetTyped
  <2>3. CommitRecords(s, sha) \in SUBSET Evidence
    BY <2>1, CommitRecordsTyped
  <2>4. /\ runs' = runs \cup RunSet(s).runs
        /\ evidence' = evidence \cup ({RunSet(s)} \cup CommitRecords(s, sha))
        /\ Complete(s, {RunSet(s)} \cup CommitRecords(s, sha))
    BY <1>19 DEF CommitDone
  <2>5. {RunSet(s)} \cup CommitRecords(s, sha) \in SUBSET Evidence
    BY <2>2, <2>3
  <2> QED
    BY <2>1, <2>2, <2>4, <2>5, CompleteTyped DEF TypeOK, Claims
<1>20. ASSUME NEW s \in Session, NEW drifted \in BOOLEAN, RefuseCommit(s, drifted)
       PROVE  Typed'
  <2>1. session[s].task \in Task
    BY <1>20 DEF RefuseCommit, BusyOnTask
  <2>2. [session[s] EXCEPT !.phase = "salvage"] \in Work
    BY DEF TypeOK, Work, Phase
  <2>3. session' \in [Session -> Work] /\ BusyOnTask'
    BY <1>20, <2>1, <2>2 DEF RefuseCommit, TypeOK, BusyOnTask, Work
  <2> QED
    BY <1>1, <1>20, <2>3 DEF RefuseCommit, Repair, TypeOK, Claims
<1>21. ASSUME NEW s \in Session, RejectCommit(s)
       PROVE  Typed'
  <2>1. session' \in [Session -> Work] /\ BusyOnTask'
    BY <1>21, IdleTyped DEF RejectCommit
  <2> QED
    BY <1>1, <1>21, <2>1 DEF RejectCommit, Repair, TypeOK, Claims
<1>22. ASSUME NEW s \in Session, NEW cited \in SUBSET evidence,
              NEW note \in BOOLEAN, NEW sha \in BOOLEAN,
              CiteAndComplete(s, cited, note, sha)
       PROVE  Typed'
  <2>1. PICK new \in SUBSET Evidence :
           /\ session[s].task \in Task
           /\ evidence' = evidence \cup new
           /\ \A e \in new : e.runs = {} /\ e.kind # "run_set"
           /\ cited \cup new \in SUBSET Evidence
           /\ Complete(s, cited \cup new)
    BY <1>22, CitedTyped
  <2>2. UNCHANGED runs
    BY <1>22 DEF CiteAndComplete
  <2> QED
    BY <2>1, <2>2, CompleteTyped DEF TypeOK, Claims
<1>23. ASSUME NEW s \in Session, RefuseCitation(s)
       PROVE  Typed'
  <2>1. session' \in [Session -> Work] /\ BusyOnTask'
    BY <1>23, IdleTyped DEF RefuseCitation
  <2> QED
    BY <1>1, <1>23, <2>1 DEF RefuseCitation, Repair, TypeOK, Claims
<1>24. ASSUME NEW t \in Task, Expire(t)
       PROVE  Typed'
  BY <1>24 DEF Expire, TypeOK, BusyOnTask
<1>25. ASSUME NEW s \in Session, Kill(s)
       PROVE  Typed'
  <2>1. session' \in [Session -> Work] /\ BusyOnTask'
    BY <1>25, IdleTyped DEF Kill
  <2> QED
    BY <1>25, <2>1 DEF Kill, ledger, TypeOK
<1>26. CASE UNCHANGED vars
  BY <1>26 DEF vars, ledger, TypeOK, BusyOnTask
<1>27. ASSUME NEW s \in Session, Command(s)
       PROVE  Typed'
  BY <1>3, <1>4, <1>8, <1>10, <1>11, <1>13, <1>14, <1>27
  DEF Command, BeginRunAcceptance, BeginDone, BeginCitingDone
<1>28. ASSUME NEW s \in Session, Continue(s)
       PROVE  Typed'
  BY <1>16, <1>17, <1>18, <1>19, <1>20, <1>21, <1>22, <1>23, <1>28 DEF Continue
<1> QED
  BY <1>2, <1>5, <1>6, <1>7, <1>12, <1>15, <1>24, <1>25, <1>26, <1>27, <1>28
  DEF Next

LEMMA InitTyped == Init => Typed
BY ConstantsTyped
DEF Init, Typed, TypeOK, BusyOnTask, Idle, Work, Phase, SomeAttempt, NoClaim,
    Unborn, AttemptRecord, NoCompletion, Completion

\* Type correctness: whatever the commands, and however they interleave, the
\* ledger and every process stay in the state space declared for them.
THEOREM TypeCorrect == Spec => []TypeOK
<1>1. Init => Typed
  BY InitTyped
<1>2. Typed /\ [Next]_vars => Typed'
  BY TypedStep
<1>3. Typed => TypeOK
  BY DEF Typed
<1> QED
  BY <1>1, <1>2, <1>3, PTL DEF Spec

-----------------------------------------------------------------------------
(* Claims and attempts agree *)

\* ClaimAttemptAgreement but for the expiries, over given projections.
Agree(st, hd, cl, at) ==
    /\ \A t \in Task : cl[t] # NoClaim =>
          /\ st[t] = "open"
          /\ t \notin hd
          /\ at[cl[t].attempt] =
                [task |-> t, actor |-> cl[t].actor, state |-> "open"]
    /\ \A a \in Attempt : at[a].state = "open" =>
          at[a].task \in Task /\ cl[at[a].task].attempt = a

LEMMA AgreementSplit ==
    ClaimAttemptAgreement <=> /\ Agree(status, held, claim, attempt)
                              /\ \A t \in expired : claim[t] # NoClaim
BY DEF ClaimAttemptAgreement, Agree, Open

\* The attempt of a claim is an attempt; NoClaim has none.
LEMMA ClaimedAttempt ==
    ASSUME NEW cl \in Claims, NEW t \in Task
    PROVE  /\ cl[t] # NoClaim => cl[t].attempt \in Attempt
           /\ cl[t] = NoClaim => cl[t].attempt \notin Attempt
BY ConstantsTyped DEF Claims, Claim, NoClaim

\* Abandoning the expired claims keeps the two in agreement.
LEMMA RepairAgrees ==
    ASSUME Typed, ClaimAttemptAgreement
    PROVE  Agree(status, held, RepairedClaims, RepairedAttempts)
<1>1. claim \in Claims /\ Agree(status, held, claim, attempt)
  BY AgreementSplit DEF Typed, TypeOK, Claims
<1>2. \A t \in expired : t \in Task /\ claim[t] # NoClaim
  BY AgreementSplit DEF Typed, TypeOK
<1>3. ASSUME NEW t \in Task, RepairedClaims[t] # NoClaim
      PROVE  /\ status[t] = "open" /\ t \notin held
             /\ RepairedAttempts[RepairedClaims[t].attempt] =
                  [task |-> t, actor |-> RepairedClaims[t].actor, state |-> "open"]
  <2>1. t \notin expired /\ RepairedClaims[t] = claim[t]
    BY <1>3 DEF RepairedClaims
  <2>2. claim[t].attempt \in Attempt
    BY <1>1, <1>3, <2>1, ClaimedAttempt
  <2>3. attempt[claim[t].attempt] =
           [task |-> t, actor |-> claim[t].actor, state |-> "open"]
    BY <1>1, <1>3, <2>1 DEF Agree
  <2>4. \A u \in expired : claim[u].attempt # claim[t].attempt
    <3>1. ASSUME NEW u \in expired, claim[u].attempt = claim[t].attempt
          PROVE  FALSE
      <4>1. attempt[claim[u].attempt] =
               [task |-> u, actor |-> claim[u].actor, state |-> "open"]
        BY <1>1, <1>2 DEF Agree
      <4>2. u = t
        BY <2>3, <3>1, <4>1
      <4> QED
        BY <2>1, <4>2
    <3> QED
      BY <3>1
  <2>5. RepairedAttempts[claim[t].attempt] = attempt[claim[t].attempt]
    BY <2>2, <2>4 DEF RepairedAttempts
  <2> QED
    BY <1>1, <1>3, <2>1, <2>3, <2>5 DEF Agree
<1>4. ASSUME NEW a \in Attempt, RepairedAttempts[a].state = "open"
      PROVE  /\ RepairedAttempts[a].task \in Task
             /\ RepairedClaims[RepairedAttempts[a].task].attempt = a
  <2>1. attempt[a] \in AttemptRecord
    BY DEF Typed, TypeOK
  <2>2. \A t \in expired : claim[t].attempt # a
    BY <1>4, <2>1 DEF RepairedAttempts, AttemptRecord
  <2>3. RepairedAttempts[a] = attempt[a]
    BY <2>2 DEF RepairedAttempts
  <2>4. attempt[a].task \in Task /\ claim[attempt[a].task].attempt = a
    BY <1>1, <1>4, <2>3 DEF Agree
  <2> QED
    BY <2>2, <2>3, <2>4 DEF RepairedClaims
<1> QED
  BY <1>3, <1>4 DEF Agree

\* Ending the claim of a task, with its attempt, keeps them in agreement; the
\* task itself may then be closed, and no longer held.
LEMMA EndClaimAgrees ==
    ASSUME NEW cl \in Claims, NEW at \in [Attempt -> AttemptRecord],
           NEW st, NEW hd, Agree(st, hd, cl, at),
           NEW t \in Task, NEW reason \in Closed,
           NEW st2, \A u \in Task : u # t => st2[u] = st[u],
           NEW hd2, hd2 \subseteq hd
    PROVE  Agree(st2, hd2, [cl EXCEPT ![t] = NoClaim],
                 Close(at, cl[t].attempt, reason))
<1> DEFINE cl2 == [cl EXCEPT ![t] = NoClaim]
           at2 == Close(at, cl[t].attempt, reason)
<1>1. reason # "open"
  BY DEF Closed
<1>2. \A a \in Attempt : a # cl[t].attempt => at2[a] = at[a]
  BY DEF Close
<1>3. cl[t].attempt \in Attempt => at2[cl[t].attempt].state = reason
  BY DEF Close, AttemptRecord
<1>4. cl2[t] = NoClaim /\ \A u \in Task : u # t => cl2[u] = cl[u]
  BY DEF Claims
<1> HIDE DEF cl2, at2
<1>5. ASSUME NEW u \in Task, cl2[u] # NoClaim
      PROVE  /\ st2[u] = "open" /\ u \notin hd2
             /\ at2[cl2[u].attempt] =
                  [task |-> u, actor |-> cl2[u].actor, state |-> "open"]
  <2>1. u # t /\ cl2[u] = cl[u] /\ cl[u] # NoClaim
    BY <1>4, <1>5
  <2>2. cl[u].attempt \in Attempt
    BY <2>1, ClaimedAttempt
  <2>3. at[cl[u].attempt] = [task |-> u, actor |-> cl[u].actor, state |-> "open"]
    BY <2>1 DEF Agree
  <2>4. cl[t].attempt \in Attempt =>
           at[cl[t].attempt] = [task |-> t, actor |-> cl[t].actor, state |-> "open"]
    BY ClaimedAttempt DEF Agree
  <2>5. cl[u].attempt # cl[t].attempt
    BY <2>1, <2>2, <2>3, <2>4
  <2> QED
    BY <1>2, <2>1, <2>2, <2>3, <2>5 DEF Agree
<1>6. ASSUME NEW a \in Attempt, at2[a].state = "open"
      PROVE  at2[a].task \in Task /\ cl2[at2[a].task].attempt = a
  <2>1. a # cl[t].attempt /\ at2[a] = at[a]
    BY <1>1, <1>2, <1>3, <1>6
  <2>2. at[a].task \in Task /\ cl[at[a].task].attempt = a
    BY <1>6, <2>1 DEF Agree
  <2> QED
    BY <1>4, <2>1, <2>2
<1> QED
  BY <1>5, <1>6 DEF Agree, cl2, at2

\* A new claim with an attempt never used before keeps them in agreement.
LEMMA TakeAgrees ==
    ASSUME NEW cl \in Claims, NEW at \in [Attempt -> AttemptRecord],
           NEW st, NEW hd, Agree(st, hd, cl, at),
           NEW t \in Task, st[t] = "open", t \notin hd, cl[t] = NoClaim,
           NEW a \in Attempt, at[a].state = "unborn", NEW x \in Actor
    PROVE  Agree(st, hd, [cl EXCEPT ![t] = [actor |-> x, attempt |-> a]],
                 [at EXCEPT ![a] = [task |-> t, actor |-> x, state |-> "open"]])
<1> DEFINE c == [actor |-> x, attempt |-> a]
           cl2 == [cl EXCEPT ![t] = c]
           r == [task |-> t, actor |-> x, state |-> "open"]
           at2 == [at EXCEPT ![a] = r]
<1>1. cl2[t] = c /\ \A u \in Task : u # t => cl2[u] = cl[u]
  BY DEF Claims
<1>2. at2[a] = r /\ \A b \in Attempt : b # a => at2[b] = at[b]
  OBVIOUS
<1>3. \A u \in Task : cl[u].attempt # a
  <2>1. ASSUME NEW u \in Task, cl[u].attempt = a
        PROVE  FALSE
    <3>1. cl[u] # NoClaim
      BY <2>1, ClaimedAttempt
    <3>2. at[cl[u].attempt] =
             [task |-> u, actor |-> cl[u].actor, state |-> "open"]
      BY <3>1 DEF Agree
    <3>3. at[a].state = "open"
      BY <2>1, <3>2
    <3> QED
      BY <3>3
  <2> QED
    BY <2>1
<1>4. c.attempt = a /\ c.actor = x /\ r.state = "open" /\ r.task = t
  OBVIOUS
<1> HIDE DEF cl2, at2
<1>5. ASSUME NEW u \in Task, cl2[u] # NoClaim
      PROVE  /\ st[u] = "open" /\ u \notin hd
             /\ at2[cl2[u].attempt] =
                  [task |-> u, actor |-> cl2[u].actor, state |-> "open"]
  <2>1. CASE u = t
    BY <1>1, <1>2, <1>4, <2>1
  <2>2. CASE u # t
    <3>1. cl2[u] = cl[u] /\ cl[u] # NoClaim
      BY <1>1, <1>5, <2>2
    <3>2. at2[cl[u].attempt] = at[cl[u].attempt]
      BY <1>2, <1>3, <3>1, ClaimedAttempt
    <3> QED
      BY <3>1, <3>2 DEF Agree
  <2> QED
    BY <2>1, <2>2
<1>6. ASSUME NEW b \in Attempt, at2[b].state = "open"
      PROVE  at2[b].task \in Task /\ cl2[at2[b].task].attempt = b
  <2>1. CASE b = a
    BY <1>1, <1>2, <1>4, <2>1
  <2>2. CASE b # a
    <3>1. at2[b] = at[b] /\ at[b].task \in Task /\ cl[at[b].task].attempt = b
      BY <1>2, <1>6, <2>2 DEF Agree
    <3>2. at[b].task # t
      BY <3>1, ClaimedAttempt
    <3> QED
      BY <1>1, <3>1, <3>2
  <2> QED
    BY <2>1, <2>2
<1> QED
  BY <1>5, <1>6 DEF Agree, cl2, at2

LEMMA AgreementNext ==
    ASSUME Agree(status', held', claim', attempt'),
           \A t \in expired' : claim'[t] # NoClaim
    PROVE  ClaimAttemptAgreement'
BY DEF ClaimAttemptAgreement, Agree, Open

\* Every step keeps claims and attempts in agreement.
LEMMA AgreementStep ==
    ASSUME Typed, ClaimAttemptAgreement, [Next]_vars
    PROVE  ClaimAttemptAgreement'
<1>1. /\ RepairedClaims \in Claims
      /\ RepairedAttempts \in [Attempt -> AttemptRecord]
  BY RepairTyped DEF Typed
<1>2. Agree(status, held, RepairedClaims, RepairedAttempts)
  BY RepairAgrees
<1>3. /\ Agree(status, held, claim, attempt)
      /\ \A t \in expired : claim[t] # NoClaim
  BY AgreementSplit
<1>4. claim \in Claims
  BY DEF Typed, TypeOK, Claims
<1>5. ASSUME Repair, UNCHANGED <<status, held>>
      PROVE  ClaimAttemptAgreement'
  BY <1>2, <1>5, AgreementNext DEF Repair
<1>6. ASSUME UNCHANGED <<status, held, claim, attempt>>, expired' \subseteq expired
      PROVE  ClaimAttemptAgreement'
  BY <1>3, <1>6, AgreementNext
<1>7. ASSUME NEW s \in Session, session[s].task \in Task,
             NEW cited \in SUBSET Evidence, Complete(s, cited)
      PROVE  ClaimAttemptAgreement'
  <2> DEFINE t == session[s].task
  <2>1. /\ Owns(s, t, RepairedClaims)
        /\ status' = [status EXCEPT ![t] = "completed"]
        /\ held' = held \ {t}
        /\ claim' = [RepairedClaims EXCEPT ![t] = NoClaim]
        /\ attempt' = Close(RepairedAttempts, OwnAttempt(s, t, RepairedClaims),
                            "task_completed")
        /\ expired' = {}
    BY <1>7 DEF Complete, GuardStillHolds, CompletionGuard
  <2>2. OwnAttempt(s, t, RepairedClaims) = RepairedClaims[t].attempt
    BY <1>1, <1>7, <2>1, OwnedAttempt
  <2>3. \A u \in Task : u # t => status'[u] = status[u]
    BY <2>1 DEF Typed, TypeOK
  <2>4. "task_completed" \in Closed /\ held' \subseteq held
    BY <2>1 DEF Closed
  <2> HIDE DEF t
  <2>5. Agree(status', held', [RepairedClaims EXCEPT ![t] = NoClaim],
              Close(RepairedAttempts, RepairedClaims[t].attempt, "task_completed"))
    BY <1>1, <1>2, <1>7, <2>3, <2>4, EndClaimAgrees DEF t
  <2> QED
    BY <2>1, <2>2, <2>5, AgreementNext
<1>8. ASSUME NEW t \in Task, NEW acc \in SUBSET Check, AddTask(t, acc)
      PROVE  ClaimAttemptAgreement'
  <2>1. \A u \in Task : status[u] = "open" => status'[u] = "open"
    BY <1>8 DEF AddTask, Typed, TypeOK
  <2> QED
    BY <1>3, <1>8, <2>1, AgreementNext DEF AddTask, Agree
<1>9. ASSUME NEW s \in Session, NEW t \in Task, NEW a \in Attempt, Take(s, t, a)
      PROVE  ClaimAttemptAgreement'
  <2>1. /\ status[t] = "open" /\ t \notin held /\ RepairedClaims[t] = NoClaim
        /\ attempt[a] = Unborn
    BY <1>9 DEF Take, Ready, Open
  <2>2. RepairedAttempts[a].state = "unborn"
    <3>1. \A u \in expired : claim[u].attempt # a
      <4>1. ASSUME NEW u \in expired, claim[u].attempt = a
            PROVE  FALSE
        <5>1. u \in Task /\ claim[u] # NoClaim
          BY <1>3, <4>1 DEF Typed, TypeOK
        <5>2. attempt[claim[u].attempt] =
                 [task |-> u, actor |-> claim[u].actor, state |-> "open"]
          BY <1>3, <5>1 DEF Agree
        <5> QED
          BY <2>1, <4>1, <5>2 DEF Unborn
      <4> QED
        BY <4>1
    <3> QED
      BY <2>1, <3>1 DEF RepairedAttempts, Unborn
  <2>3. ActorOf[s] \in Actor
    BY ConstantsTyped
  <2>4. /\ claim' = [RepairedClaims EXCEPT
                        ![t] = [actor |-> ActorOf[s], attempt |-> a]]
        /\ attempt' = [RepairedAttempts EXCEPT
                 ![a] = [task |-> t, actor |-> ActorOf[s], state |-> "open"]]
        /\ expired' = {} /\ UNCHANGED <<status, held>>
    BY <1>9 DEF Take
  <2>5. Agree(status, held, claim', attempt')
    BY <1>1, <1>2, <2>1, <2>2, <2>3, <2>4, TakeAgrees
  <2> QED
    BY <2>4, <2>5, AgreementNext
<1>10. ASSUME NEW s \in Session, NEW t \in Task, Release(s, t)
       PROVE  ClaimAttemptAgreement'
  <2>1. "claim_released" \in Closed
    BY DEF Closed
  <2>2. Agree(status, held, claim', attempt')
    BY <1>1, <1>2, <1>10, <2>1, EndClaimAgrees DEF Release
  <2> QED
    BY <1>10, <2>2, AgreementNext DEF Release
<1>11. ASSUME NEW t \in Task, Hold(t)
       PROVE  ClaimAttemptAgreement'
  BY <1>2, <1>11, AgreementNext DEF Hold, Repair, Agree
<1>12. ASSUME NEW t \in Task, ClearHold(t)
       PROVE  ClaimAttemptAgreement'
  BY <1>2, <1>12, AgreementNext DEF ClearHold, Repair, Agree
<1>13. ASSUME NEW s \in Session, NEW t \in Task, Cancel(s, t)
       PROVE  ClaimAttemptAgreement'
  <2>1. /\ "node_canceled" \in Closed /\ held' \subseteq held
        /\ \A u \in Task : u # t => status'[u] = status[u]
    BY <1>13 DEF Cancel, Closed, Typed, TypeOK
  <2>2. Agree(status', held', claim', attempt')
    BY <1>1, <1>2, <1>13, <2>1, EndClaimAgrees DEF Cancel
  <2> QED
    BY <1>13, <2>2, AgreementNext DEF Cancel
<1>14. ASSUME NEW s \in Session, NEW t \in Task,
              RecordNote(s, t) \/ RecordRunSet(s, t)
       PROVE  ClaimAttemptAgreement'
  BY <1>5, <1>14 DEF RecordNote, RecordRunSet, RecordEvidence
<1>15. ASSUME NEW s \in Session, NEW t \in Task, NEW c \in Check,
              BeginProbe(s, t, c)
       PROVE  ClaimAttemptAgreement'
  BY <1>5, <1>15 DEF BeginProbe
<1>16. ASSUME NEW s \in Session, NEW t \in Task, NEW cmd, NEW phase,
              BeginGuarded(s, t, cmd, phase)
       PROVE  ClaimAttemptAgreement'
  BY <1>6, <1>16 DEF BeginGuarded, RenewExecutionClaim
<1>17. ASSUME NEW s \in Session, Renew(s)
       PROVE  ClaimAttemptAgreement'
  BY <1>6, <1>17 DEF Renew
<1>18. ASSUME NEW s \in Session, Continue(s)
       PROVE  ClaimAttemptAgreement'
  <2>1. ASSUME NEW passed, NEW strays, NEW artifactError, FinishShell(s, passed, strays, artifactError)
        PROVE  ClaimAttemptAgreement'
    BY <1>6, <2>1 DEF FinishShell, ledger
  <2>2. CASE RecordScriptRunsOnly(s)
    BY <1>6, <2>2 DEF RecordScriptRunsOnly
  <2>3. CASE CommitRunSet(s)
    BY <1>5, <2>3 DEF CommitRunSet
  <2>4. ASSUME NEW sha \in BOOLEAN, CommitDone(s, sha)
        PROVE  ClaimAttemptAgreement'
    <3>1. session[s].task \in Task /\ session[s].phase # "idle"
      BY <2>4 DEF CommitDone, Typed, BusyOnTask
    <3>2. {RunSet(s)} \cup CommitRecords(s, sha) \in SUBSET Evidence
      BY <3>1, RunSetTyped, CommitRecordsTyped DEF Typed
    <3> QED
      BY <1>7, <2>4, <3>1, <3>2 DEF CommitDone
  <2>5. ASSUME NEW drifted, RefuseCommit(s, drifted)
        PROVE  ClaimAttemptAgreement'
    BY <1>5, <2>5 DEF RefuseCommit
  <2>6. CASE RejectCommit(s)
    BY <1>5, <2>6 DEF RejectCommit
  <2>7. ASSUME NEW cited \in SUBSET evidence, NEW note \in BOOLEAN,
               NEW sha \in BOOLEAN, CiteAndComplete(s, cited, note, sha)
        PROVE  ClaimAttemptAgreement'
    <3>1. PICK new \in SUBSET Evidence :
             /\ session[s].task \in Task
             /\ evidence' = evidence \cup new
             /\ \A e \in new : e.runs = {} /\ e.kind # "run_set"
             /\ cited \cup new \in SUBSET Evidence
             /\ Complete(s, cited \cup new)
      BY <2>7, CitedTyped DEF Typed
    <3> QED
      BY <1>7, <3>1
  <2>8. CASE RefuseCitation(s)
    BY <1>5, <1>6, <2>8 DEF RefuseCitation
  <2> QED
    BY <1>18, <2>1, <2>2, <2>3, <2>4, <2>5, <2>6, <2>7, <2>8 DEF Continue
<1>19. ASSUME NEW t \in Task, Expire(t)
       PROVE  ClaimAttemptAgreement'
  BY <1>3, <1>19, AgreementNext DEF Expire
<1>20. CASE UNCHANGED vars
  BY <1>6, <1>20 DEF vars, ledger
<1>21. ASSUME NEW s \in Session, Kill(s)
       PROVE  ClaimAttemptAgreement'
  BY <1>6, <1>21 DEF Kill, ledger
<1>22. ASSUME NEW t \in Task, NEW acc, ReviseAcceptance(t, acc)
       PROVE  ClaimAttemptAgreement'
  BY <1>5, <1>22 DEF ReviseAcceptance
<1>23. CASE RepairAndRefuse
  BY <1>5, <1>23 DEF RepairAndRefuse
<1>24. ASSUME NEW s \in Session, Command(s)
       PROVE  ClaimAttemptAgreement'
  BY <1>9, <1>10, <1>13, <1>14, <1>15, <1>16, <1>24
  DEF Command, BeginRunAcceptance, BeginDone, BeginCitingDone
<1> QED
  BY <1>8, <1>11, <1>12, <1>17, <1>18, <1>19, <1>20, <1>21, <1>22, <1>23, <1>24
  DEF Next

\* At every moment the claims and the attempts of the ledger tell one story:
\* ClaimAttemptAgreement, for any number of processes, tasks and attempts.
THEOREM ClaimsAgree == Spec => []ClaimAttemptAgreement
<1>1. Init => ClaimAttemptAgreement
  BY DEF Init, ClaimAttemptAgreement, Unborn
<1>2. Init => Typed
  BY InitTyped
<1>3. Typed /\ ClaimAttemptAgreement /\ [Next]_vars
        => (Typed /\ ClaimAttemptAgreement)'
  BY TypedStep, AgreementStep
<1> QED
  BY <1>1, <1>2, <1>3, PTL DEF Spec

-----------------------------------------------------------------------------
(* What no step undoes *)

\* The facts, the closed attempts and the closed tasks of the ledger stay.
Preserved ==
    /\ runs \subseteq runs' /\ evidence \subseteq evidence'
    /\ \A a \in Attempt : attempt[a].state \in Closed => attempt'[a] = attempt[a]
    /\ \A t \in Task : Terminal(t) => /\ status'[t] = status[t]
                                     /\ completion'[t] = completion[t]
                                     /\ acceptance'[t] = acceptance[t]

\* A task is completed by Complete and by nothing else, on recorded evidence.
CompletedBy(s, t) ==
    /\ session[s].task = t
    /\ session[s].phase # "idle"
    /\ \E cited \in SUBSET evidence' : Complete(s, cited)

OnlyCompleteCompletes ==
    \A t \in Task : status[t] # "completed" /\ status'[t] = "completed" =>
        \E s \in Session : CompletedBy(s, t)

\* A closed attempt is claimed by no task, and repairing leases leaves it.
LEMMA ClosedAttemptKept ==
    ASSUME Typed, ClaimAttemptAgreement, NEW a \in Attempt,
           attempt[a].state \in Closed
    PROVE  /\ RepairedAttempts[a] = attempt[a]
           /\ \A t \in Task : RepairedClaims[t].attempt # a
<1>1. \A t \in Task : claim[t].attempt # a
  <2>1. ASSUME NEW t \in Task, claim[t].attempt = a
        PROVE  FALSE
    <3>1. claim[t] # NoClaim
      BY <2>1, ClaimedAttempt DEF Typed, TypeOK, Claims
    <3>2. attempt[claim[t].attempt] =
             [task |-> t, actor |-> claim[t].actor, state |-> "open"]
      BY <3>1 DEF ClaimAttemptAgreement
    <3> QED
      BY <2>1, <3>2 DEF Closed
  <2> QED
    BY <2>1
<1>2. \A t \in expired : t \in Task
  BY DEF Typed, TypeOK
<1>3. a # NoAttempt
  BY ConstantsTyped
<1> QED
  BY <1>1, <1>2, <1>3 DEF RepairedAttempts, RepairedClaims, NoClaim

\* The steps that touch no status, completion or acceptance, and of the
\* attempts only what repairing leases does.
LEMMA RepairPreserves ==
    ASSUME Typed, ClaimAttemptAgreement,
           UNCHANGED <<status, acceptance, completion>>,
           attempt' = attempt \/ attempt' = RepairedAttempts,
           runs \subseteq runs', evidence \subseteq evidence'
    PROVE  Preserved /\ OnlyCompleteCompletes
BY ClosedAttemptKept DEF Preserved, OnlyCompleteCompletes

\* Ending a claim of the repaired ledger leaves the closed attempts alone.
LEMMA CloseKeepsClosed ==
    ASSUME Typed, ClaimAttemptAgreement, NEW t \in Task, NEW reason
    PROVE  \A a \in Attempt : attempt[a].state \in Closed =>
              Close(RepairedAttempts, RepairedClaims[t].attempt, reason)[a]
                  = attempt[a]
<1>1. RepairedAttempts \in [Attempt -> AttemptRecord]
  BY RepairTyped DEF Typed
<1>2. SUFFICES ASSUME NEW a \in Attempt, attempt[a].state \in Closed
               PROVE  Close(RepairedAttempts, RepairedClaims[t].attempt, reason)[a]
                          = attempt[a]
  OBVIOUS
<1>3. RepairedAttempts[a] = attempt[a] /\ RepairedClaims[t].attempt # a
  BY <1>2, ClosedAttemptKept
<1> QED
  BY <1>1, <1>3 DEF Close

\* Completing a task leaves what is closed alone, and is what completes it.
LEMMA CompletePreserves ==
    ASSUME Typed, ClaimAttemptAgreement, NEW s \in Session,
           session[s].phase # "idle", session[s].task \in Task,
           NEW cited \in SUBSET evidence', Complete(s, cited),
           runs \subseteq runs', evidence \subseteq evidence'
    PROVE  Preserved /\ OnlyCompleteCompletes
<1> DEFINE t == session[s].task
<1>1. /\ status[t] = "open" /\ Owns(s, t, RepairedClaims)
      /\ status' = [status EXCEPT ![t] = "completed"]
      /\ attempt' = Close(RepairedAttempts, OwnAttempt(s, t, RepairedClaims),
                          "task_completed")
      /\ \A u \in Task : u # t => completion'[u] = completion[u]
      /\ acceptance' = acceptance
  BY DEF Complete, GuardStillHolds, CompletionGuard, Open, Typed, TypeOK
<1>2. OwnAttempt(s, t, RepairedClaims) = RepairedClaims[t].attempt
  BY <1>1, RepairTyped, OwnedAttempt DEF Typed
<1>3. \A a \in Attempt : attempt[a].state \in Closed => attempt'[a] = attempt[a]
  BY <1>1, <1>2, CloseKeepsClosed
<1>4. \A u \in Task : u # t => status'[u] = status[u]
  BY <1>1 DEF Typed, TypeOK
<1>5. CompletedBy(s, t)
  BY DEF CompletedBy
<1> HIDE DEF t
<1>6. Preserved
  BY <1>1, <1>3, <1>4 DEF Preserved, Terminal
<1>7. OnlyCompleteCompletes
  BY <1>4, <1>5 DEF OnlyCompleteCompletes
<1> QED
  BY <1>6, <1>7

\* A process about to commit has run checks, not a probe, and all passed; only
\* on a task with a boundary can they have strayed.
CommitPassed ==
    \A s \in Session : session[s].phase = "commit" =>
        /\ session[s].passed = session[s].acc
        /\ session[s].cmd # "probe"
        /\ session[s].strays # {} => session[s].task \in Bounded

LEMMA CommitPassedStep ==
    ASSUME Typed, CommitPassed, [Next]_vars
    PROVE  CommitPassed'
<1>1. session \in [Session -> Work]
  BY DEF Typed, TypeOK
<1>2. ASSUME NEW s \in Session, session' = [session EXCEPT ![s] = Idle]
      PROVE  CommitPassed'
  BY <1>1, <1>2 DEF CommitPassed, Idle
<1>3. ASSUME NEW s \in Session, NEW phase \in {"shell", "guarded"}, NEW cmd,
             NEW t, NEW a, NEW acc, Start(s, phase, cmd, t, a, acc)
      PROVE  CommitPassed'
  BY <1>1, <1>3 DEF CommitPassed, Start
<1>4. ASSUME UNCHANGED session
      PROVE  CommitPassed'
  BY <1>4 DEF CommitPassed
<1>5. ASSUME NEW s \in Session, Command(s)
      PROVE  CommitPassed'
  BY <1>3, <1>4, <1>5
  DEF Command, Take, Release, Cancel, RecordNote, RecordRunSet, RecordEvidence,
      BeginRunAcceptance, BeginDone, BeginCitingDone, BeginGuarded, BeginProbe
<1>6. ASSUME NEW s \in Session, NEW passed, NEW strays, NEW artifactError,
             FinishShell(s, passed, strays, artifactError)
      PROVE  CommitPassed'
  BY <1>1, <1>6 DEF FinishShell, CommitPassed, Work
<1>7. ASSUME NEW s \in Session, NEW drifted, RefuseCommit(s, drifted)
      PROVE  CommitPassed'
  BY <1>1, <1>7 DEF RefuseCommit, CommitPassed, Work
<1>8. ASSUME NEW s \in Session, Continue(s)
      PROVE  CommitPassed'
  BY <1>2, <1>6, <1>7, <1>8
  DEF Continue, RecordScriptRunsOnly, CommitRunSet, CommitDone, RejectCommit,
      CiteAndComplete, RefuseCitation, Complete
<1>9. ASSUME NEW s \in Session, Renew(s) \/ Kill(s)
      PROVE  CommitPassed'
  BY <1>2, <1>4, <1>9 DEF Renew, Kill
<1>10. ASSUME NEW t \in Task, NEW acc, AddTask(t, acc) \/ ReviseAcceptance(t, acc)
       PROVE  CommitPassed'
  BY <1>4, <1>10 DEF AddTask, ReviseAcceptance
<1>11. ASSUME NEW t \in Task, Hold(t) \/ ClearHold(t) \/ Expire(t)
       PROVE  CommitPassed'
  BY <1>4, <1>11 DEF Hold, ClearHold, Expire
<1>12. ASSUME RepairAndRefuse \/ UNCHANGED vars
       PROVE  CommitPassed'
  BY <1>4, <1>12 DEF RepairAndRefuse, vars
<1> QED
  BY <1>5, <1>8, <1>9, <1>10, <1>11, <1>12 DEF Next

-----------------------------------------------------------------------------
(* What a step adds *)

\* RunSetsWitnessed of one run set, over given facts.
Witnessed(e, facts) ==
    /\ e.attempt \in Attempt
    /\ {r.check : r \in e.runs} = e.acc
    /\ \A r \in e.runs : /\ r \in facts /\ r.ok
                         /\ r.attempt = e.attempt /\ r.under = e.attempt

\* New evidence cites recorded facts, and a run set cst built is witnessed.
EvidenceAdded ==
    \A e \in evidence' : e \notin evidence =>
        /\ e.runs \subseteq runs'
        /\ e.kind = "run_set" /\ e.by = "cst" => Witnessed(e, runs')

\* The run set of a process whose guard still holds is witnessed: the attempt
\* it is filed under is the one its commands executed under.
LEMMA CommittedRunSetWitnessed ==
    ASSUME Typed, CommitPassed, NEW s \in Session, session[s].phase = "commit",
           GuardStillHolds(s, RepairedClaims)
    PROVE  /\ RunSet(s).runs \subseteq runs' => Witnessed(RunSet(s), runs')
           /\ session[s].task \in Task
<1> DEFINE w == session[s]
           a == OwnAttempt(s, w.task, RepairedClaims)
<1>1. w.task \in Task /\ RepairedClaims \in Claims
  BY RepairTyped DEF Typed, BusyOnTask
<1>2. /\ Owns(s, w.task, RepairedClaims)
      /\ RepairedClaims[w.task].attempt = w.attempt
  BY DEF GuardStillHolds, CompletionGuard
<1>3. a \in Attempt /\ a = w.attempt
  BY <1>1, <1>2, OwnedAttempt
<1>4. w.passed = w.acc /\ w.cmd # "probe"
  BY DEF CommitPassed
<1>5. /\ RunSet(s).attempt = a /\ RunSet(s).acc = w.acc
      /\ RunSet(s).runs = Facts(s, a)
  BY DEF RunSet
<1> HIDE DEF a
<1>6. /\ {r.check : r \in Facts(s, a)} = w.acc
      /\ \A r \in Facts(s, a) : r.ok /\ r.attempt = a /\ r.under = w.attempt
  <2> DEFINE fact(c) ==
          [task |-> w.task, attempt |-> a, under |-> w.attempt,
           trigger |-> "acceptance", check |-> c, ok |-> c \in w.passed,
           strays |-> {l \in Limit : <<l, c>> \in w.strays}]
  <2>1. Facts(s, a) = {fact(c) : c \in w.acc}
    BY <1>4 DEF Facts
  <2>2. \A c \in w.acc : /\ fact(c).check = c /\ fact(c).ok
                         /\ fact(c).attempt = a /\ fact(c).under = w.attempt
    BY <1>4
  <2> HIDE DEF fact
  <2> QED
    BY <2>1, <2>2
<1> QED
  BY <1>1, <1>3, <1>5, <1>6 DEF Witnessed

StepFacts == Preserved /\ OnlyCompleteCompletes /\ EvidenceAdded

\* Every step preserves what is closed and adds sound evidence.
LEMMA StepSound ==
    ASSUME Typed, ClaimAttemptAgreement, CommitPassed, [Next]_vars
    PROVE  StepFacts
<1>1. ASSUME UNCHANGED <<status, acceptance, completion, runs, evidence>>,
             attempt' = attempt \/ attempt' = RepairedAttempts
      PROVE  StepFacts
  BY <1>1, RepairPreserves DEF StepFacts, EvidenceAdded
<1>2. ASSUME NEW t \in Task, NEW acc, AddTask(t, acc)
      PROVE  StepFacts
  BY <1>2 DEF AddTask, StepFacts, Preserved, OnlyCompleteCompletes,
              EvidenceAdded, Terminal, Typed, TypeOK
<1>3. ASSUME NEW t \in Task, NEW acc, ReviseAcceptance(t, acc)
      PROVE  StepFacts
  <2>1. Preserved
    BY <1>3, ClosedAttemptKept
    DEF ReviseAcceptance, Repair, Preserved, Terminal, Open, Typed, TypeOK
  <2> QED
    BY <1>3, <2>1
    DEF ReviseAcceptance, StepFacts, OnlyCompleteCompletes, EvidenceAdded
<1>4. ASSUME NEW s \in Session, NEW t \in Task, NEW a \in Attempt, Take(s, t, a)
      PROVE  StepFacts
  <2>1. attempt[a].state \notin Closed
    BY <1>4 DEF Take, Unborn, Closed
  <2>2. \A b \in Attempt : attempt[b].state \in Closed => attempt'[b] = attempt[b]
    BY <1>4, <2>1, RepairTyped, ClosedAttemptKept DEF Take, Typed
  <2> QED
    BY <1>4, <2>2
    DEF Take, StepFacts, Preserved, OnlyCompleteCompletes, EvidenceAdded
<1>5. ASSUME NEW s \in Session, NEW t \in Task, Release(s, t)
      PROVE  StepFacts
  BY <1>5, CloseKeepsClosed
  DEF Release, StepFacts, Preserved, OnlyCompleteCompletes, EvidenceAdded
<1>6. ASSUME NEW s \in Session, NEW t \in Task, Cancel(s, t)
      PROVE  StepFacts
  <2>1. Preserved
    BY <1>6, CloseKeepsClosed DEF Cancel, Preserved, Terminal, Open, Typed, TypeOK
  <2>2. \A u \in Task : status'[u] = "completed" => status[u] = "completed"
    BY <1>6 DEF Cancel, Typed, TypeOK
  <2> QED
    BY <1>6, <2>1, <2>2
    DEF Cancel, StepFacts, OnlyCompleteCompletes, EvidenceAdded
<1>7. ASSUME NEW t \in Task, Hold(t) \/ ClearHold(t) \/ Expire(t)
      PROVE  StepFacts
  BY <1>1, <1>7 DEF Hold, ClearHold, Expire, Repair
<1>8. ASSUME NEW s \in Session, NEW t \in Task, NEW e, RecordEvidence(s, t, e),
             e.runs \subseteq runs, e.kind = "run_set" => e.by = "user"
      PROVE  StepFacts
  <2>1. Preserved /\ OnlyCompleteCompletes
    BY <1>8, RepairPreserves DEF RecordEvidence, Repair
  <2> QED
    BY <1>8, <2>1 DEF RecordEvidence, StepFacts, EvidenceAdded
<1>9. ASSUME NEW s \in Session, NEW t \in Task, RecordNote(s, t)
      PROVE  StepFacts
  <2>1. PICK kind \in Reviewing \cup {"commit"} :
           RecordEvidence(s, t, Record(t, OwnAttempt(s, t, RepairedClaims), kind))
    BY <1>9 DEF RecordNote
  <2> QED
    BY <1>8, <2>1 DEF Record, Reviewing
<1>10. ASSUME NEW s \in Session, NEW t \in Task, RecordRunSet(s, t)
       PROVE  StepFacts
  BY <1>8, <1>10 DEF RecordRunSet
<1>11. ASSUME NEW s \in Session, NEW t \in Task, NEW c \in Check,
              BeginProbe(s, t, c)
       PROVE  StepFacts
  BY <1>1, <1>11 DEF BeginProbe, Repair
<1>12. ASSUME NEW s \in Session, NEW t \in Task, NEW cmd, NEW phase,
              BeginGuarded(s, t, cmd, phase)
       PROVE  StepFacts
  BY <1>1, <1>12 DEF BeginGuarded
<1>13. ASSUME NEW s \in Session, Command(s)
       PROVE  StepFacts
  BY <1>4, <1>5, <1>6, <1>9, <1>10, <1>11, <1>12, <1>13
  DEF Command, BeginRunAcceptance, BeginDone, BeginCitingDone
<1>14. ASSUME NEW s \in Session, NEW passed, NEW strays, NEW artifactError,
              FinishShell(s, passed, strays, artifactError)
       PROVE  StepFacts
  BY <1>1, <1>14 DEF FinishShell, ledger
<1>15. ASSUME NEW s \in Session, RecordScriptRunsOnly(s)
       PROVE  StepFacts
  BY <1>15, RepairPreserves DEF RecordScriptRunsOnly, StepFacts, EvidenceAdded
<1>16. ASSUME NEW s \in Session, CommitRunSet(s)
       PROVE  StepFacts
  <2>1. Preserved /\ OnlyCompleteCompletes
    BY <1>16, RepairPreserves DEF CommitRunSet, Repair
  <2>2. RunSet(s).runs \subseteq runs' /\ Witnessed(RunSet(s), runs')
    BY <1>16, CommittedRunSetWitnessed DEF CommitRunSet
  <2> QED
    BY <1>16, <2>1, <2>2 DEF CommitRunSet, StepFacts, EvidenceAdded
<1>17. ASSUME NEW s \in Session, NEW sha, CommitDone(s, sha)
       PROVE  StepFacts
  <2> DEFINE new == {RunSet(s)} \cup CommitRecords(s, sha)
  <2>1. /\ session[s].phase = "commit"
        /\ runs' = runs \cup RunSet(s).runs
        /\ evidence' = evidence \cup new
        /\ Complete(s, new)
    BY <1>17 DEF CommitDone
  <2>2. RunSet(s).runs \subseteq runs' /\ Witnessed(RunSet(s), runs')
    BY <2>1, CommittedRunSetWitnessed DEF Complete
  <2>3. \A e \in CommitRecords(s, sha) : e.runs = {} /\ e.kind # "run_set"
    BY DEF CommitRecords, Record
  <2>4. EvidenceAdded
    BY <2>1, <2>2, <2>3 DEF EvidenceAdded
  <2>5. session[s].task \in Task /\ session[s].phase # "idle"
    BY <2>1 DEF Typed, BusyOnTask
  <2> HIDE DEF new
  <2>6. Preserved /\ OnlyCompleteCompletes
    BY <2>1, <2>5, CompletePreserves
  <2> QED
    BY <2>4, <2>6 DEF StepFacts
<1>18. ASSUME NEW s \in Session, NEW drifted, RefuseCommit(s, drifted)
       PROVE  StepFacts
  BY <1>1, <1>18 DEF RefuseCommit, Repair
<1>19. ASSUME NEW s \in Session, RejectCommit(s) \/ RefuseCitation(s)
       PROVE  StepFacts
  BY <1>1, <1>19 DEF RejectCommit, RefuseCitation, Repair
<1>20. ASSUME NEW s \in Session, NEW cited \in SUBSET evidence,
              NEW note, NEW sha, CiteAndComplete(s, cited, note, sha)
       PROVE  StepFacts
  <2>1. PICK new \in SUBSET Evidence :
           /\ session[s].task \in Task
           /\ evidence' = evidence \cup new
           /\ \A e \in new : e.runs = {} /\ e.kind # "run_set"
           /\ cited \cup new \in SUBSET Evidence
           /\ Complete(s, cited \cup new)
    BY <1>20, CitedTyped DEF Typed
  <2>2. session[s].phase # "idle" /\ UNCHANGED runs
    BY <1>20 DEF CiteAndComplete
  <2>3. cited \cup new \in SUBSET evidence'
    BY <2>1
  <2>4. Preserved /\ OnlyCompleteCompletes
    BY <2>1, <2>2, <2>3, CompletePreserves
  <2> QED
    BY <2>1, <2>4 DEF StepFacts, EvidenceAdded
<1>21. ASSUME NEW s \in Session, Continue(s)
       PROVE  StepFacts
  BY <1>14, <1>15, <1>16, <1>17, <1>18, <1>19, <1>20, <1>21 DEF Continue
<1>22. ASSUME NEW s \in Session, Renew(s) \/ Kill(s)
       PROVE  StepFacts
  BY <1>1, <1>22 DEF Renew, Kill, ledger
<1>23. ASSUME RepairAndRefuse \/ UNCHANGED vars
       PROVE  StepFacts
  BY <1>1, <1>23 DEF RepairAndRefuse, Repair, vars, ledger
<1> QED
  BY <1>2, <1>3, <1>7, <1>13, <1>21, <1>22, <1>23 DEF Next

-----------------------------------------------------------------------------
(* Run sets and completions *)

\* Evidence never cites a fact that is not in the log.
CitedRunsRecorded == \A e \in evidence : e.runs \subseteq runs

LEMMA CitedRunsStep ==
    ASSUME CitedRunsRecorded, StepFacts
    PROVE  CitedRunsRecorded'
BY DEF CitedRunsRecorded, StepFacts, Preserved, EvidenceAdded

LEMMA WitnessedStep ==
    ASSUME RunSetsWitnessed, StepFacts
    PROVE  RunSetsWitnessed'
<1>1. ASSUME NEW e \in evidence', e.kind = "run_set", e.by = "cst"
      PROVE  Witnessed(e, runs')
  <2>1. CASE e \in evidence
    BY <1>1, <2>1 DEF RunSetsWitnessed, Witnessed, StepFacts, Preserved
  <2>2. CASE e \notin evidence
    BY <1>1, <2>2 DEF StepFacts, EvidenceAdded
  <2> QED
    BY <2>1, <2>2
<1> QED
  BY <1>1 DEF RunSetsWitnessed, Witnessed

\* CompletionJustified of one task.
Justified(t) ==
    LET c == completion[t] IN
    /\ c.attempt \in Attempt
    /\ attempt[c.attempt] =
          [task |-> t, actor |-> c.actor, state |-> "task_completed"]
    /\ \A e \in c.evidence :
          e \in evidence /\ e.task = t /\ e.attempt = c.attempt
    /\ IF acceptance[t] = {}
       THEN \E e \in c.evidence : e.kind \in Reviewing
       ELSE \E e \in c.evidence :
               /\ e.kind = "run_set"
               /\ \A chk \in acceptance[t] : \E r \in runs :
                     /\ r \in e.runs
                     /\ r.check = chk /\ r.ok /\ r.trigger = "acceptance"
                     /\ r.task = t /\ r.attempt = c.attempt
                     /\ "declared" \notin r.strays
                     /\ (\E f \in c.evidence : f.kind = "boundary")
                           => "cited" \notin r.strays

\* The completion that Complete records is justified by what it was given.
LEMMA CompletionIsJustified ==
    ASSUME Typed, ClaimAttemptAgreement, CitedRunsRecorded', NEW s \in Session,
           session[s].phase # "idle", NEW cited \in SUBSET evidence',
           Complete(s, cited), NEW t, t = session[s].task
    PROVE  Justified(t)'
<1> DEFINE a == RepairedClaims[t].attempt
<1>1. t \in Task
  BY DEF Typed, BusyOnTask
<1>2. /\ RepairedClaims \in Claims
      /\ RepairedAttempts \in [Attempt -> AttemptRecord]
  BY RepairTyped DEF Typed
<1>3. Owns(s, t, RepairedClaims)
  BY DEF Complete, GuardStillHolds, CompletionGuard
<1>4. /\ a \in Attempt /\ OwnAttempt(s, t, RepairedClaims) = a
      /\ RepairedClaims[t].actor = ActorOf[s] /\ RepairedClaims[t] # NoClaim
  BY <1>1, <1>2, <1>3, OwnedAttempt DEF Owns
<1>5. RepairedAttempts[a] = [task |-> t, actor |-> ActorOf[s], state |-> "open"]
  BY <1>1, <1>4, RepairAgrees DEF Agree
<1>6. attempt'[a] = [task |-> t, actor |-> ActorOf[s], state |-> "task_completed"]
  <2>1. attempt' = Close(RepairedAttempts, a, "task_completed")
    BY <1>4 DEF Complete
  <2> HIDE DEF a
  <2> QED
    BY <1>2, <1>4, <1>5, <2>1 DEF Close
<1>7. completion'[t] = [actor |-> ActorOf[s], attempt |-> a, evidence |-> cited]
  BY <1>1, <1>4 DEF Complete, Typed, TypeOK
<1>8. /\ ReducerAccepts(t, a, cited)
      /\ acceptance' = acceptance
  BY <1>4 DEF Complete
<1>9. \A e \in cited : e \in evidence' /\ e.task = t /\ e.attempt = a
  BY <1>8 DEF ReducerAccepts
<1>10. CASE acceptance[t] = {}
  <2>1. \E e \in cited : e.kind \in Reviewing
    BY <1>8, <1>10 DEF ReducerAccepts
  <2> HIDE DEF a
  <2> QED
    BY <1>4, <1>6, <1>7, <1>8, <1>9, <1>10, <2>1 DEF Justified
<1>11. CASE acceptance[t] # {}
  <2>1. PICK e \in cited : /\ e.kind = "run_set" /\ RunSetProves(e, t, a)
                           /\ WithinBoundary(e, cited)
    BY <1>8, <1>11 DEF ReducerAccepts
  <2>2. e.runs \subseteq runs'
    BY <2>1 DEF CitedRunsRecorded
  <2> DEFINE kept(r) == /\ "declared" \notin r.strays
                        /\ (\E f \in cited : f.kind = "boundary")
                              => "cited" \notin r.strays
  <2>3. \A chk \in acceptance[t] : \E r \in e.runs :
           /\ r.check = chk /\ r.ok /\ r.trigger = "acceptance"
           /\ r.task = t /\ r.attempt = a /\ kept(r)
    <3>1. /\ {r.check : r \in e.runs} = acceptance[t]
          /\ \A r \in e.runs : /\ r.task = t /\ r.attempt = a
                               /\ r.trigger = "acceptance" /\ r.ok
          /\ \A r \in e.runs : kept(r)
      BY <2>1 DEF RunSetProves, WithinBoundary
    <3> QED
      BY <3>1
  <2> HIDE DEF a, kept
  <2>4. \A chk \in acceptance'[t] : \E r \in runs' :
           /\ r \in e.runs
           /\ r.check = chk /\ r.ok /\ r.trigger = "acceptance"
           /\ r.task = t /\ r.attempt = completion'[t].attempt /\ kept(r)
    BY <1>7, <1>8, <2>2, <2>3
  <2>5. \E f \in completion'[t].evidence :
           /\ f.kind = "run_set"
           /\ \A chk \in acceptance'[t] : \E r \in runs' :
                 /\ r \in f.runs
                 /\ r.check = chk /\ r.ok /\ r.trigger = "acceptance"
                 /\ r.task = t /\ r.attempt = completion'[t].attempt
                 /\ "declared" \notin r.strays
                 /\ (\E g \in completion'[t].evidence : g.kind = "boundary")
                       => "cited" \notin r.strays
    BY <1>7, <2>1, <2>4 DEF kept
  <2> QED
    BY <1>4, <1>6, <1>7, <1>8, <1>9, <1>11, <2>5 DEF Justified
<1> QED
  BY <1>10, <1>11

\* What justified a completion stays.
LEMMA JustifiedStays ==
    ASSUME StepFacts, NEW t \in Task, Terminal(t), Justified(t)
    PROVE  Justified(t)'
<1> DEFINE c == completion[t]
<1>1. /\ completion'[t] = c /\ acceptance'[t] = acceptance[t]
      /\ runs \subseteq runs' /\ evidence \subseteq evidence'
  BY DEF StepFacts, Preserved
<1>2. attempt'[c.attempt] = attempt[c.attempt]
  <2>1. attempt[c.attempt].state = "task_completed" /\ c.attempt \in Attempt
    BY DEF Justified
  <2> QED
    BY <2>1 DEF StepFacts, Preserved, Closed
<1> QED
  BY <1>1, <1>2 DEF Justified

LEMMA JustifiedStep ==
    ASSUME Typed, ClaimAttemptAgreement, CompletionJustified, StepFacts,
           CitedRunsRecorded'
    PROVE  CompletionJustified'
<1>1. ASSUME NEW t \in Task, status'[t] = "completed"
      PROVE  Justified(t)'
  <2>1. CASE status[t] = "completed"
    <3>1. Justified(t) /\ Terminal(t)
      BY <2>1 DEF CompletionJustified, Justified, Terminal
    <3> QED
      BY <3>1, JustifiedStays
  <2>2. CASE status[t] # "completed"
    <3>1. PICK s \in Session : CompletedBy(s, t)
      BY <1>1, <2>2 DEF StepFacts, OnlyCompleteCompletes
    <3> QED
      BY <3>1, CompletionIsJustified DEF CompletedBy
  <2> QED
    BY <2>1, <2>2
<1> QED
  BY <1>1 DEF CompletionJustified, Justified

-----------------------------------------------------------------------------
(* The tree *)

LEMMA SettledStep ==
    ASSUME Typed, ClosedTasksSettled, StepFacts, [Next]_vars
    PROVE  ClosedTasksSettled'
<1>1. \A t \in Task : Terminal(t) => status'[t] = status[t]
  BY DEF StepFacts, Preserved
<1>2. ASSUME NEW t \in Task, status'[t] = "completed"
      PROVE  PrereqsDone(t)'
  <2>1. PrereqsDone(t)
    <3>1. CASE status[t] = "completed"
      BY <3>1 DEF ClosedTasksSettled
    <3>2. CASE status[t] # "completed"
      <4>1. PICK s \in Session : CompletedBy(s, t)
        BY <1>2, <3>2 DEF StepFacts, OnlyCompleteCompletes
      <4> QED
        BY <4>1 DEF CompletedBy, Complete, GuardStillHolds, CompletionGuard
    <3> QED
      BY <3>1, <3>2
  <2>2. \A p \in After[t] : p \in Task
    BY ConstantsTyped
  <2> QED
    BY <1>1, <2>1, <2>2 DEF PrereqsDone, Terminal
<1>3. ASSUME NEW t \in Task, Terminal(t)'
      PROVE  ~OpenChild(t)'
  <2>1. CASE status' = status
    BY <1>3, <2>1 DEF ClosedTasksSettled, Terminal, OpenChild, Open
  <2>2. ASSUME NEW u \in Task, NEW acc, AddTask(u, acc)
        PROVE  ~OpenChild(t)'
    <3>1. /\ Parent[u] # NoTask => Open(Parent[u])
          /\ status' = [status EXCEPT ![u] = "open"]
      BY <2>2 DEF AddTask
    <3>2. t # u /\ Terminal(t)
      BY <1>3, <3>1 DEF Terminal, Typed, TypeOK
    <3>3. Parent[u] # t
      BY <3>1, <3>2, ConstantsTyped DEF Terminal, Open
    <3> QED
      BY <3>1, <3>2, <3>3
      DEF ClosedTasksSettled, OpenChild, Open, Typed, TypeOK
  <2>3. ASSUME NEW u \in Task, NEW s \in Session, Cancel(s, u)
        PROVE  ~OpenChild(t)'
    BY <1>3, <2>3
    DEF Cancel, ClosedTasksSettled, OpenChild, Open, Terminal, Typed, TypeOK
  <2>4. ASSUME NEW s \in Session, NEW cited, session[s].phase # "idle",
               Complete(s, cited)
        PROVE  ~OpenChild(t)'
    <3> DEFINE u == session[s].task
    <3>1. /\ u \in Task /\ ~OpenChild(u)
          /\ status' = [status EXCEPT ![u] = "completed"]
      BY <2>4 DEF Complete, GuardStillHolds, CompletionGuard, Typed, BusyOnTask
    <3> HIDE DEF u
    <3> QED
      BY <1>3, <3>1
      DEF ClosedTasksSettled, OpenChild, Open, Terminal, Typed, TypeOK
  <2>5. ASSUME NEW s \in Session, Command(s)
        PROVE  ~OpenChild(t)'
    BY <2>1, <2>3, <2>5
    DEF Command, Take, Release, RecordNote, RecordRunSet, RecordEvidence,
        BeginRunAcceptance, BeginDone, BeginCitingDone, BeginGuarded, BeginProbe
  <2>6. ASSUME NEW s \in Session, Continue(s)
        PROVE  ~OpenChild(t)'
    BY <2>1, <2>4, <2>6
    DEF Continue, FinishShell, RecordScriptRunsOnly, CommitRunSet, CommitDone,
        RefuseCommit, RejectCommit, CiteAndComplete, RefuseCitation, ledger
  <2>7. CASE \E s \in Session : Renew(s) \/ Kill(s)
    BY <2>1, <2>7 DEF Renew, Kill, ledger
  <2>8. CASE \E u \in Task, acc \in SUBSET Check :
                AddTask(u, acc) \/ ReviseAcceptance(u, acc)
    BY <2>1, <2>2, <2>8 DEF ReviseAcceptance
  <2>9. CASE \/ \E u \in Task : Hold(u) \/ ClearHold(u) \/ Expire(u)
             \/ RepairAndRefuse \/ UNCHANGED vars
    BY <2>1, <2>9 DEF Hold, ClearHold, Expire, RepairAndRefuse, vars, ledger
  <2> QED
    BY <2>5, <2>6, <2>7, <2>8, <2>9 DEF Next
<1> QED
  BY <1>2, <1>3 DEF ClosedTasksSettled

-----------------------------------------------------------------------------
(* The invariant, and what follows from it *)

IInv ==
    /\ Typed
    /\ ClaimAttemptAgreement
    /\ CommitPassed
    /\ CitedRunsRecorded
    /\ RunSetsWitnessed
    /\ CompletionJustified
    /\ ClosedTasksSettled

LEMMA IInvInductive == Spec => []IInv
<1>1. Init => IInv
  <2>1. Init => Typed
    BY InitTyped
  <2>2. Init => ClaimAttemptAgreement /\ CommitPassed
    BY DEF Init, ClaimAttemptAgreement, Unborn, CommitPassed, Idle
  <2>3. Init => CitedRunsRecorded /\ RunSetsWitnessed
    BY DEF Init, CitedRunsRecorded, RunSetsWitnessed
  <2>4. Init => CompletionJustified /\ ClosedTasksSettled
    BY DEF Init, CompletionJustified, ClosedTasksSettled, Terminal, OpenChild, Open
  <2> QED
    BY <2>1, <2>2, <2>3, <2>4 DEF IInv
<1>2. IInv /\ [Next]_vars => IInv'
  <2> SUFFICES ASSUME IInv, [Next]_vars
               PROVE  IInv'
    OBVIOUS
  <2>1. Typed' /\ ClaimAttemptAgreement' /\ CommitPassed'
    BY TypedStep, AgreementStep, CommitPassedStep DEF IInv
  <2>2. StepFacts
    BY StepSound DEF IInv
  <2>3. CitedRunsRecorded' /\ RunSetsWitnessed'
    BY <2>2, CitedRunsStep, WitnessedStep DEF IInv
  <2>4. CompletionJustified' /\ ClosedTasksSettled'
    BY <2>2, <2>3, JustifiedStep, SettledStep DEF IInv
  <2> QED
    BY <2>1, <2>3, <2>4 DEF IInv
<1> QED
  BY <1>1, <1>2, PTL DEF Spec

\* A task is completed by the attempt that owned it, on recorded evidence of
\* that attempt that proves the acceptance in force.
THEOREM CompletionsJustified == Spec => []CompletionJustified
<1>1. IInv => CompletionJustified
  BY DEF IInv
<1> QED
  BY <1>1, IInvInductive, PTL

\* A run set that cst built stands for commands that passed while its attempt
\* held the task.
THEOREM RunSetsAreWitnessed == Spec => []RunSetsWitnessed
<1>1. IInv => RunSetsWitnessed
  BY DEF IInv
<1> QED
  BY <1>1, IInvInductive, PTL

\* A closed task has no open child, and a completed one no open prerequisite.
THEOREM ClosedTasksAreSettled == Spec => []ClosedTasksSettled
<1>1. IInv => ClosedTasksSettled
  BY DEF IInv
<1> QED
  BY <1>1, IInvInductive, PTL

\* What is completed or canceled stays exactly as it is.
THEOREM TerminalTasksAreFinal == Spec => TerminalIsFinal
<1>1. IInv /\ IInv' /\ [Next]_vars =>
         [\A t \in Task : Terminal(t) =>
             /\ status'[t] = status[t]
             /\ completion'[t] = completion[t]
             /\ acceptance'[t] = acceptance[t]
             /\ claim'[t] = NoClaim]_vars
  <2> SUFFICES ASSUME IInv, IInv', [Next]_vars, NEW t \in Task, Terminal(t)
               PROVE  /\ status'[t] = status[t]
                      /\ completion'[t] = completion[t]
                      /\ acceptance'[t] = acceptance[t]
                      /\ claim'[t] = NoClaim
    OBVIOUS
  <2>1. /\ status'[t] = status[t] /\ completion'[t] = completion[t]
        /\ acceptance'[t] = acceptance[t]
    BY StepSound DEF IInv, StepFacts, Preserved
  <2>2. claim'[t] = NoClaim
    BY <2>1 DEF IInv, ClaimAttemptAgreement, Open, Terminal
  <2> QED
    BY <2>1, <2>2
<1> QED
  BY <1>1, IInvInductive, PTL DEF Spec, TerminalIsFinal

\* A command completes the attempt and the acceptance it captured when it
\* started, not ones that replaced them since.
THEOREM CompletionsAreGuarded == Spec => GuardedCompletion
<1>1. IInv /\ [Next]_vars =>
         [\A s \in Session, t \in Task :
             /\ session[s] # Idle /\ session'[s] = Idle
             /\ status[t] = "open" /\ status'[t] = "completed"
             => /\ session[s].task = t
                /\ session[s].acc = acceptance[t]
                /\ completion'[t].attempt = session[s].attempt
                /\ completion'[t].actor = ActorOf[s]]_vars
  <2> SUFFICES ASSUME IInv, [Next]_vars, NEW s \in Session, NEW t \in Task,
                      session[s] # Idle, session'[s] = Idle,
                      status[t] = "open", status'[t] = "completed"
               PROVE  /\ session[s].task = t
                      /\ session[s].acc = acceptance[t]
                      /\ completion'[t].attempt = session[s].attempt
                      /\ completion'[t].actor = ActorOf[s]
    OBVIOUS
  <2>1. PICK u \in Session : CompletedBy(u, t)
    BY StepSound DEF IInv, StepFacts, OnlyCompleteCompletes
  <2>2. PICK cited \in SUBSET evidence' : Complete(u, cited)
    BY <2>1 DEF CompletedBy
  <2>3. u = s
    BY <2>2 DEF Complete, IInv, Typed, TypeOK
  <2>4. session[s].task = t /\ GuardStillHolds(s, RepairedClaims)
    BY <2>1, <2>2, <2>3 DEF CompletedBy, Complete
  <2>5. /\ Owns(s, t, RepairedClaims)
        /\ RepairedClaims[t].attempt = session[s].attempt
        /\ session[s].acc = acceptance[t]
    BY <2>4 DEF GuardStillHolds, CompletionGuard
  <2>6. OwnAttempt(s, t, RepairedClaims) = session[s].attempt
    BY <2>5 DEF OwnAttempt
  <2>7. completion'[t] = [actor |-> ActorOf[s], attempt |-> session[s].attempt,
                          evidence |-> cited]
    BY <2>2, <2>3, <2>4, <2>6 DEF Complete, IInv, Typed, TypeOK
  <2> QED
    BY <2>4, <2>5, <2>7
<1> QED
  BY <1>1, IInvInductive, PTL DEF Spec, GuardedCompletion

-----------------------------------------------------------------------------
(* Leases *)

\* LeasesRespected of one step.
LeaseStep ==
    \A a \in Attempt :
        attempt[a].state = "open" /\ attempt'[a].state # "open" =>
            (attempt'[a].state = "claim_abandoned"
                <=> attempt[a].task \in expired)

\* Repairing leases abandons the open attempts whose lease expired, no other.
LEMMA RepairAbandonsExpired ==
    ASSUME Typed, ClaimAttemptAgreement, NEW a \in Attempt,
           attempt[a].state = "open"
    PROVE  IF attempt[a].task \in expired
           THEN RepairedAttempts[a].state = "claim_abandoned"
           ELSE RepairedAttempts[a] = attempt[a]
<1>1. attempt[a] \in AttemptRecord /\ expired \subseteq Task
  BY DEF Typed, TypeOK
<1>2. attempt[a].task \in Task /\ claim[attempt[a].task].attempt = a
  BY DEF ClaimAttemptAgreement
<1>3. CASE attempt[a].task \in expired
  BY <1>1, <1>2, <1>3 DEF RepairedAttempts, AttemptRecord
<1>4. CASE attempt[a].task \notin expired
  <2>1. ASSUME NEW t \in expired, claim[t].attempt = a
        PROVE  FALSE
    <3>1. t \in Task /\ claim[t] # NoClaim
      BY <1>1 DEF ClaimAttemptAgreement
    <3>2. attempt[claim[t].attempt] =
             [task |-> t, actor |-> claim[t].actor, state |-> "open"]
      BY <3>1 DEF ClaimAttemptAgreement
    <3>3. attempt[a].task = t
      BY <2>1, <3>2
    <3> QED
      BY <1>4, <3>3
  <2> QED
    BY <1>4, <2>1 DEF RepairedAttempts
<1> QED
  BY <1>3, <1>4

LEMMA RepairLease ==
    ASSUME Typed, ClaimAttemptAgreement,
           attempt' = attempt \/ attempt' = RepairedAttempts
    PROVE  LeaseStep
BY RepairAbandonsExpired DEF LeaseStep

\* Ending a claim of the repaired ledger ends an attempt that had not expired.
LEMMA CloseLease ==
    ASSUME Typed, ClaimAttemptAgreement, NEW t \in Task,
           NEW reason, reason # "claim_abandoned",
           attempt' = Close(RepairedAttempts, RepairedClaims[t].attempt, reason)
    PROVE  LeaseStep
<1> SUFFICES ASSUME NEW a \in Attempt,
                    attempt[a].state = "open", attempt'[a].state # "open"
             PROVE  attempt'[a].state = "claim_abandoned"
                       <=> attempt[a].task \in expired
  BY DEF LeaseStep
<1>1. RepairedAttempts \in [Attempt -> AttemptRecord]
  BY RepairTyped DEF Typed
<1>2. CASE RepairedClaims[t].attempt = a
  <2>1. RepairedClaims[t] # NoClaim
    BY <1>2, RepairTyped, ClaimedAttempt DEF Typed
  <2>2. t \notin expired /\ claim[t].attempt = a /\ claim[t] # NoClaim
    BY <1>2, <2>1 DEF RepairedClaims
  <2>3. attempt[claim[t].attempt] =
           [task |-> t, actor |-> claim[t].actor, state |-> "open"]
    BY <2>2 DEF ClaimAttemptAgreement
  <2>4. attempt[a].task = t
    BY <2>2, <2>3
  <2>5. attempt'[a].state = reason
    BY <1>1, <1>2 DEF Close, AttemptRecord
  <2> QED
    BY <2>2, <2>4, <2>5
<1>3. CASE RepairedClaims[t].attempt # a
  <2>1. attempt'[a] = RepairedAttempts[a]
    BY <1>1, <1>3 DEF Close
  <2> QED
    BY <2>1, RepairAbandonsExpired
<1> QED
  BY <1>2, <1>3

\* An attempt ends as abandoned exactly when its lease had expired: nobody
\* loses a live lease, and nobody finishes on an expired one.
THEOREM LeasesAreRespected == Spec => LeasesRespected
<1>1. ASSUME IInv, [Next]_vars
      PROVE  LeaseStep
  <2>1. Typed /\ ClaimAttemptAgreement
    BY <1>1 DEF IInv
  <2>2. ASSUME NEW s \in Session, NEW cited, session[s].phase # "idle",
               Complete(s, cited)
        PROVE  LeaseStep
    <3> DEFINE t == session[s].task
    <3>1. t \in Task /\ Owns(s, t, RepairedClaims)
      BY <2>1, <2>2
      DEF Complete, GuardStillHolds, CompletionGuard, Typed, BusyOnTask
    <3>2. attempt' = Close(RepairedAttempts, RepairedClaims[t].attempt,
                           "task_completed")
      BY <2>1, <2>2, <3>1 DEF Complete, OwnAttempt
    <3> QED
      BY <2>1, <3>1, <3>2, CloseLease
  <2>3. ASSUME NEW s \in Session, NEW t \in Task, NEW a \in Attempt,
               Take(s, t, a)
        PROVE  LeaseStep
    <3>1. \A b \in Attempt : attempt[b].state = "open" =>
             attempt'[b] = RepairedAttempts[b]
      BY <2>1, <2>3, RepairTyped DEF Take, Unborn, Typed
    <3> QED
      BY <2>1, <3>1, RepairAbandonsExpired DEF LeaseStep
  <2>4. ASSUME NEW s \in Session, NEW t \in Task, Release(s, t) \/ Cancel(s, t)
        PROVE  LeaseStep
    BY <2>1, <2>4, CloseLease DEF Release, Cancel
  <2>5. ASSUME NEW s \in Session, Command(s)
        PROVE  LeaseStep
    BY <2>1, <2>3, <2>4, <2>5, RepairLease
    DEF Command, RecordNote, RecordRunSet, RecordEvidence, BeginRunAcceptance,
        BeginDone, BeginCitingDone, BeginGuarded, BeginProbe, Repair
  <2>6. ASSUME NEW s \in Session, Continue(s)
        PROVE  LeaseStep
    BY <2>1, <2>2, <2>6, RepairLease
    DEF Continue, FinishShell, RecordScriptRunsOnly, CommitRunSet, CommitDone,
        RefuseCommit, RejectCommit, CiteAndComplete, RefuseCitation, ledger, Repair
  <2>7. CASE \E s \in Session : Renew(s) \/ Kill(s)
    BY <2>1, <2>7, RepairLease DEF Renew, Kill, ledger
  <2>8. CASE \E t \in Task, acc \in SUBSET Check :
                AddTask(t, acc) \/ ReviseAcceptance(t, acc)
    BY <2>1, <2>8, RepairLease DEF AddTask, ReviseAcceptance, Repair
  <2>9. CASE \/ \E t \in Task : Hold(t) \/ ClearHold(t) \/ Expire(t)
             \/ RepairAndRefuse \/ UNCHANGED vars
    BY <2>1, <2>9, RepairLease
    DEF Hold, ClearHold, Expire, RepairAndRefuse, Repair, vars, ledger
  <2> QED
    BY <1>1, <2>5, <2>6, <2>7, <2>8, <2>9 DEF Next
<1>2. IInv /\ [Next]_vars =>
         [\A a \in Attempt :
             attempt[a].state = "open" /\ attempt'[a].state # "open" =>
                 (attempt'[a].state = "claim_abandoned"
                     <=> attempt[a].task \in expired)]_vars
  BY <1>1 DEF LeaseStep
<1> QED
  BY <1>2, IInvInductive, PTL DEF Spec, LeasesRespected

\* LeasesRevivedByHolder of one step.
ReviveStep ==
    \A t \in expired \ expired' : claim'[t] = claim[t] =>
        \E s \in Session :
           /\ session'[s].phase # "idle"
           /\ session'[s].task = t
           /\ session'[s].attempt = claim[t].attempt
           /\ ActorOf[s] = claim[t].actor

\* Whoever repairs leases takes the expired claims away.
LEMMA RepairRevivesNone ==
    ASSUME Typed, ClaimAttemptAgreement,
           \/ expired \subseteq expired'
           \/ claim' = RepairedClaims
           \/ \E t \in Task : claim' = [RepairedClaims EXCEPT ![t] = NoClaim]
    PROVE  ReviveStep
<1> SUFFICES ASSUME NEW t \in expired, t \notin expired', claim'[t] = claim[t]
             PROVE  FALSE
  BY DEF ReviveStep
<1>1. t \in Task /\ claim[t] # NoClaim
  BY DEF Typed, TypeOK, ClaimAttemptAgreement
<1>2. RepairedClaims[t] = NoClaim
  BY <1>1 DEF RepairedClaims
<1>3. claim'[t] = NoClaim
  BY <1>1, <1>2 DEF RepairedClaims
<1> QED
  BY <1>1, <1>3

\* A lapsed lease is only revived by a command that was started under it.
THEOREM LeasesAreRevivedByHolders == Spec => LeasesRevivedByHolder
<1>1. ASSUME IInv, [Next]_vars
      PROVE  ReviveStep
  <2>1. Typed /\ ClaimAttemptAgreement
    BY <1>1 DEF IInv
  <2>2. ASSUME NEW s \in Session, NEW cited, Complete(s, cited),
               session[s].phase # "idle"
        PROVE  ReviveStep
    <3>1. session[s].task \in Task
      BY <2>1, <2>2 DEF Typed, BusyOnTask
    <3> QED
      BY <2>1, <2>2, <3>1, RepairRevivesNone DEF Complete
  <2>3. ASSUME NEW s \in Session, NEW t \in Task, NEW a \in Attempt,
               Take(s, t, a)
        PROVE  ReviveStep
    <3>1. ASSUME NEW u \in expired
          PROVE  claim'[u] # claim[u]
      <4>1. u \in Task /\ claim[u] # NoClaim
        BY <2>1 DEF Typed, TypeOK, ClaimAttemptAgreement
      <4>2. attempt[claim[u].attempt] =
               [task |-> u, actor |-> claim[u].actor, state |-> "open"]
        BY <4>1, <2>1 DEF ClaimAttemptAgreement
      <4>3. CASE u = t
        <5>1. claim'[u].attempt = a
          BY <2>3, <4>1, <4>3 DEF Take, RepairedClaims
        <5> QED
          BY <2>3, <4>2, <5>1 DEF Take, Unborn
      <4>4. CASE u # t
        BY <2>3, <4>1, <4>4 DEF Take, RepairedClaims
      <4> QED
        BY <4>3, <4>4
    <3> QED
      BY <3>1 DEF ReviveStep
  <2>4. ASSUME NEW s \in Session, NEW t \in Task, Release(s, t) \/ Cancel(s, t)
        PROVE  ReviveStep
    BY <2>1, <2>4, RepairRevivesNone DEF Release, Cancel
  <2>5. ASSUME NEW s \in Session, NEW t \in Task, NEW cmd, NEW phase,
               phase # "idle", BeginGuarded(s, t, cmd, phase)
        PROVE  ReviveStep
    <3>1. /\ session'[s].phase # "idle" /\ session'[s].task = t
          /\ session'[s].attempt = claim[t].attempt
      BY <2>1, <2>5 DEF BeginGuarded, Start, Typed, TypeOK
    <3>2. ActorOf[s] = claim[t].actor /\ expired' = expired \ {t}
      BY <2>5 DEF BeginGuarded, RenewExecutionClaim, Owns
    <3> QED
      BY <3>1, <3>2 DEF ReviveStep
  <2>6. ASSUME NEW s \in Session, Command(s)
        PROVE  ReviveStep
    BY <2>1, <2>3, <2>4, <2>5, <2>6, RepairRevivesNone
    DEF Command, RecordNote, RecordRunSet, RecordEvidence, BeginRunAcceptance,
        BeginDone, BeginCitingDone, BeginProbe, Repair
  <2>7. ASSUME NEW s \in Session, Continue(s)
        PROVE  ReviveStep
    BY <2>1, <2>2, <2>7, RepairRevivesNone
    DEF Continue, FinishShell, RecordScriptRunsOnly, CommitRunSet, CommitDone,
        RefuseCommit, RejectCommit, CiteAndComplete, RefuseCitation, ledger, Repair
  <2>8. ASSUME NEW s \in Session, Renew(s)
        PROVE  ReviveStep
    <3>1. /\ session'[s] = session[s] /\ session[s].phase = "shell"
          /\ session[s].attempt = claim[session[s].task].attempt
          /\ ActorOf[s] = claim[session[s].task].actor
          /\ expired' = expired \ {session[s].task}
      BY <2>8 DEF Renew, Owns
    <3> QED
      BY <3>1 DEF ReviveStep
  <2>9. CASE \E s \in Session : Kill(s)
    BY <2>1, <2>9, RepairRevivesNone DEF Kill, ledger
  <2>10. CASE \E t \in Task, acc \in SUBSET Check :
                 AddTask(t, acc) \/ ReviseAcceptance(t, acc)
    BY <2>1, <2>10, RepairRevivesNone DEF AddTask, ReviseAcceptance, Repair
  <2>11. CASE \/ \E t \in Task : Hold(t) \/ ClearHold(t) \/ Expire(t)
              \/ RepairAndRefuse \/ UNCHANGED vars
    BY <2>1, <2>11, RepairRevivesNone
    DEF Hold, ClearHold, Expire, RepairAndRefuse, Repair, vars, ledger
  <2> QED
    BY <1>1, <2>6, <2>7, <2>8, <2>9, <2>10, <2>11 DEF Next
<1>2. IInv /\ [Next]_vars =>
         [\A t \in expired \ expired' : claim'[t] = claim[t] =>
             \E s \in Session :
                /\ session'[s].phase # "idle"
                /\ session'[s].task = t
                /\ session'[s].attempt = claim[t].attempt
                /\ ActorOf[s] = claim[t].actor]_vars
  BY <1>1 DEF ReviveStep
<1> QED
  BY <1>2, IInvInductive, PTL DEF Spec, LeasesRevivedByHolder

-----------------------------------------------------------------------------
(* Executed runs *)

\* As long as the guard holds, the run set of a command that is about to commit
\* proves the acceptance in force, for the attempt that owns the task.
LEMMA GuardedRunSetProves ==
    ASSUME Typed, ClaimAttemptAgreement, CommitPassed, NEW s \in Session,
           session[s].phase = "commit", GuardStillHolds(s, RepairedClaims)
    PROVE  LET w == session[s] IN
           /\ RunSet(s).task = w.task /\ RunSet(s).attempt = w.attempt
           /\ RunSet(s).kind = "run_set"
           /\ RunSetProves(RunSet(s), w.task, w.attempt)
           /\ \A r \in RunSet(s).runs : \A l \in r.strays :
                 <<l, r.check>> \in w.strays
           /\ OwnAttempt(s, w.task, RepairedClaims) = w.attempt
           /\ acceptance[w.task] = w.acc
           /\ w.task \notin held
<1> DEFINE w == session[s]
           e == RunSet(s)
<1>2. w.task \in Task /\ RepairedClaims \in Claims
  BY RepairTyped DEF Typed, BusyOnTask
<1>3. /\ Owns(s, w.task, RepairedClaims)
      /\ RepairedClaims[w.task].attempt = w.attempt
      /\ acceptance[w.task] = w.acc
  BY DEF GuardStillHolds, CompletionGuard
<1>4. OwnAttempt(s, w.task, RepairedClaims) = w.attempt
  BY <1>2, <1>3, OwnedAttempt
<1>5. w.task \notin held
  BY <1>2, <1>3 DEF Owns, RepairedClaims, ClaimAttemptAgreement
<1>6. w.passed = w.acc /\ w.cmd # "probe"
  BY DEF CommitPassed
<1>7. /\ e.task = w.task /\ e.attempt = w.attempt /\ e.kind = "run_set"
      /\ e.acc = w.acc /\ e.runs = Facts(s, w.attempt)
  BY <1>4 DEF RunSet
<1>8. RunSetProves(e, w.task, w.attempt)
  <2> DEFINE fact(c) ==
          [task |-> w.task, attempt |-> w.attempt, under |-> w.attempt,
           trigger |-> "acceptance", check |-> c, ok |-> c \in w.passed,
           strays |-> {l \in Limit : <<l, c>> \in w.strays}]
  <2>1. Facts(s, w.attempt) = {fact(c) : c \in w.acc}
    BY <1>6 DEF Facts
  <2>2. \A c \in w.acc : /\ fact(c).check = c /\ fact(c).ok
                         /\ fact(c).task = w.task
                         /\ fact(c).attempt = w.attempt
                         /\ fact(c).trigger = "acceptance"
    BY <1>6
  <2> HIDE DEF fact
  <2>3. {r.check : r \in Facts(s, w.attempt)} = w.acc
    BY <2>1, <2>2
  <2>4. \A r \in Facts(s, w.attempt) :
           /\ r.task = w.task /\ r.attempt = w.attempt
           /\ r.trigger = "acceptance" /\ r.ok
    BY <2>1, <2>2
  <2> QED
    BY <1>3, <1>7, <2>3, <2>4 DEF RunSetProves
<1>9. \A r \in Facts(s, w.attempt) : \A l \in r.strays : <<l, r.check>> \in w.strays
  BY DEF Facts
<1> QED
  BY <1>3, <1>4, <1>5, <1>7, <1>8, <1>9

\* On a task without obligations and boundaries the reducer accepts every
\* completion that verified its acceptance, so a commit whose guard holds is
\* rejected only if there was nothing to run.
LEMMA NothingRejected ==
    ASSUME Typed, ClaimAttemptAgreement, CommitPassed, NEW s \in Session,
           session[s].task \notin Obliged \cup Bounded, RejectCommit(s)
    PROVE  session[s].acc = {}
<1> DEFINE w == session[s]
           e == RunSet(s)
<1> SUFFICES ASSUME w.acc # {}
             PROVE  FALSE
  OBVIOUS
<1>1. /\ w.phase = "commit"
      /\ GuardStillHolds(s, RepairedClaims)
      /\ ~ReducerAccepts(w.task, w.attempt, {e})
  BY DEF RejectCommit
<1>2. /\ e.task = w.task /\ e.attempt = w.attempt /\ e.kind = "run_set"
      /\ RunSetProves(e, w.task, w.attempt)
      /\ \A r \in e.runs : \A l \in r.strays : <<l, r.check>> \in w.strays
      /\ acceptance[w.task] = w.acc /\ w.task \notin held
  BY <1>1, GuardedRunSetProves
<1>3. w.strays = {}
  BY <1>1 DEF CommitPassed
<1>4. WithinBoundary(e, {e})
  BY <1>2, <1>3 DEF WithinBoundary
<1> QED
  BY <1>1, <1>2, <1>4 DEF ReducerAccepts

\* The facts of a command are recorded at its end, if its process is not killed
\* and its task has neither success obligations nor a boundary.
RecordedUnlessRefused ==
    [][\A s \in Session :
          /\ s \notin Killable /\ session[s].task \notin Obliged \cup Bounded
          /\ session[s].phase \in {"commit", "salvage"} /\ session'[s] = Idle
          => \E a \in SomeAttempt : Facts(s, a) \subseteq runs']_vars

\* Facts are lost by a kill, or when the reducer refuses a completion that the
\* handler had let pass: for an obligation (the run claim_lost) or a boundary.
THEOREM RunsAreRecordedUnlessRefused == Spec => RecordedUnlessRefused
<1>1. IInv /\ [Next]_vars =>
         [\A s \in Session :
             /\ s \notin Killable /\ session[s].task \notin Obliged \cup Bounded
             /\ session[s].phase \in {"commit", "salvage"} /\ session'[s] = Idle
             => \E a \in SomeAttempt : Facts(s, a) \subseteq runs']_vars
  <2> SUFFICES ASSUME IInv, [Next]_vars, NEW s \in Session, s \notin Killable,
                      session[s].task \notin Obliged \cup Bounded,
                      session[s].phase \in {"commit", "salvage"},
                      session'[s] = Idle
               PROVE  \E a \in SomeAttempt : Facts(s, a) \subseteq runs'
    OBVIOUS
  <2> DEFINE Goal == \E a \in SomeAttempt : Facts(s, a) \subseteq runs'
  <2>1. session[s] # Idle /\ session'[s] # session[s]
    BY DEF Idle
  <2>2. session \in [Session -> Work] /\ session[s].task \in Task
    BY DEF IInv, Typed, TypeOK, BusyOnTask
  <2>3. OwnAttempt(s, session[s].task, RepairedClaims) \in SomeAttempt
    BY <2>2, RepairTyped, OwnAttemptTyped DEF IInv, Typed
  <2>4. OwnAttempt(s, session[s].task, claim) \in SomeAttempt
    BY <2>2, OwnAttemptTyped DEF IInv, Typed, TypeOK, Claims
  <2>5. RunSet(s).runs \subseteq runs' => Goal
    BY <2>3 DEF RunSet
  <2>6. ASSUME NEW u \in Session, Command(u)
        PROVE  FALSE
    BY <2>1, <2>2, <2>6
    DEF Command, Take, Release, Cancel, RecordNote, RecordRunSet, RecordEvidence,
        BeginRunAcceptance, BeginDone, BeginCitingDone, BeginGuarded, BeginProbe,
        Start
  <2>7. ASSUME NEW u \in Session, Continue(u)
        PROVE  Goal
    <3>1. u = s
      BY <2>1, <2>2, <2>7
      DEF Continue, FinishShell, RecordScriptRunsOnly, CommitRunSet, CommitDone,
          RefuseCommit, RejectCommit, CiteAndComplete, RefuseCitation, Complete
    <3>2. CASE RecordScriptRunsOnly(s)
      BY <2>4, <3>2 DEF RecordScriptRunsOnly
    <3>3. CASE CommitRunSet(s)
      BY <2>5, <3>3 DEF CommitRunSet
    <3>4. ASSUME NEW sha, CommitDone(s, sha)
          PROVE  Goal
      BY <2>5, <3>4 DEF CommitDone
    <3>5. ASSUME NEW drifted, RefuseCommit(s, drifted)
          PROVE  FALSE
      BY <2>2, <3>5 DEF RefuseCommit, Idle, Work
    <3>6. CASE RejectCommit(s)
      <4>1. session[s].acc = {}
        BY <3>6, NothingRejected DEF IInv
      <4>2. Facts(s, NoAttempt) = {}
        BY <4>1 DEF Facts
      <4> QED
        BY <4>2 DEF SomeAttempt
    <3>7. /\ \A passed, strays, artifactError :
                ~FinishShell(s, passed, strays, artifactError)
          /\ \A cited, note, sha : ~CiteAndComplete(s, cited, note, sha)
          /\ ~RefuseCitation(s)
      BY DEF FinishShell, CiteAndComplete, RefuseCitation
    <3> QED
      BY <2>7, <3>1, <3>2, <3>3, <3>4, <3>5, <3>6, <3>7 DEF Continue
  <2>8. ASSUME NEW u \in Session, Renew(u) \/ Kill(u)
        PROVE  FALSE
    BY <2>1, <2>2, <2>8 DEF Renew, Kill
  <2>9. ASSUME NEW t \in Task, NEW acc, AddTask(t, acc) \/ ReviseAcceptance(t, acc)
        PROVE  FALSE
    BY <2>1, <2>9 DEF AddTask, ReviseAcceptance
  <2>10. ASSUME NEW t \in Task, Hold(t) \/ ClearHold(t) \/ Expire(t)
         PROVE  FALSE
    BY <2>1, <2>10 DEF Hold, ClearHold, Expire
  <2>11. ASSUME RepairAndRefuse \/ UNCHANGED vars
         PROVE  FALSE
    BY <2>1, <2>11 DEF RepairAndRefuse, vars
  <2> QED
    BY <2>6, <2>7, <2>8, <2>9, <2>10, <2>11 DEF Next
<1> QED
  BY <1>1, IInvInductive, PTL DEF Spec, RecordedUnlessRefused

\* A command that ran checks leaves their facts in the log, whether or not it
\* could complete the task, when no task has obligations or a boundary and no
\* process is killed.
THEOREM RunsAreRecorded ==
    ASSUME Obliged = {}, Bounded = {}, Killable = {}
    PROVE  Spec => ExecutedRunsRecorded
<1>1. [\A s \in Session :
          /\ s \notin Killable /\ session[s].task \notin Obliged \cup Bounded
          /\ session[s].phase \in {"commit", "salvage"} /\ session'[s] = Idle
          => \E a \in SomeAttempt : Facts(s, a) \subseteq runs']_vars
      => [\A s \in Session :
             session[s].phase \in {"commit", "salvage"} /\ session'[s] = Idle =>
                 \E a \in SomeAttempt : Facts(s, a) \subseteq runs']_vars
  OBVIOUS
<1> QED
  BY <1>1, RunsAreRecordedUnlessRefused, PTL
  DEF RecordedUnlessRefused, ExecutedRunsRecorded

-----------------------------------------------------------------------------
(* Commands come to an end *)

\* Transactions a command has before it at most, from each of its phases.
StepsLeft ==
    [idle |-> 0, guarded |-> 1, salvage |-> 1, commit |-> 2, shell |-> 3]

GoesForward(s) ==
    session[s] # Idle /\ session'[s] # session[s] =>
        \/ session'[s] = Idle
        \/ StepsLeft[session'[s].phase] < StepsLeft[session[s].phase]

LEMMA StepGoesForward ==
    ASSUME Typed, [Next]_vars, NEW s \in Session
    PROVE  GoesForward(s)
<1>0. session \in [Session -> Work]
  BY DEF Typed, TypeOK
<1>i. /\ StepsLeft["salvage"] = 1 /\ StepsLeft["commit"] = 2
      /\ StepsLeft["shell"] = 3
  BY DEF StepsLeft
<1>1. ASSUME UNCHANGED session
      PROVE  GoesForward(s)
  BY <1>1 DEF GoesForward
<1>2. ASSUME NEW r \in Session, session[r] = Idle, NEW w,
             session' = [session EXCEPT ![r] = w]
      PROVE  GoesForward(s)
  BY <1>0, <1>2 DEF GoesForward
<1>3. ASSUME NEW r \in Session, session' = [session EXCEPT ![r] = Idle]
      PROVE  GoesForward(s)
  BY <1>0, <1>3 DEF GoesForward
<1>4. ASSUME NEW r \in Session, Command(r)
      PROVE  GoesForward(s)
  BY <1>1, <1>2, <1>4
  DEF Command, Take, Release, Cancel, RecordNote, RecordRunSet, RecordEvidence,
      BeginRunAcceptance, BeginDone, BeginCitingDone, BeginGuarded, BeginProbe,
      Start
<1>5. ASSUME NEW r \in Session, NEW passed, NEW strays, NEW artifactError,
             FinishShell(r, passed, strays, artifactError)
      PROVE  GoesForward(s)
  <2>1. /\ session[r].phase = "shell"
        /\ s # r => session'[s] = session[s]
        /\ session'[r].phase \in {"commit", "salvage"}
    BY <1>0, <1>5 DEF FinishShell, Work
  <2> QED
    BY <1>i, <2>1 DEF GoesForward
<1>6. ASSUME NEW r \in Session, NEW drifted, RefuseCommit(r, drifted)
      PROVE  GoesForward(s)
  <2>1. /\ session[r].phase = "commit"
        /\ s # r => session'[s] = session[s]
        /\ session'[r].phase = "salvage"
    BY <1>0, <1>6 DEF RefuseCommit, Work
  <2> QED
    BY <1>i, <2>1 DEF GoesForward
<1>7. ASSUME NEW r \in Session, Continue(r)
      PROVE  GoesForward(s)
  BY <1>3, <1>5, <1>6, <1>7
  DEF Continue, RecordScriptRunsOnly, CommitRunSet, CommitDone, RejectCommit,
      CiteAndComplete, RefuseCitation, Complete
<1>8. ASSUME NEW r \in Session, Kill(r)
      PROVE  GoesForward(s)
  BY <1>3, <1>8 DEF Kill
<1>9. ASSUME NEW t \in Task, NEW acc, AddTask(t, acc) \/ ReviseAcceptance(t, acc)
      PROVE  GoesForward(s)
  BY <1>1, <1>9 DEF AddTask, ReviseAcceptance
<1>10. ASSUME \/ \E t \in Task : Hold(t) \/ ClearHold(t) \/ Expire(t)
              \/ \E r \in Session : Renew(r)
              \/ RepairAndRefuse \/ UNCHANGED vars
       PROVE  GoesForward(s)
  BY <1>1, <1>10 DEF Hold, ClearHold, Expire, Renew, RepairAndRefuse, vars
<1> QED
  BY <1>4, <1>7, <1>8, <1>9, <1>10 DEF Next

\* Between its transactions a command only goes on: it never runs its checks
\* twice and never tries a commit again, whatever others do.  After at most
\* three steps of its own it has returned.
THEOREM CommandsGoForward == Spec => [][\A s \in Session : GoesForward(s)]_vars
<1>1. Typed /\ [Next]_vars => [\A s \in Session : GoesForward(s)]_vars
  BY StepGoesForward
<1>2. IInv => Typed
  BY DEF IInv
<1> QED
  BY <1>1, <1>2, IInvInductive, PTL DEF Spec

\* A command that runs checks has some to run.
ChecksToRun ==
    \A s \in Session : session[s].phase \in {"shell", "commit"} =>
        session[s].acc # {}

LEMMA ChecksToRunStep ==
    ASSUME Typed, ChecksToRun, [Next]_vars
    PROVE  ChecksToRun'
<1>1. session \in [Session -> Work]
  BY DEF Typed, TypeOK
<1>2. ASSUME NEW s \in Session, session' = [session EXCEPT ![s] = Idle]
      PROVE  ChecksToRun'
  BY <1>1, <1>2 DEF ChecksToRun, Idle
<1>3. ASSUME NEW s \in Session, NEW phase, NEW cmd, NEW t, NEW a, NEW acc,
             phase = "shell" => acc # {}, phase # "commit",
             Start(s, phase, cmd, t, a, acc)
      PROVE  ChecksToRun'
  BY <1>1, <1>3 DEF ChecksToRun, Start
<1>4. ASSUME UNCHANGED session
      PROVE  ChecksToRun'
  BY <1>4 DEF ChecksToRun
<1>5. ASSUME NEW s \in Session, Command(s)
      PROVE  ChecksToRun'
  <2>1. ASSUME NEW t \in Task, \/ BeginRunAcceptance(s, t)
                               \/ BeginDone(s, t) \/ BeginCitingDone(s, t)
        PROVE  ChecksToRun'
    BY <1>3, <2>1 DEF BeginRunAcceptance, BeginDone, BeginCitingDone, BeginGuarded
  <2>2. ASSUME NEW t \in Task, NEW c \in Check, BeginProbe(s, t, c)
        PROVE  ChecksToRun'
    BY <1>3, <2>2 DEF BeginProbe
  <2> QED
    BY <1>4, <1>5, <2>1, <2>2
    DEF Command, Take, Release, Cancel, RecordNote, RecordRunSet, RecordEvidence
<1>6. ASSUME NEW s \in Session, NEW passed, NEW strays, NEW artifactError,
             FinishShell(s, passed, strays, artifactError)
      PROVE  ChecksToRun'
  BY <1>1, <1>6 DEF FinishShell, ChecksToRun, Work
<1>7. ASSUME NEW s \in Session, NEW drifted, RefuseCommit(s, drifted)
      PROVE  ChecksToRun'
  BY <1>1, <1>7 DEF RefuseCommit, ChecksToRun, Work
<1>8. ASSUME NEW s \in Session, Continue(s)
      PROVE  ChecksToRun'
  BY <1>2, <1>6, <1>7, <1>8
  DEF Continue, RecordScriptRunsOnly, CommitRunSet, CommitDone, RejectCommit,
      CiteAndComplete, RefuseCitation, Complete
<1>9. ASSUME NEW s \in Session, Renew(s) \/ Kill(s)
      PROVE  ChecksToRun'
  BY <1>2, <1>4, <1>9 DEF Renew, Kill
<1>10. ASSUME NEW t \in Task, NEW acc, AddTask(t, acc) \/ ReviseAcceptance(t, acc)
       PROVE  ChecksToRun'
  BY <1>4, <1>10 DEF AddTask, ReviseAcceptance
<1>11. ASSUME \/ \E t \in Task : Hold(t) \/ ClearHold(t) \/ Expire(t)
              \/ RepairAndRefuse \/ UNCHANGED vars
       PROVE  ChecksToRun'
  BY <1>4, <1>11 DEF Hold, ClearHold, Expire, RepairAndRefuse, vars
<1> QED
  BY <1>5, <1>8, <1>9, <1>10, <1>11 DEF Next

\* What the handler is about to append under its guard, the reducer takes,
\* unless a check strayed from the boundary of the task.
GuardMeansAcceptance ==
    \A s \in Session, sha \in BOOLEAN :
        /\ session[s].phase = "commit" /\ GuardStillHolds(s, RepairedClaims)
        /\ \A c \in Check : <<"declared", c>> \notin session[s].strays
        =>
            ReducerAccepts(session[s].task, session[s].attempt,
                           {RunSet(s)} \cup CommitRecords(s, sha))

\* The handler decides under the guard, the reducer by its own rules, in other
\* code; they agree.  As long as the guard of a `done` holds, the reducer takes
\* the completion with the run set that the handler built, with or without the
\* commit it adds, if no check saw a path changed outside of the boundary of the
\* task.  So only a boundary or a missing obligation can still make it refuse.
THEOREM GuardedCommitsAreAccepted == Spec => []GuardMeansAcceptance
<1>1. ASSUME IInv, ChecksToRun, NEW s \in Session, NEW sha \in BOOLEAN,
             session[s].phase = "commit", GuardStillHolds(s, RepairedClaims),
             \A c \in Check : <<"declared", c>> \notin session[s].strays
      PROVE  ReducerAccepts(session[s].task, session[s].attempt,
                            {RunSet(s)} \cup CommitRecords(s, sha))
  <2> DEFINE w == session[s]
             e == RunSet(s)
             more == CommitRecords(s, sha)
  <2>1. /\ e.task = w.task /\ e.attempt = w.attempt /\ e.kind = "run_set"
        /\ RunSetProves(e, w.task, w.attempt)
        /\ \A r \in e.runs : \A l \in r.strays : <<l, r.check>> \in w.strays
        /\ OwnAttempt(s, w.task, RepairedClaims) = w.attempt
        /\ acceptance[w.task] = w.acc /\ w.task \notin held
    BY <1>1, GuardedRunSetProves DEF IInv
  <2>2. w.acc # {}
    BY <1>1 DEF ChecksToRun
  <2>3. \A f \in more : /\ f.task = w.task /\ f.attempt = w.attempt
                        /\ f.kind = "commit"
    BY <2>1 DEF CommitRecords, Record
  <2>4. e.runs \in SUBSET Run
    BY <1>1, RunSetTyped DEF IInv, Typed
  <2> HIDE DEF e, more
  <2>5. WithinBoundary(e, {e} \cup more)
    BY <1>1, <2>1, <2>3, <2>4 DEF WithinBoundary, Run
  <2> QED
    BY <2>1, <2>2, <2>3, <2>5 DEF ReducerAccepts, e, more
<1>2. Init => ChecksToRun
  BY DEF Init, ChecksToRun, Idle
<1>3. IInv => Typed
  BY DEF IInv
<1>4. IInv /\ ChecksToRun => GuardMeansAcceptance
  BY <1>1 DEF GuardMeansAcceptance
<1> QED
  BY <1>2, <1>3, <1>4, ChecksToRunStep, IInvInductive, PTL DEF Spec

-----------------------------------------------------------------------------
(* Where facts are filed *)

\* Unless it is none, the attempt a is one of the actor x, on the task t.
AttemptOf(a, t, x) ==
    a # NoAttempt =>
        t \in Task /\ attempt[a].task = t /\ attempt[a].actor = x

\* A command runs under an attempt of its process's actor, on its own task.
BoundSessions ==
    \A s \in Session :
        AttemptOf(session[s].attempt, session[s].task, ActorOf[s])

\* What a step does to the attempts, the facts, the evidence and the commands.
AttemptsKept ==
    \A a \in Attempt : attempt[a].task # NoTask =>
        attempt'[a].task = attempt[a].task /\ attempt'[a].actor = attempt[a].actor

FactsOfSessions ==
    \A r \in runs' \ runs : \E s \in Session, a \in SomeAttempt :
        /\ session[s].task \in Task
        /\ AttemptOf(a, session[s].task, ActorOf[s])
        /\ r \in Facts(s, a)

EvidenceOfTask ==
    \A e \in evidence' \ evidence :
        e.attempt \in SomeAttempt /\ \E x : AttemptOf(e.attempt, e.task, x)

CommandsBound ==
    \A s \in Session :
        \/ /\ session'[s].attempt = session[s].attempt
           /\ session'[s].task = session[s].task
        \/ session'[s].attempt = NoAttempt
        \/ AttemptOf(session'[s].attempt, session'[s].task, ActorOf[s])

Files == AttemptsKept /\ FactsOfSessions /\ EvidenceOfTask /\ CommandsBound

\* The attempt something is filed under is the actor's own, on that task.
LEMMA OwnAttemptOfActor ==
    ASSUME Typed, ClaimAttemptAgreement, NEW s \in Session, NEW t \in Task,
           NEW claims \in {claim, RepairedClaims}
    PROVE  /\ OwnAttempt(s, t, claims) \in SomeAttempt
           /\ AttemptOf(OwnAttempt(s, t, claims), t, ActorOf[s])
<1>1. claims \in Claims
  BY RepairTyped DEF Typed, TypeOK, Claims
<1>2. claims[t] # NoClaim => claims[t] = claim[t]
  BY DEF RepairedClaims
<1>3. CASE Owns(s, t, claims)
  <2>1. /\ OwnAttempt(s, t, claims) = claim[t].attempt
        /\ claim[t] # NoClaim
        /\ claim[t].actor = ActorOf[s]
        /\ claim[t].attempt \in Attempt
    BY <1>1, <1>2, <1>3, OwnedAttempt DEF Owns
  <2>2. attempt[claim[t].attempt] =
           [task |-> t, actor |-> claim[t].actor, state |-> "open"]
    BY <2>1 DEF ClaimAttemptAgreement
  <2> QED
    BY <2>1, <2>2 DEF AttemptOf, SomeAttempt
<1>4. CASE ~Owns(s, t, claims)
  BY <1>4 DEF OwnAttempt, AttemptOf, SomeAttempt
<1> QED
  BY <1>3, <1>4

\* Repairing leases and closing attempts change their states only.
LEMMA RepairKeepsAttempts ==
    ASSUME Typed
    PROVE  /\ attempt' = RepairedAttempts => AttemptsKept
           /\ attempt' = attempt => AttemptsKept
           /\ \A a, reason : attempt' = Close(RepairedAttempts, a, reason)
                                => AttemptsKept
<1>1. \A a \in Attempt : /\ attempt[a] \in AttemptRecord
                         /\ RepairedAttempts[a] \in AttemptRecord
                         /\ RepairedAttempts[a].task = attempt[a].task
                         /\ RepairedAttempts[a].actor = attempt[a].actor
  BY RepairTyped DEF Typed, TypeOK, RepairedAttempts, AttemptRecord
<1>2. RepairedAttempts \in [Attempt -> AttemptRecord]
  BY RepairTyped DEF Typed
<1>3. ASSUME NEW a, NEW reason, NEW b \in Attempt
      PROVE  /\ Close(RepairedAttempts, a, reason)[b].task
                    = RepairedAttempts[b].task
             /\ Close(RepairedAttempts, a, reason)[b].actor
                    = RepairedAttempts[b].actor
  BY <1>1, <1>2 DEF Close, AttemptRecord
<1> QED
  BY <1>1, <1>3 DEF AttemptsKept

LEMMA StepFiles ==
    ASSUME Typed, ClaimAttemptAgreement, [Next]_vars
    PROVE  Files
<1>0. session \in [Session -> Work]
  BY DEF Typed, TypeOK
<1>1. ASSUME UNCHANGED <<runs, evidence, session>>, AttemptsKept
      PROVE  Files
  BY <1>1 DEF Files, FactsOfSessions, EvidenceOfTask, CommandsBound
<1>2. ASSUME NEW s \in Session, session' = [session EXCEPT ![s] = Idle]
      PROVE  CommandsBound
  BY <1>0, <1>2 DEF CommandsBound, Idle
<1>3. ASSUME NEW s \in Session, NEW t \in Task, NEW a \in Attempt, Take(s, t, a)
      PROVE  Files
  <2>1. RepairedAttempts \in [Attempt -> AttemptRecord]
    BY RepairTyped DEF Typed
  <2>2. attempt[a].task = NoTask
    BY <1>3 DEF Take, Unborn
  <2>3. \A b \in Attempt \ {a} : attempt'[b] = RepairedAttempts[b]
    BY <1>3, <2>1 DEF Take
  <2>4. \A b \in Attempt : /\ RepairedAttempts[b].task = attempt[b].task
                           /\ RepairedAttempts[b].actor = attempt[b].actor
    BY DEF Typed, TypeOK, RepairedAttempts, AttemptRecord
  <2> QED
    BY <1>1, <1>3, <2>2, <2>3, <2>4 DEF Take, AttemptsKept
<1>4. ASSUME NEW s \in Session, NEW t \in Task,
             Release(s, t) \/ Cancel(s, t)
      PROVE  Files
  BY <1>1, <1>4, RepairKeepsAttempts DEF Release, Cancel
<1>5. ASSUME NEW s \in Session, NEW t \in Task, NEW e, RecordEvidence(s, t, e),
             e.task = t
      PROVE  Files
  <2>1. AttemptsKept /\ CommandsBound /\ FactsOfSessions
    BY <1>5, RepairKeepsAttempts
    DEF RecordEvidence, Repair, CommandsBound, FactsOfSessions
  <2>2. e.attempt \in SomeAttempt /\ AttemptOf(e.attempt, t, ActorOf[s])
    BY <1>5, OwnAttemptOfActor DEF RecordEvidence
  <2> QED
    BY <1>5, <2>1, <2>2 DEF RecordEvidence, EvidenceOfTask, Files
<1>6. ASSUME NEW s \in Session, NEW t \in Task, RecordNote(s, t)
      PROVE  Files
  BY <1>5, <1>6 DEF RecordNote, Record
<1>7. ASSUME NEW s \in Session, NEW t \in Task, RecordRunSet(s, t)
      PROVE  Files
  BY <1>5, <1>7 DEF RecordRunSet
<1>8. ASSUME NEW s \in Session, NEW phase, NEW cmd, NEW t \in Task, NEW a, NEW acc,
             Start(s, phase, cmd, t, a, acc), AttemptOf(a, t, ActorOf[s])
      PROVE  CommandsBound
  BY <1>0, <1>8 DEF Start, CommandsBound
<1>9. ASSUME NEW s \in Session, NEW t \in Task, NEW c \in Check, BeginProbe(s, t, c)
      PROVE  Files
  <2>1. AttemptOf(OwnAttempt(s, t, RepairedClaims), t, ActorOf[s])
    BY OwnAttemptOfActor
  <2>2. CommandsBound
    BY <1>8, <1>9, <2>1 DEF BeginProbe
  <2> QED
    BY <1>9, <2>2, RepairKeepsAttempts
    DEF BeginProbe, Repair, Files, FactsOfSessions, EvidenceOfTask
<1>10. ASSUME NEW s \in Session, NEW t \in Task, NEW cmd, NEW phase,
              BeginGuarded(s, t, cmd, phase)
       PROVE  Files
  <2>1. Owns(s, t, claim)
    BY <1>10 DEF BeginGuarded, CompletionGuard
  <2>2. AttemptOf(claim[t].attempt, t, ActorOf[s])
    BY <2>1, OwnAttemptOfActor DEF OwnAttempt
  <2>3. CommandsBound
    BY <1>8, <1>10, <2>2 DEF BeginGuarded
  <2> QED
    BY <1>10, <2>3, RepairKeepsAttempts
    DEF BeginGuarded, Files, FactsOfSessions, EvidenceOfTask
<1>11. ASSUME NEW s \in Session, Command(s)
       PROVE  Files
  BY <1>3, <1>4, <1>6, <1>7, <1>9, <1>10, <1>11
  DEF Command, BeginRunAcceptance, BeginDone, BeginCitingDone
<1>12. ASSUME NEW s \in Session, session[s].phase # "idle",
              NEW claims \in {claim, RepairedClaims}
       PROVE  LET a == OwnAttempt(s, session[s].task, claims) IN
              /\ session[s].task \in Task
              /\ a \in SomeAttempt
              /\ AttemptOf(a, session[s].task, ActorOf[s])
              /\ runs' = runs \cup Facts(s, a) => FactsOfSessions
  <2>1. session[s].task \in Task
    BY <1>12 DEF Typed, BusyOnTask
  <2>2. /\ OwnAttempt(s, session[s].task, claims) \in SomeAttempt
        /\ AttemptOf(OwnAttempt(s, session[s].task, claims), session[s].task,
                     ActorOf[s])
    BY <2>1, OwnAttemptOfActor
  <2> QED
    BY <2>1, <2>2 DEF FactsOfSessions
<1>13. ASSUME NEW s \in Session, NEW new,
              session[s].phase # "idle", evidence' = evidence \cup new,
              \A e \in new :
                  /\ e.task = session[s].task
                  /\ e.attempt = OwnAttempt(s, session[s].task, RepairedClaims)
       PROVE  EvidenceOfTask
  BY <1>12, <1>13 DEF EvidenceOfTask
<1>14. ASSUME NEW s \in Session, NEW passed, NEW strays, NEW artifactError,
              FinishShell(s, passed, strays, artifactError)
       PROVE  Files
  <2>1. CommandsBound
    BY <1>0, <1>14 DEF FinishShell, CommandsBound, Work
  <2> QED
    BY <1>14, <2>1, RepairKeepsAttempts
    DEF FinishShell, ledger, Files, FactsOfSessions, EvidenceOfTask
<1>15. ASSUME NEW s \in Session, RecordScriptRunsOnly(s)
       PROVE  Files
  <2>1. session[s].phase # "idle"
    BY <1>15 DEF RecordScriptRunsOnly
  <2>2. FactsOfSessions
    BY <1>12, <1>15, <2>1 DEF RecordScriptRunsOnly
  <2> QED
    BY <1>2, <1>15, <2>2, RepairKeepsAttempts
    DEF RecordScriptRunsOnly, Files, EvidenceOfTask
<1>16. ASSUME NEW s \in Session, CommitRunSet(s)
       PROVE  Files
  <2>1. session[s].phase # "idle"
    BY <1>16 DEF CommitRunSet
  <2>2. FactsOfSessions
    BY <1>12, <1>16, <2>1 DEF CommitRunSet, RunSet
  <2>3. EvidenceOfTask
    <3> DEFINE new == {RunSet(s)}
    <3>1. evidence' = evidence \cup new
      BY <1>16 DEF CommitRunSet
    <3>2. \A e \in new :
             /\ e.task = session[s].task
             /\ e.attempt = OwnAttempt(s, session[s].task, RepairedClaims)
      BY DEF RunSet
    <3> HIDE DEF new
    <3> QED
      BY <1>13, <2>1, <3>1, <3>2
  <2> QED
    BY <1>2, <1>16, <2>2, <2>3, RepairKeepsAttempts DEF CommitRunSet, Repair, Files
<1>17. ASSUME NEW s \in Session, NEW sha, CommitDone(s, sha)
       PROVE  Files
  <2> DEFINE new == {RunSet(s)} \cup CommitRecords(s, sha)
  <2>1. /\ session[s].phase # "idle"
        /\ runs' = runs \cup RunSet(s).runs
        /\ evidence' = evidence \cup new
        /\ Complete(s, new)
    BY <1>17 DEF CommitDone
  <2>2. FactsOfSessions
    BY <1>12, <2>1 DEF RunSet
  <2>3. \A e \in new : /\ e.task = session[s].task
                      /\ e.attempt = OwnAttempt(s, session[s].task, RepairedClaims)
    BY DEF RunSet, CommitRecords, Record
  <2> HIDE DEF new
  <2>4. EvidenceOfTask
    BY <1>13, <2>1, <2>3
  <2> QED
    BY <1>2, <2>1, <2>2, <2>4, RepairKeepsAttempts DEF Complete, Files
<1>18. ASSUME NEW s \in Session, NEW drifted, RefuseCommit(s, drifted)
       PROVE  Files
  <2>1. CommandsBound
    BY <1>0, <1>18 DEF RefuseCommit, CommandsBound, Work
  <2> QED
    BY <1>18, <2>1, RepairKeepsAttempts
    DEF RefuseCommit, Repair, Files, FactsOfSessions, EvidenceOfTask
<1>19. ASSUME NEW s \in Session, RejectCommit(s) \/ RefuseCitation(s)
       PROVE  Files
  BY <1>2, <1>19, RepairKeepsAttempts
  DEF RejectCommit, RefuseCitation, Repair, Files, FactsOfSessions, EvidenceOfTask
<1>20. ASSUME NEW s \in Session, NEW cited, NEW note, NEW sha,
              CiteAndComplete(s, cited, note, sha)
       PROVE  Files
  <2> DEFINE own == OwnAttempt(s, session[s].task, RepairedClaims)
             new == CommitRecords(s, sha)
                      \cup IF note THEN {Record(session[s].task, own, "note")}
                           ELSE {}
  <2>1. /\ session[s].phase # "idle" /\ UNCHANGED runs
        /\ evidence' = evidence \cup new
        /\ Complete(s, cited \cup new)
    BY <1>20 DEF CiteAndComplete
  <2>2. \A e \in new : e.task = session[s].task /\ e.attempt = own
    BY DEF CommitRecords, Record
  <2> HIDE DEF new
  <2>3. EvidenceOfTask /\ FactsOfSessions
    BY <1>13, <2>1, <2>2 DEF FactsOfSessions
  <2> QED
    BY <1>2, <2>1, <2>3, RepairKeepsAttempts DEF Complete, Files
<1>21. ASSUME NEW s \in Session, Continue(s)
       PROVE  Files
  BY <1>14, <1>15, <1>16, <1>17, <1>18, <1>19, <1>20, <1>21 DEF Continue
<1>22. ASSUME NEW s \in Session, Renew(s) \/ Kill(s)
       PROVE  Files
  BY <1>1, <1>2, <1>22, RepairKeepsAttempts
  DEF Renew, Kill, ledger, Files, FactsOfSessions, EvidenceOfTask
<1>23. ASSUME NEW t \in Task, NEW acc, AddTask(t, acc) \/ ReviseAcceptance(t, acc)
       PROVE  Files
  BY <1>1, <1>23, RepairKeepsAttempts DEF AddTask, ReviseAcceptance, Repair
<1>24. ASSUME NEW t \in Task, Hold(t) \/ ClearHold(t) \/ Expire(t)
       PROVE  Files
  BY <1>1, <1>24, RepairKeepsAttempts DEF Hold, ClearHold, Expire, Repair
<1>25. ASSUME RepairAndRefuse \/ UNCHANGED vars
       PROVE  Files
  BY <1>1, <1>25, RepairKeepsAttempts DEF RepairAndRefuse, Repair, vars, ledger
<1> QED
  BY <1>11, <1>21, <1>22, <1>23, <1>24, <1>25 DEF Next

\* What is filed stays with its task and its actor: attempts never change
\* theirs, and new facts are filed under attempts of the actor that ran them.
LEMMA FilingStep ==
    ASSUME Typed, Typed', BoundSessions, FactsStayWithActor, Files
    PROVE  BoundSessions' /\ FactsStayWithActor'
<1>1. ASSUME NEW a \in SomeAttempt, NEW t, NEW x, AttemptOf(a, t, x)
      PROVE  a # NoAttempt => /\ t \in Task
                              /\ attempt'[a].task = t /\ attempt'[a].actor = x
  BY <1>1, ConstantsTyped DEF AttemptOf, Files, AttemptsKept, SomeAttempt
<1>2. BoundSessions'
  <2> SUFFICES ASSUME NEW s \in Session, session'[s].attempt # NoAttempt
               PROVE  /\ session'[s].task \in Task
                      /\ attempt'[session'[s].attempt].task = session'[s].task
                      /\ attempt'[session'[s].attempt].actor = ActorOf[s]
    BY DEF BoundSessions, AttemptOf
  <2>1. session'[s].attempt \in SomeAttempt
    BY DEF Typed, TypeOK, Work
  <2>2. AttemptOf(session'[s].attempt, session'[s].task, ActorOf[s])
    BY DEF Files, CommandsBound, BoundSessions
  <2> QED
    BY <1>1, <2>1, <2>2
<1>3. ASSUME NEW r \in runs'
      PROVE  /\ \A a \in {r.attempt, r.under} \ {NoAttempt} :
                    attempt'[a].task = r.task
             /\ NoAttempt \notin {r.attempt, r.under} =>
                    attempt'[r.attempt].actor = attempt'[r.under].actor
  <2>1. CASE r \in runs
    <3>1. r.task \in Task /\ r.attempt \in SomeAttempt /\ r.under \in SomeAttempt
      BY <2>1 DEF Typed, TypeOK, Run
    <3>2. \A a \in {r.attempt, r.under} \ {NoAttempt} :
             /\ attempt[a].task = r.task
             /\ attempt'[a].task = r.task
             /\ attempt'[a].actor = attempt[a].actor
      BY <2>1, <3>1, ConstantsTyped
      DEF FactsStayWithActor, Files, AttemptsKept, SomeAttempt
    <3> QED
      BY <2>1, <3>1, <3>2 DEF FactsStayWithActor
  <2>2. CASE r \notin runs
    <3>1. PICK s \in Session, a \in SomeAttempt :
             AttemptOf(a, session[s].task, ActorOf[s]) /\ r \in Facts(s, a)
      BY <2>2 DEF Files, FactsOfSessions
    <3>2. r.task = session[s].task /\ r.attempt = a /\ r.under = session[s].attempt
      BY <3>1 DEF Facts
    <3>3. session[s].attempt \in SomeAttempt
          /\ AttemptOf(session[s].attempt, session[s].task, ActorOf[s])
      BY DEF Typed, TypeOK, Work, BoundSessions
    <3> QED
      BY <1>1, <3>1, <3>2, <3>3
  <2> QED
    BY <2>1, <2>2
<1>4. ASSUME NEW e \in evidence', e.attempt # NoAttempt
      PROVE  attempt'[e.attempt].task = e.task
  <2>1. CASE e \in evidence
    <3>1. e.task \in Task /\ e.attempt \in Attempt
      BY <1>4, <2>1 DEF Typed, TypeOK, Evidence, SomeAttempt
    <3> QED
      BY <1>4, <2>1, <3>1, ConstantsTyped DEF FactsStayWithActor, Files, AttemptsKept
  <2>2. CASE e \notin evidence
    BY <1>1, <1>4, <2>2 DEF Files, EvidenceOfTask
  <2> QED
    BY <2>1, <2>2
<1> QED
  BY <1>2, <1>3, <1>4 DEF FactsStayWithActor

\* A fact is filed under an attempt of the actor that executed it, on the task
\* it is about, even if the claim was lost and taken again in between.
THEOREM FactsAreOfTheirActor == Spec => []FactsStayWithActor
<1>1. Init => BoundSessions /\ FactsStayWithActor
  BY DEF Init, Idle, BoundSessions, AttemptOf, FactsStayWithActor
<1>2. IInv /\ IInv' /\ BoundSessions /\ FactsStayWithActor /\ [Next]_vars =>
         BoundSessions' /\ FactsStayWithActor'
  BY StepFiles, FilingStep DEF IInv
<1> QED
  BY <1>1, <1>2, IInvInductive, PTL DEF Spec

-----------------------------------------------------------------------------
(* The contract: every transaction of every command is a step of            *)
(* TaskContract, or changes nothing of it.                                  *)

\* The contract's variables, as the instance substitutes them.
owner == [t \in Task |-> claim[t].attempt]
spent == {a \in Attempt : attempt[a].state # "unborn"}

\* The attempts given away so far, among given attempts.
Spent(attempts) == {a \in Attempt : attempts[a].state # "unborn"}

Owners(claims) == [t \in Task |-> claims[t].attempt]

\* The claims as a repairing transaction sees them are the swept owners.
LEMMA SweptOwners == Contract!Swept = Owners(RepairedClaims)
BY DEF Contract!Swept, RepairedClaims, NoClaim, Owners

\* Neither repairing leases nor closing a claimed attempt makes an attempt
\* unborn, or born.
LEMMA RepairKeepsSpent ==
    ASSUME Typed, ClaimAttemptAgreement
    PROVE  Spent(RepairedAttempts) = Spent(attempt)
<1>1. ASSUME NEW a \in Attempt
      PROVE  RepairedAttempts[a].state = "unborn" <=> attempt[a].state = "unborn"
  <2>1. CASE \E t \in expired : claim[t].attempt = a
    <3>1. PICK t \in expired : claim[t].attempt = a
      BY <2>1
    <3>2. t \in Task /\ claim[t] # NoClaim
      BY DEF Typed, TypeOK, ClaimAttemptAgreement
    <3>3. attempt[claim[t].attempt] =
             [task |-> t, actor |-> claim[t].actor, state |-> "open"]
      BY <3>2 DEF ClaimAttemptAgreement
    <3>4. attempt[a].state = "open"
      BY <3>1, <3>3
    <3>5. RepairedAttempts[a].state = "claim_abandoned"
      BY <2>1 DEF RepairedAttempts, Typed, TypeOK, AttemptRecord
    <3> QED
      BY <3>4, <3>5
  <2>2. CASE ~\E t \in expired : claim[t].attempt = a
    BY <2>2 DEF RepairedAttempts
  <2> QED
    BY <2>1, <2>2
<1> QED
  BY <1>1 DEF Spent

LEMMA CloseKeepsSpent ==
    ASSUME Typed, ClaimAttemptAgreement, NEW t \in Task, NEW reason \in Closed
    PROVE  Spent(Close(RepairedAttempts, RepairedClaims[t].attempt, reason))
              = Spent(attempt)
<1> DEFINE b == RepairedClaims[t].attempt
           closed == Close(RepairedAttempts, b, reason)
<1>1. /\ RepairedClaims \in Claims
      /\ RepairedAttempts \in [Attempt -> AttemptRecord]
  BY RepairTyped DEF Typed
<1>2. \A a \in Attempt : a # b => closed[a] = RepairedAttempts[a]
  BY <1>1 DEF Close
<1>3. b \in Attempt => /\ closed[b].state # "unborn"
                       /\ RepairedAttempts[b].state # "unborn"
  <2>1. SUFFICES ASSUME b \in Attempt
                 PROVE  /\ closed[b].state # "unborn"
                        /\ RepairedAttempts[b].state # "unborn"
    OBVIOUS
  <2>2. RepairedClaims[t] # NoClaim
    BY <1>1, <2>1, ClaimedAttempt
  <2>3. RepairedAttempts[b] =
           [task |-> t, actor |-> RepairedClaims[t].actor, state |-> "open"]
    BY <2>2, RepairAgrees DEF Agree
  <2>4. closed[b].state = reason
    BY <1>1, <2>1 DEF Close, AttemptRecord
  <2> QED
    BY <2>3, <2>4 DEF Closed
<1> HIDE DEF b, closed
<1>4. Spent(closed) = Spent(RepairedAttempts)
  BY <1>2, <1>3 DEF Spent
<1> QED
  BY <1>4, RepairKeepsSpent DEF b, closed

\* A step that repairs leases, and closes no task, sweeps.
LEMMA RepairSweeps ==
    ASSUME Typed, ClaimAttemptAgreement, Repair, UNCHANGED status
    PROVE  Contract!Next
<1>1. owner' = Contract!Swept
  BY SweptOwners DEF Repair, owner, Owners
<1>2. spent' = spent
  BY RepairKeepsSpent DEF Repair, spent, Spent
<1> QED
  BY <1>1, <1>2 DEF Contract!Next, Contract!Sweep, Repair, owner, spent

\* A step that ends a claim as a given attempt event, with what it does to the
\* status left open.
LEMMA EndClaimReturns ==
    ASSUME Typed, ClaimAttemptAgreement, NEW t \in Task, NEW reason \in Closed,
           claim' = [RepairedClaims EXCEPT ![t] = NoClaim],
           attempt' = Close(RepairedAttempts, RepairedClaims[t].attempt, reason)
    PROVE  /\ owner' = [Contract!Swept EXCEPT ![t] = NoAttempt]
           /\ spent' = spent
<1>1. RepairedClaims \in Claims
  BY RepairTyped DEF Typed
<1>2. owner' = [Contract!Swept EXCEPT ![t] = NoAttempt]
  BY <1>1, SweptOwners DEF owner, Owners, Claims, NoClaim
<1>3. spent' = spent
  BY CloseKeepsSpent DEF spent, Spent
<1> QED
  BY <1>2, <1>3

\* The owner of a task owns it after the sweep.
LEMMA OwnerSwept ==
    ASSUME Typed, NEW s, NEW t \in Task, Owns(s, t, RepairedClaims)
    PROVE  Contract!Swept[t] # NoAttempt
BY RepairTyped, OwnedAttempt, SweptOwners, ConstantsTyped DEF Typed, Owners

\* Completing a task finishes it.
LEMMA CompleteFinishes ==
    ASSUME Typed, ClaimAttemptAgreement, NEW s \in Session,
           session[s].phase # "idle", NEW cited, Complete(s, cited)
    PROVE  Contract!Next
<1>1. PICK t \in Task : t = session[s].task
  BY DEF Typed, BusyOnTask
<1>2. /\ Owns(s, t, RepairedClaims) /\ status[t] = "open"
      /\ status' = [status EXCEPT ![t] = "completed"]
      /\ claim' = [RepairedClaims EXCEPT ![t] = NoClaim]
      /\ expired' = {}
  BY <1>1 DEF Complete, GuardStillHolds, CompletionGuard, Open
<1>3. attempt' = Close(RepairedAttempts, RepairedClaims[t].attempt,
                       "task_completed")
  BY <1>1, <1>2 DEF Complete, OwnAttempt
<1>4. Contract!Swept[t] # NoAttempt
  BY <1>1, <1>2, OwnerSwept
<1>5. owner' = [Contract!Swept EXCEPT ![t] = NoAttempt] /\ spent' = spent
  BY <1>1, <1>2, <1>3, EndClaimReturns DEF Closed
<1>6. Contract!Finish(t)
  BY <1>2, <1>4, <1>5 DEF Contract!Finish, owner, spent
<1> QED
  BY <1>1, <1>6 DEF Contract!Next

\* Every step is a step of the contract, or a stutter of it.
LEMMA ContractStep ==
    ASSUME Typed, ClaimAttemptAgreement, [Next]_vars
    PROVE  [Contract!Next]_(Contract!vars)
<1> DEFINE Mapped == [Contract!Next]_(Contract!vars)
<1>1. ASSUME UNCHANGED <<status, claim, expired, attempt>>
      PROVE  Mapped
  BY <1>1 DEF Contract!vars
<1>2. ASSUME NEW t \in Task, NEW acc, AddTask(t, acc)
      PROVE  Mapped
  <2>1. Contract!Add(t)
    BY <1>2 DEF AddTask, Contract!Add
  <2> QED
    BY <2>1 DEF Contract!Next
<1>3. ASSUME NEW s \in Session, NEW t \in Task, NEW a \in Attempt, Take(s, t, a)
      PROVE  Mapped
  <2>1. RepairedClaims \in Claims /\ RepairedAttempts \in [Attempt -> AttemptRecord]
    BY RepairTyped DEF Typed
  <2>2. Contract!Swept[t] = NoAttempt /\ status[t] = "open" /\ a \notin spent
    BY <1>3, SweptOwners DEF Take, Ready, Open, Owners, NoClaim, Unborn, spent
  <2>3. owner' = [Contract!Swept EXCEPT ![t] = a]
    BY <1>3, <2>1, SweptOwners DEF Take, owner, Owners, Claims
  <2>4. spent' = spent \cup {a}
    <3>1. spent' = Spent(RepairedAttempts) \cup {a}
      BY <1>3, <2>1 DEF Take, spent, Spent
    <3> QED
      BY <3>1, RepairKeepsSpent DEF spent, Spent
  <2>5. Contract!Acquire(t, a)
    BY <1>3, <2>2, <2>3, <2>4 DEF Take, Contract!Acquire, owner, spent
  <2> QED
    BY <2>5 DEF Contract!Next
<1>4. ASSUME NEW s \in Session, NEW t \in Task, Release(s, t)
      PROVE  Mapped
  <2>1. owner' = [Contract!Swept EXCEPT ![t] = NoAttempt] /\ spent' = spent
    BY <1>4, EndClaimReturns DEF Release, Closed
  <2>2. Contract!Swept[t] # NoAttempt
    BY <1>4, OwnerSwept DEF Release
  <2>3. Contract!Return(t)
    BY <1>4, <2>1, <2>2 DEF Release, Contract!Return, owner, spent
  <2> QED
    BY <2>3 DEF Contract!Next
<1>5. ASSUME NEW s \in Session, NEW t \in Task, Cancel(s, t)
      PROVE  Mapped
  <2>1. owner' = [Contract!Swept EXCEPT ![t] = NoAttempt] /\ spent' = spent
    BY <1>5, EndClaimReturns DEF Cancel, Closed
  <2>2. Contract!Withdraw(t)
    BY <1>5, <2>1 DEF Cancel, Open, Contract!Withdraw, owner, spent
  <2> QED
    BY <2>2 DEF Contract!Next
<1>6. ASSUME NEW s \in Session, NEW t \in Task,
             RecordNote(s, t) \/ RecordRunSet(s, t)
      PROVE  Mapped
  BY <1>6, RepairSweeps DEF RecordNote, RecordRunSet, RecordEvidence
<1>7. ASSUME NEW s \in Session, NEW t \in Task, NEW c, BeginProbe(s, t, c)
      PROVE  Mapped
  BY <1>7, RepairSweeps DEF BeginProbe
<1>8. ASSUME NEW t \in Task, expired' = expired \ {t},
             UNCHANGED <<status, claim, attempt>>
      PROVE  Mapped
  <2>1. Contract!Revive(t)
    BY <1>8 DEF Contract!Revive
  <2> QED
    BY <2>1 DEF Contract!Next
<1>9. ASSUME NEW s \in Session, NEW t \in Task, NEW cmd, NEW phase,
             BeginGuarded(s, t, cmd, phase)
      PROVE  Mapped
  BY <1>8, <1>9 DEF BeginGuarded, RenewExecutionClaim
<1>10. ASSUME NEW s \in Session, Command(s)
       PROVE  Mapped
  BY <1>3, <1>4, <1>5, <1>6, <1>7, <1>9, <1>10
  DEF Command, BeginRunAcceptance, BeginDone, BeginCitingDone
<1>11. ASSUME NEW s \in Session, Continue(s)
       PROVE  Mapped
  <2>1. ASSUME NEW passed, NEW strays, NEW artifactError, FinishShell(s, passed, strays, artifactError)
        PROVE  Mapped
    BY <1>1, <2>1 DEF FinishShell, ledger
  <2>2. CASE RecordScriptRunsOnly(s)
    BY <1>1, <2>2 DEF RecordScriptRunsOnly
  <2>3. CASE CommitRunSet(s) \/ RejectCommit(s) \/ RefuseCitation(s)
    BY <1>1, <2>3, RepairSweeps
    DEF CommitRunSet, RejectCommit, RefuseCitation
  <2>4. ASSUME NEW drifted, RefuseCommit(s, drifted)
        PROVE  Mapped
    BY <2>4, RepairSweeps DEF RefuseCommit
  <2>5. ASSUME NEW sha, CommitDone(s, sha)
        PROVE  Mapped
    BY <2>5, CompleteFinishes DEF CommitDone
  <2>6. ASSUME NEW cited, NEW note, NEW sha, CiteAndComplete(s, cited, note, sha)
        PROVE  Mapped
    BY <2>6, CompleteFinishes DEF CiteAndComplete
  <2> QED
    BY <1>11, <2>1, <2>2, <2>3, <2>4, <2>5, <2>6 DEF Continue
<1>12. ASSUME NEW s \in Session, Renew(s)
       PROVE  Mapped
  <2>1. session[s].task \in Task
    BY <1>12 DEF Renew, Typed, BusyOnTask
  <2> QED
    BY <1>8, <1>12, <2>1 DEF Renew
<1>13. ASSUME NEW s \in Session, Kill(s)
       PROVE  Mapped
  BY <1>1, <1>13 DEF Kill, ledger
<1>14. ASSUME NEW t \in Task, NEW acc, ReviseAcceptance(t, acc)
       PROVE  Mapped
  BY <1>14, RepairSweeps DEF ReviseAcceptance
<1>15. ASSUME NEW t \in Task, Hold(t) \/ ClearHold(t)
       PROVE  Mapped
  BY <1>15, RepairSweeps DEF Hold, ClearHold
<1>16. ASSUME NEW t \in Task, Expire(t)
       PROVE  Mapped
  <2>1. claim[t].attempt # NoAttempt
    BY <1>16, ClaimedAttempt, ConstantsTyped
    DEF Expire, Typed, TypeOK, Claims
  <2>2. Contract!Lapse(t)
    BY <1>16, <2>1 DEF Expire, Contract!Lapse
  <2> QED
    BY <2>2 DEF Contract!Next
<1>17. CASE RepairAndRefuse
  BY <1>17, RepairSweeps DEF RepairAndRefuse
<1>18. CASE UNCHANGED vars
  BY <1>1, <1>18 DEF vars, ledger
<1> QED
  BY <1>2, <1>10, <1>11, <1>12, <1>13, <1>14, <1>15, <1>16, <1>17, <1>18 DEF Next

\* ClaimProtocol implements TaskContract: KeepsContract, for any number of
\* processes, tasks and attempts.
THEOREM ContractKept == Spec => KeepsContract
<1>1. Init => Contract!Init
  BY DEF Init, Contract!Init, NoClaim, Unborn
<1>2. IInv /\ [Next]_vars => [Contract!Next]_(Contract!vars)
  BY ContractStep DEF IInv
<1> QED
  BY <1>1, <1>2, IInvInductive, PTL DEF Spec, KeepsContract, Contract!Spec
=============================================================================
