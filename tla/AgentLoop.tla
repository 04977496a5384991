----------------------------- MODULE AgentLoop -----------------------------
(***************************************************************************)
(* The agent loop that the program's documentation prescribes: run         *)
(* `cst next`, execute what it returns, run it again, until it returns     *)
(* nothing to do or asks for input.                                        *)
(*                                                                         *)
(* Somebody plans with any sequence of `add`, `hold` and `cancel`, and     *)
(* hands the plan over to one agent, who is alone with it, renews its      *)
(* leases and commits its changes.  Acceptance runs may fail, but not for  *)
(* ever.                                                                   *)
(***************************************************************************)
EXTENDS NextView

CONSTANT MaxPlan   \* bound: a plan has at most this many nodes

VARIABLES
    planned,     \* the plan is handed over
    proved       \* claimed tasks whose acceptance is on record

agentVars == <<vars, planned, proved>>

AgentInit == Init /\ planned = FALSE /\ proved = {}

Plan ==
    /\ ~planned
    /\ \/ nextID <= MaxPlan /\ Add
       \/ \E n \in Node : Hold(n, claimed) \/ Cancel(n, claimed)
    /\ BoundaryPartition'
    /\ UNCHANGED <<planned, proved>>

HandOver ==
    /\ ~planned /\ HasRoot
    /\ planned' = TRUE
    /\ UNCHANGED <<vars, proved>>

-----------------------------------------------------------------------------
(* What the agent executes *)

\* The agent's own claims: nobody else has any.
Mine == claimed

\* worker-run of take_ready_task.
TakeOffered(t) ==
    /\ OffersTake(Mine, t)
    /\ Take(t, claimed)
    /\ UNCHANGED proved

\* worker-run of run_acceptance, or the evidence that is asked for.
Prove(t) ==
    /\ OffersWork(Mine, t) /\ t \notin proved
    /\ proved' = proved \cup {t}
    /\ UNCHANGED vars

\* worker-run of complete_from_acceptance or complete_review_with_evidence.
CompleteOffered(t) ==
    /\ OffersWork(Mine, t) /\ t \in proved
    /\ Complete(t, claimed)
    /\ UNCHANGED proved

\* `revise --obligation-claim`, for one missing obligation at a time: what the
\* task promised before is replaced.
RepairTask(t) ==
    /\ t \notin claimed /\ RepairsTask(Mine, t)
    /\ UNCHANGED <<after, required, owned, proved>>
    /\ \E o \in Missing(t) : promised' = [promised EXCEPT ![t] = {o}]
    /\ Revise(t, parent[t], claimed)

\* Mutant: the task that is added for an obligation does not claim it.
RepairRootUnclaimed ==
    /\ RepairsRoot(Mine)
    /\ \E o \in Missing(Root), own \in SUBSET Path :
          CreateTask(Root, {}, {}, {}, own)
    /\ UNCHANGED proved

\* `add --obligation-claim` below the root.
RepairRoot ==
    /\ RepairsRoot(Mine)
    /\ \E o \in Missing(Root), own \in SUBSET Path :
          CreateTask(Root, {}, {}, {o}, own)
    /\ UNCHANGED proved

AgentStep ==
    /\ planned /\ UNCHANGED planned
    /\ \/ \E t \in Node : \/ TakeOffered(t)
                          \/ Prove(t)
                          \/ CompleteOffered(t)
                          \/ RepairTask(t)
       \/ RepairRoot
    /\ BoundaryPartition'

AgentNext == Plan \/ HandOver \/ AgentStep

\* The agent goes on as long as next returns something to execute.
AgentSpec ==
    AgentInit /\ [][AgentNext]_agentVars /\ WF_agentVars(AgentStep)

-----------------------------------------------------------------------------
(* Properties *)

Finished == NoOp(Mine) \/ Blocked(Mine) \/ AsksForWork(Mine)

\* What a task misses, the repair can supply: it counts the claims of a task
\* only if no task below it is in the way, and it knows one claim at a time.
Repairable ==
    \A t \in Node : OpenTask(t) /\ Missing(t) # {} =>
        /\ StaticLeaf(t)
        /\ promised[t] = {}
        /\ \E o \in Obligation : required[t] = {o}

\* The loop ends: whatever plan was handed over, the agent comes to an end of
\* the work, to a question or to a block, unless a task misses what the repair
\* of next cannot supply.
AgentFinishes == planned /\ Repairable ~> Finished

\* What the agent achieved, a fact for each node it is about.
Facts ==
    [exists |-> {n \in Node : Exists(n)},
     covering |-> {n \in Node : promised[n] # {}},
     taken |-> {n \in Node : n \in claimed \/ Terminal(n)},
     proved |-> proved,
     completed |-> {n \in Node : status[n] = "completed"}]

\* Nothing the agent does is undone or repeated: each step adds a fact and takes
\* none back, and leaves the plan such that its repairs go on to help.  As every
\* fact is about a node, the agent takes at most five steps for each.
AgentAdvances ==
    [][planned /\ Repairable =>
          /\ \A f \in DOMAIN Facts : Facts[f] \subseteq Facts'[f]
          /\ Facts' # Facts
          /\ Repairable']_agentVars

\* The agent is never left with an answer that it cannot execute: next stops
\* with a reason, or it projects a command whose checks pass.  What was true
\* when the task was offered is true still when it is completed.
NeverStuck ==
    planned =>
        \/ Finished
        \/ \E t \in Node :
              \/ OffersTake(Mine, t) /\ IsReadyTask(t, claimed)
              \/ /\ OffersWork(Mine, t)
                 /\ t \notin held /\ ~OpenTaskChild(t) /\ PrereqsDone(t)
              \/ /\ RepairsTask(Mine, t)
                 /\ t \notin claimed /\ ~Terminal(t) /\ ~IsArchived(t)
        \/ RepairsRoot(Mine) /\ MayParent(Root, "task")
=============================================================================
