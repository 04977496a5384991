------------------------------ MODULE NextView ------------------------------
(***************************************************************************)
(* `cst next`: the one step that the ledger projects for an actor          *)
(* (next.go), over any tree that the commands of NodeTree build.           *)
(*                                                                         *)
(* The worktree is clean here: uncommitted changes that no active boundary *)
(* owns come before everything else, and next then asks to reconcile them. *)
(* An actor with several claims is shown the earliest one; the model keeps *)
(* no times, so it may be any of `mine`.                                   *)
(***************************************************************************)
EXTENDS NodeTree

\* State.Root: the tree has one, and it is the first node (OneTree).
Root == 1

HasRoot == Root \in Node /\ Exists(Root)

\* Mutant: a task with children is not ready, not even when they are closed.
ReadyStaticLeaves == {t \in Node : IsReadyTask(t, claimed) /\ StaticLeaf(t)}

Ready == {t \in Node : IsReadyTask(t, claimed)}

\* The task next is about: a claim of one's own, or the oldest ready task.
Subject(mine) ==
    IF mine # {} THEN mine ELSE {t \in Ready : \A u \in Ready : t <= u}

\* taskObligationRepair: to claim what is missing below the task.
RepairsTask(mine, t) == t \in Subject(mine) /\ Missing(t) # {}

\* The action of a ready task, which is to take it.
OffersTake(mine, t) == mine = {} /\ t \in Subject(mine) /\ Missing(t) = {}

\* The actions of one's own task: run its acceptance, or bring evidence, and
\* complete it.
OffersWork(mine, t) == t \in mine /\ Missing(t) = {}

NothingAtHand(mine) == HasRoot /\ Subject(mine) = {}

\* obligationRepair: to add a task for what is missing below the root.
RepairsRoot(mine) == NothingAtHand(mine) /\ Missing(Root) # {}

Modeled == \E t \in Subtree(Root) : kind[t] = "task"

\* firstWorkRepair: input is required.
AsksForWork(mine) == NothingAtHand(mine) /\ Missing(Root) = {} /\ ~Modeled

\* Mutant: a goal is complete when the tasks right below it are closed.
NoOpByChildren(mine) ==
    NothingAtHand(mine) /\ Missing(Root) = {} /\ Modeled /\ ~OpenTaskChild(Root)

NoOp(mine) ==
    NothingAtHand(mine) /\ Missing(Root) = {} /\ Modeled /\ Completed(Root)

Blocked(mine) ==
    NothingAtHand(mine) /\ Missing(Root) = {} /\ Modeled /\ ~Completed(Root)

-----------------------------------------------------------------------------
(* Properties *)

\* When next projects nothing any more, nothing is left: no open task anywhere,
\* so that none is claimed or on hold, whoever the actor is.
NoOpIsFinal ==
    NoOp({}) => /\ claimed = {} /\ held = {}
                /\ \A t \in Node : ~OpenTask(t)

\* A prerequisite that will not complete by closing tasks: it was canceled, or
\* it is a goal without open tasks whose obligations nobody claims.
Failed(p) ==
    \/ status[p] = "canceled"
    \/ /\ kind[p] = "goal" /\ Missing(p) # {}
       /\ \A m \in Subtree(p) : ~OpenTask(m)

\* An open task waits for its open children, for its prerequisites, and for
\* the open tasks of a goal that is one.
WaitsInTree(t, u) ==
    \/ parent[u] = t
    \/ \E g \in after[t] : kind[g] = "goal" /\ u \in Subtree(g)
WaitsFor(t, u) == OpenTask(u) /\ (WaitsInTree(t, u) \/ u \in after[t])

\* Tasks each of which waits for one of them, and neither through
\* prerequisites alone nor through the tree alone.
Circle(S) ==
    /\ S # {}
    /\ \A t \in S : OpenTask(t) /\ \E u \in S : WaitsFor(t, u)
    /\ \E t \in S : after[t] \cap S = {}
    /\ \E t \in S : \A u \in S : parent[u] # t

\* When next says that nothing can be done although the root is not complete,
\* there is a cause outside the ledger's order (a claim, a hold, a prerequisite
\* that failed) or a circle that the checks of commands let through because it
\* mixes prerequisites with the tree.  Work that could go on is never hidden.
BlockedHasCause ==
    Blocked({}) =>
        \/ claimed # {} \/ held # {}
        \/ \E t \in Node : OpenTask(t) /\ \E p \in after[t] : Failed(p)
        \/ \E S \in SUBSET Node : Circle(S)
=============================================================================
