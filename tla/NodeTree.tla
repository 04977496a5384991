------------------------------ MODULE NodeTree ------------------------------
(***************************************************************************)
(* The node tree of cst: goals, tasks and rules, the prerequisites between *)
(* them, the obligations that make a goal complete, and the paths that     *)
(* nodes own.  One action per command that changes it (tx.go), with the    *)
(* checks of the transaction and of the reducer behind it (reducer.go).    *)
(*                                                                         *)
(* Who holds a claim is left to ClaimProtocol: here a task is claimed or   *)
(* not.  A command that repairs leases keeps the claims in `live`, those   *)
(* whose lease has not expired, and abandons the others.                   *)
(***************************************************************************)
EXTENDS Naturals, FiniteSets

CONSTANTS
    MaxNode,     \* bound: ids are handed out up to this one
    Obligation,  \* names of success obligations
    Path         \* paths, each the set of the files at or below it

ASSUME BoundTyped == MaxNode \in Nat

Node == 1 .. MaxNode
NoNode == 0

VARIABLES
    nextID,      \* the id of the next node
    kind,        \* goal, task or rule; none for a node not yet created
    parent,      \* the parent of a node, NoNode for the root
    after,       \* the prerequisites of a task
    status,      \* open, completed or canceled; a goal is always open
    claimed,     \* tasks somebody has a claim on
    held,        \* tasks on hold
    archived,    \* nodes that carry the archive marker
    required,    \* the success obligations a node declares
    promised,    \* the obligations a task claims to cover
    owned        \* the owned paths of a node's boundary

shape == <<nextID, kind, parent>>
declared == <<required, promised, owned>>
vars == <<shape, after, status, claimed, held, archived, declared>>

Init ==
    /\ nextID = 1
    /\ kind = [n \in Node |-> "none"]
    /\ parent = [n \in Node |-> NoNode]
    /\ after = [n \in Node |-> {}]
    /\ status = [n \in Node |-> "open"]
    /\ claimed = {} /\ held = {} /\ archived = {}
    /\ required = [n \in Node |-> {}]
    /\ promised = [n \in Node |-> {}]
    /\ owned = [n \in Node |-> {}]

-----------------------------------------------------------------------------
(* Queries *)

Exists(n) == kind[n] # "none"
Terminal(n) == status[n] # "open"
CanParentWork(n) == kind[n] \in {"goal", "task"}
OpenTask(n) == kind[n] = "task" /\ ~Terminal(n)

\* Besides the types: only open tasks are claimed or held, and none is both.
TypeOK ==
    /\ nextID \in 1 .. MaxNode + 1
    /\ kind \in [Node -> {"none", "goal", "task", "rule"}]
    /\ parent \in [Node -> Node \cup {NoNode}]
    /\ after \in [Node -> SUBSET Node]
    /\ status \in [Node -> {"open", "completed", "canceled"}]
    /\ claimed \subseteq {n \in Node : OpenTask(n)}
    /\ held \subseteq {n \in Node : OpenTask(n)}
    /\ claimed \cap held = {}
    /\ archived \subseteq {n \in Node : Exists(n)}
    /\ required \in [Node -> SUBSET Obligation]
    /\ promised \in [Node -> SUBSET Obligation]
    /\ owned \in [Node -> SUBSET Path]

\* isAncestor: the chain of parents in `tree` from n, n included, meets a.  The
\* walk is the least set that contains n and the parents of its members.
IsAncestor(tree, a, n) ==
    \A S \in SUBSET Node :
        n \in S /\ (\A m \in S : tree[m] \in S \cup {NoNode}) => a \in S

\* hasPrereqPath: from n, along prerequisites, the walk meets m.
HasPrereqPath(n, m) ==
    \A S \in SUBSET Node :
        n \in S /\ (\A k \in S : after[k] \subseteq S) => m \in S

\* SubtreeNodes, from the children's side: the two are kept together.
Subtree(n) == {m \in Node : Exists(m) /\ IsAncestor(parent, n, m)}
TaskChildren(n) == {c \in Node : kind[c] = "task" /\ parent[c] = n}
OpenTaskChild(n) == \E c \in TaskChildren(n) : ~Terminal(c)

\* Mutant: only the node's own marker counts.
IsMarkedArchived(n) == n \in archived

IsArchived(n) == \E a \in archived : IsAncestor(parent, a, n)

\* ObligationCoverage: what the subtree declares and no static leaf claims.
StaticLeaf(n) ==
    kind[n] = "task" /\ \A c \in TaskChildren(n) : status[c] = "canceled"

\* Mutant: the claims of a task itself are not counted.
MissingBelow(n) ==
    LET scope == {m \in Subtree(n) : status[m] # "canceled"} IN
    (UNION {required[m] : m \in scope})
      \ (UNION {promised[m] : m \in {k \in scope \ {n} : StaticLeaf(k)}})

Missing(n) ==
    LET scope == {m \in Subtree(n) : status[m] # "canceled"} IN
    (UNION {required[m] : m \in scope})
      \ (UNION {promised[m] : m \in {k \in scope : StaticLeaf(k)}})

\* NodeStatus is "completed": a goal completes with its subtree.
Completed(n) ==
    IF kind[n] = "goal"
    THEN (\A m \in Subtree(n) : ~OpenTask(m)) /\ Missing(n) = {}
    ELSE status[n] = "completed"

PrereqsDone(t) == \A p \in after[t] : Completed(p)

\* Mutant: prerequisites are not waited for.
IsReadyEarly(t, live) ==
    /\ OpenTask(t)
    /\ t \notin live
    /\ t \notin held
    /\ ~OpenTaskChild(t)

IsReadyTask(t, live) ==
    /\ OpenTask(t)
    /\ t \notin live
    /\ t \notin held
    /\ PrereqsDone(t)
    /\ ~OpenTaskChild(t)

-----------------------------------------------------------------------------
(* The boundary partition *)

\* pathInOwnedPaths.
Inside(q, scope) == \E s \in scope : q \subseteq s

\* pathsOverlap: one of the paths contains one of the others.
Overlap(P, Q) == \E p \in P, q \in Q : p \subseteq q \/ q \subseteq p

\* participatesInBoundaryPartition: closed tasks and goals with their work done
\* reserve no path any more.
Participates(n) ==
    /\ owned[n] # {}
    /\ \/ OpenTask(n)
       \/ /\ kind[n] = "goal"
          /\ \/ ~Completed(n)
             \/ \A m \in Subtree(n) : kind[m] # "task"

OrderedByPrerequisite(n, m) ==
    /\ kind[n] = "task" /\ kind[m] = "task"
    /\ HasPrereqPath(n, m) \/ HasPrereqPath(m, n)

\* validateBoundaryPartition, which Apply calls after every event.
BoundaryPartition ==
    \A n \in Node : Participates(n) =>
        /\ parent[n] # NoNode /\ owned[parent[n]] # {} =>
              \A q \in owned[n] : Inside(q, owned[parent[n]])
        /\ \A m \in Node \ {n} :
              /\ Participates(m)
              /\ parent[m] = parent[n]
              /\ Overlap(owned[n], owned[m])
              => OrderedByPrerequisite(n, m)

-----------------------------------------------------------------------------
(* What the commands check *)

\* Mutant: a closed task still takes children.
MayParentClosed(p, k) ==
    /\ CanParentWork(p)
    /\ ~IsArchived(p)
    /\ k = "goal" => kind[p] = "goal"

\* A node of kind k may be created under p or moved there.
MayParent(p, k) ==
    /\ CanParentWork(p)
    /\ ~Terminal(p)
    /\ ~IsArchived(p)
    /\ k = "goal" => kind[p] = "goal"

\* validateAfter for a new task.  Its own id is not in the tree yet, so neither
\* the ancestor check nor the cycle check can fire.
ValidAfterOfNew(as) == \A p \in as : CanParentWork(p)

\* Mutant: only a direct prerequisite is looked at.
ValidAfterDirectly(n, as, tree) ==
    \A p \in as : /\ p # n
                  /\ CanParentWork(p)
                  /\ ~IsAncestor(tree, p, n)
                  /\ n \notin after[p]

\* validateAfter for an existing task.
ValidAfter(n, as, tree) ==
    \A p \in as : /\ p # n
                  /\ CanParentWork(p)
                  /\ ~IsAncestor(tree, p, n)
                  /\ ~HasPrereqPath(p, n)

\* Mutant: the new parent may be below the node.
MayMoveAnywhere(n, p) ==
    /\ parent[n] # NoNode /\ p # NoNode
    /\ MayParent(p, kind[n])
    /\ p # n

\* moveNode, and the same checks in ReviseNode.
MayMove(n, p) ==
    /\ parent[n] # NoNode /\ p # NoNode
    /\ MayParent(p, kind[n])
    /\ ~IsAncestor(parent, n, p)

\* Mutant: only the children are asked for open work.
ArchivableByChildren(n) ==
    /\ CanParentWork(n)
    /\ parent[n] # NoNode
    /\ ~OpenTaskChild(n)
    /\ kind[n] = "task" => Terminal(n)

\* validateArchiveTarget.
Archivable(n) ==
    /\ CanParentWork(n)
    /\ parent[n] # NoNode
    /\ \A m \in Subtree(n) : ~OpenTask(m)
    /\ kind[n] = "goal" => Completed(n)

-----------------------------------------------------------------------------
(* Commands *)

Create(k, p, as, req, prom, own) ==
    /\ nextID \in Node
    /\ nextID' = nextID + 1
    /\ kind' = [kind EXCEPT ![nextID] = k]
    /\ parent' = [parent EXCEPT ![nextID] = p]
    /\ after' = [after EXCEPT ![nextID] = as]
    /\ required' = [required EXCEPT ![nextID] = req]
    /\ promised' = [promised EXCEPT ![nextID] = prom]
    /\ owned' = [owned EXCEPT ![nextID] = own]
    /\ UNCHANGED <<status, held, archived>>

\* DoAdd --goal, and the first goal.  DoAdd does not repair leases.
CreateRoot(req, own) ==
    /\ \A n \in Node : kind[n] # "goal" \/ parent[n] # NoNode
    /\ Create("goal", NoNode, {}, req, {}, own)
    /\ UNCHANGED claimed

CreateGoal(p, req, own) ==
    /\ MayParent(p, "goal")
    /\ Create("goal", p, {}, req, {}, own)
    /\ UNCHANGED claimed

CreateTask(p, as, req, prom, own) ==
    /\ MayParent(p, "task")
    /\ ValidAfterOfNew(as)
    /\ Create("task", p, as, req, prom, own)
    /\ UNCHANGED claimed

CreateRule(p) ==
    /\ MayParent(p, "rule")
    /\ Create("rule", p, {}, {}, {}, {})
    /\ UNCHANGED claimed

\* DoRulePromote: the rule again, under an ancestor of the source's parent.
PromoteRule(r, p, live) ==
    /\ kind[r] = "rule"
    /\ status[r] # "canceled"
    /\ MayParent(p, "rule")
    /\ p # parent[r]
    /\ IsAncestor(parent, p, parent[r])
    /\ Create("rule", p, {}, {}, {}, {})
    /\ claimed' = live

\* DoRevise: move, new prerequisites, new declarations, in one event.  The
\* transaction validates the prerequisites in the tree as it is, the reducer
\* in the tree after the move.
Revise(n, p, live) ==
    /\ Exists(n) /\ ~Terminal(n) /\ ~IsArchived(n)
    /\ n \notin live
    /\ p # parent[n] => MayMove(n, p)
    /\ parent' = [parent EXCEPT ![n] = p]
    /\ \E as \in SUBSET Node :
          /\ as # after[n] => /\ kind[n] = "task"
                              /\ ValidAfter(n, as, parent)
                              /\ ValidAfter(n, as, parent')
          /\ after' = [after EXCEPT ![n] = as]
    /\ \E req \in SUBSET Obligation :
          /\ req # required[n] => CanParentWork(n)
          /\ required' = [required EXCEPT ![n] = req]
    /\ \E prom \in SUBSET Obligation :
          /\ prom # promised[n] => kind[n] = "task"
          /\ promised' = [promised EXCEPT ![n] = prom]
    /\ \E own \in SUBSET Path :
          /\ own # owned[n] => CanParentWork(n)
          /\ owned' = [owned EXCEPT ![n] = own]
    /\ claimed' = live
    /\ UNCHANGED <<nextID, kind, status, held, archived>>

Take(t, live) ==
    /\ IsReadyTask(t, live)
    /\ claimed' = live \cup {t}
    /\ UNCHANGED <<shape, after, status, held, archived, declared>>

Release(t, live) ==
    /\ t \in live
    /\ claimed' = live \ {t}
    /\ UNCHANGED <<shape, after, status, held, archived, declared>>

\* Mutant: a claimed task may be put on hold.
HoldClaimed(t, live) ==
    /\ OpenTask(t)
    /\ held' = held \cup {t}
    /\ claimed' = live
    /\ UNCHANGED <<shape, after, status, archived, declared>>

Hold(t, live) ==
    /\ OpenTask(t)
    /\ t \notin live
    /\ held' = held \cup {t}
    /\ claimed' = live
    /\ UNCHANGED <<shape, after, status, archived, declared>>

ClearHold(t, live) ==
    /\ OpenTask(t)
    /\ t \in held
    /\ held' = held \ {t}
    /\ claimed' = live
    /\ UNCHANGED <<shape, after, status, archived, declared>>

Close(n, outcome, live) ==
    /\ status' = [status EXCEPT ![n] = outcome]
    /\ held' = held \ {n}
    /\ claimed' = live \ {n}
    /\ UNCHANGED <<shape, after, archived, declared>>

\* The last transaction of `done`: PrepareCompletionGuard's checks and those
\* of task_completed that concern the tree.
Complete(t, live) ==
    /\ OpenTask(t)
    /\ t \in live
    /\ t \notin held
    /\ ~OpenTaskChild(t)
    /\ PrereqsDone(t)
    /\ Missing(t) = {}
    /\ Close(t, "completed", live)

\* Mutant: cancel does not ask for open children.
CancelWithChildren(n, live) ==
    /\ kind[n] \in {"task", "rule"}
    /\ ~Terminal(n)
    /\ Close(n, "canceled", live)

\* DoCancel: a task or a rule, never a goal, and archived or not.
Cancel(n, live) ==
    /\ kind[n] \in {"task", "rule"}
    /\ ~Terminal(n)
    /\ ~OpenTaskChild(n)
    /\ Close(n, "canceled", live)

Archive(n, live) ==
    /\ n \notin archived
    /\ Archivable(n)
    /\ archived' = archived \cup {n}
    /\ claimed' = live
    /\ UNCHANGED <<shape, after, status, held, declared>>

Unarchive(n, live) ==
    /\ n \in archived
    /\ archived' = archived \ {n}
    /\ claimed' = live
    /\ UNCHANGED <<shape, after, status, held, declared>>

\* A command that is refused after it repaired the leases.
RepairAndRefuse(live) ==
    /\ live # claimed
    /\ claimed' = live
    /\ UNCHANGED <<shape, after, status, held, archived, declared>>

Add ==
    \E req \in SUBSET Obligation, own \in SUBSET Path :
        \/ CreateRoot(req, own)
        \/ \E p \in Node : CreateGoal(p, req, own)
        \/ \E p \in Node, as \in SUBSET Node, prom \in SUBSET Obligation :
              CreateTask(p, as, req, prom, own)
        \/ \E p \in Node : CreateRule(p)

Rearrange(live) ==
    \/ \E r, p \in Node : PromoteRule(r, p, live)
    \/ \E n \in Node, p \in Node \cup {NoNode} : Revise(n, p, live)
    \/ \E n \in Node : Archive(n, live) \/ Unarchive(n, live)

Work(live) ==
    \E n \in Node : \/ Take(n, live)
                    \/ Release(n, live)
                    \/ Hold(n, live)
                    \/ ClearHold(n, live)
                    \/ Complete(n, live)
                    \/ Cancel(n, live)

\* The reducer takes no event that breaks the partition; the events that
\* repair leases cannot.
Next ==
    /\ \/ Add
       \/ \E live \in SUBSET claimed :
             Rearrange(live) \/ Work(live) \/ RepairAndRefuse(live)
    /\ BoundaryPartition'

Spec == Init /\ [][Next]_vars

-----------------------------------------------------------------------------
(* Properties *)

\* However nodes are moved, the store is one tree: no set of nodes hangs on
\* itself alone, the only parentless node is the first goal, work is placed
\* under goals and tasks, and goals under goals.
OneTree ==
    /\ \A S \in SUBSET {n \in Node : Exists(n)} :
          S # {} => \E m \in S : parent[m] \notin S
    /\ \A n \in Node : Exists(n) =>
          /\ n < nextID
          /\ parent[n] = NoNode => n = 1 /\ kind[n] = "goal"
          /\ parent[n] # NoNode => /\ CanParentWork(parent[n])
                                   /\ kind[n] = "goal" => kind[parent[n]] = "goal"

\* No set of tasks waits for itself, in whatever order tasks were created,
\* revised and moved.
PrereqsAcyclic ==
    \A S \in SUBSET Node : S # {} => \E m \in S : after[m] \cap S = {}

\* A closed task has no open task anywhere below it, although only its children
\* were looked at and the tree was moved about since.
ClosedSubtreesSettled ==
    \A t \in Node : kind[t] = "task" /\ Terminal(t) =>
        \A m \in Subtree(t) : ~OpenTask(m)

\* A completed task's obligations stay covered by the leaves below it, and the
\* tasks it waited for stay completed.
CompletionsStayCovered ==
    \A t \in Node : kind[t] = "task" /\ status[t] = "completed" =>
        /\ Missing(t) = {}
        /\ \A p \in after[t] : kind[p] = "task" => status[p] = "completed"

\* An archived subtree has no open task, and an archived goal is complete: no
\* add, move, cancel or revision made since has reopened it.
ArchivedStaysComplete ==
    \A n \in archived : /\ \A m \in Subtree(n) : ~OpenTask(m)
                        /\ kind[n] = "goal" => Completed(n)

\* What is archived receives no work and no revision: its nodes, their places
\* and declarations are the same until the archive marker above them is gone.
ArchivedIsFrozen ==
    [][\A n \in archived \cap archived' :
          LET below == Subtree(n) IN
          /\ Subtree(n)' = below
          /\ \A m \in below : /\ after'[m] = after[m]
                              /\ required'[m] = required[m]
                              /\ promised'[m] = promised[m]
                              /\ owned'[m] = owned[m]
                              /\ kind[m] # "rule" => status'[m] = status[m]]_vars

\* Two sibling tasks that somebody works on own no path in common: an overlap
\* is allowed only along prerequisites, and one task of each chain is claimed
\* at a time, whatever was added, revised or completed in between.
ClaimedSiblingsApart ==
    \A n, m \in claimed : n # m /\ parent[n] = parent[m] =>
        ~Overlap(owned[n], owned[m])

\* No task waits for a node it is part of.
NoAncestorPrerequisite ==
    \A t \in Node : \A p \in after[t] : ~IsAncestor(parent, p, t)
=============================================================================
