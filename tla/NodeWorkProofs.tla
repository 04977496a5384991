--------------------------- MODULE NodeWorkProofs ---------------------------
(***************************************************************************)
(* More proofs about NodeTree, for any number of nodes, obligations and    *)
(* paths: what was completed stays covered and what it waited for stays    *)
(* completed, what was archived stays complete and is not touched, and     *)
(* sibling tasks that somebody works on own no path in common.             *)
(*                                                                         *)
(* All of it follows from what no command does (StepSound): give a closed *)
(* or archived node another place or other declarations, or give a node a  *)
(* parent that is closed or archived.                                      *)
(***************************************************************************)
EXTENDS NodeTreeProofs

\* Only tasks wait, only goals and tasks declare, and an id not handed out yet
\* stands for nothing.
KindsDeclare ==
    \A n \in Node :
        /\ kind[n] # "task" => after[n] = {}
        /\ ~CanParentWork(n) => required[n] = {} /\ promised[n] = {}
        /\ ~Exists(n) => parent[n] = NoNode /\ status[n] = "open"
        /\ kind[n] = "goal" => status[n] = "open"

\* Claimed and completed tasks waited for what is completed.
WorkFollows ==
    \A n \in Node : kind[n] = "task" /\ (n \in claimed \/ status[n] = "completed") =>
        \A p \in after[n] : kind[p] = "task" => status[p] = "completed"

CompletedCovered ==
    \A t \in Node : kind[t] = "task" /\ status[t] = "completed" => Missing(t) = {}

\* The inductive invariant.
WorkInv ==
    /\ TreeInv
    /\ KindsDeclare
    /\ WorkFollows
    /\ CompletedCovered
    /\ ArchivedStaysComplete
    /\ BoundaryPartition

-----------------------------------------------------------------------------
(* What no step does *)

\* A node that may be given children.
TakesChildren(p) == CanParentWork(p) /\ ~Terminal(p) /\ ~IsArchived(p)

\* A node whose place and declarations do not change any more.
Fixed(n) == Exists(n) /\ (Terminal(n) \/ IsArchived(n))

Effect ==
    /\ \A n \in Node : Exists(n) => kind'[n] = kind[n]
    /\ \A n \in Node : Exists(n) => status'[n] \in {status[n], "completed", "canceled"}
    /\ \A n \in Node : Terminal(n) \/ kind[n] = "goal" => status'[n] = status[n]
    /\ \A n \in Node : \/ parent'[n] = parent[n]
                       \/ parent'[n] = NoNode
                       \/ parent'[n] \in Node /\ TakesChildren(parent'[n])
    /\ \A n \in Node : Fixed(n) => /\ parent'[n] = parent[n]
                                   /\ after'[n] = after[n]
                                   /\ required'[n] = required[n]
                                   /\ promised'[n] = promised[n]
                                   /\ owned'[n] = owned[n]

\* What a step needs to claim, complete or archive a node.
Grounds ==
    /\ \A n \in Node :
          kind'[n] = "task" /\ (n \in claimed' \/ status'[n] = "completed") =>
             /\ kind[n] = "task" /\ after'[n] = after[n]
             /\ n \in claimed \/ status[n] = "completed" \/ PrereqsDone(n)
    /\ \A t \in Node : kind[t] = "task" /\ status'[t] = "completed" =>
          \/ status[t] = "completed"
          \/ /\ Missing(t) = {}
             /\ UNCHANGED <<kind, parent, required, promised>>
             /\ \A m \in Node : status'[m] = "canceled" <=> status[m] = "canceled"
    /\ \A n \in archived' :
          \/ n \in archived
          \/ /\ Archivable(n)
             /\ UNCHANGED <<kind, parent, status, required, promised>>

Sound == Effect /\ Grounds /\ KindsDeclare'

LEMMA CreateSound ==
    ASSUME TreeInv, KindsDeclare,
           NEW k \in {"goal", "task", "rule"}, NEW p \in Node \cup {NoNode},
           NEW as \in SUBSET Node,
           NEW req \in SUBSET Obligation, NEW prom \in SUBSET Obligation,
           NEW own \in SUBSET Path,
           Create(k, p, as, req, prom, own),
           p # NoNode => TakesChildren(p),
           k # "task" => as = {} /\ prom = {},
           k = "rule" => req = {},
           claimed' \subseteq claimed
    PROVE  Sound
<1>1. ~Exists(nextID) /\ nextID \in Node
  BY BoundTyped DEF Create, TreeInv, Dense, Node
<1>2. ~Fixed(nextID) /\ nextID \notin claimed /\ status[nextID] = "open"
  BY <1>1 DEF Fixed, KindsDeclare, TreeInv, TypeOK, OpenTask, Exists
<1>3. \A n \in Node : n # nextID => /\ kind'[n] = kind[n] /\ parent'[n] = parent[n]
                                    /\ after'[n] = after[n]
                                    /\ required'[n] = required[n]
                                    /\ promised'[n] = promised[n]
                                    /\ owned'[n] = owned[n]
  BY DEF Create, TreeInv, TypeOK
<1>4. /\ status' = status /\ archived' = archived /\ parent'[nextID] = p
      /\ kind'[nextID] = k /\ after'[nextID] = as
      /\ required'[nextID] = req /\ promised'[nextID] = prom
  BY <1>1 DEF Create, TreeInv, TypeOK
<1>5. Effect
  BY <1>1, <1>2, <1>3, <1>4 DEF Effect, Node, NoNode
<1>6. Grounds
  BY <1>1, <1>2, <1>3, <1>4 DEF Grounds
<1>7. KindsDeclare'
  BY <1>1, <1>2, <1>3, <1>4 DEF KindsDeclare, CanParentWork, Exists
<1> QED  BY <1>5, <1>6, <1>7 DEF Sound

LEMMA ReviseSound ==
    ASSUME TreeInv, KindsDeclare, NEW n \in Node, NEW p \in Node \cup {NoNode},
           NEW live \in SUBSET claimed, Revise(n, p, live)
    PROVE  Sound
<1>1. ~Fixed(n) /\ status[n] = "open" /\ Exists(n)
  BY DEF Fixed, Revise, Terminal
<1>2. /\ UNCHANGED <<kind, status, archived>>
      /\ parent' = [parent EXCEPT ![n] = p]
      /\ claimed' \subseteq claimed /\ n \notin claimed'
  BY DEF Revise
<1>3. \A m \in Node : m # n => /\ parent'[m] = parent[m]
                               /\ after'[m] = after[m]
                               /\ required'[m] = required[m]
                               /\ promised'[m] = promised[m]
                               /\ owned'[m] = owned[m]
  BY DEF Revise, TreeInv, TypeOK
<1>4. p # parent[n] => p \in Node /\ TakesChildren(p)
  BY DEF Revise, MayMove, MayParent, TakesChildren
<1>5. parent'[n] = p
  BY <1>2 DEF TreeInv, TypeOK
<1>6. /\ after'[n] # after[n] => kind[n] = "task"
      /\ required'[n] # required[n] => CanParentWork(n)
      /\ promised'[n] # promised[n] => kind[n] = "task"
  BY DEF Revise, TreeInv, TypeOK
<1>7. Effect
  BY <1>1, <1>2, <1>3, <1>4, <1>5 DEF Effect
<1>8. Grounds
  BY <1>1, <1>2, <1>3 DEF Grounds
<1>9. KindsDeclare'
  BY <1>1, <1>2, <1>3, <1>6 DEF KindsDeclare, CanParentWork, Exists
<1> QED  BY <1>7, <1>8, <1>9 DEF Sound

LEMMA CloseSound ==
    ASSUME TreeInv, KindsDeclare,
           NEW n \in Node, NEW outcome \in {"completed", "canceled"},
           NEW live \in SUBSET claimed, Close(n, outcome, live),
           ~Terminal(n), kind[n] \in {"task", "rule"},
           outcome = "completed" => PrereqsDone(n) /\ Missing(n) = {}
    PROVE  Sound
<1>1. /\ UNCHANGED <<kind, parent, after, archived, required, promised, owned>>
      /\ claimed' \subseteq claimed
  BY DEF Close, shape, declared
<1>2. status'[n] = outcome /\ \A m \in Node : m # n => status'[m] = status[m]
  BY DEF Close, TreeInv, TypeOK
<1>3. Effect
  BY <1>1, <1>2 DEF Effect
<1>4. Grounds
  BY <1>1, <1>2 DEF Grounds, Terminal
<1>5. KindsDeclare'
  BY <1>1, <1>2 DEF KindsDeclare, CanParentWork, Exists
<1> QED  BY <1>3, <1>4, <1>5 DEF Sound

LEMMA MarkSound ==
    ASSUME TreeInv, KindsDeclare,
           UNCHANGED <<shape, after, status, declared>>,
           \A n \in claimed' : n \in claimed \/ PrereqsDone(n),
           \A n \in archived' : n \in archived \/ Archivable(n)
    PROVE  Sound
<1>1. UNCHANGED <<kind, parent, after, status, required, promised, owned>>
  BY DEF shape, declared
<1>2. Effect
  BY <1>1 DEF Effect, TreeInv, TypeOK
<1>3. Grounds
  BY <1>1 DEF Grounds
<1>4. KindsDeclare'
  BY <1>1 DEF KindsDeclare, CanParentWork, Exists
<1> QED  BY <1>2, <1>3, <1>4 DEF Sound

LEMMA AddSound ==
    ASSUME TreeInv, KindsDeclare, Add
    PROVE  Sound
<1>1. ASSUME NEW req \in SUBSET Obligation, NEW own \in SUBSET Path,
             CreateRoot(req, own)
      PROVE  Sound
  BY <1>1, CreateSound DEF CreateRoot
<1>2. ASSUME NEW p \in Node, NEW req \in SUBSET Obligation,
             NEW own \in SUBSET Path, CreateGoal(p, req, own)
      PROVE  Sound
  BY <1>2, CreateSound DEF CreateGoal, MayParent, TakesChildren
<1>3. ASSUME NEW p \in Node, NEW as \in SUBSET Node,
             NEW req \in SUBSET Obligation, NEW prom \in SUBSET Obligation,
             NEW own \in SUBSET Path, CreateTask(p, as, req, prom, own)
      PROVE  Sound
  <2>1. /\ TakesChildren(p) /\ Create("task", p, as, req, prom, own)
        /\ claimed' = claimed
    BY <1>3 DEF CreateTask, MayParent, TakesChildren
  <2> QED  BY <2>1, CreateSound
<1>4. ASSUME NEW p \in Node, CreateRule(p)
      PROVE  Sound
  BY <1>4, CreateSound DEF CreateRule, MayParent, TakesChildren
<1> QED  BY <1>1, <1>2, <1>3, <1>4 DEF Add

LEMMA RearrangeSound ==
    ASSUME TreeInv, KindsDeclare, NEW live \in SUBSET claimed, Rearrange(live)
    PROVE  Sound
<1>1. ASSUME NEW r \in Node, NEW p \in Node, PromoteRule(r, p, live)
      PROVE  Sound
  BY <1>1, CreateSound DEF PromoteRule, MayParent, TakesChildren
<1>2. ASSUME NEW n \in Node, NEW p \in Node \cup {NoNode}, Revise(n, p, live)
      PROVE  Sound
  BY <1>2, ReviseSound
<1>3. ASSUME NEW n \in Node, Archive(n, live) \/ Unarchive(n, live)
      PROVE  Sound
  BY <1>3, MarkSound DEF Archive, Unarchive
<1> QED  BY <1>1, <1>2, <1>3 DEF Rearrange

LEMMA WorkSound ==
    ASSUME TreeInv, KindsDeclare, NEW live \in SUBSET claimed, Work(live)
    PROVE  Sound
<1>1. ASSUME NEW n \in Node,
             \/ Take(n, live) \/ Release(n, live)
             \/ Hold(n, live) \/ ClearHold(n, live)
      PROVE  Sound
  BY <1>1, MarkSound DEF Take, Release, Hold, ClearHold, IsReadyTask
<1>2. ASSUME NEW n \in Node, Complete(n, live) \/ Cancel(n, live)
      PROVE  Sound
  BY <1>2, CloseSound DEF Complete, Cancel, OpenTask
<1> QED  BY <1>1, <1>2 DEF Work

\* Whatever the step, it leaves closed and archived nodes where and as they are
\* and hangs nothing below them.
LEMMA StepSound ==
    ASSUME TreeInv, KindsDeclare, [Next]_vars
    PROVE  Sound
<1>1. ASSUME NEW live \in SUBSET claimed, RepairAndRefuse(live)
      PROVE  Sound
  BY <1>1, MarkSound DEF RepairAndRefuse
<1>2. CASE UNCHANGED vars
  BY <1>2, MarkSound DEF vars
<1> QED
  BY <1>1, <1>2, AddSound, RearrangeSound, WorkSound DEF Next

-----------------------------------------------------------------------------
(* Subtrees *)

\* If no node gets a parent at or below n, nothing joins the subtree of n, and
\* the part K of it that keeps its parents stays.
LEMMA SubtreeKept ==
    ASSUME NEW tree, NEW moved, NEW n \in Node, NEW K \in SUBSET Node,
           \A k \in Node : \/ moved[k] = tree[k]
                           \/ moved[k] = NoNode
                           \/ moved[k] \in Node /\ ~IsAncestor(tree, n, moved[k]),
           \A k \in K : /\ moved[k] = tree[k]
                        /\ \/ tree[k] \in K \cup {NoNode}
                           \/ tree[k] \in Node /\ ~IsAncestor(tree, n, tree[k])
    PROVE  /\ \A m \in Node : IsAncestor(moved, n, m) => IsAncestor(tree, n, m)
           /\ \A m \in K : IsAncestor(tree, n, m) => IsAncestor(moved, n, m)
<1> DEFINE C == {k \in Node : ~IsAncestor(tree, n, k)}
<1>1. n \notin C /\ \A k \in C : tree[k] \in C \cup {NoNode}
  BY NotBelowClosed
<1>2. \A k \in Node : ~IsAncestor(tree, n, k) <=> k \in C
  OBVIOUS
<1>3. C \in SUBSET Node
  OBVIOUS
<1> HIDE DEF C
<1>4. \A k \in C : moved[k] \in C \cup {NoNode}
  BY <1>1, <1>2, <1>3
<1>5. ASSUME NEW m \in Node, IsAncestor(moved, n, m) PROVE IsAncestor(tree, n, m)
  <2>1. m \notin C
    BY <1>1, <1>3, <1>4, <1>5 DEF IsAncestor
  <2> QED  BY <2>1, <1>2
<1>6. ASSUME NEW m \in K, IsAncestor(tree, n, m) PROVE IsAncestor(moved, n, m)
  <2> SUFFICES ASSUME NEW S \in SUBSET Node, m \in S,
                      \A k \in S : moved[k] \in S \cup {NoNode}
               PROVE  n \in S
    BY DEF IsAncestor
  <2> DEFINE T == (S \cap K) \cup C
  <2>1. T \in SUBSET Node /\ m \in T
    BY <1>3
  <2>2. ASSUME NEW k \in T PROVE tree[k] \in T \cup {NoNode}
    <3>1. CASE k \in C
      BY <3>1, <1>1
    <3>2. CASE k \in S \cap K
      <4>1. tree[k] \in S \cup {NoNode}
        BY <3>2
      <4>2. tree[k] \in K \cup {NoNode} \/ tree[k] \in C
        BY <3>2, <1>2
      <4> QED  BY <4>1, <4>2
    <3> QED  BY <3>1, <3>2
  <2>3. n \in T
    <3> HIDE DEF T
    <3> QED  BY <2>1, <2>2, <1>6 DEF IsAncestor
  <2> QED  BY <2>3, <1>1
<1> QED  BY <1>5, <1>6

\* The goals and tasks at or below n: the ones with declarations.
Workers(n) == {m \in Subtree(n) : CanParentWork(m)}

\* A task has only tasks and rules below it, and a closed one no open task.
LEMMA BelowTask ==
    ASSUME TreeInv, NEW t \in Node, kind[t] = "task",
           NEW m \in Node, IsAncestor(parent, t, m)
    PROVE  kind[m] # "goal"
<1> DEFINE S == {k \in Node : kind[k] = "goal"}
<1>1. ASSUME NEW k \in S PROVE parent[k] \in S \cup {NoNode}
  BY <1>1 DEF TreeInv, OneTree, TypeOK, Exists
<1>2. t \notin S
  OBVIOUS
<1>3. m \notin S
  <2> HIDE DEF S
  <2>1. S \in SUBSET Node
    BY DEF S
  <2> QED  BY <1>1, <1>2, <2>1 DEF IsAncestor
<1> QED  BY <1>3

\* A node below n is n itself or its parent is below n.
LEMMA ParentBelow ==
    ASSUME NEW tree, NEW n \in Node, NEW m \in Node, IsAncestor(tree, n, m),
           tree[m] \in Node \cup {NoNode}
    PROVE  m = n \/ (tree[m] \in Node /\ IsAncestor(tree, n, tree[m]))
<1> SUFFICES ASSUME m # n, ~(tree[m] \in Node /\ IsAncestor(tree, n, tree[m]))
             PROVE  FALSE
  OBVIOUS
<1> DEFINE C == {k \in Node : ~IsAncestor(tree, n, k)}
<1>1. n \notin C /\ \A k \in C : tree[k] \in C \cup {NoNode}
  BY NotBelowClosed
<1>2. tree[m] \in C \cup {NoNode}
  OBVIOUS
<1>3. C \cup {m} \in SUBSET Node
  OBVIOUS
<1> HIDE DEF C
<1>4. n \in C \cup {m}
  BY <1>1, <1>2, <1>3 DEF IsAncestor
<1> QED  BY <1>4, <1>1

\* A closed task has no open task below it.
LEMMA SettledBelow ==
    ASSUME TreeInv, NEW t \in Node, kind[t] = "task", Terminal(t),
           NEW m \in Node, IsAncestor(parent, t, m)
    PROVE  ~OpenTask(m)
<1>1. CASE Exists(m)
  <2>1. ClosedSubtreesSettled
    BY TreeSettled
  <2> QED  BY <1>1, <2>1 DEF ClosedSubtreesSettled, Subtree
<1>2. CASE ~Exists(m)
  BY <1>2 DEF Exists, OpenTask
<1> QED  BY <1>1, <1>2

\* The subtree of a closed task keeps its goals and tasks.
LEMMA ClosedTaskWorkers ==
    ASSUME TreeInv, KindsDeclare, Effect,
           NEW t \in Node, kind[t] = "task", Terminal(t)
    PROVE  /\ Workers(t)' = Workers(t)
           /\ \A m \in Workers(t) : kind[m] = "task" /\ Terminal(m)
<1>1. PICK tree : tree = parent
  OBVIOUS
<1>2. PICK moved : moved = parent'
  OBVIOUS
<1> DEFINE K == {k \in Node : kind[k] = "task" /\ IsAncestor(tree, t, k)}
<1>3. \A k \in K : Terminal(k) /\ Fixed(k)
  BY <1>1, SettledBelow DEF OpenTask, Fixed, Exists
<1>4. ASSUME NEW k \in Node
      PROVE  \/ moved[k] = tree[k]
             \/ moved[k] = NoNode
             \/ moved[k] \in Node /\ ~IsAncestor(tree, t, moved[k])
  <2>1. CASE moved[k] \in Node /\ TakesChildren(moved[k])
    <3>1. kind[moved[k]] = "goal" \/ OpenTask(moved[k])
      BY <2>1 DEF TakesChildren, CanParentWork, OpenTask
    <3> QED  BY <2>1, <3>1, <1>1, BelowTask, SettledBelow
  <2> QED  BY <2>1, <1>1, <1>2 DEF Effect
<1>5. ASSUME NEW k \in K
      PROVE  /\ moved[k] = tree[k]
             /\ \/ tree[k] \in K \cup {NoNode}
                \/ tree[k] \in Node /\ ~IsAncestor(tree, t, tree[k])
  <2>1. moved[k] = tree[k]
    BY <1>1, <1>2, <1>3 DEF Effect
  <2>2. tree[k] \in Node \cup {NoNode} /\ Exists(k)
    BY <1>1 DEF TreeInv, TypeOK, Exists
  <2>3. CASE tree[k] \in Node /\ IsAncestor(tree, t, tree[k])
    <3>1. tree[k] # NoNode
      BY <2>3 DEF Node, NoNode
    <3>2. CanParentWork(tree[k])
      BY <2>2, <3>1, <1>1 DEF TreeInv, OneTree
    <3>3. kind[tree[k]] # "goal"
      BY <2>3, <1>1, BelowTask
    <3> QED  BY <2>1, <2>3, <3>2, <3>3 DEF CanParentWork
  <2> QED  BY <2>1, <2>2, <2>3
<1>6. K \in SUBSET Node
  OBVIOUS
<1>7. /\ \A m \in Node : IsAncestor(moved, t, m) => IsAncestor(tree, t, m)
      /\ \A m \in K : IsAncestor(tree, t, m) => IsAncestor(moved, t, m)
  <2> HIDE DEF K
  <2> QED  BY <1>4, <1>5, <1>6, SubtreeKept
<1>8. \A m \in Workers(t) : m \in K
  BY <1>1, BelowTask DEF Workers, Subtree, CanParentWork
<1>9. ASSUME NEW m \in Workers(t)' PROVE m \in Workers(t)
  <2>1. m \in Node /\ CanParentWork(m)' /\ IsAncestor(tree, t, m)
    BY <1>2, <1>7 DEF Workers, Subtree
  <2>2. Exists(m)
    <3>1. CASE ~Exists(m)
      <4>1. tree[m] = NoNode /\ m # t
        BY <3>1, <1>1, <2>1 DEF KindsDeclare, Exists
      <4>2. NoNode \notin Node
        BY DEF Node, NoNode
      <4> QED  BY <4>1, <4>2, <2>1, ParentBelow
    <3> QED  BY <3>1
  <2> QED  BY <2>1, <2>2, <1>1 DEF Effect, Workers, Subtree, CanParentWork
<1>10. ASSUME NEW m \in Workers(t) PROVE m \in Workers(t)'
  <2>1. m \in K /\ Exists(m) /\ IsAncestor(moved, t, m)
    BY <1>7, <1>8 DEF Workers, Subtree
  <2> QED  BY <2>1, <1>2 DEF Effect, Workers, Subtree, CanParentWork, Exists
<1> QED  BY <1>3, <1>8, <1>9, <1>10

\* The subtree of an archived node keeps its goals and tasks.
LEMMA ArchivedSubtree ==
    ASSUME TreeInv, KindsDeclare, Effect, NEW n \in archived
    PROVE  /\ Subtree(n)' = Subtree(n)
           /\ \A m \in Subtree(n) : Fixed(m)
<1>1. PICK tree : tree = parent
  OBVIOUS
<1>2. PICK moved : moved = parent'
  OBVIOUS
<1>n. n \in Node /\ Exists(n)
  BY DEF TreeInv, TypeOK
<1> DEFINE K == {k \in Node : Exists(k) /\ IsAncestor(tree, n, k)}
<1>3. \A k \in Node : IsAncestor(tree, n, k) => IsArchived(k)
  BY <1>1 DEF IsArchived
<1>4. \A k \in Node : \/ moved[k] = tree[k]
                      \/ moved[k] = NoNode
                      \/ moved[k] \in Node /\ ~IsAncestor(tree, n, moved[k])
  BY <1>1, <1>2, <1>3 DEF Effect, TakesChildren
<1>5. ASSUME NEW k \in K
      PROVE  /\ moved[k] = tree[k]
             /\ \/ tree[k] \in K \cup {NoNode}
                \/ tree[k] \in Node /\ ~IsAncestor(tree, n, tree[k])
  <2>1. moved[k] = tree[k]
    BY <1>1, <1>2, <1>3 DEF Effect, Fixed
  <2>2. tree[k] \in Node \cup {NoNode}
    BY <1>1 DEF TreeInv, TypeOK
  <2>3. tree[k] # NoNode => CanParentWork(tree[k])
    BY <1>1 DEF TreeInv, OneTree
  <2> QED  BY <2>1, <2>2, <2>3 DEF CanParentWork, Exists
<1>6. K \in SUBSET Node
  OBVIOUS
<1>7. /\ \A m \in Node : IsAncestor(moved, n, m) => IsAncestor(tree, n, m)
      /\ \A m \in K : IsAncestor(tree, n, m) => IsAncestor(moved, n, m)
  <2> HIDE DEF K
  <2> QED  BY <1>n, <1>4, <1>5, <1>6, SubtreeKept
<1>8. \A m \in Subtree(n) : m \in K /\ Fixed(m)
  BY <1>1, <1>3 DEF Subtree, Fixed
<1>9. ASSUME NEW m \in Subtree(n)' PROVE m \in Subtree(n)
  <2>1. m \in Node /\ IsAncestor(tree, n, m)
    BY <1>2, <1>7 DEF Subtree
  <2>2. CASE ~Exists(m)
    <3>1. tree[m] = NoNode /\ m # n
      BY <2>2, <1>n, <1>1, <2>1 DEF KindsDeclare
    <3>2. NoNode \notin Node
      BY DEF Node, NoNode
    <3> QED  BY <3>1, <3>2, <1>n, <2>1, ParentBelow
  <2> QED  BY <2>1, <2>2, <1>1 DEF Subtree
<1>10. ASSUME NEW m \in Subtree(n) PROVE m \in Subtree(n)'
  <2>1. m \in K /\ Exists(m) /\ IsAncestor(moved, n, m)
    BY <1>7, <1>8 DEF Subtree
  <2> QED  BY <2>1, <1>2 DEF Effect, Subtree, Exists
<1> QED  BY <1>8, <1>9, <1>10

-----------------------------------------------------------------------------
(* Coverage *)

\* Coverage is a matter of goals and tasks: rules declare nothing.
LEMMA MissingOfWorkers ==
    ASSUME KindsDeclare, NEW n \in Node
    PROVE  \A o : o \in Missing(n) <=>
              /\ \E m \in Workers(n) : status[m] # "canceled" /\ o \in required[m]
              /\ ~\E m \in Workers(n) : /\ status[m] # "canceled"
                                        /\ StaticLeaf(m)
                                        /\ o \in promised[m]
<1> DEFINE scope == {m \in Subtree(n) : status[m] # "canceled"}
<1>1. \A m \in Subtree(n) : m \in Node
  BY DEF Subtree
<1>2. \A o, m : o \in required[m] /\ m \in scope => m \in Workers(n)
  BY <1>1 DEF KindsDeclare, Workers
<1>3. \A m : m \in scope /\ StaticLeaf(m) => m \in Workers(n)
  BY DEF Workers, StaticLeaf, CanParentWork
<1>4. \A m \in Workers(n) : m \in scope <=> status[m] # "canceled"
  BY DEF Workers
<1>5. Missing(n) = (UNION {required[m] : m \in scope})
                     \ (UNION {promised[m] : m \in {k \in scope : StaticLeaf(k)}})
  BY DEF Missing
<1> HIDE DEF scope
<1> QED  BY <1>2, <1>3, <1>4, <1>5

\* A closed task has the same task children as before.
LEMMA ClosedTaskChildren ==
    ASSUME TreeInv, KindsDeclare, Effect,
           NEW m \in Node, kind[m] = "task", Terminal(m)
    PROVE  /\ TaskChildren(m)' = TaskChildren(m)
           /\ \A c \in TaskChildren(m) : status'[c] = status[c]
<1>n. NoNode \notin Node
  BY DEF Node, NoNode
<1>1. ASSUME NEW c \in TaskChildren(m)
      PROVE  Fixed(c) /\ Terminal(c) /\ c \in Node
  BY <1>1 DEF TreeInv, ChildrenSettled, OpenTaskChild, TaskChildren, Fixed, Exists
<1>2. ASSUME NEW c \in TaskChildren(m)
      PROVE  c \in TaskChildren(m)' /\ status'[c] = status[c]
  BY <1>1, <1>2 DEF Effect, TaskChildren, Fixed
<1>3. ASSUME NEW c \in TaskChildren(m)' PROVE c \in TaskChildren(m)
  <2>1. c \in Node /\ kind'[c] = "task" /\ parent'[c] = m
    BY <1>3 DEF TaskChildren
  <2>2. parent[c] = m
    BY <2>1, <1>n DEF Effect, TakesChildren
  <2>3. Exists(c)
    BY <2>1, <2>2, <1>n DEF KindsDeclare
  <2> QED  BY <2>1, <2>2, <2>3 DEF Effect, TaskChildren
<1> QED  BY <1>2, <1>3

\* What is missing below n does not change while its goals and tasks stay what
\* they are and where they are.
LEMMA SameMissing ==
    ASSUME KindsDeclare, KindsDeclare', NEW n \in Node,
           Workers(n)' = Workers(n),
           \A m \in Workers(n) :
              /\ required'[m] = required[m] /\ promised'[m] = promised[m]
              /\ status'[m] = "canceled" <=> status[m] = "canceled"
              /\ StaticLeaf(m)' <=> StaticLeaf(m)
    PROVE  Missing(n)' = Missing(n)
<1>1. \A o : o \in Missing(n)' <=>
         /\ \E m \in Workers(n) : status[m] # "canceled" /\ o \in required[m]
         /\ ~\E m \in Workers(n) : /\ status[m] # "canceled"
                                   /\ StaticLeaf(m)
                                   /\ o \in promised[m]
  <2>1. \A o : o \in Missing(n)' <=>
           /\ \E m \in Workers(n)' : status'[m] # "canceled" /\ o \in required'[m]
           /\ ~\E m \in Workers(n)' : /\ status'[m] # "canceled"
                                      /\ StaticLeaf(m)'
                                      /\ o \in promised'[m]
    <3> DEFINE scope == {m \in Subtree(n)' : status'[m] # "canceled"}
    <3>1. \A m \in Subtree(n)' : m \in Node
      BY DEF Subtree
    <3>2. \A o, m : o \in required'[m] /\ m \in scope => m \in Workers(n)'
      BY <3>1 DEF KindsDeclare, Workers
    <3>3. \A m : m \in scope /\ StaticLeaf(m)' => m \in Workers(n)'
      BY DEF Workers, StaticLeaf, CanParentWork
    <3>4. \A m \in Workers(n)' : m \in scope <=> status'[m] # "canceled"
      BY DEF Workers
    <3>5. Missing(n)' = (UNION {required'[m] : m \in scope})
             \ (UNION {promised'[m] : m \in {k \in scope : StaticLeaf(k)'}})
      BY DEF Missing
    <3> HIDE DEF scope
    <3> QED  BY <3>2, <3>3, <3>4, <3>5
  <2> QED  BY <2>1
<1>2. \A o : o \in Missing(n) <=>
         /\ \E m \in Workers(n) : status[m] # "canceled" /\ o \in required[m]
         /\ ~\E m \in Workers(n) : /\ status[m] # "canceled"
                                   /\ StaticLeaf(m)
                                   /\ o \in promised[m]
  BY MissingOfWorkers
<1>3. \A o : o \in Missing(n)' <=> o \in Missing(n)
  BY <1>1, <1>2
<1>4. \A S, T : (\A o : o \in S <=> o \in T) => S = T
  OBVIOUS
<1> QED  BY <1>3, <1>4

-----------------------------------------------------------------------------
(* The steps *)

LEMMA WorkFollowsStep ==
    ASSUME TreeInv, WorkFollows, Sound
    PROVE  WorkFollows'
<1> SUFFICES ASSUME NEW n \in Node, kind'[n] = "task",
                    n \in claimed' \/ status'[n] = "completed",
                    NEW p \in after'[n], kind'[p] = "task"
             PROVE  status'[p] = "completed"
  BY DEF WorkFollows
<1>1. /\ kind[n] = "task" /\ after'[n] = after[n]
      /\ n \in claimed \/ status[n] = "completed" \/ PrereqsDone(n)
  BY DEF Sound, Grounds
<1>2. p \in Node /\ Exists(p) /\ kind[p] = "task"
  BY <1>1 DEF TreeInv, PrereqsExist, Existing, Sound, Effect
<1>3. status[p] = "completed"
  BY <1>1, <1>2 DEF WorkFollows, PrereqsDone, Completed
<1> QED  BY <1>2, <1>3 DEF Sound, Effect, Terminal

\* A closed task and an archived node: nothing below them becomes missing.
LEMMA CoveredStep ==
    ASSUME TreeInv, KindsDeclare, CompletedCovered, Sound
    PROVE  CompletedCovered'
<1>s. Effect /\ KindsDeclare'
  BY DEF Sound
<1> SUFFICES ASSUME NEW t \in Node, kind'[t] = "task", status'[t] = "completed"
             PROVE  Missing(t)' = {}
  BY DEF CompletedCovered
<1>k. kind[t] = "task"
  BY DEF Sound, Grounds
<1>1. CASE status[t] = "completed"
  <2>1. Terminal(t) /\ Missing(t) = {}
    BY <1>1, <1>k DEF Terminal, CompletedCovered
  <2>2. /\ Workers(t)' = Workers(t)
        /\ \A m \in Workers(t) : kind[m] = "task" /\ Terminal(m)
    BY <2>1, <1>s, <1>k, ClosedTaskWorkers
  <2>3. ASSUME NEW m \in Workers(t)
        PROVE  /\ required'[m] = required[m] /\ promised'[m] = promised[m]
               /\ status'[m] = "canceled" <=> status[m] = "canceled"
               /\ StaticLeaf(m)' <=> StaticLeaf(m)
    <3>1. m \in Node /\ kind[m] = "task" /\ Terminal(m) /\ Fixed(m)
      BY <2>2 DEF Workers, Subtree, Fixed
    <3>2. /\ TaskChildren(m)' = TaskChildren(m)
          /\ \A c \in TaskChildren(m) : status'[c] = status[c]
      BY <3>1, <1>s, ClosedTaskChildren
    <3>3. kind'[m] = kind[m]
      BY <3>1, <1>s DEF Effect, Fixed
    <3> QED  BY <3>1, <3>2, <3>3, <1>s DEF Effect, StaticLeaf
  <2>4. Missing(t)' = Missing(t)
    BY <1>s, <2>2, <2>3, SameMissing
  <2> QED  BY <2>1, <2>4
<1>2. CASE status[t] # "completed"
  <2>1. /\ Missing(t) = {}
        /\ UNCHANGED <<kind, parent, required, promised>>
        /\ \A m \in Node : status'[m] = "canceled" <=> status[m] = "canceled"
    BY <1>2, <1>k DEF Sound, Grounds
  <2>2. Workers(t)' = Workers(t)
    BY <2>1 DEF Workers, Subtree, CanParentWork, Exists
  <2>3. \A m \in Workers(t) : m \in Node
    BY DEF Workers, Subtree
  <2>4. ASSUME NEW m \in Workers(t) PROVE StaticLeaf(m)' <=> StaticLeaf(m)
    BY <2>1 DEF StaticLeaf, TaskChildren
  <2>5. Missing(t)' = Missing(t)
    BY <1>s, <2>1, <2>2, <2>3, <2>4, SameMissing
  <2> QED  BY <2>1, <2>5
<1> QED  BY <1>1, <1>2

LEMMA ArchivedStep ==
    ASSUME TreeInv, KindsDeclare, ArchivedStaysComplete, Sound
    PROVE  ArchivedStaysComplete'
<1>s. Effect /\ KindsDeclare'
  BY DEF Sound
<1> SUFFICES ASSUME NEW n \in archived'
             PROVE  /\ \A m \in Subtree(n)' : ~OpenTask(m)'
                    /\ kind'[n] = "goal" => Completed(n)'
  BY DEF ArchivedStaysComplete
<1>1. CASE n \in archived
  <2>0. n \in Node /\ Exists(n) /\ kind'[n] = kind[n]
    BY <1>1, <1>s DEF TreeInv, TypeOK, Effect
  <2>1. Subtree(n)' = Subtree(n) /\ \A m \in Subtree(n) : Fixed(m)
    BY <1>1, <1>s, ArchivedSubtree
  <2>2. /\ \A m \in Subtree(n) : ~OpenTask(m)
        /\ kind[n] = "goal" => Missing(n) = {}
    BY <1>1 DEF ArchivedStaysComplete, Completed
  <2>3. ASSUME NEW m \in Subtree(n)
        PROVE  /\ m \in Node /\ Exists(m) /\ kind'[m] = kind[m]
               /\ kind[m] = "task" => Terminal(m)
               /\ CanParentWork(m) => status'[m] = status[m]
    BY <2>2, <1>s DEF Subtree, Effect, OpenTask, CanParentWork
  <2>4. \A m \in Subtree(n) : ~OpenTask(m)'
    BY <2>3 DEF OpenTask, Terminal, CanParentWork
  <2>5. Workers(n)' = Workers(n)
    BY <2>1, <2>3 DEF Workers, CanParentWork
  <2>6. ASSUME NEW m \in Workers(n)
        PROVE  /\ required'[m] = required[m] /\ promised'[m] = promised[m]
               /\ status'[m] = "canceled" <=> status[m] = "canceled"
               /\ StaticLeaf(m)' <=> StaticLeaf(m)
    <3>1. m \in Subtree(n) /\ CanParentWork(m) /\ Fixed(m) /\ m \in Node
      BY <2>1, <2>3 DEF Workers
    <3>2. kind[m] = "task" => /\ TaskChildren(m)' = TaskChildren(m)
                              /\ \A c \in TaskChildren(m) : status'[c] = status[c]
      BY <2>3, <3>1, <1>s, ClosedTaskChildren
    <3> QED  BY <2>3, <3>1, <3>2, <1>s DEF Effect, StaticLeaf
  <2>7. Missing(n)' = Missing(n)
    BY <1>s, <2>0, <2>5, <2>6, SameMissing
  <2> QED  BY <2>0, <2>1, <2>2, <2>4, <2>7 DEF Completed
<1>2. CASE n \notin archived
  <2>1. /\ Archivable(n)
        /\ UNCHANGED <<kind, parent, status, required, promised>>
    BY <1>2 DEF Sound, Grounds
  <2>2. Subtree(n)' = Subtree(n)
    BY <2>1 DEF Subtree, Exists
  <2>3. Missing(n)' = Missing(n)
    BY <2>1, <2>2 DEF Missing, StaticLeaf, TaskChildren
  <2>4. \A m : OpenTask(m)' <=> OpenTask(m)
    BY <2>1 DEF OpenTask, Terminal
  <2> QED  BY <2>1, <2>2, <2>3, <2>4 DEF Archivable, Completed
<1> QED  BY <1>1, <1>2

LEMMA InitWork == Init => WorkInv
<1> SUFFICES ASSUME Init PROVE WorkInv
  OBVIOUS
<1>1. TreeInv
  BY InitTree
<1>2. KindsDeclare /\ WorkFollows
  BY DEF Init, KindsDeclare, WorkFollows
<1>3. CompletedCovered /\ ArchivedStaysComplete /\ BoundaryPartition
  BY DEF Init, CompletedCovered, ArchivedStaysComplete, BoundaryPartition,
         Participates
<1> QED  BY <1>1, <1>2, <1>3 DEF WorkInv

LEMMA StepWork == WorkInv /\ [Next]_vars => WorkInv'
<1> SUFFICES ASSUME WorkInv, [Next]_vars PROVE WorkInv'
  OBVIOUS
<1>1. /\ TreeInv /\ KindsDeclare /\ WorkFollows /\ CompletedCovered
      /\ ArchivedStaysComplete /\ BoundaryPartition
  BY DEF WorkInv
<1>2. TreeInv'
  BY <1>1, StepTree
<1>3. Sound
  BY <1>1, StepSound
<1>4. KindsDeclare'
  BY <1>3 DEF Sound
<1>5. WorkFollows' /\ CompletedCovered' /\ ArchivedStaysComplete'
  BY <1>1, <1>3, WorkFollowsStep, CoveredStep, ArchivedStep
<1>6. BoundaryPartition'
  <2>1. CASE Next
    BY <2>1 DEF Next
  <2>2. CASE UNCHANGED vars
    <3>1. UNCHANGED <<kind, parent, after, status, required, promised, owned>>
      BY <2>2 DEF vars, shape, declared
    <3>2. \A n : Subtree(n)' = Subtree(n)
      BY <3>1 DEF Subtree, Exists
    <3>3. \A n : Missing(n)' = Missing(n)
      BY <3>1, <3>2 DEF Missing, StaticLeaf, TaskChildren
    <3>4. \A n : Completed(n)' <=> Completed(n)
      BY <3>1, <3>2, <3>3 DEF Completed, OpenTask, Terminal
    <3>5. \A n : Participates(n)' <=> Participates(n)
      BY <3>1, <3>2, <3>4 DEF Participates, OpenTask, Terminal
    <3>6. \A n, m : HasPrereqPath(n, m)' <=> HasPrereqPath(n, m)
      BY <3>1 DEF HasPrereqPath
    <3>7. \A n, m : OrderedByPrerequisite(n, m)' <=> OrderedByPrerequisite(n, m)
      BY <3>1, <3>6 DEF OrderedByPrerequisite
    <3> QED  BY <1>1, <3>1, <3>5, <3>7 DEF BoundaryPartition
  <2> QED  BY <2>1, <2>2
<1> QED  BY <1>1, <1>2, <1>4, <1>5, <1>6 DEF WorkInv

LEMMA WorkInvariant == Spec => []WorkInv
  BY InitWork, StepWork, PTL DEF Spec

-----------------------------------------------------------------------------
(* The theorems *)

\* The obligations of a completed task stay covered by the leaves below it, and
\* what it waited for stays completed, whatever is added, moved, revised or
\* canceled later: nothing in `cst` reopens a task.
THEOREM CompletionsAreCovered == Spec => []CompletionsStayCovered
<1>1. WorkInv => CompletionsStayCovered
  BY DEF WorkInv, WorkFollows, CompletedCovered, CompletionsStayCovered
<1> QED  BY WorkInvariant, <1>1, PTL

\* An archived subtree has no open task and an archived goal stays complete.
THEOREM ArchivedIsComplete == Spec => []ArchivedStaysComplete
<1>1. WorkInv => ArchivedStaysComplete
  BY DEF WorkInv
<1> QED  BY WorkInvariant, <1>1, PTL

\* Under an archive marker nothing is added, moved, revised or worked on.
THEOREM ArchivedStaysFrozen == Spec => ArchivedIsFrozen
<1>0. WorkInv => \A n \in archived : n \in Subtree(n)
  <2> SUFFICES ASSUME WorkInv, NEW n \in archived PROVE n \in Subtree(n)
    OBVIOUS
  <2>1. n \in Node /\ Exists(n)
    BY DEF WorkInv, TreeInv, TypeOK
  <2>2. IsAncestor(parent, n, n)
    BY <2>1 DEF IsAncestor
  <2> QED  BY <2>1, <2>2 DEF Subtree
<1>1. WorkInv /\ [Next]_vars =>
         [\A n \in archived \cap archived' :
            LET below == Subtree(n) IN
            /\ Subtree(n)' = below
            /\ \A m \in below : /\ after'[m] = after[m]
                                /\ required'[m] = required[m]
                                /\ promised'[m] = promised[m]
                                /\ owned'[m] = owned[m]
                                /\ kind[m] # "rule" => status'[m] = status[m]]_vars
  <2> SUFFICES ASSUME WorkInv, [Next]_vars, NEW n \in archived,
                      NEW m \in Subtree(n)
               PROVE  /\ Subtree(n)' = Subtree(n)
                      /\ after'[m] = after[m]
                      /\ required'[m] = required[m]
                      /\ promised'[m] = promised[m]
                      /\ owned'[m] = owned[m]
                      /\ kind[m] # "rule" => status'[m] = status[m]
    BY <1>0
  <2>1. TreeInv /\ KindsDeclare /\ ArchivedStaysComplete
    BY DEF WorkInv
  <2>2. Effect
    BY <2>1, StepSound DEF Sound
  <2>3. Subtree(n)' = Subtree(n) /\ Fixed(m) /\ m \in Node
    BY <2>1, <2>2, ArchivedSubtree DEF Subtree
  <2>4. ~OpenTask(m)
    BY <2>1 DEF ArchivedStaysComplete
  <2>5. kind[m] \in {"task", "goal", "rule"}
    BY <2>1, <2>3 DEF Fixed, Exists, TreeInv, TypeOK
  <2> QED  BY <2>2, <2>3, <2>4, <2>5 DEF Effect, OpenTask
<1> QED  BY WorkInvariant, <1>1, PTL DEF Spec, ArchivedIsFrozen

\* A task whose prerequisites are completed reaches no claimed task along them.
LEMMA NoClaimAhead ==
    ASSUME WorkInv, NEW n \in claimed, NEW m \in claimed, n # m
    PROVE  ~HasPrereqPath(n, m)
<1> DEFINE S == {k \in Node : k = n \/ status[k] = "completed" \/ kind[k] # "task"}
<1>1. n \in Node /\ m \in Node /\ OpenTask(n) /\ OpenTask(m)
  BY DEF WorkInv, TreeInv, TypeOK
<1>2. n \in S /\ m \notin S /\ S \in SUBSET Node
  BY <1>1 DEF OpenTask, Terminal
<1>3. ASSUME NEW k \in S, NEW p \in after[k] PROVE p \in S
  <2>1. k \in Node /\ p \in Node /\ kind[k] = "task"
    BY <1>3 DEF WorkInv, TreeInv, TypeOK, KindsDeclare
  <2>2. kind[p] = "task" => status[p] = "completed"
    BY <2>1, <1>3 DEF WorkInv, WorkFollows
  <2> QED  BY <2>1, <2>2
<1> HIDE DEF S
<1> QED  BY <1>2, <1>3 DEF HasPrereqPath

\* The partition of owned paths and the readiness of tasks together keep the
\* claimed ones among siblings apart.
THEOREM ClaimedSiblingsStayApart == Spec => []ClaimedSiblingsApart
<1>1. WorkInv => ClaimedSiblingsApart
  <2> SUFFICES ASSUME WorkInv, NEW n \in claimed, NEW m \in claimed, n # m,
                      parent[n] = parent[m], Overlap(owned[n], owned[m])
               PROVE  FALSE
    BY DEF ClaimedSiblingsApart
  <2>1. n \in Node /\ m \in Node /\ OpenTask(n) /\ OpenTask(m)
    BY DEF WorkInv, TreeInv, TypeOK
  <2>2. Participates(n) /\ Participates(m)
    BY <2>1 DEF Participates, Overlap
  <2>3. OrderedByPrerequisite(n, m)
    BY <2>1, <2>2 DEF WorkInv, BoundaryPartition
  <2> QED  BY <2>3, NoClaimAhead DEF OrderedByPrerequisite
<1> QED  BY WorkInvariant, <1>1, PTL

-----------------------------------------------------------------------------
(* What the partition can refuse *)

\* Nothing but open tasks changes, and what is closed or a goal keeps its place,
\* its declarations and its outcome; rules may be canceled.
OnlyOpenTasks ==
    /\ UNCHANGED <<kind, parent>>
    /\ \A m \in Node : OpenTask(m)' => OpenTask(m)
    /\ \A m \in Node : CanParentWork(m) /\ ~OpenTask(m) =>
          /\ status'[m] = status[m]
          /\ required'[m] = required[m]
          /\ promised'[m] = promised[m]

\* What is below a child of a node is below the node.
LEMMA ChildBelow ==
    ASSUME NEW n \in Node, NEW m \in Node, IsAncestor(parent, n, m),
           NEW c \in Node, parent[c] = m
    PROVE  IsAncestor(parent, n, c)
<1>1. m # NoNode
  BY DEF Node, NoNode
<1> QED  BY <1>1 DEF IsAncestor

\* A goal that is complete has no open task below it, and so nothing below it
\* changes.
LEMMA CompletedGoalStays ==
    ASSUME KindsDeclare, KindsDeclare', OnlyOpenTasks,
           NEW n \in Node, kind[n] = "goal", Completed(n)
    PROVE  Completed(n)'
<1>1. /\ \A m \in Subtree(n) : m \in Node /\ ~OpenTask(m)
      /\ Missing(n) = {}
  BY DEF Completed, Subtree
<1>2. Subtree(n)' = Subtree(n) /\ Workers(n)' = Workers(n)
  BY DEF OnlyOpenTasks, Subtree, Exists, Workers, CanParentWork
<1>3. \A m \in Workers(n) : /\ m \in Node /\ IsAncestor(parent, n, m)
                            /\ CanParentWork(m) /\ ~OpenTask(m)
  BY <1>1 DEF Workers, Subtree
<1>4. ASSUME NEW m \in Workers(n), NEW c \in TaskChildren(m)
      PROVE  status'[c] = status[c]
  <2>1. c \in Node /\ kind[c] = "task" /\ parent[c] = m
    BY <1>4 DEF TaskChildren
  <2>2. c \in Subtree(n)
    BY <1>3, <2>1, ChildBelow DEF Subtree, Exists
  <2> QED  BY <1>1, <2>1, <2>2 DEF OnlyOpenTasks, CanParentWork
<1>5. \A m \in Workers(n) : StaticLeaf(m)' <=> StaticLeaf(m)
  <2>1. \A m : TaskChildren(m)' = TaskChildren(m)
    BY DEF OnlyOpenTasks, TaskChildren
  <2> QED  BY <1>4, <2>1 DEF OnlyOpenTasks, StaticLeaf
<1>6. Missing(n)' = Missing(n)
  BY <1>2, <1>3, <1>5, SameMissing DEF OnlyOpenTasks
<1>7. \A m \in Subtree(n)' : ~OpenTask(m)'
  BY <1>1, <1>2 DEF OnlyOpenTasks
<1> QED  BY <1>1, <1>6, <1>7 DEF Completed, OnlyOpenTasks

\* The partition holds on when places, prerequisites and paths stay and no
\* further node takes part in it.
LEMMA FewerParticipants ==
    ASSUME BoundaryPartition, UNCHANGED <<kind, parent, after, owned>>,
           \A n \in Node : Participates(n)' => Participates(n)
    PROVE  BoundaryPartition'
<1>1. \A n, m : OrderedByPrerequisite(n, m)' <=> OrderedByPrerequisite(n, m)
  BY DEF OrderedByPrerequisite, HasPrereqPath
<1> QED  BY <1>1 DEF BoundaryPartition

LEMMA OpenTasksKeepPartition ==
    ASSUME KindsDeclare, KindsDeclare', BoundaryPartition, OnlyOpenTasks,
           UNCHANGED <<after, owned>>
    PROVE  BoundaryPartition'
<1>1. ASSUME NEW n \in Node, Participates(n)' PROVE Participates(n)
  <2>1. owned[n] # {}
    BY <1>1 DEF Participates
  <2>2. CASE OpenTask(n)'
    BY <2>1, <2>2 DEF OnlyOpenTasks, Participates
  <2>3. CASE kind'[n] = "goal" /\ ~Completed(n)'
    BY <2>1, <2>3, CompletedGoalStays DEF OnlyOpenTasks, Participates
  <2>4. CASE kind'[n] = "goal" /\ \A m \in Subtree(n)' : kind'[m] # "task"
    BY <2>1, <2>4 DEF OnlyOpenTasks, Participates, Subtree, Exists
  <2> QED  BY <1>1, <2>2, <2>3, <2>4 DEF Participates
<1> QED  BY <1>1, FewerParticipants DEF OnlyOpenTasks

\* Apply asks for the partition after every event, but only a plan can break
\* it: taking, releasing, holding, completing and canceling tasks, archiving,
\* the repair of leases, and a revision of what an open task requires or claims
\* are never refused for it.
THEOREM PartitionNeverStopsWork ==
    ASSUME WorkInv, NEW live \in SUBSET claimed,
           \/ Work(live) \/ RepairAndRefuse(live)
           \/ \E n \in Node : Archive(n, live) \/ Unarchive(n, live)
           \/ \E n \in Node : /\ OpenTask(n) /\ Revise(n, parent[n], live)
                              /\ UNCHANGED <<after, owned>>
    PROVE  BoundaryPartition'
<1>0. TreeInv /\ KindsDeclare /\ BoundaryPartition
  BY DEF WorkInv
<1>t. /\ status \in [Node -> {"open", "completed", "canceled"}]
      /\ parent \in [Node -> Node \cup {NoNode}]
      /\ required \in [Node -> SUBSET Obligation]
      /\ promised \in [Node -> SUBSET Obligation]
  BY <1>0 DEF TreeInv, TypeOK
<1>1. CASE Work(live)
  <2>1. PICK n \in Node : \/ Take(n, live) \/ Release(n, live)
                          \/ Hold(n, live) \/ ClearHold(n, live)
                          \/ Complete(n, live) \/ Cancel(n, live)
    BY <1>1 DEF Work
  <2>2. KindsDeclare'
    BY <1>0, <1>1, WorkSound DEF Sound
  <2>3. UNCHANGED <<kind, parent, after, required, promised, owned>>
    BY <2>1 DEF Take, Release, Hold, ClearHold, Complete, Cancel, Close, shape,
                declared
  <2>4. \/ UNCHANGED status
        \/ /\ OpenTask(n) \/ kind[n] = "rule"
           /\ \E outcome \in {"completed", "canceled"} :
                 status' = [status EXCEPT ![n] = outcome]
    BY <2>1 DEF Take, Release, Hold, ClearHold, Complete, Cancel, Close, OpenTask
  <2>5. OnlyOpenTasks
    BY <1>t, <2>3, <2>4 DEF OnlyOpenTasks, OpenTask, Terminal, CanParentWork
  <2> QED  BY <1>0, <2>2, <2>3, <2>5, OpenTasksKeepPartition
<1>2. CASE \/ RepairAndRefuse(live)
           \/ \E n \in Node : Archive(n, live) \/ Unarchive(n, live)
  <2>1. UNCHANGED <<kind, parent, after, status, required, promised, owned>>
    BY <1>2 DEF RepairAndRefuse, Archive, Unarchive, shape, declared
  <2>2. OnlyOpenTasks
    BY <2>1 DEF OnlyOpenTasks, OpenTask, Terminal
  <2>3. KindsDeclare'
    BY <1>0, <2>1 DEF KindsDeclare, CanParentWork, Exists
  <2> QED  BY <1>0, <2>1, <2>2, <2>3, OpenTasksKeepPartition
<1>3. ASSUME NEW n \in Node, OpenTask(n), Revise(n, parent[n], live),
             UNCHANGED <<after, owned>>
      PROVE  BoundaryPartition'
  <2>1. parent[n] \in Node \cup {NoNode}
    BY <1>t
  <2>2. KindsDeclare'
    BY <1>0, <1>3, <2>1, ReviseSound DEF Sound
  <2>3. UNCHANGED <<kind, parent, status>>
    BY <1>t, <1>3 DEF Revise
  <2>4. \A m \in Node : m # n => /\ required'[m] = required[m]
                                 /\ promised'[m] = promised[m]
    BY <1>t, <1>3 DEF Revise
  <2>5. OnlyOpenTasks
    BY <1>3, <2>3, <2>4 DEF OnlyOpenTasks, OpenTask, Terminal
  <2> QED  BY <1>0, <1>3, <2>2, <2>5, OpenTasksKeepPartition
<1> QED  BY <1>1, <1>2, <1>3
=============================================================================
