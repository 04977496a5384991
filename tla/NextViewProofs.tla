--------------------------- MODULE NextViewProofs ---------------------------
(***************************************************************************)
(* Proofs about what `cst next` says of a ledger, for any number of nodes, *)
(* obligations and paths: when it projects nothing, nothing is left to do, *)
(* and when it is blocked, the ledger holds a cause.                       *)
(*                                                                         *)
(* If nobody has a claim or a hold and no prerequisite failed, an open     *)
(* task that is not ready waits for an open task.  So the open tasks are   *)
(* the circle: one of them waits for none along prerequisites, which are   *)
(* acyclic, and one has no open child, since the tree is finite.           *)
(***************************************************************************)
EXTENDS NextView, NodeWorkProofs, FiniteSetTheorems, WellFoundedInduction

\* Only goals and tasks are waited for.
WaitsForWork == \A n \in Node : \A p \in after[n] : CanParentWork(p)

NextInv == WorkInv /\ WaitsForWork

-----------------------------------------------------------------------------
(* The invariant *)

LEMMA CreateWaits ==
    ASSUME TreeInv, WaitsForWork, NEW k, NEW p, NEW as \in SUBSET Node,
           NEW req, NEW prom, NEW own,
           Create(k, p, as, req, prom, own),
           \A q \in as : CanParentWork(q)
    PROVE  WaitsForWork'
<1>1. ~Exists(nextID) /\ nextID \in Node
  BY BoundTyped DEF Create, TreeInv, Dense, Node
<1>2. \A n \in Node : after'[n] \in {after[n], as}
  BY DEF Create, TreeInv, TypeOK
<1>3. \A q \in Node : CanParentWork(q) => kind'[q] = kind[q]
  BY <1>1 DEF Create, TreeInv, TypeOK, CanParentWork, Exists
<1>4. ASSUME NEW n \in Node, NEW q \in after'[n] PROVE CanParentWork(q)'
  <2>1. q \in Node /\ CanParentWork(q)
    BY <1>2, <1>4 DEF WaitsForWork, TreeInv, TypeOK
  <2> QED  BY <2>1, <1>3 DEF CanParentWork
<1> QED  BY <1>4 DEF WaitsForWork

LEMMA ReviseWaits ==
    ASSUME TreeInv, WaitsForWork, NEW n \in Node, NEW p, NEW live,
           Revise(n, p, live)
    PROVE  WaitsForWork'
<1>1. PICK as \in SUBSET Node :
          /\ as # after[n] => ValidAfter(n, as, parent)
          /\ after' = [after EXCEPT ![n] = as]
  BY DEF Revise
<1>2. \A q \in as : CanParentWork(q)
  BY <1>1 DEF ValidAfter, WaitsForWork
<1>3. kind' = kind
  BY DEF Revise
<1> QED  BY <1>1, <1>2, <1>3 DEF WaitsForWork, CanParentWork, TreeInv, TypeOK

LEMMA SameWaits ==
    ASSUME WaitsForWork, UNCHANGED <<kind, after>>
    PROVE  WaitsForWork'
  BY DEF WaitsForWork, CanParentWork

LEMMA StepWaits == TreeInv /\ WaitsForWork /\ [Next]_vars => WaitsForWork'
<1> SUFFICES ASSUME TreeInv, WaitsForWork, [Next]_vars PROVE WaitsForWork'
  OBVIOUS
<1>1. CASE Add
  <2>1. PICK req \in SUBSET Obligation, own \in SUBSET Path :
            \/ CreateRoot(req, own)
            \/ \E p \in Node : CreateGoal(p, req, own)
            \/ \E p \in Node, as \in SUBSET Node, prom \in SUBSET Obligation :
                  CreateTask(p, as, req, prom, own)
            \/ \E p \in Node : CreateRule(p)
    BY <1>1 DEF Add
  <2>2. CASE CreateRoot(req, own)
    BY <2>2, CreateWaits DEF CreateRoot
  <2>3. CASE \E p \in Node : CreateGoal(p, req, own)
    BY <2>3, CreateWaits DEF CreateGoal
  <2>4. ASSUME NEW p \in Node, NEW as \in SUBSET Node,
               NEW prom \in SUBSET Obligation, CreateTask(p, as, req, prom, own)
        PROVE  WaitsForWork'
    BY <2>4, CreateWaits DEF CreateTask, ValidAfterOfNew
  <2>5. CASE \E p \in Node : CreateRule(p)
    BY <2>5, CreateWaits DEF CreateRule
  <2> QED  BY <2>1, <2>2, <2>3, <2>4, <2>5
<1>2. ASSUME NEW live \in SUBSET claimed, Rearrange(live)
      PROVE  WaitsForWork'
  <2>1. ASSUME NEW r \in Node, NEW p \in Node, PromoteRule(r, p, live)
        PROVE  WaitsForWork'
    BY <2>1, CreateWaits DEF PromoteRule
  <2>2. ASSUME NEW n \in Node, Archive(n, live) \/ Unarchive(n, live)
        PROVE  WaitsForWork'
    BY <2>2, SameWaits DEF Archive, Unarchive, shape
  <2> QED  BY <1>2, <2>1, <2>2, ReviseWaits DEF Rearrange
<1>3. ASSUME NEW live \in SUBSET claimed, Work(live) \/ RepairAndRefuse(live)
      PROVE  WaitsForWork'
  BY <1>3, SameWaits DEF Work, Take, Release, Hold, ClearHold, Complete, Cancel,
     Close, RepairAndRefuse, shape
<1>4. CASE UNCHANGED vars
  BY <1>4, SameWaits DEF vars, shape
<1> QED  BY <1>1, <1>2, <1>3, <1>4 DEF Next

LEMMA NextInvariant == Spec => []NextInv
<1>1. Init => WaitsForWork
  BY DEF Init, WaitsForWork
<1>2. WorkInv => TreeInv
  BY DEF WorkInv
<1> QED  BY <1>1, <1>2, StepWaits, WorkInvariant, PTL DEF Spec, NextInv

-----------------------------------------------------------------------------
(* The tree *)

\* Every node is below the root, which is a goal.
LEMMA AllBelowRoot ==
    ASSUME TreeInv, HasRoot
    PROVE  /\ kind[Root] = "goal"
           /\ \A n \in Node : Exists(n) => n \in Subtree(Root)
<1>1. Root \in Node /\ 1 < nextID /\ nextID \in Nat
  BY BoundTyped DEF HasRoot, Root, TreeInv, Dense, TypeOK, Node
<1>2. kind[Root] = "goal"
  BY <1>1, RootExists DEF Root
<1>3. ASSUME NEW n \in Node, Exists(n) PROVE IsAncestor(parent, Root, n)
  <2> SUFFICES ASSUME NEW S \in SUBSET Node, n \in S,
                      \A m \in S : parent[m] \in S \cup {NoNode}
               PROVE  Root \in S
    BY DEF IsAncestor
  <2>1. S \cap Existing # {}
    BY <1>3 DEF Existing
  <2>2. PICK m \in S \cap Existing : parent[m] \notin S \cap Existing
    BY <2>1 DEF TreeInv, OneTree, Existing
  <2>3. parent[m] # NoNode => parent[m] \in Existing
    BY <2>2 DEF TreeInv, TypeOK, OneTree, CanParentWork, Existing, Exists
  <2> QED  BY <2>2, <2>3 DEF TreeInv, OneTree, Existing, Root
<1> QED  BY <1>1, <1>2, <1>3 DEF Subtree

\* Some node of a set is the parent of none of them: otherwise parents would
\* map a part of the set onto all of it, and nothing would hang on a node
\* outside.
LEMMA LowestNode ==
    ASSUME TreeInv, NEW S \in SUBSET Existing, S # {}
    PROVE  \E t \in S : \A u \in S : parent[u] # t
<1> SUFFICES ASSUME \A t \in S : \E u \in S : parent[u] = t PROVE FALSE
  OBVIOUS
<1> DEFINE T == {u \in S : parent[u] \in S}
           f == [u \in T |-> parent[u]]
<1>1. IsFiniteSet(S) /\ IsFiniteSet(T)
  <2>1. IsFiniteSet(Node)
    BY BoundTyped, FS_Interval DEF Node
  <2>2. S \in SUBSET Node /\ T \in SUBSET Node
    BY DEF Existing
  <2> HIDE DEF T
  <2> QED  BY <2>1, <2>2, FS_Subset
<1>2. f \in Surjection(T, S)
  <2>1. f \in [T -> S]
    OBVIOUS
  <2>2. \A t \in S : \E u \in T : f[u] = t
    OBVIOUS
  <2> HIDE DEF T, f
  <2> QED  BY <2>1, <2>2 DEF Surjection
<1>3. T \in SUBSET S
  OBVIOUS
<1>4. Cardinality(S) <= Cardinality(T)
  <2> HIDE DEF T, f
  <2> QED  BY <1>1, <1>2, FS_Surjection
<1>5. T = S
  <2> HIDE DEF T, f
  <2>1. Cardinality(T) <= Cardinality(S) /\ (Cardinality(S) = Cardinality(T) => S = T)
    BY <1>1, <1>3, FS_Subset
  <2>2. Cardinality(S) \in Nat /\ Cardinality(T) \in Nat
    BY <1>1, FS_CardinalityType
  <2> QED  BY <1>4, <2>1, <2>2
<1>6. PICK m \in S : parent[m] \notin S
  BY DEF TreeInv, OneTree, Existing
<1> QED  BY <1>5, <1>6

\* Among the ready tasks there is an oldest one for next to offer.
LEMMA LeastNode ==
    ASSUME NEW S \in SUBSET Node, S # {}
    PROVE  \E t \in S : \A u \in S : t <= u
<1>1. S \subseteq Nat
  BY BoundTyped DEF Node
<1>2. PICK t \in S : \A u \in S : <<u, t>> \notin OpToRel(<, Nat)
  BY <1>1, NatLessThanWellFounded, WFMin
<1>3. \A u \in S : ~(u < t)
  BY <1>1, <1>2 DEF OpToRel
<1> QED  BY <1>1, <1>3

-----------------------------------------------------------------------------
(* The theorems *)

\* When next says that there is nothing to do, no task is open: nobody works
\* on any and none is on hold.
THEOREM NoOpMeansDone == Spec => []NoOpIsFinal
<1>1. NextInv => NoOpIsFinal
  <2> SUFFICES ASSUME NextInv, NoOp({})
               PROVE  /\ claimed = {} /\ held = {}
                      /\ \A t \in Node : ~OpenTask(t)
    BY DEF NoOpIsFinal
  <2>1. TreeInv /\ HasRoot
    BY DEF NextInv, WorkInv, NoOp, NothingAtHand
  <2>2. kind[Root] = "goal" /\ \A n \in Node : Exists(n) => n \in Subtree(Root)
    BY <2>1, AllBelowRoot
  <2>3. \A m \in Subtree(Root) : ~OpenTask(m)
    BY <2>2 DEF NoOp, Completed
  <2>4. \A t \in Node : ~OpenTask(t)
    BY <2>2, <2>3 DEF OpenTask, Exists
  <2> QED  BY <2>1, <2>4 DEF TreeInv, TypeOK
<1> QED  BY NextInvariant, <1>1, PTL

\* An open task that is not ready waits for an open one, unless somebody works,
\* a task is on hold, or a prerequisite failed.
LEMMA NotReadyWaits ==
    ASSUME NextInv, claimed = {}, held = {}, NEW t \in Node, OpenTask(t),
           t \notin Ready, \A p \in after[t] : ~Failed(p)
    PROVE  \E u \in Node : OpenTask(u) /\ WaitsFor(t, u)
<1>1. TreeInv /\ WaitsForWork
  BY DEF NextInv, WorkInv
<1>2. CASE OpenTaskChild(t)
  <2>1. PICK c \in TaskChildren(t) : ~Terminal(c)
    BY <1>2 DEF OpenTaskChild
  <2> QED  BY <2>1 DEF TaskChildren, OpenTask, WaitsFor, WaitsInTree
<1>3. CASE ~OpenTaskChild(t)
  <2>1. PICK p \in after[t] : ~Completed(p)
    BY <1>3 DEF Ready, IsReadyTask, PrereqsDone
  <2>2. p \in Node /\ CanParentWork(p) /\ ~Failed(p)
    BY <1>1, <2>1 DEF WaitsForWork, TreeInv, TypeOK
  <2>3. CASE kind[p] = "task"
    <3>1. OpenTask(p)
      BY <1>1, <2>1, <2>2, <2>3
         DEF OpenTask, Terminal, Completed, Failed, TreeInv, TypeOK
    <3> QED  BY <2>1, <2>2, <3>1 DEF WaitsFor
  <2>4. CASE kind[p] = "goal"
    <3>1. PICK u \in Subtree(p) : OpenTask(u)
      BY <2>1, <2>2, <2>4 DEF Completed, Failed
    <3> QED  BY <2>1, <2>4, <3>1 DEF WaitsFor, WaitsInTree, Subtree
  <2> QED  BY <2>2, <2>3, <2>4 DEF CanParentWork
<1> QED  BY <1>2, <1>3

\* When next is blocked, somebody works, a task is on hold, a prerequisite
\* failed, or the open tasks wait for each other along both relations.
THEOREM BlockedIsCaused == Spec => []BlockedHasCause
<1>1. NextInv => BlockedHasCause
  <2> SUFFICES ASSUME NextInv, Blocked({}), claimed = {}, held = {},
                      \A t \in Node : OpenTask(t) => \A p \in after[t] : ~Failed(p)
               PROVE  \E S \in SUBSET Node : Circle(S)
    BY DEF BlockedHasCause
  <2> DEFINE S == {t \in Node : OpenTask(t)}
  <2>1. TreeInv /\ HasRoot
    BY DEF NextInv, WorkInv, Blocked, NothingAtHand
  <2>2. Ready = {}
    <3>1. {t \in Ready : \A u \in Ready : t <= u} = {}
      BY DEF Blocked, NothingAtHand, Subject
    <3>2. ASSUME Ready # {} PROVE \E t \in Ready : \A u \in Ready : t <= u
      BY <3>2, LeastNode DEF Ready
    <3> QED  BY <3>1, <3>2
  <2>3. S # {}
    <3>1. kind[Root] = "goal"
      BY <2>1, AllBelowRoot
    <3> QED  BY <3>1 DEF Blocked, Completed, Subtree
  <2>4. \A t \in S : OpenTask(t) /\ \E u \in S : WaitsFor(t, u)
    BY <2>2, NotReadyWaits
  <2>5. \E t \in S : after[t] \cap S = {}
    BY <2>1, <2>3 DEF TreeInv, PrereqsAcyclic
  <2>6. \E t \in S : \A u \in S : parent[u] # t
    <3>1. S \in SUBSET Existing
      BY DEF Existing, OpenTask, Exists
    <3> HIDE DEF S
    <3> QED  BY <2>1, <2>3, <3>1, LowestNode
  <2>7. S \in SUBSET Node
    OBVIOUS
  <2> HIDE DEF S
  <2> QED  BY <2>3, <2>4, <2>5, <2>6, <2>7 DEF Circle
<1> QED  BY NextInvariant, <1>1, PTL
=============================================================================
