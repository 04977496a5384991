--------------------------- MODULE AgentLoopProofs ---------------------------
(***************************************************************************)
(* Proofs about the agent that follows `cst next`, for plans of any size,  *)
(* any obligations and any paths: its loop is a use of the commands of     *)
(* NodeTree, it always gets an answer that it can execute, and every       *)
(* answer it executes brings the plan forward.                             *)
(***************************************************************************)
EXTENDS AgentLoop, NextViewProofs

-----------------------------------------------------------------------------
(* The invariant *)

\* The agent works alone on one task at a time, and only on one that was ready
\* and has what it needs; nothing of its plan is archived.
AgentInv ==
    /\ NextInv
    /\ archived = {}
    /\ planned => HasRoot
    /\ claimed # {} => planned
    /\ \A t, u \in claimed : t = u
    /\ \A t \in claimed : PrereqsDone(t) /\ ~OpenTaskChild(t) /\ Missing(t) = {}

LEMMA MissingTyped ==
    ASSUME TypeOK, NEW n
    PROVE  Missing(n) \subseteq Obligation
<1>1. \A m \in Subtree(n) : required[m] \subseteq Obligation
  BY DEF TypeOK, Subtree
<1> QED  BY <1>1 DEF Missing

\* The agent uses the commands of the tree and nothing else.
LEMMA AgentStepIsNext ==
    ASSUME TypeOK, [AgentNext]_agentVars
    PROVE  [Next]_vars
<1>1. ASSUME Plan PROVE Next
  BY <1>1 DEF Plan, Next, Work
<1>2. ASSUME HandOver \/ UNCHANGED agentVars PROVE UNCHANGED vars
  BY <1>2 DEF HandOver, agentVars
<1>3. ASSUME AgentStep PROVE Next \/ UNCHANGED vars
  <2>p. BoundaryPartition'
    BY <1>3 DEF AgentStep
  <2>1. ASSUME NEW t \in Node, TakeOffered(t) \/ CompleteOffered(t) PROVE Next
    BY <2>1, <2>p DEF TakeOffered, CompleteOffered, Next, Work
  <2>2. ASSUME NEW t \in Node, Prove(t) PROVE UNCHANGED vars
    BY <2>2 DEF Prove
  <2>3. ASSUME NEW t \in Node, RepairTask(t) PROVE Next
    <3>1. Revise(t, parent[t], claimed) /\ parent[t] \in Node \cup {NoNode}
      BY <2>3 DEF RepairTask, TypeOK
    <3> QED  BY <2>p, <3>1 DEF Next, Rearrange
  <2>4. ASSUME RepairRoot PROVE Next
    <3>1. PICK o \in Missing(Root), own \in SUBSET Path :
              CreateTask(Root, {}, {}, {o}, own)
      BY <2>4 DEF RepairRoot
    <3>2. Root \in Node /\ o \in Obligation
      BY <2>4, MissingTyped DEF RepairRoot, RepairsRoot, NothingAtHand, HasRoot
    <3>3. {} \in SUBSET Node /\ {o} \in SUBSET Obligation /\ {} \in SUBSET Obligation
      BY <3>2
    <3>4. Add
      BY <3>1, <3>2, <3>3 DEF Add
    <3> QED  BY <2>p, <3>4 DEF Next
  <2> QED  BY <1>3, <2>1, <2>2, <2>3, <2>4 DEF AgentStep
<1> QED  BY <1>1, <1>2, <1>3 DEF AgentNext

LEMMA NextInvStep ==
    ASSUME NextInv, [Next]_vars
    PROVE  NextInv'
<1>1. WorkInv /\ TreeInv /\ WaitsForWork
  BY DEF NextInv, WorkInv
<1> QED  BY <1>1, StepWork, StepWaits DEF NextInv

\* What next says of a task depends on neither claims nor holds.
LEMMA ClaimsTellNothing ==
    ASSUME UNCHANGED <<kind, parent, after, status, required, promised>>
    PROVE  \A n : /\ Missing(n)' = Missing(n)
                  /\ StaticLeaf(n)' <=> StaticLeaf(n)
                  /\ PrereqsDone(n)' <=> PrereqsDone(n)
                  /\ OpenTaskChild(n)' <=> OpenTaskChild(n)
<1>1. \A n : Subtree(n)' = Subtree(n)
  BY DEF Subtree, Exists
<1>2. \A n : Missing(n)' = Missing(n)
  BY <1>1 DEF Missing, StaticLeaf, TaskChildren
<1>3. \A n : Completed(n)' <=> Completed(n)
  BY <1>1, <1>2 DEF Completed, OpenTask, Terminal
<1>4. \A n : StaticLeaf(n)' <=> StaticLeaf(n)
  BY DEF StaticLeaf, TaskChildren
<1>5. \A n : PrereqsDone(n)' <=> PrereqsDone(n)
  BY <1>3 DEF PrereqsDone
<1>6. \A n : OpenTaskChild(n)' <=> OpenTaskChild(n)
  BY DEF OpenTaskChild, TaskChildren, Terminal
<1> QED  BY <1>2, <1>4, <1>5, <1>6

LEMMA AgentInvStep ==
    ASSUME AgentInv, [AgentNext]_agentVars
    PROVE  AgentInv'
<1>t. WorkInv /\ TreeInv /\ KindsDeclare /\ TypeOK
  BY DEF AgentInv, NextInv, WorkInv, TreeInv
<1>1. [Next]_vars
  BY <1>t, AgentStepIsNext
<1>2. NextInv'
  BY <1>1, NextInvStep DEF AgentInv
<1>3. HasRoot => HasRoot'
  <2>1. Effect
    BY <1>1, <1>t, StepSound DEF Sound
  <2> QED  BY <2>1 DEF Effect, HasRoot, Exists, Root
<1>4. CASE Plan
  <2>1. claimed = {} /\ archived = {} /\ ~planned /\ planned' = planned
    BY <1>4 DEF AgentInv, Plan
  <2>2. CASE Add
    BY <1>2, <2>1, <2>2
       DEF Add, CreateRoot, CreateGoal, CreateTask, CreateRule, Create, AgentInv
  <2>3. ASSUME NEW n \in Node, Hold(n, claimed) \/ Cancel(n, claimed)
        PROVE  AgentInv'
    BY <1>2, <2>1, <2>3 DEF Hold, Cancel, Close, AgentInv
  <2> QED  BY <1>4, <2>2, <2>3 DEF Plan
<1>5. CASE HandOver \/ UNCHANGED agentVars
  <2>1. UNCHANGED vars /\ (planned' => planned \/ HasRoot) /\ (planned => planned')
    BY <1>5 DEF HandOver, agentVars
  <2>2. UNCHANGED <<kind, parent, after, status, required, promised, claimed, archived>>
    BY <2>1 DEF vars, shape, declared
  <2> QED  BY <1>2, <1>3, <2>1, <2>2, ClaimsTellNothing DEF AgentInv
<1>6. CASE AgentStep
  <2>p. planned /\ planned' /\ HasRoot'
    BY <1>6, <1>3 DEF AgentStep, AgentInv
  <2>1. ASSUME NEW t \in Node, TakeOffered(t) PROVE AgentInv'
    <3>1. /\ claimed = {} /\ t \in Ready /\ Missing(t) = {}
          /\ claimed' = {t}
      BY <2>1 DEF TakeOffered, OffersTake, Mine, Subject, Take
    <3>2. UNCHANGED <<kind, parent, after, status, required, promised, archived>>
      BY <2>1 DEF TakeOffered, Take, shape, declared
    <3>3. PrereqsDone(t) /\ ~OpenTaskChild(t)
      BY <3>1 DEF Ready, IsReadyTask
    <3> QED  BY <1>2, <2>p, <3>1, <3>2, <3>3, ClaimsTellNothing DEF AgentInv
  <2>2. ASSUME NEW t \in Node, Prove(t) PROVE AgentInv'
    <3>1. UNCHANGED <<kind, parent, after, status, required, promised, claimed, archived>>
      BY <2>2 DEF Prove, vars, shape, declared
    <3> QED  BY <1>2, <2>p, <3>1, ClaimsTellNothing DEF AgentInv
  <2>3. ASSUME NEW t \in Node, CompleteOffered(t) PROVE AgentInv'
    <3>1. claimed' = {} /\ archived' = archived
      BY <2>3 DEF CompleteOffered, Complete, Close, AgentInv
    <3> QED  BY <1>2, <2>p, <3>1 DEF AgentInv
  <2>4. ASSUME NEW t \in Node, RepairTask(t) PROVE AgentInv'
    <3>1. claimed' = {} /\ archived' = archived
      BY <2>4 DEF RepairTask, RepairsTask, Subject, Mine, Revise
    <3> QED  BY <1>2, <2>p, <3>1 DEF AgentInv
  <2>5. ASSUME RepairRoot PROVE AgentInv'
    <3>1. claimed' = {} /\ archived' = archived
      BY <2>5 DEF RepairRoot, RepairsRoot, NothingAtHand, Subject, Mine,
                  CreateTask, Create
    <3> QED  BY <1>2, <2>p, <3>1 DEF AgentInv
  <2> QED  BY <1>6, <2>1, <2>2, <2>3, <2>4, <2>5 DEF AgentStep
<1> QED  BY <1>4, <1>5, <1>6 DEF AgentNext

LEMMA AgentInvariant == AgentSpec => []AgentInv
<1>1. AgentInit => AgentInv
  <2> SUFFICES ASSUME AgentInit PROVE AgentInv
    OBVIOUS
  <2>1. WorkInv /\ WaitsForWork
    BY InitWork DEF AgentInit, Init, WaitsForWork
  <2> QED  BY <2>1 DEF AgentInit, Init, AgentInv, NextInv
<1> QED  BY <1>1, AgentInvStep, PTL DEF AgentSpec

-----------------------------------------------------------------------------
(* The theorems *)

\* Whatever the agent does is a use of the commands of the tree, so that all
\* that is proved of NodeTree and of next holds for it.
THEOREM AgentUsesCommands == AgentSpec => Spec
<1>1. AgentInit => Init
  BY DEF AgentInit
<1>2. AgentInv => TypeOK
  BY DEF AgentInv, NextInv, WorkInv, TreeInv
<1> QED  BY <1>1, <1>2, AgentInvariant, AgentStepIsNext, PTL DEF AgentSpec, Spec

\* next never leaves the agent with a command that is refused: what it offers
\* is ready, what it asks to complete can complete, and what it asks to repair
\* takes the repair.
THEOREM AgentIsNeverStuck == AgentSpec => []NeverStuck
<1>1. AgentInv => NeverStuck
  <2> SUFFICES ASSUME AgentInv, planned, ~Finished
               PROVE  \/ \E t \in Node :
                           \/ OffersTake(Mine, t) /\ IsReadyTask(t, claimed)
                           \/ /\ OffersWork(Mine, t)
                              /\ t \notin held /\ ~OpenTaskChild(t) /\ PrereqsDone(t)
                           \/ /\ RepairsTask(Mine, t)
                              /\ t \notin claimed /\ ~Terminal(t) /\ ~IsArchived(t)
                      \/ RepairsRoot(Mine) /\ MayParent(Root, "task")
    BY DEF NeverStuck
  <2>t. TreeInv /\ TypeOK /\ KindsDeclare /\ HasRoot
    BY DEF AgentInv, NextInv, WorkInv, TreeInv
  <2>1. CASE claimed # {}
    <3>1. PICK t \in claimed : t \in Node
      BY <2>1, <2>t DEF TypeOK
    <3>2. OffersWork(Mine, t) /\ ~OpenTaskChild(t) /\ PrereqsDone(t)
      BY <3>1 DEF AgentInv, OffersWork, Mine
    <3>3. t \notin held
      BY <3>1, <2>t DEF TypeOK
    <3> QED  BY <3>1, <3>2, <3>3
  <2>2. CASE claimed = {} /\ Ready # {}
    <3>1. PICK t \in Ready : \A u \in Ready : t <= u
      BY <2>2, LeastNode DEF Ready
    <3>2. t \in Node /\ IsReadyTask(t, claimed) /\ t \in Subject(Mine)
      BY <2>2, <3>1 DEF Ready, Subject, Mine
    <3>3. t \notin claimed /\ ~Terminal(t) /\ ~IsArchived(t)
      BY <3>2 DEF IsReadyTask, OpenTask, IsArchived, AgentInv
    <3>4. OffersTake(Mine, t) \/ RepairsTask(Mine, t)
      BY <2>2, <3>2 DEF OffersTake, RepairsTask, Mine
    <3> QED  BY <3>2, <3>3, <3>4
  <2>3. CASE claimed = {} /\ Ready = {}
    <3>1. NothingAtHand(Mine)
      BY <2>3, <2>t DEF NothingAtHand, Subject, Mine
    <3>2. Missing(Root) # {}
      BY <3>1 DEF Finished, NoOp, Blocked, AsksForWork
    <3>3. kind[Root] = "goal" /\ Root \in Node
      BY <2>t, AllBelowRoot DEF HasRoot
    <3>4. MayParent(Root, "task")
      BY <3>3, <2>t
         DEF MayParent, CanParentWork, Terminal, IsArchived, AgentInv, KindsDeclare
    <3> QED  BY <3>1, <3>2, <3>4 DEF RepairsRoot
  <2> QED  BY <2>1, <2>2, <2>3
<1> QED  BY <1>1, AgentInvariant, PTL

-----------------------------------------------------------------------------
(* The partition does not stop the agent *)

\* A node created below the root: the ids and what is known of the new one.
LEMMA NewBelowRoot ==
    ASSUME TreeInv, KindsDeclare, HasRoot, NEW prom, NEW own,
           Create("task", Root, {}, {}, prom, own)
    PROVE  LET x == nextID IN
           /\ x \in Node /\ ~Exists(x) /\ Root \in Node /\ Root # x
           /\ kind[Root] = "goal" /\ status[x] = "open" /\ promised[x] = {}
           /\ \A n \in Node \ {x} :
                 /\ kind'[n] = kind[n] /\ parent'[n] = parent[n]
                 /\ owned'[n] = owned[n]
                 /\ required'[n] = required[n] /\ promised'[n] = promised[n]
           /\ after' = after /\ status' = status
           /\ kind'[x] = "task" /\ parent'[x] = Root /\ owned'[x] = own
           /\ required'[x] = {} /\ promised'[x] = prom
           /\ \A n \in Node : parent[n] # x
           /\ parent[x] = NoNode
           /\ KindsDeclare'
<1> DEFINE x == nextID
<1>t. TypeOK
  BY DEF TreeInv
<1>1. /\ x \in Node /\ ~Exists(x) /\ parent[x] = NoNode /\ after[x] = {}
      /\ Root \in Node /\ Root # x /\ kind[Root] = "goal"
      /\ status[x] = "open" /\ promised[x] = {}
  <2>1. x \in Node
    BY DEF Create
  <2>2. ~Exists(x)
    BY <2>1, BoundTyped DEF TreeInv, Dense, Node
  <2>3. kind[Root] = "goal" /\ Root \in Node
    BY AllBelowRoot DEF HasRoot
  <2> QED  BY <2>1, <2>2, <2>3 DEF KindsDeclare, Exists, CanParentWork
<1>2. /\ \A n \in Node \ {x} :
            /\ kind'[n] = kind[n] /\ parent'[n] = parent[n]
            /\ owned'[n] = owned[n]
            /\ required'[n] = required[n] /\ promised'[n] = promised[n]
      /\ after' = after /\ status' = status
      /\ kind'[x] = "task" /\ parent'[x] = Root /\ owned'[x] = own
      /\ required'[x] = {} /\ promised'[x] = prom
  BY <1>t, <1>1 DEF Create, TypeOK
<1> HIDE DEF x
<1>3. KindsDeclare'
  BY <1>1, <1>2 DEF KindsDeclare, CanParentWork, Exists
<1>4. \A n \in Node : parent[n] # x
  BY <1>1 DEF TreeInv, OneTree, KindsDeclare, CanParentWork, Exists, Node, NoNode
<1> QED  BY <1>1, <1>2, <1>3, <1>4 DEF x

\* It joins no subtree but its own and that of the root, so that nothing else
\* misses more or less.
LEMMA OthersMissTheSame ==
    ASSUME TreeInv, KindsDeclare, HasRoot, NEW prom, NEW own,
           Create("task", Root, {}, {}, prom, own),
           NEW n \in Node, n # nextID, n # Root
    PROVE  /\ Subtree(n)' = Subtree(n)
           /\ nextID \notin Subtree(n) /\ Root \notin Subtree(n)
           /\ StaticLeaf(n)' <=> StaticLeaf(n)
           /\ Missing(n)' = Missing(n)
<1> DEFINE x == nextID
<1>1. /\ x \in Node /\ ~Exists(x) /\ Root \in Node /\ Root # x
      /\ \A m \in Node \ {x} :
            /\ kind'[m] = kind[m] /\ parent'[m] = parent[m]
            /\ required'[m] = required[m] /\ promised'[m] = promised[m]
      /\ status' = status
      /\ kind'[x] = "task" /\ parent'[x] = Root
      /\ \A m \in Node : parent[m] # x
      /\ parent[x] = NoNode
      /\ KindsDeclare'
  BY NewBelowRoot
<1>n. n # x
  OBVIOUS
<1> HIDE DEF x
<1>2. ~IsAncestor(parent, n, Root)
  <2>1. {Root} \in SUBSET Node /\ parent[Root] = NoNode
    <3>1. nextID # 1
      BY BoundTyped DEF TreeInv, Dense, TypeOK, HasRoot, Root, Node
    <3> QED  BY <1>1, <3>1, RootExists DEF Root
  <2> QED  BY <2>1
     DEF IsAncestor
<1>3. ~IsAncestor(parent, n, x)
  <2>1. {x} \in SUBSET Node
    BY <1>1
  <2> QED  BY <2>1, <1>1, <1>n DEF IsAncestor
<1>4. /\ \A m \in Node : IsAncestor(parent', n, m) => IsAncestor(parent, n, m)
      /\ \A m \in Node \ {x} : IsAncestor(parent, n, m) => IsAncestor(parent', n, m)
  <2> DEFINE K == Node \ {x}
  <2>1. PICK tree : tree = parent
    OBVIOUS
  <2>2. PICK moved : moved = parent'
    OBVIOUS
  <2>3. \A k \in Node : \/ moved[k] = tree[k]
                        \/ moved[k] = NoNode
                        \/ moved[k] \in Node /\ ~IsAncestor(tree, n, moved[k])
    BY <1>1, <1>2, <2>1, <2>2
  <2>4. \A k \in K : /\ moved[k] = tree[k]
                     /\ \/ tree[k] \in K \cup {NoNode}
                        \/ tree[k] \in Node /\ ~IsAncestor(tree, n, tree[k])
    BY <1>1, <2>1, <2>2 DEF TreeInv, TypeOK
  <2>5. K \in SUBSET Node
    OBVIOUS
  <2> HIDE DEF K
  <2>6. /\ \A m \in Node : IsAncestor(moved, n, m) => IsAncestor(tree, n, m)
        /\ \A m \in K : IsAncestor(tree, n, m) => IsAncestor(moved, n, m)
    BY <2>3, <2>4, <2>5, SubtreeKept
  <2> QED  BY <2>1, <2>2, <2>6 DEF K
<1>5. Subtree(n)' = Subtree(n)
  <2>1. \A m \in Node : m \in Subtree(n)' <=> m \in Subtree(n)
    BY <1>1, <1>3, <1>4 DEF Subtree, Exists
  <2>2. Subtree(n)' \subseteq Node /\ Subtree(n) \subseteq Node
    BY DEF Subtree
  <2>3. \A S, T \in SUBSET Node : (\A m \in Node : m \in S <=> m \in T) => S = T
    OBVIOUS
  <2> QED  BY <2>1, <2>2, <2>3
<1>6. x \notin Subtree(n) /\ Root \notin Subtree(n) /\ Subtree(n) \subseteq Node
  BY <1>2, <1>3 DEF Subtree
<1>7. \A m \in Node \ {x, Root} : StaticLeaf(m)' <=> StaticLeaf(m)
  <2>1. \A m \in Node \ {x, Root} : TaskChildren(m)' = TaskChildren(m)
    <3>1. NoNode \notin Node
      BY DEF Node, NoNode
    <3> QED  BY <1>1, <3>1 DEF TaskChildren
  <2> QED  BY <1>1, <2>1 DEF StaticLeaf
<1>8. Missing(n)' = Missing(n)
  <2>1. Workers(n)' = Workers(n)
    BY <1>1, <1>5, <1>6 DEF Workers, CanParentWork
  <2>2. \A m \in Workers(n) : m \in Node \ {x, Root}
    BY <1>6 DEF Workers
  <2> QED  BY <1>1, <1>7, <2>1, <2>2, SameMissing
<1> QED  BY <1>5, <1>6, <1>7, <1>8, <1>n DEF x

\* A task for the root that owns nothing takes part in no partition, and makes
\* no goal incomplete but the root, which was incomplete before.
LEMMA RootRepairFits ==
    ASSUME TreeInv, KindsDeclare, BoundaryPartition, RepairsRoot(Mine),
           NEW o \in Missing(Root), CreateTask(Root, {}, {}, {o}, {})
    PROVE  BoundaryPartition'
<1> DEFINE x == nextID
<1>t. TypeOK /\ HasRoot /\ Missing(Root) # {} /\ Create("task", Root, {}, {}, {o}, {})
  BY DEF TreeInv, RepairsRoot, NothingAtHand, CreateTask
<1>1. /\ x \in Node /\ ~Exists(x) /\ Root \in Node /\ kind[Root] = "goal"
      /\ \A n \in Node \ {x} : /\ kind'[n] = kind[n] /\ parent'[n] = parent[n]
                               /\ owned'[n] = owned[n]
      /\ after' = after /\ status' = status
      /\ kind'[x] = "task" /\ parent'[x] = Root /\ owned'[x] = {}
      /\ \A n \in Node : parent[n] # x
  BY <1>t, NewBelowRoot
<1>2. ASSUME NEW n \in Node \ {x}, n # Root
      PROVE  /\ Subtree(n)' = Subtree(n) /\ x \notin Subtree(n)
             /\ Missing(n)' = Missing(n)
  BY <1>t, <1>2, OthersMissTheSame
<1> HIDE DEF x
<1>3. ASSUME NEW n \in Node \ {x}, kind[n] = "goal", n # Root, Completed(n)
      PROVE  Completed(n)'
  <2>1. /\ Subtree(n)' = Subtree(n) /\ x \notin Subtree(n)
        /\ Missing(n)' = Missing(n) /\ Subtree(n) \subseteq Node
    BY <1>2, <1>3 DEF Subtree
  <2>2. \A m \in Subtree(n)' : ~OpenTask(m)'
    BY <1>1, <1>3, <2>1 DEF Completed, OpenTask, Terminal
  <2> QED  BY <1>1, <1>3, <2>1, <2>2 DEF Completed
<1>4. ASSUME NEW n \in Node, Participates(n)'
      PROVE  n # x /\ Participates(n)
  <2>1. n # x /\ owned[n] # {} /\ kind'[n] = kind[n]
    BY <1>1, <1>4 DEF Participates
  <2>2. CASE OpenTask(n)'
    BY <1>1, <2>1, <2>2 DEF Participates, OpenTask, Terminal
  <2>3. CASE n = Root
    BY <1>t, <1>1, <2>1, <2>3 DEF Participates, Completed
  <2>4. CASE kind[n] = "goal" /\ n # Root /\ ~Completed(n)'
    BY <1>3, <2>1, <2>4 DEF Participates
  <2>5. CASE kind[n] = "goal" /\ n # Root /\ \A m \in Subtree(n)' : kind'[m] # "task"
    <3>1. Subtree(n)' = Subtree(n) /\ x \notin Subtree(n) /\ Subtree(n) \subseteq Node
      BY <1>2, <2>1, <2>5 DEF Subtree
    <3>2. \A m \in Subtree(n) : kind[m] # "task"
      BY <1>1, <2>5, <3>1
    <3> QED  BY <2>1, <2>5, <3>2 DEF Participates
  <2> QED  BY <1>4, <2>1, <2>2, <2>3, <2>4, <2>5 DEF Participates
<1>5. \A n, m \in Node \ {x} : OrderedByPrerequisite(n, m)' <=> OrderedByPrerequisite(n, m)
  <2>1. \A n, m : HasPrereqPath(n, m)' <=> HasPrereqPath(n, m)
    BY <1>1 DEF HasPrereqPath
  <2> QED  BY <1>1, <2>1 DEF OrderedByPrerequisite
<1>6. ASSUME NEW n \in Node, Participates(n)'
      PROVE  /\ parent'[n] # NoNode /\ owned'[parent'[n]] # {} =>
                   \A q \in owned'[n] : Inside(q, owned'[parent'[n]])
             /\ \A m \in Node \ {n} :
                   /\ Participates(m)'
                   /\ parent'[m] = parent'[n]
                   /\ Overlap(owned'[n], owned'[m])
                   => OrderedByPrerequisite(n, m)'
  <2>1. n # x /\ Participates(n) /\ parent'[n] = parent[n] /\ owned'[n] = owned[n]
    BY <1>1, <1>4, <1>6
  <2>2. parent[n] # NoNode => owned'[parent[n]] = owned[parent[n]]
    BY <1>1, <1>t DEF TypeOK
  <2>3. \A m \in Node : Participates(m)' =>
           /\ m # x /\ Participates(m) /\ parent'[m] = parent[m]
           /\ owned'[m] = owned[m]
    BY <1>1, <1>4
  <2> QED  BY <1>5, <2>1, <2>2, <2>3 DEF BoundaryPartition
<1> QED  BY <1>6 DEF BoundaryPartition, Inside, Overlap

\* Though the reducer asks for the partition after each of its commands, the
\* agent is never refused for it, as long as it adds tasks that own no path.
THEOREM PartitionNeverStopsTheAgent ==
    ASSUME AgentInv,
           \/ \E t \in Node : TakeOffered(t) \/ CompleteOffered(t) \/ RepairTask(t)
           \/ /\ RepairsRoot(Mine)
              /\ \E o \in Missing(Root) : CreateTask(Root, {}, {}, {o}, {})
    PROVE  BoundaryPartition'
<1>t. WorkInv /\ TreeInv /\ KindsDeclare /\ BoundaryPartition /\ TypeOK
  BY DEF AgentInv, NextInv, WorkInv, TreeInv
<1>1. ASSUME NEW t \in Node, TakeOffered(t) \/ CompleteOffered(t)
      PROVE  BoundaryPartition'
  <2>1. Work(claimed)
    BY <1>1 DEF TakeOffered, CompleteOffered, Work
  <2> QED  BY <1>t, <2>1, PartitionNeverStopsWork
<1>2. ASSUME NEW t \in Node, RepairTask(t) PROVE BoundaryPartition'
  <2>1. /\ Revise(t, parent[t], claimed) /\ UNCHANGED <<after, owned>>
        /\ t \in Subject(Mine) /\ t \notin claimed
    BY <1>2 DEF RepairTask, RepairsTask
  <2>2. OpenTask(t)
    BY <2>1 DEF Subject, Mine, Ready, IsReadyTask
  <2> QED  BY <1>t, <2>1, <2>2, PartitionNeverStopsWork
<1> QED  BY <1>t, <1>1, <1>2, RootRepairFits

-----------------------------------------------------------------------------
(* Every step brings the plan forward *)

\* What closes under an open task without open children stays covered by itself,
\* so that the task misses at most what it requires.
LEMMA LeafMissesItsOwn ==
    ASSUME WorkInv, NEW t \in Node, OpenTask(t), StaticLeaf(t)
    PROVE  /\ Missing(t) \subseteq required[t]
           /\ Missing(t) \cap promised[t] = {}
<1>t. TreeInv /\ KindsDeclare /\ CompletedCovered /\ TypeOK
  BY DEF WorkInv, TreeInv
<1>o. kind[t] = "task" /\ status[t] = "open"
  BY <1>t DEF OpenTask, Terminal, TypeOK
<1>1. t \in Workers(t)
  BY <1>o DEF Workers, Subtree, IsAncestor, Exists, CanParentWork
<1>2. ASSUME NEW m \in Workers(t), m # t
      PROVE  m \in Node /\ kind[m] = "task" /\ ~OpenTask(m)
  <2>1. m \in Node /\ IsAncestor(parent, t, m) /\ CanParentWork(m)
    BY <1>2 DEF Workers, Subtree
  <2>2. kind[m] = "task"
    BY <2>1, <1>t, <1>o, BelowTask DEF CanParentWork
  <2> DEFINE S == {k \in Node : (OpenTask(k) \/ kind[k] = "goal") /\ k # t}
  <2>3. ASSUME NEW k \in S PROVE parent[k] \in S \cup {NoNode}
    <3>1. k \in Node /\ Exists(k) /\ parent[k] \in Node \cup {NoNode}
      BY <2>3, <1>t DEF TypeOK, OpenTask, Exists
    <3>2. parent[k] # NoNode => /\ CanParentWork(parent[k])
                                /\ kind[k] = "goal" => kind[parent[k]] = "goal"
      BY <3>1, <1>t DEF TreeInv, OneTree
    <3>3. parent[k] # t
      <4>1. CASE OpenTask(k)
        BY <4>1, <3>1 DEF StaticLeaf, TaskChildren, OpenTask, Terminal
      <4>2. CASE kind[k] = "goal"
        BY <4>2, <3>1, <3>2, <1>o DEF Node, NoNode
      <4> QED  BY <4>1, <4>2, <2>3
    <3>4. CASE parent[k] # NoNode /\ kind[parent[k]] = "goal"
      BY <3>1, <3>3, <3>4
    <3>5. CASE parent[k] # NoNode /\ kind[parent[k]] = "task"
      <4>1. OpenTask(k)
        BY <2>3, <3>2, <3>5
      <4>2. OpenTask(parent[k])
        BY <4>1, <3>1, <3>5, <1>t
           DEF TreeInv, ChildrenSettled, OpenTaskChild, TaskChildren, OpenTask
      <4> QED  BY <4>2, <3>1, <3>3, <3>5
    <3> QED  BY <3>1, <3>2, <3>4, <3>5 DEF CanParentWork
  <2>4. S \in SUBSET Node /\ t \notin S
    OBVIOUS
  <2>5. m \notin S
    <3> HIDE DEF S
    <3> QED  BY <2>1, <2>3, <2>4 DEF IsAncestor
  <2> QED  BY <1>2, <2>1, <2>2, <2>5
<1>3. ASSUME NEW m \in Workers(t), m # t, status[m] # "canceled",
             NEW o \in required[m]
      PROVE  o \notin Missing(t)
  <2>1. m \in Node /\ kind[m] = "task" /\ status[m] = "completed"
    BY <1>2, <1>3, <1>t DEF OpenTask, Terminal, TypeOK
  <2>2. Missing(m) = {}
    BY <2>1, <1>t DEF CompletedCovered
  <2>3. m \in Workers(m)
    BY <2>1 DEF Workers, Subtree, IsAncestor, Exists, CanParentWork
  <2>4. PICK k \in Workers(m) :
            status[k] # "canceled" /\ StaticLeaf(k) /\ o \in promised[k]
    <3>1. o \notin Missing(m)
      BY <2>2
    <3>2. o \in Missing(m) <=>
              /\ \E k \in Workers(m) : status[k] # "canceled" /\ o \in required[k]
              /\ ~\E k \in Workers(m) : /\ status[k] # "canceled"
                                        /\ StaticLeaf(k)
                                        /\ o \in promised[k]
      BY <2>1, <1>t, MissingOfWorkers
    <3> QED  BY <3>1, <3>2, <2>3, <1>3
  <2>5. k \in Workers(t)
    BY <2>4, <1>3 DEF Workers, Subtree, IsAncestor
  <2>6. o \in Missing(t) =>
            ~\E j \in Workers(t) : /\ status[j] # "canceled"
                                   /\ StaticLeaf(j)
                                   /\ o \in promised[j]
    BY <1>t, MissingOfWorkers
  <2> QED  BY <2>4, <2>5, <2>6
<1>4. ASSUME NEW o \in Missing(t)
      PROVE  o \in required[t] /\ o \notin promised[t]
  <2>1. /\ \E m \in Workers(t) : status[m] # "canceled" /\ o \in required[m]
        /\ ~\E m \in Workers(t) : /\ status[m] # "canceled"
                                  /\ StaticLeaf(m)
                                  /\ o \in promised[m]
    BY <1>4, <1>t, MissingOfWorkers
  <2> QED  BY <1>1, <1>3, <1>4, <1>o, <2>1
<1> QED  BY <1>4

\* Facts, component by component.
LEMMA MoreFacts ==
    ASSUME \A n \in Node : Exists(n) => Exists(n)',
           \A n \in Node : promised[n] # {} => promised'[n] # {},
           \A n \in Node : n \in claimed \/ Terminal(n) => n \in claimed' \/ Terminal(n)',
           proved \subseteq proved',
           \A n \in Node : status[n] = "completed" => status'[n] = "completed",
           \/ \E n \in Node : ~Exists(n) /\ Exists(n)'
           \/ \E n \in Node : promised[n] = {} /\ promised'[n] # {}
           \/ \E n \in Node : n \notin claimed /\ ~Terminal(n) /\ n \in claimed'
           \/ proved' # proved
           \/ \E n \in Node : status[n] # "completed" /\ status'[n] = "completed"
    PROVE  /\ \A f \in DOMAIN Facts : Facts[f] \subseteq Facts'[f]
           /\ Facts' # Facts
<1>1. /\ Facts.exists = {n \in Node : Exists(n)}
      /\ Facts.covering = {n \in Node : promised[n] # {}}
      /\ Facts.taken = {n \in Node : n \in claimed \/ Terminal(n)}
      /\ Facts.proved = proved
      /\ Facts.completed = {n \in Node : status[n] = "completed"}
  BY DEF Facts
<1>2. /\ Facts'.exists = {n \in Node : Exists(n)'}
      /\ Facts'.covering = {n \in Node : promised'[n] # {}}
      /\ Facts'.taken = {n \in Node : n \in claimed' \/ Terminal(n)'}
      /\ Facts'.proved = proved'
      /\ Facts'.completed = {n \in Node : status'[n] = "completed"}
  BY DEF Facts
<1>3. DOMAIN Facts = {"exists", "covering", "taken", "proved", "completed"}
  BY DEF Facts
<1>4. /\ Facts.exists \subseteq Facts'.exists
      /\ Facts.covering \subseteq Facts'.covering
      /\ Facts.taken \subseteq Facts'.taken
      /\ Facts.proved \subseteq Facts'.proved
      /\ Facts.completed \subseteq Facts'.completed
  BY <1>1, <1>2
<1>5. \/ Facts.exists # Facts'.exists
      \/ Facts.covering # Facts'.covering
      \/ Facts.taken # Facts'.taken
      \/ Facts.proved # Facts'.proved
      \/ Facts.completed # Facts'.completed
  <2>1. CASE \E n \in Node : ~Exists(n) /\ Exists(n)'
    BY <2>1, <1>1, <1>2
  <2>2. CASE \E n \in Node : promised[n] = {} /\ promised'[n] # {}
    BY <2>2, <1>1, <1>2
  <2>3. CASE \E n \in Node : n \notin claimed /\ ~Terminal(n) /\ n \in claimed'
    BY <2>3, <1>1, <1>2
  <2>4. CASE proved' # proved
    BY <2>4, <1>1, <1>2
  <2>5. CASE \E n \in Node : status[n] # "completed" /\ status'[n] = "completed"
    BY <2>5, <1>1, <1>2
  <2> QED  BY <2>1, <2>2, <2>3, <2>4, <2>5
<1> QED  BY <1>3, <1>4, <1>5

\* What is left of a plan to repair after a step, when no task with something
\* missing lost its place as a leaf or its requirement.
LEMMA StaysRepairable ==
    ASSUME Repairable,
           \A t \in Node : OpenTask(t)' /\ Missing(t)' # {} =>
              /\ OpenTask(t) /\ Missing(t) # {}
              /\ StaticLeaf(t)'
              /\ promised'[t] = promised[t] /\ required'[t] = required[t]
    PROVE  Repairable'
BY DEF Repairable

LEMMA TakeAdvances ==
    ASSUME AgentInv, Repairable, NEW t \in Node, TakeOffered(t)
    PROVE  /\ \A f \in DOMAIN Facts : Facts[f] \subseteq Facts'[f]
           /\ Facts' # Facts
           /\ Repairable'
<1>1. /\ UNCHANGED <<kind, parent, after, status, required, promised, proved>>
      /\ claimed' = claimed \cup {t}
      /\ t \notin claimed /\ ~Terminal(t)
  BY DEF TakeOffered, Take, IsReadyTask, OpenTask, shape, declared
<1>2. Repairable'
  BY <1>1, ClaimsTellNothing, StaysRepairable DEF OpenTask, Terminal, Repairable
<1> QED  BY <1>1, <1>2, MoreFacts DEF Exists, Terminal

LEMMA ProveAdvances ==
    ASSUME Repairable, NEW t \in Node, Prove(t)
    PROVE  /\ \A f \in DOMAIN Facts : Facts[f] \subseteq Facts'[f]
           /\ Facts' # Facts
           /\ Repairable'
<1>1. /\ UNCHANGED <<kind, parent, after, status, required, promised, claimed>>
      /\ proved \subseteq proved' /\ proved' # proved
  BY DEF Prove, vars, shape, declared
<1>2. Repairable'
  BY <1>1, ClaimsTellNothing, StaysRepairable DEF OpenTask, Terminal, Repairable
<1> QED  BY <1>1, <1>2, MoreFacts DEF Exists, Terminal

\* To complete an open task changes nothing in what others miss.
LEMMA CompleteAdvances ==
    ASSUME AgentInv, Repairable, NEW t \in Node, CompleteOffered(t)
    PROVE  /\ \A f \in DOMAIN Facts : Facts[f] \subseteq Facts'[f]
           /\ Facts' # Facts
           /\ Repairable'
<1>t. status \in [Node -> {"open", "completed", "canceled"}]
  BY DEF AgentInv, NextInv, WorkInv, TreeInv, TypeOK
<1>1. /\ UNCHANGED <<kind, parent, required, promised, proved>>
      /\ claimed' = claimed \ {t}
      /\ status' = [status EXCEPT ![t] = "completed"]
      /\ status[t] = "open"
  BY <1>t DEF CompleteOffered, Complete, Close, OpenTask, Terminal, shape, declared
<1>2. /\ status'[t] = "completed" /\ \A n \in Node : n # t => status'[n] = status[n]
      /\ \A n \in Node : status'[n] = "canceled" <=> status[n] = "canceled"
  BY <1>t, <1>1
<1>3. \A n : Subtree(n)' = Subtree(n) /\ Subtree(n) \subseteq Node
  BY <1>1 DEF Subtree, Exists
<1>4. \A n : StaticLeaf(n)' <=> StaticLeaf(n)
  BY <1>1, <1>2 DEF StaticLeaf, TaskChildren
<1>5. \A n : Missing(n)' = Missing(n)
  <2> SUFFICES ASSUME NEW n PROVE Missing(n)' = Missing(n)
    OBVIOUS
  <2> DEFINE scope == {m \in Subtree(n) : status[m] # "canceled"}
  <2>1. {m \in Subtree(n)' : status'[m] # "canceled"} = scope
    BY <1>2, <1>3
  <2>2. {k \in scope : StaticLeaf(k)'} = {k \in scope : StaticLeaf(k)}
    BY <1>4
  <2> QED  BY <1>1, <2>1, <2>2 DEF Missing
<1>6. \A n \in Node : OpenTask(n)' => OpenTask(n)
  BY <1>1, <1>2 DEF OpenTask, Terminal
<1>7. Repairable'
  BY <1>1, <1>4, <1>5, <1>6, StaysRepairable DEF Repairable
<1> QED  BY <1>1, <1>2, <1>7, MoreFacts DEF Exists, Terminal

\* The repair of a task claims the one obligation that it requires.
LEMMA RepairTaskAdvances ==
    ASSUME AgentInv, AgentInv', Repairable, NEW t \in Node, RepairTask(t)
    PROVE  /\ \A f \in DOMAIN Facts : Facts[f] \subseteq Facts'[f]
           /\ Facts' # Facts
           /\ Repairable'
<1>t. TypeOK /\ WorkInv /\ WorkInv'
  BY DEF AgentInv, NextInv, WorkInv, TreeInv
<1>1. PICK o \in Missing(t) : promised' = [promised EXCEPT ![t] = {o}]
  BY DEF RepairTask
<1>2. /\ Revise(t, parent[t], claimed)
      /\ UNCHANGED <<kind, after, status, required, owned, proved, claimed>>
      /\ OpenTask(t)
  BY DEF RepairTask, Revise, RepairsTask, Subject, Mine, Ready, IsReadyTask
<1>3. parent' = parent
  BY <1>2, <1>t DEF Revise, TypeOK
<1>4. /\ promised[t] = {} /\ StaticLeaf(t)
      /\ \E r \in Obligation : required[t] = {r}
  BY <1>1, <1>2 DEF Repairable
<1>5. required[t] = {o}
  BY <1>1, <1>2, <1>4, <1>t, LeafMissesItsOwn
<1>6. /\ promised'[t] = {o}
      /\ \A n \in Node : n # t => promised'[n] = promised[n]
  BY <1>1, <1>t DEF TypeOK
<1>7. \A n : Subtree(n)' = Subtree(n) /\ Subtree(n) \subseteq Node
  BY <1>2, <1>3 DEF Subtree, Exists
<1>8. \A n : StaticLeaf(n)' <=> StaticLeaf(n)
  BY <1>2, <1>3 DEF StaticLeaf, TaskChildren
<1>9. Missing(t)' = {}
  <2>1. OpenTask(t)' /\ StaticLeaf(t)'
    BY <1>2, <1>4, <1>8 DEF OpenTask, Terminal
  <2>2. Missing(t)' \subseteq required'[t] /\ Missing(t)' \cap promised'[t] = {}
    <3>1. (WorkInv /\ OpenTask(t) /\ StaticLeaf(t) =>
             /\ Missing(t) \subseteq required[t]
             /\ Missing(t) \cap promised[t] = {})'
      BY LeafMissesItsOwn, PTL
    <3> QED  BY <3>1, <2>1, <1>t
  <2> QED  BY <2>2, <1>2, <1>5, <1>6
<1>10. ASSUME NEW n \in Node PROVE Missing(n)' \subseteq Missing(n)
  <2>1. \A m \in Subtree(n) : promised[m] \subseteq promised'[m]
    BY <1>4, <1>6, <1>7
  <2>2. {m \in Subtree(n)' : status'[m] # "canceled"}
           = {m \in Subtree(n) : status[m] # "canceled"}
    BY <1>2, <1>7
  <2> QED  BY <1>2, <1>8, <2>1, <2>2 DEF Missing
<1>11. Repairable'
  <2>1. ASSUME NEW n \in Node, OpenTask(n)', Missing(n)' # {}
        PROVE  /\ OpenTask(n) /\ Missing(n) # {}
               /\ StaticLeaf(n)'
               /\ promised'[n] = promised[n] /\ required'[n] = required[n]
    <3>1. n # t
      BY <1>9, <2>1
    <3>2. OpenTask(n) /\ Missing(n) # {}
      BY <1>2, <1>10, <2>1 DEF OpenTask, Terminal
    <3> QED  BY <1>2, <1>6, <1>8, <3>1, <3>2 DEF Repairable
  <2> QED  BY <2>1, StaysRepairable
<1> QED  BY <1>2, <1>4, <1>6, <1>11, MoreFacts DEF Exists, Terminal

\* The task added for the root requires nothing, so that nothing is missing
\* below it.
LEMMA RepairRootAdvances ==
    ASSUME AgentInv, Repairable, RepairRoot
    PROVE  /\ \A f \in DOMAIN Facts : Facts[f] \subseteq Facts'[f]
           /\ Facts' # Facts
           /\ Repairable'
<1>x. PICK x : x = nextID
  OBVIOUS
<1>t. TreeInv /\ KindsDeclare /\ HasRoot
  BY DEF AgentInv, NextInv, WorkInv, RepairRoot, RepairsRoot, NothingAtHand
<1>1. PICK o \in Missing(Root), own \in SUBSET Path :
          /\ Create("task", Root, {}, {}, {o}, own)
          /\ UNCHANGED <<claimed, proved>>
  BY DEF RepairRoot, CreateTask
<1>2. /\ x \in Node /\ ~Exists(x) /\ Root \in Node /\ Root # x
      /\ kind[Root] = "goal" /\ promised[x] = {}
      /\ \A n \in Node \ {x} : /\ kind'[n] = kind[n] /\ parent'[n] = parent[n]
                               /\ required'[n] = required[n]
                               /\ promised'[n] = promised[n]
      /\ status' = status /\ kind'[x] = "task" /\ parent'[x] = Root
      /\ required'[x] = {}
      /\ \A n \in Node : parent[n] # x
  BY <1>x, <1>t, <1>1, NewBelowRoot
<1>3. ASSUME NEW n \in Node \ {x}, n # Root
      PROVE  Missing(n)' = Missing(n) /\ (StaticLeaf(n)' <=> StaticLeaf(n))
  BY <1>x, <1>t, <1>1, <1>3, OthersMissTheSame
<1>4. Missing(x)' = {}
  <2>1. Subtree(x)' \subseteq {x}
    <3>1. ASSUME NEW m \in Node \ {x} PROVE ~IsAncestor(parent', x, m)
      <4> DEFINE S == Node \ {x}
      <4>1. \A k \in S : parent'[k] \in S \cup {NoNode}
        BY <1>t, <1>2 DEF TreeInv, TypeOK
      <4>2. S \in SUBSET Node /\ m \in S /\ x \notin S
        OBVIOUS
      <4> HIDE DEF S
      <4> QED  BY <4>1, <4>2 DEF IsAncestor
    <3> QED  BY <3>1 DEF Subtree
  <2>2. \A m \in Subtree(x)' : required'[m] = {}
    BY <1>2, <2>1
  <2> QED  BY <2>2 DEF Missing
<1>5. ASSUME NEW n \in Node, OpenTask(n)', Missing(n)' # {}
      PROVE  /\ OpenTask(n) /\ Missing(n) # {}
             /\ StaticLeaf(n)'
             /\ promised'[n] = promised[n] /\ required'[n] = required[n]
  <2>1. n # x
    BY <1>4, <1>5
  <2>2. n # Root
    BY <1>2, <1>5 DEF OpenTask
  <2>3. OpenTask(n) /\ Missing(n) # {}
    BY <1>2, <1>3, <1>5, <2>1, <2>2 DEF OpenTask, Terminal
  <2> QED  BY <1>2, <1>3, <2>1, <2>2, <2>3 DEF Repairable
<1>6. Repairable'
  BY <1>5, StaysRepairable
<1>7. /\ \A n \in Node : Exists(n) => Exists(n)'
      /\ ~Exists(x) /\ Exists(x)' /\ x \in Node
      /\ \A n \in Node : promised[n] # {} => promised'[n] # {}
      /\ \A n \in Node : Terminal(n) => Terminal(n)'
  BY <1>2 DEF Exists, Terminal
<1>8. /\ \A f \in DOMAIN Facts : Facts[f] \subseteq Facts'[f]
      /\ Facts' # Facts
  BY <1>1, <1>2, <1>7, MoreFacts
<1> QED  BY <1>6, <1>8

\* Every step of the agent adds a fact and takes none back, and the plan stays
\* one that its repairs can help.  Facts are about nodes, so that there are no
\* endless repairs: what is left to fairness is only that the agent goes on.
THEOREM AgentAlwaysAdvances == AgentSpec => AgentAdvances
<1>1. ASSUME AgentInv, AgentInv', planned, Repairable, AgentStep
      PROVE  /\ \A f \in DOMAIN Facts : Facts[f] \subseteq Facts'[f]
             /\ Facts' # Facts
             /\ Repairable'
  BY <1>1, TakeAdvances, ProveAdvances, CompleteAdvances, RepairTaskAdvances,
     RepairRootAdvances DEF AgentStep
<1>2. ASSUME AgentInv, AgentInv', [AgentNext]_agentVars
      PROVE  [planned /\ Repairable =>
                /\ \A f \in DOMAIN Facts : Facts[f] \subseteq Facts'[f]
                /\ Facts' # Facts
                /\ Repairable']_agentVars
  BY <1>1, <1>2 DEF AgentNext, Plan, HandOver
<1> QED  BY <1>2, AgentInvariant, PTL DEF AgentSpec, AgentAdvances

\* What the agent has proved are tasks; with the definitions of the other facts,
\* no fact is about anything but a node.
THEOREM FactsAreAboutNodes ==
    AgentSpec => [](\A f \in DOMAIN Facts : Facts[f] \subseteq Node)
<1>1. AgentInit => proved \subseteq Node
  BY DEF AgentInit
<1>2. proved \subseteq Node /\ [AgentNext]_agentVars => (proved \subseteq Node)'
  BY DEF AgentNext, Plan, HandOver, AgentStep, TakeOffered, Prove,
         CompleteOffered, RepairTask, RepairRoot, agentVars
<1>3. proved \subseteq Node => \A f \in DOMAIN Facts : Facts[f] \subseteq Node
  BY DEF Facts
<1> QED  BY <1>1, <1>2, <1>3, PTL DEF AgentSpec
=============================================================================
