--------------------------- MODULE NodeTreeProofs ---------------------------
(***************************************************************************)
(* Proofs about NodeTree for any number of nodes and any obligations: the  *)
(* store stays one tree, prerequisites stay acyclic, and what is closed    *)
(* has nothing open below it.                                              *)
(*                                                                         *)
(* Ancestors and prerequisite paths are least closed sets, so that a node  *)
(* is not reached exactly when some closed set leaves it out.  The nodes   *)
(* from which n is not reached are closed themselves: redirecting an edge  *)
(* of n into them creates no cycle.                                        *)
(***************************************************************************)
EXTENDS NodeTree, TLAPS

Existing == {n \in Node : Exists(n)}

\* Ids are handed out without gaps.
Dense == \A n \in Node : Exists(n) <=> n < nextID

PrereqsExist == \A n \in Node : after[n] \subseteq Existing

ChildrenSettled ==
    \A t \in Node : kind[t] = "task" /\ Terminal(t) => ~OpenTaskChild(t)

\* The inductive invariant.
TreeInv ==
    /\ TypeOK
    /\ Dense
    /\ OneTree
    /\ PrereqsExist
    /\ PrereqsAcyclic
    /\ ChildrenSettled

-----------------------------------------------------------------------------
(* Reachability *)

\* No nonempty set of Nodes hangs on itself alone.
Rooted(tree, Nodes) ==
    \A S \in SUBSET Nodes : S # {} => \E m \in S : tree[m] \notin S

\* No nonempty set of nodes waits for itself alone.
Acyclic(edges) ==
    \A S \in SUBSET Node : S # {} => \E m \in S : edges[m] \cap S = {}

\* The nodes that do not have n as an ancestor are closed under parents.
LEMMA NotBelowClosed ==
    ASSUME NEW tree, NEW n \in Node
    PROVE  LET C == {k \in Node : ~IsAncestor(tree, n, k)} IN
           /\ n \notin C
           /\ \A k \in C : tree[k] \in C \cup {NoNode}
<1> DEFINE C == {k \in Node : ~IsAncestor(tree, n, k)}
<1>1. n \notin C
  BY DEF IsAncestor
<1>2. ASSUME NEW k \in C PROVE tree[k] \in C \cup {NoNode}
  <2>1. PICK S \in SUBSET Node : /\ k \in S
                                 /\ \A m \in S : tree[m] \in S \cup {NoNode}
                                 /\ n \notin S
    BY <1>2 DEF IsAncestor
  <2>2. CASE tree[k] \in S
    BY <2>1, <2>2 DEF IsAncestor
  <2> QED  BY <2>1, <2>2
<1> QED  BY <1>1, <1>2

\* The nodes that do not reach n along prerequisites are closed under them.
LEMMA NotWaitingClosed ==
    ASSUME NEW n \in Node
    PROVE  LET C == {k \in Node : ~HasPrereqPath(k, n)} IN
           /\ n \notin C
           /\ \A k \in C : after[k] \subseteq C
<1> DEFINE C == {k \in Node : ~HasPrereqPath(k, n)}
<1>1. n \notin C
  BY DEF HasPrereqPath
<1>2. ASSUME NEW k \in C PROVE after[k] \subseteq C
  <2>1. PICK S \in SUBSET Node : /\ k \in S
                                 /\ \A m \in S : after[m] \subseteq S
                                 /\ n \notin S
    BY <1>2 DEF HasPrereqPath
  <2>2. ASSUME NEW m \in after[k] PROVE m \in C
    BY <2>1, <2>2 DEF HasPrereqPath
  <2> QED  BY <2>2
<1> QED  BY <1>1, <1>2

\* Giving n a parent that is not below it leaves no set of nodes hanging on
\* itself.
LEMMA MoveKeepsRooted ==
    ASSUME NEW tree, NEW n \in Node, NEW p \in Node, NEW Nodes \in SUBSET Node,
           NEW moved,
           ~IsAncestor(tree, n, p),
           Rooted(tree, Nodes),
           moved[n] = p,
           \A m \in Node \ {n} : moved[m] = tree[m]
    PROVE  Rooted(moved, Nodes)
<1> DEFINE C == {k \in Node : ~IsAncestor(tree, n, k)}
<1>1. n \notin C /\ p \in C /\ \A k \in C : tree[k] \in C \cup {NoNode}
  BY NotBelowClosed
<1> HIDE DEF C
<1> SUFFICES ASSUME NEW S \in SUBSET Nodes, S # {}
             PROVE  \E m \in S : moved[m] \notin S
  BY DEF Rooted
<1>n. NoNode \notin Node
  BY DEF Node, NoNode
<1>2. CASE S \cap C # {}
  <2>1. S \cap C \in SUBSET Nodes
    OBVIOUS
  <2>2. PICK m \in S \cap C : tree[m] \notin S \cap C
    BY <1>2, <2>1 DEF Rooted
  <2>3. m # n /\ moved[m] = tree[m]
    BY <1>1, <2>2
  <2>4. tree[m] \notin S
    BY <1>1, <2>2, <1>n
  <2> QED  BY <2>2, <2>3, <2>4
<1>3. CASE S \cap C = {} /\ n \in S
  BY <1>1, <1>3
<1>4. CASE n \notin S
  <2>1. PICK m \in S : tree[m] \notin S
    BY DEF Rooted
  <2> QED  BY <2>1, <1>4
<1> QED  BY <1>2, <1>3, <1>4

\* Giving n prerequisites none of which waits for it makes no cycle.
LEMMA ReviseKeepsAcyclic ==
    ASSUME NEW n \in Node, NEW as \in SUBSET Node, NEW revised,
           Acyclic(after),
           \A p \in as : ~HasPrereqPath(p, n),
           revised[n] = as,
           \A m \in Node \ {n} : revised[m] = after[m]
    PROVE  Acyclic(revised)
<1> DEFINE C == {k \in Node : ~HasPrereqPath(k, n)}
<1>1. n \notin C /\ as \subseteq C /\ \A k \in C : after[k] \subseteq C
  BY NotWaitingClosed
<1> HIDE DEF C
<1> SUFFICES ASSUME NEW S \in SUBSET Node, S # {}
             PROVE  \E m \in S : revised[m] \cap S = {}
  BY DEF Acyclic
<1>2. CASE S \cap C # {}
  <2>1. PICK m \in S \cap C : after[m] \cap (S \cap C) = {}
    BY <1>2 DEF Acyclic
  <2>2. m # n /\ revised[m] = after[m]
    BY <1>1, <2>1
  <2>3. after[m] \cap S = {}
    BY <1>1, <2>1
  <2> QED  BY <2>1, <2>2, <2>3
<1>3. CASE S \cap C = {} /\ n \in S
  BY <1>1, <1>3
<1>4. CASE n \notin S
  <2>1. PICK m \in S : after[m] \cap S = {}
    BY DEF Acyclic
  <2> QED  BY <2>1, <1>4
<1> QED  BY <1>2, <1>3, <1>4

\* The first node is the root.
LEMMA RootExists ==
    ASSUME TreeInv, nextID # 1
    PROVE  kind[1] = "goal" /\ parent[1] = NoNode
<1>1. nextID \in Nat /\ 1 \in Node /\ 1 < nextID
  BY BoundTyped DEF TreeInv, TypeOK, Node
<1>2. 1 \in Existing
  BY <1>1 DEF TreeInv, Dense, Existing
<1>3. PICK m \in Existing : parent[m] \notin Existing
  BY <1>2 DEF TreeInv, OneTree, Existing
<1>4. parent[m] = NoNode
  <2>1. m \in Node /\ Exists(m) /\ parent[m] \in Node \cup {NoNode}
    BY <1>3 DEF TreeInv, TypeOK, Existing
  <2>2. parent[m] # NoNode => kind[parent[m]] \in {"goal", "task"}
    BY <2>1 DEF TreeInv, OneTree, CanParentWork
  <2> QED  BY <1>3, <2>1, <2>2 DEF Existing, Exists
<1> QED  BY <1>3, <1>4 DEF TreeInv, OneTree, Existing

-----------------------------------------------------------------------------
(* The steps *)

\* A node is created: as the first goal, or under an open goal or task.
LEMMA CreatePreserves ==
    ASSUME TreeInv,
           NEW k \in {"goal", "task", "rule"}, NEW p \in Node \cup {NoNode},
           NEW as \in SUBSET Node,
           NEW req \in SUBSET Obligation, NEW prom \in SUBSET Obligation,
           NEW own \in SUBSET Path,
           Create(k, p, as, req, prom, own),
           p = NoNode => k = "goal" /\ nextID = 1,
           p # NoNode => /\ CanParentWork(p) /\ ~Terminal(p)
                         /\ k = "goal" => kind[p] = "goal",
           \A q \in as : CanParentWork(q),
           claimed' \subseteq claimed
    PROVE  TreeInv'
<1> DEFINE new == nextID
<1>n. /\ NoNode \notin Node /\ new \in Node
      /\ Node \subseteq Nat /\ nextID' = nextID + 1
  BY BoundTyped DEF Node, NoNode, Create
<1>e. /\ kind' = [kind EXCEPT ![new] = k]
      /\ parent' = [parent EXCEPT ![new] = p]
      /\ after' = [after EXCEPT ![new] = as]
      /\ required' = [required EXCEPT ![new] = req]
      /\ promised' = [promised EXCEPT ![new] = prom]
      /\ owned' = [owned EXCEPT ![new] = own]
      /\ UNCHANGED <<status, held, archived>>
  BY DEF Create
<1>t. TypeOK
  BY DEF TreeInv
<1>1. kind[new] = "none" /\ \A n \in Node : n # new => kind'[n] = kind[n]
  BY <1>n, <1>e, <1>t DEF TreeInv, Dense, Exists, TypeOK
<1>2. kind'[new] = k /\ parent'[new] = p /\ after'[new] = as
  BY <1>n, <1>e, <1>t DEF TypeOK
<1>3. \A n \in Node : n # new => parent'[n] = parent[n] /\ after'[n] = after[n]
  BY <1>e, <1>t DEF TypeOK
<1>4. \A q \in Node : CanParentWork(q) => q # new /\ q \in Existing
  BY <1>1 DEF CanParentWork, Existing, Exists
<1>5. TypeOK'
  <2>1. nextID' \in 1 .. MaxNode + 1
    BY <1>n, <1>t, BoundTyped DEF TypeOK, Node
  <2>2. \A n \in Node : OpenTask(n) => OpenTask(n)'
    BY <1>1, <1>e DEF OpenTask, Terminal
  <2>3. \A n \in Node : Exists(n) => Exists(n)'
    BY <1>1, <1>2 DEF Exists
  <2>4. /\ kind' \in [Node -> {"none", "goal", "task", "rule"}]
        /\ parent' \in [Node -> Node \cup {NoNode}]
        /\ after' \in [Node -> SUBSET Node]
        /\ required' \in [Node -> SUBSET Obligation]
        /\ promised' \in [Node -> SUBSET Obligation]
        /\ owned' \in [Node -> SUBSET Path]
        /\ status' \in [Node -> {"open", "completed", "canceled"}]
    BY <1>e, <1>t DEF TypeOK
  <2>5. /\ claimed' \subseteq {n \in Node : OpenTask(n)'}
        /\ held' \subseteq {n \in Node : OpenTask(n)'}
        /\ claimed' \cap held' = {}
        /\ archived' \subseteq {n \in Node : Exists(n)'}
    BY <2>2, <2>3, <1>e, <1>t DEF TypeOK
  <2> QED  BY <2>1, <2>4, <2>5 DEF TypeOK
<1>6. Dense'
  <2> SUFFICES ASSUME NEW n \in Node PROVE Exists(n)' <=> n < nextID'
    BY DEF Dense
  <2>1. CASE n = new
    BY <2>1, <1>n, <1>2 DEF Exists
  <2>2. CASE n # new
    BY <2>2, <1>n, <1>1 DEF Exists, TreeInv, Dense
  <2> QED  BY <2>1, <2>2
<1>7. OneTree'
  <2>1. ASSUME NEW S \in SUBSET {n \in Node : Exists(n)'}, S # {}
        PROVE  \E m \in S : parent'[m] \notin S
    <3>1. CASE S = {new}
      <4>1. p # new
        BY <1>4, <1>n
      <4> QED  BY <3>1, <4>1, <1>2
    <3>2. CASE S # {new}
      <4>1. S \ {new} # {} /\ S \ {new} \in SUBSET {n \in Node : Exists(n)}
        BY <2>1, <3>2, <1>1 DEF Exists
      <4>2. PICK m \in S \ {new} : parent[m] \notin S \ {new}
        BY <4>1 DEF TreeInv, OneTree
      <4>3. m \in Node /\ Exists(m)
        BY <4>1
      <4>4. parent[m] # new
        <5>1. parent[m] = NoNode \/ CanParentWork(parent[m])
          BY <4>3 DEF TreeInv, OneTree
        <5> QED  BY <5>1, <4>3, <1>n, <1>4, <1>t DEF TypeOK
      <4> QED  BY <4>2, <4>3, <4>4, <1>3
    <3> QED  BY <3>1, <3>2
  <2>2. ASSUME NEW n \in Node, Exists(n)'
        PROVE  /\ n < nextID'
               /\ parent'[n] = NoNode => n = 1 /\ kind'[n] = "goal"
               /\ parent'[n] # NoNode =>
                     /\ CanParentWork(parent[n])'
                     /\ kind'[n] = "goal" => kind'[parent'[n]] = "goal"
    <3>1. n < nextID'
      BY <2>2, <1>6 DEF Dense
    <3>2. CASE n = new
      <4>1. p # NoNode => p \in Node /\ p # new /\ kind'[p] = kind[p]
        BY <1>1, <1>4
      <4> QED  BY <3>1, <3>2, <4>1, <1>2 DEF CanParentWork
    <3>3. CASE n # new
      <4>1. Exists(n)
        BY <2>2, <3>3, <1>1 DEF Exists
      <4>2. /\ parent[n] = NoNode => n = 1 /\ kind[n] = "goal"
            /\ parent[n] # NoNode => /\ CanParentWork(parent[n])
                                     /\ kind[n] = "goal" => kind[parent[n]] = "goal"
        BY <4>1 DEF TreeInv, OneTree
      <4>3. parent[n] # NoNode => parent[n] \in Node /\ kind'[parent[n]] = kind[parent[n]]
        BY <4>2, <1>1, <1>4, <1>t DEF TypeOK
      <4> QED  BY <3>1, <3>3, <4>2, <4>3, <1>1, <1>3 DEF CanParentWork
    <3> QED  BY <3>2, <3>3
  <2> QED  BY <2>1, <2>2 DEF OneTree
<1>8. PrereqsExist'
  <2>1. \A n \in Node : Exists(n) => Exists(n)'
    BY <1>1, <1>2 DEF Exists
  <2>2. as \subseteq Existing
    BY <1>4
  <2> QED  BY <2>1, <2>2, <1>2, <1>3 DEF PrereqsExist, Existing, TreeInv
<1>9. PrereqsAcyclic'
  <2>1. new \notin as /\ \A m \in Node : new \notin after[m]
    BY <1>1, <1>4 DEF TreeInv, PrereqsExist, Existing, Exists
  <2> SUFFICES ASSUME NEW S \in SUBSET Node, S # {}
               PROVE  \E m \in S : after'[m] \cap S = {}
    BY DEF PrereqsAcyclic
  <2>2. CASE S = {new}
    BY <2>1, <2>2, <1>2
  <2>3. CASE S # {new}
    <3>1. S \ {new} # {} /\ S \ {new} \in SUBSET Node
      BY <2>3
    <3>2. PICK m \in S \ {new} : after[m] \cap (S \ {new}) = {}
      BY <3>1 DEF TreeInv, PrereqsAcyclic
    <3> QED  BY <3>2, <2>1, <1>3
  <2> QED  BY <2>2, <2>3
<1>10. ChildrenSettled'
  <2> SUFFICES ASSUME NEW t \in Node, kind'[t] = "task", Terminal(t)',
                      NEW c \in Node, kind'[c] = "task", parent'[c] = t,
                      ~Terminal(c)'
               PROVE  FALSE
    BY DEF ChildrenSettled, OpenTaskChild, TaskChildren
  <2>1. Terminal(t) /\ ~Terminal(c)
    BY <1>e DEF Terminal
  <2>2. CASE c = new
    BY <2>1, <2>2, <1>2, <1>n
  <2>3. CASE c # new /\ t # new
    BY <2>1, <2>3, <1>1, <1>3
       DEF TreeInv, ChildrenSettled, OpenTaskChild, TaskChildren
  <2>4. CASE c # new /\ t = new
    <3>1. kind[c] = "task" /\ parent[c] = new
      BY <2>4, <1>1, <1>3
    <3>2. CanParentWork(new)
      BY <3>1, <1>n DEF TreeInv, OneTree, Exists
    <3> QED  BY <3>2, <1>1 DEF CanParentWork
  <2> QED  BY <2>2, <2>3, <2>4
<1> QED  BY <1>5, <1>6, <1>7, <1>8, <1>9, <1>10 DEF TreeInv

\* A node is revised: moved, or given other prerequisites, or both.
LEMMA RevisePreserves ==
    ASSUME TreeInv, NEW n \in Node, NEW p \in Node \cup {NoNode},
           NEW live \in SUBSET claimed, Revise(n, p, live)
    PROVE  TreeInv'
<1>n. NoNode \notin Node
  BY DEF Node, NoNode
<1>t. TypeOK
  BY DEF TreeInv
<1>1. PICK as \in SUBSET Node :
         /\ as # after[n] => kind[n] = "task" /\ ValidAfter(n, as, parent)
         /\ after' = [after EXCEPT ![n] = as]
  BY DEF Revise
<1>2. PICK req \in SUBSET Obligation : required' = [required EXCEPT ![n] = req]
  BY DEF Revise
<1>3. PICK prom \in SUBSET Obligation : promised' = [promised EXCEPT ![n] = prom]
  BY DEF Revise
<1>o. PICK own \in SUBSET Path : owned' = [owned EXCEPT ![n] = own]
  BY DEF Revise
<1>4. /\ Exists(n) /\ ~Terminal(n)
      /\ p # parent[n] => MayMove(n, p)
      /\ parent' = [parent EXCEPT ![n] = p]
      /\ claimed' = live
      /\ UNCHANGED <<nextID, kind, status, held, archived>>
  BY DEF Revise
<1>5. /\ parent'[n] = p /\ after'[n] = as
      /\ \A m \in Node \ {n} : parent'[m] = parent[m] /\ after'[m] = after[m]
  BY <1>1, <1>4, <1>t DEF TypeOK
<1>6. p # parent[n] =>
         /\ p \in Node /\ p # NoNode /\ CanParentWork(p) /\ ~Terminal(p)
         /\ kind[n] = "goal" => kind[p] = "goal"
         /\ ~IsAncestor(parent, n, p)
  BY <1>4 DEF MayMove, MayParent
<1>7. TypeOK'
  BY <1>1, <1>2, <1>3, <1>o, <1>4, <1>t DEF TypeOK, OpenTask, Terminal, Exists
<1>8. Dense'
  BY <1>4 DEF TreeInv, Dense, Exists
<1>9. OneTree'
  <2>1. \A S \in SUBSET Existing : S # {} => \E m \in S : parent'[m] \notin S
    <3>1. \A S \in SUBSET Existing : S # {} => \E m \in S : parent[m] \notin S
      BY DEF TreeInv, OneTree, Existing
    <3>2. CASE p = parent[n]
      BY <3>1, <3>2, <1>5 DEF Existing
    <3>3. CASE p # parent[n]
      <4>1. PICK moved : moved = parent'
        OBVIOUS
      <4>2. PICK tree : tree = parent
        OBVIOUS
      <4>3. PICK Nodes \in SUBSET Node : Nodes = Existing
        BY DEF Existing
      <4>4. /\ moved[n] = p /\ p \in Node
            /\ \A m \in Node \ {n} : moved[m] = tree[m]
            /\ ~IsAncestor(tree, n, p)
        BY <3>3, <4>1, <4>2, <1>5, <1>6
      <4>5. Rooted(tree, Nodes)
        BY <3>1, <4>2, <4>3 DEF Rooted
      <4>6. Rooted(moved, Nodes)
        BY <4>4, <4>5, MoveKeepsRooted
      <4> QED  BY <4>1, <4>3, <4>6 DEF Rooted
    <3> QED  BY <3>2, <3>3
  <2>2. \A m \in Node : Exists(m) =>
          /\ m < nextID
          /\ parent'[m] = NoNode => m = 1 /\ kind[m] = "goal"
          /\ parent'[m] # NoNode => /\ CanParentWork(parent'[m])
                                    /\ kind[m] = "goal" => kind[parent'[m]] = "goal"
    BY <1>5, <1>6 DEF TreeInv, OneTree
  <2> QED  BY <2>1, <2>2, <1>4 DEF OneTree, Existing, Exists, CanParentWork
<1>10. PrereqsExist'
  <2>1. as # after[n] => as \subseteq Existing
    BY <1>1 DEF ValidAfter, CanParentWork, Existing, Exists
  <2> QED  BY <2>1, <1>4, <1>5 DEF TreeInv, PrereqsExist, Existing, Exists
<1>11. PrereqsAcyclic'
  <2>1. CASE as = after[n]
    BY <2>1, <1>5 DEF TreeInv, PrereqsAcyclic
  <2>2. CASE as # after[n]
    <3>1. \A q \in as : ~HasPrereqPath(q, n)
      BY <2>2, <1>1 DEF ValidAfter
    <3>2. \A S \in SUBSET Node : S # {} => \E m \in S : after'[m] \cap S = {}
      <4>1. PICK revised : revised = after'
        OBVIOUS
      <4>2. revised[n] = as /\ \A m \in Node \ {n} : revised[m] = after[m]
        BY <4>1, <1>5
      <4>3. Acyclic(after)
        BY DEF TreeInv, PrereqsAcyclic, Acyclic
      <4>4. Acyclic(revised)
        BY <3>1, <4>2, <4>3, ReviseKeepsAcyclic
      <4> QED  BY <4>1, <4>4 DEF Acyclic
    <3> QED  BY <3>2 DEF PrereqsAcyclic
  <2> QED  BY <2>1, <2>2
<1>12. ChildrenSettled'
  <2> SUFFICES ASSUME NEW t \in Node, kind[t] = "task", Terminal(t),
                      NEW c \in Node, kind[c] = "task", parent'[c] = t,
                      ~Terminal(c)
               PROVE  FALSE
    BY <1>4 DEF ChildrenSettled, OpenTaskChild, TaskChildren, Terminal
  <2>1. parent[c] # t
    BY DEF TreeInv, ChildrenSettled, OpenTaskChild, TaskChildren
  <2> QED  BY <2>1, <1>5, <1>6
<1> QED  BY <1>7, <1>8, <1>9, <1>10, <1>11, <1>12 DEF TreeInv

\* A task or rule is closed, its children being closed already.
LEMMA ClosePreserves ==
    ASSUME TreeInv, NEW n \in Node, NEW outcome \in {"completed", "canceled"},
           NEW live \in SUBSET claimed, Close(n, outcome, live),
           ~OpenTaskChild(n)
    PROVE  TreeInv'
<1>1. /\ status' = [status EXCEPT ![n] = outcome]
      /\ held' = held \ {n} /\ claimed' = live \ {n}
      /\ UNCHANGED <<nextID, kind, parent, after, archived, declared>>
  BY DEF Close, shape
<1>2. TypeOK'
  BY <1>1 DEF declared, TreeInv, TypeOK, OpenTask, Terminal, Exists
<1>3. \A m \in Node : m # n => status'[m] = status[m]
  BY <1>1 DEF TreeInv, TypeOK
<1>4. status'[n] # "open"
  BY <1>1 DEF TreeInv, TypeOK
<1>5. ChildrenSettled'
  <2> SUFFICES ASSUME NEW t \in Node, kind[t] = "task", Terminal(t)',
                      NEW c \in Node, kind[c] = "task", parent[c] = t,
                      ~Terminal(c)'
               PROVE  FALSE
    BY <1>1 DEF ChildrenSettled, OpenTaskChild, TaskChildren
  <2>1. c # n /\ ~Terminal(c)
    BY <1>3, <1>4 DEF Terminal
  <2>2. t # n
    BY <2>1 DEF OpenTaskChild, TaskChildren
  <2>3. Terminal(t)
    BY <2>2, <1>3 DEF Terminal
  <2> QED  BY <2>1, <2>3 DEF TreeInv, ChildrenSettled, OpenTaskChild, TaskChildren
<1>6. Dense' /\ OneTree' /\ PrereqsExist' /\ PrereqsAcyclic'
  BY <1>1 DEF TreeInv, Dense, OneTree, PrereqsExist, PrereqsAcyclic, Existing,
              Exists, CanParentWork
<1> QED  BY <1>2, <1>5, <1>6 DEF TreeInv

\* Claims, holds and archive markers change nothing the invariant speaks of
\* besides their own types.
LEMMA MarkPreserves ==
    ASSUME TreeInv,
           UNCHANGED <<shape, after, status, declared>>,
           claimed' \subseteq {n \in Node : OpenTask(n)},
           held' \subseteq {n \in Node : OpenTask(n)},
           claimed' \cap held' = {},
           archived' \subseteq Existing
    PROVE  TreeInv'
<1>1. UNCHANGED <<nextID, kind, parent, after, status, required, promised, owned>>
  BY DEF shape, declared
<1>2. TypeOK'
  BY <1>1 DEF TreeInv, TypeOK, OpenTask, Terminal, Existing, Exists
<1>3. Dense' /\ OneTree' /\ PrereqsExist' /\ PrereqsAcyclic' /\ ChildrenSettled'
  BY <1>1 DEF TreeInv, Dense, OneTree, PrereqsExist, PrereqsAcyclic, Existing,
              Exists, CanParentWork, ChildrenSettled, OpenTaskChild,
              TaskChildren, Terminal
<1> QED  BY <1>2, <1>3 DEF TreeInv

-----------------------------------------------------------------------------
(* The theorems *)

LEMMA InitTree == Init => TreeInv
<1> SUFFICES ASSUME Init PROVE TreeInv
  OBVIOUS
<1>1. TypeOK
  BY BoundTyped DEF Init, TypeOK
<1>2. \A n \in Node : ~Exists(n) /\ ~(n < nextID)
  BY BoundTyped DEF Init, Exists, Node
<1>4. Dense /\ OneTree
  BY <1>2 DEF Dense, OneTree
<1>5. PrereqsExist /\ ChildrenSettled
  BY DEF Init, PrereqsExist, ChildrenSettled
<1>3. PrereqsAcyclic
  BY DEF Init, PrereqsAcyclic
<1> QED  BY <1>1, <1>3, <1>4, <1>5 DEF TreeInv

LEMMA AddPreserves ==
    ASSUME TreeInv, Add
    PROVE  TreeInv'
<1>n. NoNode \notin Node
  BY DEF Node, NoNode
<1>1. ASSUME NEW req \in SUBSET Obligation, NEW own \in SUBSET Path,
             CreateRoot(req, own)
      PROVE  TreeInv'
  <2>1. nextID = 1
    <3>1. CASE nextID # 1
      <4>1. 1 \in Node
        BY <3>1, BoundTyped DEF TreeInv, TypeOK, Node
      <4> QED  BY <3>1, <4>1, <1>1, RootExists DEF CreateRoot
    <3> QED  BY <3>1
  <2> QED  BY <1>1, <2>1, CreatePreserves DEF CreateRoot
<1>2. ASSUME NEW p \in Node, NEW req \in SUBSET Obligation,
             NEW own \in SUBSET Path, CreateGoal(p, req, own)
      PROVE  TreeInv'
  BY <1>2, CreatePreserves DEF CreateGoal, MayParent, Node, NoNode
<1>3. ASSUME NEW p \in Node, NEW as \in SUBSET Node,
             NEW req \in SUBSET Obligation, NEW prom \in SUBSET Obligation,
             NEW own \in SUBSET Path, CreateTask(p, as, req, prom, own)
      PROVE  TreeInv'
  <2>1. /\ CanParentWork(p) /\ ~Terminal(p) /\ p # NoNode
        /\ \A q \in as : CanParentWork(q)
        /\ Create("task", p, as, req, prom, own) /\ claimed' = claimed
    BY <1>3, <1>n DEF CreateTask, MayParent, ValidAfterOfNew
  <2> QED  BY <2>1, CreatePreserves
<1>4. ASSUME NEW p \in Node, CreateRule(p)
      PROVE  TreeInv'
  BY <1>4, CreatePreserves DEF CreateRule, MayParent, Node, NoNode
<1> QED  BY <1>1, <1>2, <1>3, <1>4 DEF Add

LEMMA RearrangePreserves ==
    ASSUME TreeInv, NEW live \in SUBSET claimed, Rearrange(live)
    PROVE  TreeInv'
<1>t. /\ claimed \subseteq {n \in Node : OpenTask(n)}
      /\ held \subseteq {n \in Node : OpenTask(n)}
      /\ claimed \cap held = {}
      /\ archived \subseteq Existing
  BY DEF TreeInv, TypeOK, Existing
<1>1. ASSUME NEW r \in Node, NEW p \in Node, PromoteRule(r, p, live)
      PROVE  TreeInv'
  BY <1>1, CreatePreserves DEF PromoteRule, MayParent, Node, NoNode
<1>2. ASSUME NEW n \in Node, NEW p \in Node \cup {NoNode}, Revise(n, p, live)
      PROVE  TreeInv'
  BY <1>2, RevisePreserves
<1>3. ASSUME NEW n \in Node, Archive(n, live) PROVE TreeInv'
  <2>1. Exists(n)
    BY <1>3 DEF Archive, Archivable, CanParentWork, Exists
  <2> QED  BY <1>3, <2>1, <1>t, MarkPreserves DEF Archive, Existing
<1>4. ASSUME NEW n \in Node, Unarchive(n, live) PROVE TreeInv'
  BY <1>4, <1>t, MarkPreserves DEF Unarchive
<1> QED  BY <1>1, <1>2, <1>3, <1>4 DEF Rearrange

LEMMA WorkPreserves ==
    ASSUME TreeInv, NEW live \in SUBSET claimed, Work(live)
    PROVE  TreeInv'
<1>t. /\ claimed \subseteq {n \in Node : OpenTask(n)}
      /\ held \subseteq {n \in Node : OpenTask(n)}
      /\ claimed \cap held = {}
      /\ archived \subseteq Existing
  BY DEF TreeInv, TypeOK, Existing
<1>1. ASSUME NEW n \in Node, Take(n, live) PROVE TreeInv'
  BY <1>1, <1>t, MarkPreserves DEF Take, IsReadyTask
<1>2. ASSUME NEW n \in Node, Release(n, live) PROVE TreeInv'
  BY <1>2, <1>t, MarkPreserves DEF Release
<1>3. ASSUME NEW n \in Node, Hold(n, live) PROVE TreeInv'
  BY <1>3, <1>t, MarkPreserves DEF Hold
<1>4. ASSUME NEW n \in Node, ClearHold(n, live) PROVE TreeInv'
  BY <1>4, <1>t, MarkPreserves DEF ClearHold
<1>5. ASSUME NEW n \in Node, Complete(n, live) PROVE TreeInv'
  BY <1>5, ClosePreserves DEF Complete
<1>6. ASSUME NEW n \in Node, Cancel(n, live) PROVE TreeInv'
  BY <1>6, ClosePreserves DEF Cancel
<1> QED  BY <1>1, <1>2, <1>3, <1>4, <1>5, <1>6 DEF Work

LEMMA StepTree == TreeInv /\ [Next]_vars => TreeInv'
<1> SUFFICES ASSUME TreeInv, [Next]_vars PROVE TreeInv'
  OBVIOUS
<1>1. CASE Next
  <2>1. ASSUME NEW live \in SUBSET claimed, RepairAndRefuse(live)
        PROVE  TreeInv'
    BY <2>1, MarkPreserves DEF RepairAndRefuse, TreeInv, TypeOK, Existing
  <2> QED
    BY <1>1, <2>1, AddPreserves, RearrangePreserves, WorkPreserves DEF Next
<1>2. CASE UNCHANGED vars
  <2>1. UNCHANGED <<shape, after, status, claimed, held, archived, declared>>
    BY <1>2 DEF vars
  <2> QED  BY <2>1, MarkPreserves DEF TreeInv, TypeOK, Existing
<1> QED  BY <1>1, <1>2

LEMMA TreeInvariant == Spec => []TreeInv
  BY InitTree, StepTree, PTL DEF Spec

\* Types, and claims and holds only on open tasks and never both.
THEOREM TreeTyped == Spec => []TypeOK
<1>1. TreeInv => TypeOK
  BY DEF TreeInv
<1> QED  BY TreeInvariant, <1>1, PTL

\* Whatever is created and moved, the nodes form one tree below the first goal.
THEOREM StoreIsOneTree == Spec => []OneTree
<1>1. TreeInv => OneTree
  BY DEF TreeInv
<1> QED  BY TreeInvariant, <1>1, PTL

\* The cycle check of validateAfter is enough: no prerequisite cycle arises by
\* creating, revising or moving tasks.
THEOREM PrereqsStayAcyclic == Spec => []PrereqsAcyclic
<1>1. TreeInv => PrereqsAcyclic
  BY DEF TreeInv
<1> QED  BY TreeInvariant, <1>1, PTL

\* A task whose children are closed has nothing open below it.
LEMMA TreeSettled == TreeInv => ClosedSubtreesSettled
<1> SUFFICES ASSUME TreeInv, NEW t \in Node, kind[t] = "task", Terminal(t),
                    NEW m \in Node, IsAncestor(parent, t, m), OpenTask(m)
             PROVE  FALSE
  BY DEF ClosedSubtreesSettled, Subtree
<1> DEFINE S == {k \in Node : OpenTask(k) \/ kind[k] = "goal"}
<1>1. ASSUME NEW k \in S PROVE parent[k] \in S \cup {NoNode}
  <2>1. k \in Node /\ Exists(k) /\ parent[k] \in Node \cup {NoNode}
    BY <1>1 DEF TreeInv, TypeOK, Exists, OpenTask
  <2>2. parent[k] # NoNode => /\ kind[parent[k]] \in {"goal", "task"}
                              /\ kind[k] = "goal" => kind[parent[k]] = "goal"
    BY <2>1 DEF TreeInv, OneTree, CanParentWork
  <2>3. OpenTask(k) /\ parent[k] # NoNode /\ kind[parent[k]] = "task"
           => ~Terminal(parent[k])
    BY <2>1 DEF TreeInv, ChildrenSettled, OpenTaskChild, TaskChildren, OpenTask
  <2>4. CASE parent[k] # NoNode /\ kind[parent[k]] = "goal"
    BY <2>1, <2>4
  <2>5. CASE parent[k] # NoNode /\ kind[parent[k]] = "task"
    <3>1. OpenTask(k)
      BY <1>1, <2>2, <2>5
    <3> QED  BY <3>1, <2>1, <2>3, <2>5 DEF OpenTask
  <2>6. CASE parent[k] = NoNode
    BY <2>6
  <2>7. parent[k] # NoNode => kind[parent[k]] = "goal" \/ kind[parent[k]] = "task"
    BY <2>2
  <2> HIDE DEF S
  <2> QED  BY <2>4, <2>5, <2>6, <2>7
<1>2. S \in SUBSET Node /\ m \in S
  OBVIOUS
<1>3. t \in S
  <2> HIDE DEF S
  <2> QED  BY <1>1, <1>2 DEF IsAncestor
<1> QED  BY <1>3 DEF OpenTask

\* Asking the children of a task when it closes settles its whole subtree for
\* good.
THEOREM ClosedSubtreesAreSettled == Spec => []ClosedSubtreesSettled
BY TreeInvariant, TreeSettled, PTL
=============================================================================
