------------------------- MODULE ProcessTree_proofs -------------------------
(***************************************************************************)
(* Proofs about ProcessTree, for any number of nodes, any plugins and any  *)
(* depth: the pointers form a tree at every step of every call, plugins    *)
(* are loaded exactly as long as they are needed, and what a call leaves   *)
(* behind is what it should.                                               *)
(***************************************************************************)
EXTENDS ProcessTree, PointerLists_proofs, SequenceTheorems

-----------------------------------------------------------------------------
(* The inductive invariant.                                                *)

\* A node that is not allocated is not linked.
Dead(n) ==
  /\ pParent[n] = NULL /\ pFirstChild[n] = NULL /\ pNextBrother[n] = NULL
  /\ ~bUnlinkPoint[n] /\ pNodeOwnerPluginInstance[n] = NULL

\* A node is a URL below the root, or belongs to the plugin that was linked to
\* its parent: as the only child of that one, or as a child of the plugin's
\* own node that is the only child.  Types grow from the root to the leaves.
Live(n) ==
  \/ /\ pParent[n] = Root /\ iNodeType[n] = URL
     /\ bUnlinkPoint[n] /\ pNodeOwnerPluginInstance[n] = NULL
  \/ /\ pParent[n] \in alive /\ iNodeType[pParent[n]] < iNodeType[n]
     /\ pNodeOwnerPluginInstance[n] \in Instance
     /\ IF bUnlinkPoint[n] THEN Children(pParent[n]) = {n}
        ELSE /\ bUnlinkPoint[pParent[n]]
             /\ pNodeOwnerPluginInstance[pParent[n]]
                  = pNodeOwnerPluginInstance[n]

NodesOK ==
  /\ \A n \in Node \ alive : Dead(n)
  /\ \A n \in alive : Live(n)

ChainsOK ==
  \A n \in alive \cup {Root} :
    IsChain(Children(n), pFirstChild[n], pNextBrother)

\* An instance has one node at which it is unlinked, or is in hand.
InstancesOK ==
  /\ \A n \in alive : pNodeOwnerPluginInstance[n] # NULL =>
       /\ instances[pNodeOwnerPluginInstance[n]] # NULL
       /\ pNodeOwnerPluginInstance[n] # pInstance
  /\ \A i \in Instance : instances[i] # NULL /\ i # pInstance =>
       \E n \in NodesOf(i) : bUnlinkPoint[n]
  /\ \A i \in Instance : \A m, n \in NodesOf(i) :
       bUnlinkPoint[m] /\ bUnlinkPoint[n] => m = n

Users(p) == {i \in Instance : instances[i] = p}

CountsOK ==
  \A p \in Plugin :
    iRefCount[p] = Cardinality(Users(p))
                   + (IF hPlugin = p /\ pInstance = NULL THEN 1 ELSE 0)

\* What a call has in hand.
HandOK ==
  /\ hPlugin # NULL <=>
       pc \in {"initialize", "examine", "link", "uninitialize", "unload"}
  /\ pInstance # NULL <=> pc \in {"examine", "link", "uninitialize"}
  /\ pInstance # NULL => instances[pInstance] = hPlugin

\* MMIOOpen() has come down from the URL node, level by level, and links
\* plugins to leaves only.
WalkOK ==
  /\ pc \in {"load", "initialize", "examine", "link", "deeper", "visit",
             "next", "reject"} => walk # <<>>
  /\ pc \in {"idle", "open", "unlink", "crashed"} => walk = <<>>
  /\ \A k \in 1..Len(walk) :
       /\ walk[k] \in alive
       /\ iNodeType[walk[k]] >= k
       /\ pParent[walk[k]] = IF k = 1 THEN Root ELSE walk[k - 1]
  /\ try # 0
  /\ walk # <<>> =>
       /\ pc \in {"load", "initialize", "examine", "link", "uninitialize",
                  "unload", "reject"} => pFirstChild[Leaf] = NULL
       /\ pc = "deeper" => pFirstChild[Leaf] # NULL
       /\ pc = "reject" => Len(walk) = 1
       /\ pc \in {"load", "initialize", "examine", "link"} =>
            try <= Len(Usable[iNodeType[Leaf]])
       /\ pc \in {"initialize", "examine", "link"} => hPlugin = Candidate

\* The node is destroyed together with its parent.
Remains(n) == ~bUnlinkPoint[n] /\ Children(n) = {}

\* How deep the children of a node's parent are.
Depth(n) == IF pParent[n] = Root THEN 0 ELSE iNodeType[pParent[n]]

-----------------------------------------------------------------------------
(* Numbers and fresh addresses.                                            *)

LEMMA LeastNumber ==
  ASSUME NEW S \in SUBSET Nat, S # {}
  PROVE  \E x \in S : \A y \in S : x <= y
<1>1. PICK e \in S : TRUE
  OBVIOUS
<1> DEFINE T == {i \in 1..(e + 1) : i - 1 \in S}
<1>2. e \in Nat /\ e + 1 \in Nat
  OBVIOUS
<1>3. T \in SUBSET (1..(e + 1)) /\ e + 1 \in T
  BY <1>2
<1>4. PICK i \in T : \A j \in T : i <= j
  <2> HIDE DEF T
  <2> QED BY <1>2, <1>3, FirstPosition
<1>5. i - 1 \in S
  OBVIOUS
<1>6. ASSUME NEW y \in S PROVE i - 1 <= y
  <2>1. CASE y <= e
    <3>1. y + 1 \in T
      BY <2>1, <1>2
    <3> QED BY <3>1, <1>4
  <2>2. CASE ~ (y <= e)
    BY <2>2, <1>2
  <2> QED BY <2>1, <2>2
<1> QED BY <1>5, <1>6

\* A set of numbers can be put in order.
LEMMA Increasing ==
  ASSUME NEW k \in Nat, NEW S \in SUBSET Nat, IsFiniteSet(S),
         Cardinality(S) >= k
  PROVE  \E f \in [1..k -> S] : \A i, j \in 1..k : i < j => f[i] < f[j]
<1> DEFINE Sorts(f, n) == \A i, j \in 1..n : i < j => f[i] < f[j]
           Bad == {n \in Nat : \E T \in SUBSET Nat :
                     /\ IsFiniteSet(T) /\ Cardinality(T) >= n
                     /\ \A f \in [1..n -> T] : ~ Sorts(f, n)}
<1>1. SUFFICES ASSUME Bad # {} PROVE FALSE
  OBVIOUS
<1>2. PICK n \in Bad : \A m \in Bad : n <= m
  <2>1. Bad \in SUBSET Nat
    OBVIOUS
  <2> HIDE DEF Bad
  <2> QED BY <1>1, <2>1, LeastNumber
<1>3. PICK T \in SUBSET Nat :
        /\ IsFiniteSet(T) /\ Cardinality(T) >= n
        /\ \A f \in [1..n -> T] : ~ Sorts(f, n)
  OBVIOUS
<1>4. n \in Nat /\ n # 0
  <2>1. ASSUME n = 0 PROVE FALSE
    <3>1. [i \in 1..n |-> 0] \in [1..n -> T] /\ 1..n = {}
      BY <2>1
    <3>2. Sorts([i \in 1..n |-> 0], n)
      BY <3>1
    <3> QED BY <3>1, <3>2, <1>3
  <2> QED BY <2>1
<1>5. T # {} /\ Cardinality(T) \in Nat
  BY <1>3, <1>4, FS_EmptySet, FS_CardinalityType
<1>6. PICK x \in T : \A y \in T : x <= y
  BY <1>5, LeastNumber
<1> DEFINE U == T \ {x}
<1>7. /\ U \in SUBSET Nat /\ IsFiniteSet(U)
      /\ Cardinality(U) >= n - 1 /\ n - 1 \in Nat
  <2>1. IsFiniteSet(U) /\ Cardinality(U) = Cardinality(T) - 1
    BY <1>3, FS_RemoveElement
  <2> QED BY <2>1, <1>3, <1>4, <1>5
<1>8. n - 1 \notin Bad
  BY <1>2, <1>4
<1>9. PICK g \in [1..(n - 1) -> U] : Sorts(g, n - 1)
  BY <1>7, <1>8
<1> DEFINE f == [i \in 1..n |-> IF i = 1 THEN x ELSE g[i - 1]]
<1>10. \A i \in 1..n : i # 1 => /\ i - 1 \in 1..(n - 1) /\ g[i - 1] \in T
                                /\ g[i - 1] # x
  BY <1>4, <1>9
<1>11. f \in [1..n -> T]
  BY <1>10
<1>12. Sorts(f, n)
  <2> SUFFICES ASSUME NEW i \in 1..n, NEW j \in 1..n, i < j
               PROVE  f[i] < f[j]
    OBVIOUS
  <2>1. j # 1 /\ f[j] = g[j - 1] /\ g[j - 1] \in T /\ g[j - 1] # x
    BY <1>4, <1>10
  <2>2. CASE i = 1
    <3>1. f[i] = x /\ x <= g[j - 1]
      BY <2>1, <2>2, <1>6
    <3>2. x \in Nat /\ g[j - 1] \in Nat
      BY <2>1
    <3> QED BY <3>1, <3>2, <2>1
  <2>3. CASE i # 1
    <3>1. i - 1 \in 1..(n - 1) /\ j - 1 \in 1..(n - 1) /\ i - 1 < j - 1
      BY <2>1, <2>3, <1>4, <1>10
    <3>2. f[i] = g[i - 1]
      BY <2>3
    <3> QED BY <3>1, <3>2, <2>1, <1>9
  <2> QED BY <2>2, <2>3
<1> QED BY <1>3, <1>11, <1>12

LEMMA NodeSets ==
  ASSUME NEW S \in SUBSET Node
  PROVE  IsFiniteSet(S) /\ NULL \notin S /\ Root \notin S
BY AddressAssumption, FS_Subset

\* Fresh nodes are free and distinct.
LEMMA FreshIs ==
  ASSUME NEW k \in Nat, Cardinality(Free) >= k
  PROVE  /\ Fresh(k) \in [1..k -> Free]
         /\ \A i, j \in 1..k : Fresh(k)[i] = Fresh(k)[j] => i = j
<1>1. Free \in SUBSET Nat /\ IsFiniteSet(Free)
  BY AddressAssumption, NodeSets DEF Free
<1>2. \E f \in [1..k -> Free] : \A i, j \in 1..k : i < j => f[i] < f[j]
  <2> HIDE DEF Free
  <2> QED BY <1>1, Increasing
<1>3. /\ Fresh(k) \in [1..k -> Free]
      /\ \A i, j \in 1..k : i < j => Fresh(k)[i] < Fresh(k)[j]
  BY <1>2 DEF Fresh
<1>4. \A i \in 1..k : Fresh(k)[i] \in Nat
  BY <1>1, <1>3
<1> QED BY <1>3, <1>4

-----------------------------------------------------------------------------
(* What the tree is like.                                                  *)

TreeTypeOK ==
  /\ alive \subseteq Node
  /\ iNodeType \in [Node -> NodeType]
  /\ pParent \in [Node -> Tree \cup {NULL}]
  /\ pFirstChild \in [Tree -> Node \cup {NULL}]
  /\ pNextBrother \in [Node -> Node \cup {NULL}]
  /\ bUnlinkPoint \in [Node -> BOOLEAN]
  /\ pNodeOwnerPluginInstance \in [Node -> Instance \cup {NULL}]

LEMMA TreeTypes == TypeOK => TreeTypeOK
BY DEF TypeOK, TreeTypeOK

LEMMA NodeTypes == \A t \in NodeType : t \in Nat /\ t >= URL /\ t <= TERMINATOR
BY DEF NodeType, URL, TERMINATOR

\* Among any nodes there is one whose parent is not among them.
LEMMA Topmost ==
  TreeTypeOK /\ NodesOK =>
    \A T \in SUBSET alive : T # {} => \E m \in T : pParent[m] \notin T
<1> SUFFICES ASSUME TreeTypeOK, NodesOK, NEW T \in SUBSET alive, T # {}
             PROVE  \E m \in T : pParent[m] \notin T
  OBVIOUS
<1> DEFINE types == {iNodeType[m] : m \in T}
<1>1. \A m \in T : iNodeType[m] \in Nat
  BY NodeTypes DEF TreeTypeOK
<1>2. types \in SUBSET Nat /\ types # {}
  BY <1>1
<1>3. PICK t \in types : \A u \in types : t <= u
  <2> HIDE DEF types
  <2> QED BY <1>2, LeastNumber
<1>4. PICK m \in T : iNodeType[m] = t
  OBVIOUS
<1>5. ASSUME pParent[m] \in T PROVE FALSE
  <2>1. m \in Node /\ pParent[m] # Root
    BY <1>5, AddressAssumption DEF TreeTypeOK
  <2>2. iNodeType[pParent[m]] < iNodeType[m]
    BY <2>1 DEF NodesOK, Live
  <2>3. t <= iNodeType[pParent[m]]
    BY <1>3, <1>5
  <2> QED BY <2>2, <2>3, <1>1, <1>4, <1>5
<1> QED BY <1>5

\* Below(n) is n and all whose parent is in it.
LEMMA BelowIs ==
  TreeTypeOK /\ NodesOK =>
    \A n \in Node :
      /\ Below(n) \subseteq alive
      /\ \A m \in alive : m \in Below(n) <=> m = n \/ pParent[m] \in Below(n)
<1> SUFFICES ASSUME TreeTypeOK, NodesOK, NEW n \in Node
             PROVE  /\ Below(n) \subseteq alive
                    /\ \A m \in alive :
                         m \in Below(n) <=> m = n \/ pParent[m] \in Below(n)
  OBVIOUS
<1> DEFINE S == Tree \cup {NULL}
           Closed(X) == /\ n \in X
                        /\ \A m \in Node : pParent[m] \in X => m \in X
           B == {m \in S : \A X \in SUBSET S : Closed(X) => m \in X}
           Is(u) == u = [m \in S |-> m = n \/ (m \in Node /\ u[pParent[m]])]
           under == CHOOSE u : Is(u)
<1>1. /\ Node \subseteq S /\ Root \in S
      /\ Root \notin Node /\ NULL \notin Node /\ Root # NULL
      /\ \A m \in Node : pParent[m] \in S
  BY AddressAssumption DEF TreeTypeOK, Tree
<1>2. \A m \in S : m \in B <=> m = n \/ (m \in Node /\ pParent[m] \in B)
  <2>1. Closed(B)
    BY <1>1
  <2>2. ASSUME NEW m \in B, m # n, ~ (m \in Node /\ pParent[m] \in B)
        PROVE  FALSE
    <3>1. B \ {m} \in SUBSET S /\ Closed(B \ {m})
      BY <2>1, <2>2
    <3> QED BY <3>1
  <2> QED BY <2>1, <2>2
<1>3. Is([m \in S |-> m \in B])
  <2> DEFINE G == [m \in S |-> m \in B]
             H == [m \in S |-> m = n \/ (m \in Node /\ G[pParent[m]])]
  <2>1. \A m \in S : G[m] = (m \in B)
    OBVIOUS
  <2> HIDE DEF B, S, G
  <2>2. \A m \in S : (m \in B) = (m = n \/ (m \in Node /\ G[pParent[m]]))
    <3> SUFFICES ASSUME NEW m \in S
                 PROVE  (m \in B) = (m = n \/ (m \in Node /\ G[pParent[m]]))
      OBVIOUS
    <3>1. m \in Node => (G[pParent[m]] <=> pParent[m] \in B)
      BY <1>1, <2>1
    <3>2. m \in B <=> m = n \/ (m \in Node /\ pParent[m] \in B)
      BY <1>2
    <3> QED BY <3>1, <3>2
  <2>3. G = H
    BY <2>2 DEF G
  <2> QED BY <2>3 DEF G
<1>4. Is(under)
  BY <1>3
<1>5. Below(n) = {m \in alive : under[m]}
  BY DEF Below
<1> HIDE DEF under, B, S
<1>6. \A m \in S : under[m] <=> m = n \/ (m \in Node /\ under[pParent[m]])
  BY <1>4
<1>7. ~ under[Root] /\ ~ under[NULL]
  BY <1>1, <1>6 DEF S
<1>8. \A m \in alive : pParent[m] \in alive \cup {Root} /\ m \in S
  BY <1>1 DEF TreeTypeOK, NodesOK, Live
<1> QED BY <1>1, <1>5, <1>6, <1>7, <1>8 DEF TreeTypeOK

\* Where the parents are.
LEMMA Parents ==
  TreeTypeOK /\ NodesOK =>
    \A n \in alive :
      /\ n \in Node /\ n # Root
      /\ pParent[n] \in alive \cup {Root} /\ pParent[n] # n
      /\ n \in Children(pParent[n])
      /\ iNodeType[n] = URL <=> pParent[n] = Root
      /\ iNodeType[n] = URL <=> pNodeOwnerPluginInstance[n] = NULL
      /\ iNodeType[n] = URL => bUnlinkPoint[n]
<1> SUFFICES ASSUME TreeTypeOK, NodesOK, NEW n \in alive
             PROVE  /\ n \in Node /\ n # Root
                    /\ pParent[n] \in alive \cup {Root} /\ pParent[n] # n
                    /\ n \in Children(pParent[n])
                    /\ iNodeType[n] = URL <=> pParent[n] = Root
                    /\ iNodeType[n] = URL <=> pNodeOwnerPluginInstance[n] = NULL
                    /\ iNodeType[n] = URL => bUnlinkPoint[n]
  OBVIOUS
<1>1. n \in Node /\ n # Root /\ \A m \in alive : m \in Node /\ m # Root
  BY AddressAssumption DEF TreeTypeOK
<1>2. /\ iNodeType[n] \in Nat
      /\ \A m \in alive : iNodeType[m] \in Nat /\ iNodeType[m] >= URL
      /\ \A i \in Instance : i # NULL
  BY <1>1, NodeTypes, AddressAssumption DEF TreeTypeOK
<1>3. Live(n)
  BY DEF NodesOK
<1>4. n \in Children(pParent[n])
  BY DEF Children
<1>5. CASE pParent[n] = Root
  BY <1>1, <1>2, <1>3, <1>4, <1>5 DEF Live
<1>6. CASE pParent[n] # Root
  <2>1. /\ pParent[n] \in alive /\ iNodeType[pParent[n]] < iNodeType[n]
        /\ pNodeOwnerPluginInstance[n] \in Instance
    BY <1>3, <1>6 DEF Live
  <2>2. iNodeType[n] # URL /\ pParent[n] # n
    BY <2>1, <1>2 DEF URL
  <2> QED BY <2>1, <2>2, <1>1, <1>2, <1>4, <1>6
<1> QED BY <1>5, <1>6

\* What Live says of a node below p.
LiveUnder(n, p) ==
  /\ iNodeType[p] < iNodeType[n]
  /\ pNodeOwnerPluginInstance[n] \in Instance
  /\ IF bUnlinkPoint[n] THEN Children(p) = {n}
     ELSE /\ bUnlinkPoint[p]
          /\ pNodeOwnerPluginInstance[p] = pNodeOwnerPluginInstance[n]

LEMMA LiveBelow ==
  TreeTypeOK =>
    \A p \in alive : \A n \in Node :
      pParent[n] = p => (Live(n) <=> LiveUnder(n, p))
<1> SUFFICES ASSUME TreeTypeOK, NEW p \in alive, NEW n \in Node, pParent[n] = p
             PROVE  Live(n) <=> LiveUnder(n, p)
  OBVIOUS
<1>1. p # Root
  BY AddressAssumption DEF TreeTypeOK
<1> QED BY <1>1 DEF Live, LiveUnder

LEMMA PrimedLiveBelow ==
  TreeTypeOK' =>
    \A p \in alive' : \A n \in Node :
      pParent'[n] = p => (Live(n)' <=> LiveUnder(n, p)')
<1>1. TreeTypeOK' =>
        (\A p \in alive : \A n \in Node :
           pParent[n] = p => (Live(n) <=> LiveUnder(n, p)))'
  BY LiveBelow, PTL
<1> QED BY <1>1

\* How the children of a node are linked.
LEMMA Linked ==
  TreeTypeOK /\ ChainsOK =>
    \A q \in alive \cup {Root} :
      /\ IsFiniteSet(Children(q)) /\ NULL \notin Children(q)
      /\ IsChain(Children(q), pFirstChild[q], pNextBrother)
      /\ pFirstChild[q] = NULL <=> Children(q) = {}
      /\ pFirstChild[q] # NULL => pFirstChild[q] \in Children(q)
      /\ Children(q) # {} => \E x \in Children(q) : pNextBrother[x] = NULL
      /\ \A x \in Children(q) : /\ pNextBrother[x] \in Children(q) \cup {NULL}
                                /\ pNextBrother[x] # pFirstChild[q]
      /\ \A x, y \in Children(q) : pNextBrother[x] = pNextBrother[y] => x = y
<1> SUFFICES ASSUME TreeTypeOK, ChainsOK, NEW q \in alive \cup {Root}
             PROVE
      /\ IsFiniteSet(Children(q)) /\ NULL \notin Children(q)
      /\ IsChain(Children(q), pFirstChild[q], pNextBrother)
      /\ pFirstChild[q] = NULL <=> Children(q) = {}
      /\ pFirstChild[q] # NULL => pFirstChild[q] \in Children(q)
      /\ Children(q) # {} => \E x \in Children(q) : pNextBrother[x] = NULL
      /\ \A x \in Children(q) : /\ pNextBrother[x] \in Children(q) \cup {NULL}
                                /\ pNextBrother[x] # pFirstChild[q]
      /\ \A x, y \in Children(q) : pNextBrother[x] = pNextBrother[y] => x = y
  OBVIOUS
<1>1. Children(q) \in SUBSET Node
  BY DEF Children, TreeTypeOK
<1>2. IsFiniteSet(Children(q)) /\ NULL \notin Children(q)
  BY <1>1, NodeSets
<1>3. IsChain(Children(q), pFirstChild[q], pNextBrother)
  BY DEF ChainsOK
<1> HIDE DEF Children
<1> QED BY <1>2, <1>3, ChainEnds

-----------------------------------------------------------------------------
(* A URL node is made.                                                     *)

LEMMA CreateURLChildren ==
  ASSUME TreeTypeOK, NodesOK, NEW n \in Free, CreateURL(n)
  PROVE  \A q : Children(q)' = IF q = Root THEN Children(Root) \cup {n}
                               ELSE Children(q)
<1>1. /\ alive' = alive \cup {n} /\ n \in Node /\ n \notin alive
      /\ \A m \in alive : m \in Node /\ m # n
      /\ \A m \in Node : pParent'[m] = IF m = n THEN Root ELSE pParent[m]
  BY DEF CreateURL, Free, TreeTypeOK
<1> SUFFICES ASSUME NEW q
             PROVE  {m \in alive' : pParent'[m] = q}
                      = IF q = Root THEN {m \in alive : pParent[m] = Root}
                                           \cup {n}
                        ELSE {m \in alive : pParent[m] = q}
  BY DEF Children
<1> QED BY <1>1

LEMMA CreateURLKeeps ==
  ASSUME TreeTypeOK, NodesOK, ChainsOK, NEW n \in Free, CreateURL(n)
  PROVE  /\ TreeTypeOK' /\ NodesOK' /\ ChainsOK'
         /\ pNextBrother'[n] = NULL
         /\ IF pFirstChild[Root] = NULL
            THEN pFirstChild'[Root] = n /\ pNextBrother' = pNextBrother
            ELSE /\ pFirstChild'[Root] = pFirstChild[Root]
                 /\ \A m \in Node :
                      pNextBrother'[m] =
                        IF m \in Children(Root) /\ pNextBrother[m] = NULL
                        THEN n ELSE pNextBrother[m]
<1>1. /\ n \in Node /\ n \notin alive /\ n # NULL /\ n # Root /\ Root # NULL
      /\ Root \in Tree /\ Root \notin Node /\ alive \subseteq Node
      /\ Node \subseteq Tree
  BY AddressAssumption DEF Free, Tree, TreeTypeOK
<1> DEFINE last == LastChild(Root)
<1>2. pFirstChild[Root] # NULL =>
        /\ last \in Children(Root) /\ last \in alive /\ pNextBrother[last] = NULL
        /\ \A x \in Children(Root) : pNextBrother[x] = NULL => x = last
  <2>1. pFirstChild[Root] # NULL =>
          \E x \in Children(Root) : pNextBrother[x] = NULL
    BY Linked
  <2>2. pFirstChild[Root] # NULL =>
          last \in Children(Root) /\ pNextBrother[last] = NULL
    BY <2>1 DEF LastChild
  <2>3. last \in Children(Root) => last \in alive
    BY DEF Children
  <2> HIDE DEF Children, last
  <2> QED BY <2>2, <2>3, Linked
<1> HIDE DEF last
<1>3. /\ alive' = alive \cup {n}
      /\ \A m \in Node :
           /\ iNodeType'[m] = IF m = n THEN URL ELSE iNodeType[m]
           /\ pParent'[m] = IF m = n THEN Root ELSE pParent[m]
           /\ bUnlinkPoint'[m] = IF m = n THEN TRUE ELSE bUnlinkPoint[m]
           /\ pNodeOwnerPluginInstance'[m] =
                IF m = n THEN NULL ELSE pNodeOwnerPluginInstance[m]
           /\ pNextBrother'[m] =
                IF pFirstChild[Root] # NULL /\ m = last THEN n
                ELSE pNextBrother[m]
      /\ \A m \in Tree :
           pFirstChild'[m] = IF pFirstChild[Root] = NULL /\ m = Root THEN n
                             ELSE pFirstChild[m]
      /\ pFirstChild[Root] = NULL => pNextBrother' = pNextBrother
  BY <1>1 DEF CreateURL, TreeTypeOK, last
<1>4. TreeTypeOK'
  BY <1>1 DEF CreateURL, TreeTypeOK, NodeType, URL, TERMINATOR, Tree
<1>5. Dead(n) /\ pNextBrother[n] = NULL /\ pFirstChild[n] = NULL
  BY <1>1 DEF NodesOK, Dead
<1>6. pNextBrother'[n] = NULL
  BY <1>1, <1>2, <1>3, <1>5
<1>7. NodesOK'
  <2>1. ASSUME NEW m \in Node, m \notin alive' PROVE Dead(m)'
    <3>1. m # n /\ m \notin alive /\ Dead(m) /\ m # Root /\ m \in Tree
      BY <2>1, <1>1, <1>3 DEF NodesOK
    <3>2. pFirstChild[Root] # NULL => m # last
      BY <3>1, <1>2
    <3> QED BY <3>1, <3>2, <1>3 DEF Dead
  <2>2. ASSUME NEW m \in alive' PROVE Live(m)'
    <3>1. CASE m = n
      BY <3>1, <1>1, <1>3 DEF Live
    <3>2. CASE m # n
      <4>1. m \in alive /\ m \in Node /\ Live(m)
        BY <2>2, <3>2, <1>1, <1>3 DEF NodesOK
      <4>2. CASE pParent[m] = Root
        BY <4>1, <4>2, <3>2, <1>1, <1>3 DEF Live
      <4>3. CASE pParent[m] # Root
        <5>1. PICK p \in alive : pParent[m] = p
          BY <4>1, <4>3 DEF Live
        <5>2. p \in Node /\ p # n /\ p # Root /\ pParent'[m] = p
          BY <5>1, <4>1, <3>2, <1>1, <1>3
        <5>3. Children(p)' = Children(p)
          BY <5>2, CreateURLChildren
        <5> HIDE DEF Children
        <5>4. LiveUnder(m, p)
          BY <5>1, <4>1, LiveBelow
        <5>5. LiveUnder(m, p)'
          BY <5>2, <5>3, <5>4, <4>1, <3>2, <1>3 DEF LiveUnder
        <5> QED BY <5>1, <5>2, <5>5, <4>1, <1>3, <1>4, PrimedLiveBelow
      <4> QED BY <4>2, <4>3
    <3> QED BY <3>1, <3>2
  <2> QED BY <2>1, <2>2 DEF NodesOK
<1>8. ChainsOK'
  <2> SUFFICES ASSUME NEW q \in alive' \cup {Root}
               PROVE  IsChain(Children(q)', pFirstChild'[q], pNextBrother')
    BY DEF ChainsOK
  <2>1. CASE q = n
    <3>1. Children(n)' = Children(n) /\ Children(n) = {}
      BY <1>1, CreateURLChildren, Parents DEF Children
    <3>2. pFirstChild'[n] = NULL
      BY <1>1, <1>3, <1>5
    <3> QED BY <2>1, <3>1, <3>2, ChainEmpty
  <2>2. CASE q # n /\ q # Root
    <3>1. q \in alive /\ Children(q)' = Children(q)
      BY <2>2, <1>3, CreateURLChildren
    <3>2. pFirstChild'[q] = pFirstChild[q]
      BY <3>1, <2>2, <1>1, <1>3
    <3>3. \A x \in Children(q) : pNextBrother'[x] = pNextBrother[x]
      <4>1. \A x \in Children(q) : x \in Node /\ x \notin Children(Root)
        BY <2>2, <1>1 DEF Children
      <4> QED BY <4>1, <1>2, <1>3
    <3> HIDE DEF Children
    <3>4. /\ IsFiniteSet(Children(q))
          /\ IsChain(Children(q), pFirstChild[q], pNextBrother)
      BY <3>1, Linked
    <3> QED BY <3>1, <3>2, <3>3, <3>4, ChainSame
  <2>3. CASE q = Root
    <3>1. /\ Children(Root)' = Children(Root) \cup {n}
          /\ n \notin Children(Root)
          /\ \A x \in Children(Root) : x \in Node /\ x # n
      BY <1>1, CreateURLChildren DEF Children
    <3>2. CASE pFirstChild[Root] = NULL
      <4>1. Children(Root)' = {n} /\ pFirstChild'[Root] = n
        BY <3>1, <3>2, <1>1, <1>3, Linked
      <4> QED BY <4>1, <2>3, <1>6, ChainSingle
    <3>3. CASE pFirstChild[Root] # NULL
      <4>1. /\ pFirstChild'[Root] = pFirstChild[Root]
            /\ \A x \in Children(Root) :
                 pNextBrother'[x] = IF x = last THEN n ELSE pNextBrother[x]
        BY <3>1, <3>3, <1>1, <1>3
      <4> HIDE DEF Children
      <4>2. /\ IsFiniteSet(Children(Root)) /\ NULL \notin Children(Root)
            /\ IsChain(Children(Root), pFirstChild[Root], pNextBrother)
        BY Linked
      <4>3. IsChain(Children(Root) \cup {n}, pFirstChild[Root], pNextBrother')
        BY <4>1, <4>2, <3>1, <3>3, <1>2, <1>6, ChainAppend
      <4> QED BY <4>1, <4>3, <3>1, <2>3
    <3> QED BY <3>2, <3>3
  <2> QED BY <2>1, <2>2, <2>3
<1>9. IF pFirstChild[Root] = NULL
      THEN pFirstChild'[Root] = n /\ pNextBrother' = pNextBrother
      ELSE /\ pFirstChild'[Root] = pFirstChild[Root]
           /\ \A m \in Node :
                pNextBrother'[m] =
                  IF m \in Children(Root) /\ pNextBrother[m] = NULL
                  THEN n ELSE pNextBrother[m]
  BY <1>1, <1>2, <1>3
<1> QED BY <1>4, <1>6, <1>7, <1>8, <1>9

-----------------------------------------------------------------------------
(* A node is destroyed, with all nodes below.                              *)

\* S is n with all that is below.
IsBranch(n, S) ==
  /\ S \subseteq alive /\ n \in S /\ pParent[n] \notin S
  /\ \A m \in alive : m \in S <=> m = n \/ pParent[m] \in S

LEMMA DestroyEffect ==
  ASSUME TreeTypeOK, NodesOK, NEW n, NEW S, IsBranch(n, S), DestroyNodes(n, S)
  PROVE  /\ alive' = alive \ S
         /\ \A m \in Node \ S :
              /\ iNodeType'[m] = iNodeType[m]
              /\ pParent'[m] = pParent[m]
              /\ bUnlinkPoint'[m] = bUnlinkPoint[m]
              /\ pNodeOwnerPluginInstance'[m] = pNodeOwnerPluginInstance[m]
              /\ pNextBrother'[m] = IF pNextBrother[m] = n THEN pNextBrother[n]
                                    ELSE pNextBrother[m]
         /\ \A m \in S :
              /\ pParent'[m] = NULL /\ pFirstChild'[m] = NULL
              /\ pNextBrother'[m] = NULL
              /\ ~ bUnlinkPoint'[m] /\ pNodeOwnerPluginInstance'[m] = NULL
         /\ \A m \in Tree \ S :
              pFirstChild'[m] = IF m = pParent[n] /\ pFirstChild[m] = n
                                THEN pNextBrother[n] ELSE pFirstChild[m]
         /\ TreeTypeOK'
<1>1. /\ n \in Node /\ S \subseteq Node /\ S \subseteq Tree
      /\ pNextBrother[n] \in Node \cup {NULL}
      /\ URL \in NodeType
  BY DEF IsBranch, TreeTypeOK, Tree, NodeType, URL, TERMINATOR
<1>2. TreeTypeOK'
  <2>1. alive' \subseteq Node
    BY DEF DestroyNodes, TreeTypeOK
  <2>2. iNodeType' \in [Node -> NodeType]
    BY <1>1 DEF DestroyNodes, TreeTypeOK
  <2>3. pParent' \in [Node -> Tree \cup {NULL}]
    BY <1>1 DEF DestroyNodes, TreeTypeOK
  <2>4. pFirstChild' \in [Tree -> Node \cup {NULL}]
    BY <1>1 DEF DestroyNodes, Detach, TreeTypeOK
  <2>5. pNextBrother' \in [Node -> Node \cup {NULL}]
    BY <1>1 DEF DestroyNodes, Detach, TreeTypeOK
  <2>6. bUnlinkPoint' \in [Node -> BOOLEAN]
    BY <1>1 DEF DestroyNodes, TreeTypeOK
  <2>7. pNodeOwnerPluginInstance' \in [Node -> Instance \cup {NULL}]
    BY <1>1 DEF DestroyNodes, TreeTypeOK
  <2> QED BY <2>1, <2>2, <2>3, <2>4, <2>5, <2>6, <2>7 DEF TreeTypeOK
<1>3. alive' = alive \ S
  BY DEF DestroyNodes
<1>4. /\ \A m \in Node \ S :
           /\ iNodeType'[m] = iNodeType[m]
           /\ pParent'[m] = pParent[m]
           /\ pNodeOwnerPluginInstance'[m] = pNodeOwnerPluginInstance[m]
           /\ pNextBrother'[m] = IF pNextBrother[m] = n THEN pNextBrother[n]
                                 ELSE pNextBrother[m]
      /\ \A m \in S :
           /\ pParent'[m] = NULL /\ pFirstChild'[m] = NULL
           /\ pNextBrother'[m] = NULL
           /\ pNodeOwnerPluginInstance'[m] = NULL
      /\ \A m \in Tree \ S :
           pFirstChild'[m] = IF m = pParent[n] /\ pFirstChild[m] = n
                             THEN pNextBrother[n] ELSE pFirstChild[m]
  BY <1>1 DEF DestroyNodes, Detach
<1>5. \A m \in Node : bUnlinkPoint'[m] <=> m \notin S /\ bUnlinkPoint[m]
  BY DEF DestroyNodes
<1>6. \A m \in Node : bUnlinkPoint[m] \in BOOLEAN /\ bUnlinkPoint'[m] \in BOOLEAN
  BY <1>2 DEF TreeTypeOK
<1>7. \A m \in Node \ S : bUnlinkPoint'[m] = bUnlinkPoint[m]
  BY <1>5, <1>6
<1>8. \A m \in S : ~ bUnlinkPoint'[m]
  BY <1>5, <1>1
<1> QED BY <1>2, <1>3, <1>4, <1>7, <1>8

LEMMA DestroyChildren ==
  ASSUME TreeTypeOK, NodesOK, NEW n, NEW S, IsBranch(n, S), DestroyNodes(n, S)
  PROVE  \A q : q \notin S => Children(q)' = Children(q) \ {n}
<1>1. /\ alive' = alive \ S /\ alive \subseteq Node
      /\ \A m \in Node \ S : pParent'[m] = pParent[m]
      /\ \A m \in alive : m \in S <=> m = n \/ pParent[m] \in S
  BY DestroyEffect DEF TreeTypeOK, IsBranch
<1> SUFFICES ASSUME NEW q, q \notin S
             PROVE  {m \in alive' : pParent'[m] = q}
                      = {m \in alive : pParent[m] = q} \ {n}
  BY DEF Children
<1> QED BY <1>1

LEMMA DestroyKeeps ==
  ASSUME TreeTypeOK, NodesOK, ChainsOK, NEW n, NEW S, IsBranch(n, S),
         DestroyNodes(n, S)
  PROVE  NodesOK' /\ ChainsOK'
<1>1. /\ n \in alive /\ n \in Node /\ n \in S /\ S \subseteq alive
      /\ alive \subseteq Node /\ Node \subseteq Tree /\ Root \in Tree
      /\ Root \notin Node /\ pParent[n] \notin S
      /\ n # NULL
  BY AddressAssumption DEF IsBranch, TreeTypeOK, Tree
<1>2. \A m \in alive : m \in S <=> m = n \/ pParent[m] \in S
  BY DEF IsBranch
<1>3. /\ alive' = alive \ S
      /\ \A m \in Node \ S :
           /\ iNodeType'[m] = iNodeType[m]
           /\ pParent'[m] = pParent[m]
           /\ bUnlinkPoint'[m] = bUnlinkPoint[m]
           /\ pNodeOwnerPluginInstance'[m] = pNodeOwnerPluginInstance[m]
           /\ pNextBrother'[m] = IF pNextBrother[m] = n THEN pNextBrother[n]
                                 ELSE pNextBrother[m]
      /\ \A m \in S :
           /\ pParent'[m] = NULL /\ pFirstChild'[m] = NULL
           /\ pNextBrother'[m] = NULL
           /\ ~ bUnlinkPoint'[m] /\ pNodeOwnerPluginInstance'[m] = NULL
      /\ \A m \in Tree \ S :
           pFirstChild'[m] = IF m = pParent[n] /\ pFirstChild[m] = n
                             THEN pNextBrother[n] ELSE pFirstChild[m]
      /\ TreeTypeOK'
  BY DestroyEffect
<1>4. \A q : q \notin S => Children(q)' = Children(q) \ {n}
  BY DestroyChildren
<1>5. NodesOK'
  <2>1. ASSUME NEW m \in Node, m \notin alive' PROVE Dead(m)'
    <3>1. CASE m \in S
      BY <3>1, <1>3 DEF Dead
    <3>2. CASE m \notin S
      <4>1. Dead(m) /\ m \in Tree
        BY <2>1, <3>2, <1>1, <1>3 DEF NodesOK
      <4> QED BY <4>1, <3>2, <1>1, <1>3 DEF Dead
    <3> QED BY <3>1, <3>2
  <2>2. ASSUME NEW m \in alive' PROVE Live(m)'
    <3>1. m \in alive /\ m \in Node /\ m \notin S /\ Live(m) /\ m # n
      BY <1>1, <1>3 DEF NodesOK
    <3>2. CASE pParent[m] = Root
      <4>1. m \in Node \ S
        BY <3>1
      <4>2. /\ iNodeType[m] = URL /\ bUnlinkPoint[m]
            /\ pNodeOwnerPluginInstance[m] = NULL
        BY <3>1, <3>2, <1>1 DEF Live
      <4> QED BY <4>1, <4>2, <3>2, <1>3 DEF Live
    <3>3. CASE pParent[m] # Root
      <4>1. PICK p \in alive : pParent[m] = p
        BY <3>1, <3>3 DEF Live
      <4>2. p \notin S /\ p \in Node /\ p \in alive'
        BY <4>1, <3>1, <1>1, <1>2, <1>3
      <4> HIDE DEF Children
      <4>3. LiveUnder(m, p)
        BY <4>1, <3>1, LiveBelow
      <4>4. Children(p)' = Children(p) \ {n}
        BY <4>2, <1>4
      <4>5. LiveUnder(m, p)'
        BY <4>2, <4>3, <4>4, <3>1, <1>3 DEF LiveUnder
      <4> QED BY <4>1, <4>2, <4>5, <3>1, <1>3, PrimedLiveBelow
    <3> QED BY <3>2, <3>3
  <2> QED BY <2>1, <2>2 DEF NodesOK
<1>6. ChainsOK'
  <2> SUFFICES ASSUME NEW q \in alive' \cup {Root}
               PROVE  IsChain(Children(q)', pFirstChild'[q], pNextBrother')
    BY DEF ChainsOK
  <2>1. q \notin S /\ q \in Tree /\ q \in alive \cup {Root}
    BY <1>1, <1>3
  <2>2. /\ Children(q)' = Children(q) \ {n}
        /\ \A x \in Children(q) : x \in alive /\ pParent[x] = q
        /\ \A x \in Children(q) \ {n} : x \in Node /\ x \notin S
    BY <2>1, <1>1, <1>2, <1>4 DEF Children
  <2>3. pParent[n] = q => n \in Children(q)
    BY <1>1 DEF Children
  <2> HIDE DEF Children
  <2>4. /\ IsFiniteSet(Children(q)) /\ NULL \notin Children(q)
        /\ IsChain(Children(q), pFirstChild[q], pNextBrother)
        /\ \A x \in Children(q) : pNextBrother[x] \in Children(q) \cup {NULL}
    BY <2>1, Linked
  <2>5. \A x \in Children(q) \ {n} :
          pNextBrother'[x] = IF pNextBrother[x] = n THEN pNextBrother[n]
                             ELSE pNextBrother[x]
    BY <2>2, <1>3
  <2>6. CASE pParent[n] = q
    <3>1. n \in Children(q)
      BY <2>6, <2>3
    <3>2. pFirstChild'[q] = IF pFirstChild[q] = n THEN pNextBrother[n]
                            ELSE pFirstChild[q]
      BY <2>1, <2>6, <1>3
    <3>3. IsChain(Children(q) \ {n},
                  IF pFirstChild[q] = n THEN pNextBrother[n]
                  ELSE pFirstChild[q], pNextBrother')
      BY <3>1, <2>4, <2>5, ChainRemove
    <3> QED BY <3>2, <3>3, <2>2
  <2>7. CASE pParent[n] # q
    <3>1. n \notin Children(q) /\ Children(q)' = Children(q)
      BY <2>2, <2>7
    <3>2. pFirstChild'[q] = pFirstChild[q]
      BY <2>1, <2>7, <1>3
    <3>3. \A x \in Children(q) : pNextBrother'[x] = pNextBrother[x]
      BY <3>1, <2>4, <2>5, <1>1
    <3> QED BY <3>1, <3>2, <3>3, <2>4, ChainSame
  <2> QED BY <2>6, <2>7
<1> QED BY <1>5, <1>6

-----------------------------------------------------------------------------
(* A plugin makes nodes below a leaf.                                      *)

\* Distinct free nodes, for a plugin of a shape.
FreshFor(f, shape) ==
  /\ shape.leaves \in Nat
  /\ shape.top \in NodeType /\ shape.leaf \in NodeType
  /\ f \in [1..(1 + shape.leaves) -> Free]
  /\ \A a, b \in 1..(1 + shape.leaves) : f[a] = f[b] => a = b

New(f) == {f[j] : j \in DOMAIN f}
Leaves(f, k) == {f[j] : j \in 2..k}

LEMMA CreateNodesEffect ==
  ASSUME TreeTypeOK, NodesOK, NEW n \in alive, NEW i \in Instance, NEW shape,
         NEW f, FreshFor(f, shape), CreateNodes(n, f, shape, i)
  PROVE  LET k == 1 + shape.leaves IN
         /\ k \in Nat /\ k >= 1 /\ DOMAIN f = 1..k
         /\ \A j \in 1..k : f[j] \in Node /\ f[j] \notin alive /\ f[j] # n
         /\ \A a, b \in 1..k : f[a] = f[b] => a = b
         /\ alive' = alive \cup New(f)
         /\ \A m \in Node \ New(f) :
              /\ iNodeType'[m] = iNodeType[m]
              /\ pParent'[m] = pParent[m]
              /\ bUnlinkPoint'[m] = bUnlinkPoint[m]
              /\ pNodeOwnerPluginInstance'[m] = pNodeOwnerPluginInstance[m]
              /\ pNextBrother'[m] = pNextBrother[m]
         /\ \A j \in 1..k :
              /\ iNodeType'[f[j]] = IF j = 1 THEN shape.top ELSE shape.leaf
              /\ pParent'[f[j]] = IF j = 1 THEN n ELSE f[1]
              /\ bUnlinkPoint'[f[j]] = (j = 1)
              /\ pNodeOwnerPluginInstance'[f[j]] = i
              /\ pNextBrother'[f[j]] = IF j \in 2..(k - 1) THEN f[j + 1]
                                       ELSE NULL
              /\ pFirstChild'[f[j]] = IF j = 1 /\ k > 1 THEN f[2] ELSE NULL
         /\ pFirstChild'[n] = f[1]
         /\ \A m \in Tree : m # n /\ m \notin New(f) =>
              pFirstChild'[m] = pFirstChild[m]
         /\ TreeTypeOK'
<1> DEFINE k == 1 + shape.leaves
<1>1. k \in Nat /\ k >= 1 /\ DOMAIN f = 1..k /\ 1 \in 1..k
  BY DEF FreshFor
<1>2. f \in Seq(Node) /\ Len(f) = k
  <2>1. f \in [1..k -> Node]
    BY DEF FreshFor, Free
  <2>2. f \in Seq(Node)
    BY <1>1, <2>1, IsASeq
  <2> QED BY <1>1, <2>2, LenProperties
<1>3. \A j \in 1..k : f[j] \in Node /\ f[j] \notin alive /\ f[j] # n
  BY <1>1 DEF FreshFor, Free
<1>4. \A a, b \in 1..k : f[a] = f[b] => a = b
  BY DEF FreshFor
<1>5. New(f) = {f[j] : j \in 1..k} /\ New(f) \subseteq Node
  BY <1>1, <1>3 DEF New
<1>6. /\ \A j \in 1..k : f[j] \in New(f) /\ (f[j] = f[1] <=> j = 1)
      /\ \A j \in 1..k : Dead(f[j])
      /\ n \notin New(f) /\ n \in Node /\ n \in Tree /\ Node \subseteq Tree
  BY <1>1, <1>3, <1>4, <1>5 DEF NodesOK, TreeTypeOK, Tree
<1> HIDE DEF k
<1>7. alive' = alive \cup New(f)
  BY DEF CreateNodes, New
<1>8. /\ \A m \in Node :
           /\ iNodeType'[m] = IF m = f[1] THEN shape.top
                              ELSE IF m \in New(f) THEN shape.leaf
                              ELSE iNodeType[m]
           /\ pParent'[m] = IF m = f[1] THEN n
                            ELSE IF m \in New(f) THEN f[1] ELSE pParent[m]
           /\ pNodeOwnerPluginInstance'[m] =
                IF m \in New(f) THEN i ELSE pNodeOwnerPluginInstance[m]
           /\ bUnlinkPoint'[m] = IF m \in New(f) THEN m = f[1]
                                 ELSE bUnlinkPoint[m]
      /\ \A m \in Tree :
           pFirstChild'[m] = IF m = n THEN f[1]
                             ELSE IF m = f[1] /\ k > 1 THEN f[2]
                             ELSE pFirstChild[m]
  BY <1>2 DEF CreateNodes, New
<1>9. \A m \in Node :
        pNextBrother'[m] = IF \E j \in 2..(k - 1) : m = f[j]
                           THEN f[1 + CHOOSE j \in 2..(k - 1) : m = f[j]]
                           ELSE pNextBrother[m]
  BY <1>2 DEF CreateNodes
<1>10. \A m \in Node \ New(f) : pNextBrother'[m] = pNextBrother[m]
  <2>1. \A m \in Node : m \notin New(f) => ~ \E j \in 2..(k - 1) : m = f[j]
    BY <1>1, <1>5
  <2> QED BY <1>9, <2>1
<1>11. ASSUME NEW j \in 1..k
       PROVE  pNextBrother'[f[j]] = IF j \in 2..(k - 1) THEN f[j + 1] ELSE NULL
  <2>1. CASE j \in 2..(k - 1)
    <3>1. \A a \in 2..(k - 1) : f[j] = f[a] => a = j
      BY <1>1, <1>4
    <3>2. (CHOOSE a \in 2..(k - 1) : f[j] = f[a]) = j
      BY <2>1, <3>1
    <3>3. 1 + j = j + 1
      BY <1>1
    <3>4. pNextBrother'[f[j]]
            = f[1 + CHOOSE a \in 2..(k - 1) : f[j] = f[a]]
      BY <2>1, <1>3, <1>9
    <3> QED BY <2>1, <3>2, <3>3, <3>4
  <2>2. CASE j \notin 2..(k - 1)
    <3>1. ~ \E a \in 2..(k - 1) : f[j] = f[a]
      BY <2>2, <1>1, <1>4
    <3> QED BY <2>2, <3>1, <1>3, <1>6, <1>9 DEF Dead
  <2> QED BY <2>1, <2>2
<1>12. TreeTypeOK'
  <2>1. alive' \subseteq Node
    BY <1>5, <1>7 DEF TreeTypeOK
  <2>2. iNodeType' \in [Node -> NodeType]
    BY <1>1 DEF CreateNodes, FreshFor, TreeTypeOK
  <2>3. pParent' \in [Node -> Tree \cup {NULL}]
    BY <1>1, <1>3, <1>6 DEF CreateNodes, TreeTypeOK
  <2>4. pFirstChild' \in [Tree -> Node \cup {NULL}]
    <3>1. k > 1 => f[2] \in Node
      BY <1>1, <1>3
    <3>2. \A m \in Tree : pFirstChild'[m] \in Node \cup {NULL}
      BY <1>1, <1>3, <1>8, <3>1 DEF TreeTypeOK
    <3> QED BY <3>2 DEF CreateNodes
  <2>5. pNextBrother' \in [Node -> Node \cup {NULL}]
    <3>1. \A j \in 1..k : j \in 2..(k - 1) => f[j + 1] \in Node
      BY <1>1, <1>3
    <3>2. \A m \in Node : pNextBrother'[m] \in Node \cup {NULL}
      BY <1>5, <1>10, <1>11, <3>1 DEF TreeTypeOK
    <3> QED BY <3>2 DEF CreateNodes
  <2>6. bUnlinkPoint' \in [Node -> BOOLEAN]
    BY DEF CreateNodes, TreeTypeOK
  <2>7. pNodeOwnerPluginInstance' \in [Node -> Instance \cup {NULL}]
    BY DEF CreateNodes, TreeTypeOK
  <2> QED BY <2>1, <2>2, <2>3, <2>4, <2>5, <2>6, <2>7 DEF TreeTypeOK
<1>13. \A j \in 1..k :
         /\ iNodeType'[f[j]] = IF j = 1 THEN shape.top ELSE shape.leaf
         /\ pParent'[f[j]] = IF j = 1 THEN n ELSE f[1]
         /\ pNodeOwnerPluginInstance'[f[j]] = i
         /\ pFirstChild'[f[j]] = IF j = 1 /\ k > 1 THEN f[2] ELSE NULL
  BY <1>3, <1>6, <1>8 DEF Dead
<1>14. \A j \in 1..k : bUnlinkPoint'[f[j]] = (j = 1)
  <2> SUFFICES ASSUME NEW j \in 1..k PROVE bUnlinkPoint'[f[j]] = (j = 1)
    OBVIOUS
  <2>1. bUnlinkPoint'[f[j]] = (f[j] = f[1])
    BY <1>3, <1>6, <1>8
  <2>2. f[j] = f[1] <=> j = 1
    BY <1>6
  <2> QED BY <2>1, <2>2
<1>15. \A m \in Node \ New(f) :
         /\ iNodeType'[m] = iNodeType[m]
         /\ pParent'[m] = pParent[m]
         /\ bUnlinkPoint'[m] = bUnlinkPoint[m]
         /\ pNodeOwnerPluginInstance'[m] = pNodeOwnerPluginInstance[m]
  BY <1>1, <1>6, <1>8
<1>16. /\ pFirstChild'[n] = f[1]
       /\ \A m \in Tree : m # n /\ m \notin New(f) =>
            pFirstChild'[m] = pFirstChild[m]
  BY <1>1, <1>6, <1>8
<1> QED BY <1>1, <1>3, <1>4, <1>7, <1>10, <1>11, <1>12, <1>13, <1>14, <1>15,
           <1>16 DEF k

\* What CreateNodes(n, f, ...) does to the children.
ChildrenCreated(n, f, k) ==
  /\ Children(n) = {} /\ Children(n)' = {f[1]}
  /\ \A q : q = f[1] => Children(q)' = Leaves(f, k)
  /\ \A j \in 2..k : Children(f[j])' = {}
  /\ \A q : q # n /\ q \notin New(f) => Children(q)' = Children(q)

LEMMA CreateNodesChildren ==
  ASSUME TreeTypeOK, NodesOK, ChainsOK, NEW n \in alive, pFirstChild[n] = NULL,
         NEW i \in Instance, NEW shape, NEW f, FreshFor(f, shape),
         CreateNodes(n, f, shape, i)
  PROVE  ChildrenCreated(n, f, 1 + shape.leaves)
<1> DEFINE k == 1 + shape.leaves
<1>1. /\ k \in Nat /\ k >= 1 /\ DOMAIN f = 1..k /\ 1 \in 1..k
      /\ \A j \in 1..k : f[j] \in Node /\ f[j] \notin alive /\ f[j] # n
      /\ \A a, b \in 1..k : f[a] = f[b] => a = b
      /\ alive' = alive \cup New(f)
      /\ \A m \in Node \ New(f) : pParent'[m] = pParent[m]
      /\ \A j \in 1..k : pParent'[f[j]] = IF j = 1 THEN n ELSE f[1]
  BY CreateNodesEffect
<1>2. New(f) = {f[j] : j \in 1..k} /\ alive \subseteq Node
  BY <1>1 DEF New, TreeTypeOK
<1>3. /\ \A m \in alive : m \in Node \ New(f) /\ pParent'[m] = pParent[m]
      /\ \A m \in alive : pParent[m] \notin New(f)
  <2>1. \A m \in alive : m \in Node \ New(f)
    BY <1>1, <1>2
  <2>2. \A m \in alive : pParent[m] \in alive \cup {Root}
    BY Parents
  <2>3. Root \notin New(f)
    BY <1>1, <1>2, AddressAssumption
  <2>4. \A m \in alive : m \notin New(f)
    BY <2>1
  <2>5. \A m \in alive : pParent[m] \notin New(f)
    BY <2>2, <2>3, <2>4
  <2> QED BY <2>1, <2>5, <1>1
<1>4. Children(n) = {}
  <2> HIDE DEF Children
  <2> QED BY Linked
<1>5. \A m \in alive : pParent[m] # n
  BY <1>4 DEF Children
<1> HIDE DEF k
<1>6. {m \in alive' : pParent'[m] = n} = {f[1]}
  <2>1. \A j \in 1..k : pParent'[f[j]] = n <=> j = 1
    BY <1>1
  <2>2. \A m \in alive' : pParent'[m] = n <=> m = f[1]
    BY <2>1, <1>1, <1>2, <1>3, <1>5
  <2>3. f[1] \in alive'
    BY <1>1, <1>2
  <2> QED BY <2>2, <2>3
<1>7. {m \in alive' : pParent'[m] = f[1]} = {f[j] : j \in 2..k}
  <2>1. \A j \in 1..k : pParent'[f[j]] = f[1] <=> j # 1
    BY <1>1
  <2>2. \A j \in 1..k : j # 1 <=> j \in 2..k
    BY <1>1
  <2>3. \A m \in alive : pParent'[m] # f[1]
    BY <1>1, <1>2, <1>3
  <2>4. \A j \in 2..k : j \in 1..k /\ f[j] \in alive'
    BY <1>1, <1>2
  <2>5. \A m \in alive' : m \in alive \/ \E j \in 1..k : m = f[j]
    BY <1>1, <1>2
  <2>6. \A m \in alive' :
          pParent'[m] = f[1] <=> \E j \in 2..k : m = f[j]
    BY <2>1, <2>2, <2>3, <2>4, <2>5, <1>1
  <2> QED BY <2>4, <2>6
<1>8. ASSUME NEW j \in 2..k PROVE {m \in alive' : pParent'[m] = f[j]} = {}
  <2>1. j \in 1..k /\ j # 1 /\ f[j] # f[1] /\ f[j] # n /\ f[j] \in New(f)
    BY <1>1, <1>2
  <2>2. \A a \in 1..k : pParent'[f[a]] # f[j]
    BY <2>1, <1>1
  <2> QED BY <2>1, <2>2, <1>1, <1>2, <1>3
<1>9. ASSUME NEW q, q # n, q \notin New(f)
      PROVE  {m \in alive' : pParent'[m] = q} = {m \in alive : pParent[m] = q}
  <2>1. \A a \in 1..k : pParent'[f[a]] # q
    BY <1>1, <1>2, <1>9
  <2> QED BY <2>1, <1>1, <1>2, <1>3
<1> QED BY <1>4, <1>6, <1>7, <1>8, <1>9
        DEF ChildrenCreated, Children, Leaves, k

LEMMA CreateNodesKeeps ==
  ASSUME TreeTypeOK, NodesOK, ChainsOK, NEW n \in alive, pFirstChild[n] = NULL,
         NEW i \in Instance, NEW shape, NEW f, FreshFor(f, shape),
         shape.top > iNodeType[n], shape.leaves > 0 => shape.leaf > shape.top,
         CreateNodes(n, f, shape, i)
  PROVE  NodesOK' /\ ChainsOK'
<1> DEFINE k == 1 + shape.leaves
<1>1. /\ k \in Nat /\ k >= 1 /\ DOMAIN f = 1..k /\ 1 \in 1..k
      /\ \A j \in 1..k : f[j] \in Node /\ f[j] \notin alive /\ f[j] # n
      /\ \A a, b \in 1..k : f[a] = f[b] => a = b
      /\ alive' = alive \cup New(f)
      /\ \A m \in Node \ New(f) :
           /\ iNodeType'[m] = iNodeType[m]
           /\ pParent'[m] = pParent[m]
           /\ bUnlinkPoint'[m] = bUnlinkPoint[m]
           /\ pNodeOwnerPluginInstance'[m] = pNodeOwnerPluginInstance[m]
           /\ pNextBrother'[m] = pNextBrother[m]
      /\ \A j \in 1..k :
           /\ iNodeType'[f[j]] = IF j = 1 THEN shape.top ELSE shape.leaf
           /\ pParent'[f[j]] = IF j = 1 THEN n ELSE f[1]
           /\ bUnlinkPoint'[f[j]] = (j = 1)
           /\ pNodeOwnerPluginInstance'[f[j]] = i
           /\ pNextBrother'[f[j]] = IF j \in 2..(k - 1) THEN f[j + 1] ELSE NULL
           /\ pFirstChild'[f[j]] = IF j = 1 /\ k > 1 THEN f[2] ELSE NULL
      /\ pFirstChild'[n] = f[1]
      /\ \A m \in Tree : m # n /\ m \notin New(f) =>
           pFirstChild'[m] = pFirstChild[m]
      /\ TreeTypeOK'
  BY CreateNodesEffect
<1>2. /\ Children(n) = {} /\ Children(n)' = {f[1]}
      /\ \A q : q = f[1] => Children(q)' = Leaves(f, k)
      /\ \A j \in 2..k : Children(f[j])' = {}
      /\ \A q : q # n /\ q \notin New(f) => Children(q)' = Children(q)
  <2>1. ChildrenCreated(n, f, 1 + shape.leaves)
    BY CreateNodesChildren
  <2> QED BY <2>1 DEF ChildrenCreated
<1>3. /\ New(f) = {f[j] : j \in 1..k} /\ alive \subseteq Node
      /\ Node \subseteq Tree /\ Root \in Tree /\ Root \notin Node
      /\ n \notin New(f) /\ n \in Node
      /\ \A m \in alive : m \notin New(f)
  BY <1>1, AddressAssumption DEF New, TreeTypeOK, Tree
<1>4. shape.leaves > 0 <=> k > 1
  BY DEF FreshFor
<1> HIDE DEF k, Children
<1>5. NodesOK'
  <2>1. ASSUME NEW m \in Node, m \notin alive' PROVE Dead(m)'
    <3>1. Dead(m) /\ m \in Tree /\ m \in Node \ New(f) /\ m # n
      BY <2>1, <1>1, <1>3 DEF NodesOK
    <3> QED BY <3>1, <1>1 DEF Dead
  <2>2. ASSUME NEW m \in alive' PROVE Live(m)'
    <3>1. CASE m \notin New(f)
      <4>1. m \in alive /\ m \in Node \ New(f) /\ Live(m)
        BY <2>2, <3>1, <1>1, <1>3 DEF NodesOK
      <4>2. CASE pParent[m] = Root
        <5>1. /\ iNodeType[m] = URL /\ bUnlinkPoint[m]
              /\ pNodeOwnerPluginInstance[m] = NULL
          BY <4>1, <4>2, <1>3 DEF Live
        <5> QED BY <4>1, <4>2, <5>1, <1>1 DEF Live
      <4>3. CASE pParent[m] # Root
        <5>1. PICK p \in alive : pParent[m] = p
          BY <4>1, <4>3 DEF Live
        <5>2. p \in Node \ New(f) /\ p \in alive' /\ p # n
          <6>1. m \in Children(p)
            BY <4>1, <5>1 DEF Children
          <6> QED BY <5>1, <6>1, <1>1, <1>2, <1>3
        <5>3. Children(p)' = Children(p)
          BY <5>2, <1>2
        <5>4. LiveUnder(m, p)
          BY <5>1, <4>1, LiveBelow
        <5>5. LiveUnder(m, p)'
          BY <5>2, <5>3, <5>4, <4>1, <1>1 DEF LiveUnder
        <5> QED BY <5>1, <5>2, <5>5, <4>1, <1>1, PrimedLiveBelow
      <4> QED BY <4>2, <4>3
    <3>2. CASE m \in New(f)
      <4>1. PICK j \in 1..k : m = f[j]
        BY <3>2, <1>3
      <4>2. f[1] \in alive' /\ f[1] \in Node /\ n \in alive' /\ m \in Node
        BY <4>1, <1>1, <1>3
      <4>3. CASE j = 1
        <5>1. LiveUnder(m, n)'
          BY <4>1, <4>3, <1>1, <1>2, <1>3 DEF LiveUnder
        <5> QED BY <4>1, <4>2, <4>3, <5>1, <1>1, PrimedLiveBelow
      <4>4. CASE j # 1
        <5>1. k > 1 /\ shape.leaf > shape.top
          BY <4>4, <1>1, <1>4
        <5>2. /\ iNodeType'[f[1]] = shape.top /\ bUnlinkPoint'[f[1]]
              /\ pNodeOwnerPluginInstance'[f[1]] = i
          BY <1>1
        <5>3. /\ iNodeType'[m] = shape.leaf /\ ~ bUnlinkPoint'[m]
              /\ pNodeOwnerPluginInstance'[m] = i /\ pParent'[m] = f[1]
          BY <4>1, <4>4, <1>1
        <5>4. shape.top \in Nat /\ shape.leaf \in Nat
          BY NodeTypes DEF FreshFor
        <5>5. LiveUnder(m, f[1])'
          BY <5>1, <5>2, <5>3, <5>4 DEF LiveUnder
        <5> QED BY <4>2, <5>3, <5>5, <1>1, PrimedLiveBelow
      <4> QED BY <4>3, <4>4
    <3> QED BY <3>1, <3>2
  <2> QED BY <2>1, <2>2 DEF NodesOK
<1>6. ChainsOK'
  <2> SUFFICES ASSUME NEW q \in alive' \cup {Root}
               PROVE  IsChain(Children(q)', pFirstChild'[q], pNextBrother')
    BY DEF ChainsOK
  <2>1. CASE q = n
    <3>1. pNextBrother'[f[1]] = NULL
      BY <1>1
    <3>2. IsChain({f[1]}, f[1], pNextBrother')
      BY <3>1, ChainSingle
    <3> QED BY <2>1, <3>2, <1>1, <1>2
  <2>2. CASE q = f[1]
    <3> DEFINE T == Leaves(f, k)
               s == [a \in 1..(k - 1) |-> f[a + 1]]
    <3>1. /\ k - 1 \in Nat
          /\ \A a \in 1..(k - 1) : a + 1 \in 2..k /\ a + 1 \in 1..k
          /\ \A a \in 2..k : a - 1 \in 1..(k - 1) /\ (a - 1) + 1 = a
      BY <1>1
    <3>2. s \in Orders(T, k - 1)
      BY <3>1 DEF Orders, Leaves
    <3>3. Enumerates(s, k - 1, T)
      <4>1. \A a, b \in 1..(k - 1) : s[a] = s[b] => a = b
        <5> SUFFICES ASSUME NEW a \in 1..(k - 1), NEW b \in 1..(k - 1),
                            s[a] = s[b]
                     PROVE  a = b
          OBVIOUS
        <5>1. f[a + 1] = f[b + 1]
          OBVIOUS
        <5>2. a + 1 = b + 1
          BY <5>1, <3>1, <1>1
        <5> QED BY <5>2
      <4>2. T = {s[a] : a \in 1..(k - 1)}
        <5>1. \A x \in T : \E a \in 1..(k - 1) : x = s[a]
          <6> SUFFICES ASSUME NEW j \in 2..k
                       PROVE  \E a \in 1..(k - 1) : f[j] = s[a]
            BY DEF Leaves
          <6>1. j - 1 \in 1..(k - 1) /\ s[j - 1] = f[j]
            BY <3>1
          <6> QED BY <6>1
        <5>2. \A a \in 1..(k - 1) : s[a] \in T
          BY <3>1 DEF Leaves
        <5> HIDE DEF T, s
        <5> QED BY <5>1, <5>2
      <4> QED BY <4>1, <4>2 DEF Enumerates
    <3>4. Follows(s, k - 1, pFirstChild'[f[1]], pNextBrother')
      <4>1. pFirstChild'[f[1]] = IF k - 1 = 0 THEN NULL ELSE s[1]
        <5>1. pFirstChild'[f[1]] = IF k > 1 THEN f[2] ELSE NULL
          BY <1>1
        <5>2. CASE k > 1
          <6>1. 1 \in 1..(k - 1) /\ s[1] = f[1 + 1] /\ 1 + 1 = 2
            BY <5>2, <1>1
          <6> QED BY <5>1, <5>2, <6>1, <1>1
        <5>3. CASE ~ (k > 1)
          BY <5>1, <5>3, <1>1
        <5> QED BY <5>2, <5>3
      <4>2. ASSUME NEW a \in 1..(k - 1)
            PROVE  pNextBrother'[s[a]]
                     = IF a = k - 1 THEN NULL ELSE s[a + 1]
        <5>1. /\ s[a] = f[a + 1] /\ a + 1 \in 1..k
              /\ pNextBrother'[f[a + 1]] = IF a + 1 \in 2..(k - 1)
                                           THEN f[a + 1 + 1] ELSE NULL
          BY <3>1, <1>1
        <5>2. CASE a = k - 1
          BY <5>1, <5>2, <1>1
        <5>3. CASE a # k - 1
          <6>1. a + 1 \in 1..(k - 1) /\ a + 1 \in 2..(k - 1)
            BY <5>3, <1>1
          <6>2. s[a + 1] = f[a + 1 + 1]
            BY <6>1
          <6> QED BY <5>1, <5>3, <6>1, <6>2
        <5> QED BY <5>2, <5>3
      <4> HIDE DEF s
      <4> QED BY <4>1, <4>2 DEF Follows
    <3>5. IsChain(T, pFirstChild'[f[1]], pNextBrother')
      <4>1. Order(s, k - 1, T, pFirstChild'[f[1]], pNextBrother')
        BY <3>2, <3>3, <3>4 DEF Order
      <4> HIDE DEF s, T
      <4> QED BY <3>1, <4>1, ChainOfOrder
    <3> QED BY <2>2, <3>5, <1>2
  <2>3. CASE q \in New(f) /\ q # f[1]
    <3>1. PICK j \in 1..k : q = f[j]
      BY <2>3, <1>3
    <3>2. j # 1 /\ j \in 2..k
      BY <2>3, <3>1, <1>1
    <3>3. pFirstChild'[q] = NULL /\ Children(q)' = {}
      BY <3>1, <3>2, <1>1, <1>2
    <3> QED BY <3>3, ChainEmpty
  <2>4. CASE q # n /\ q \notin New(f)
    <3>1. /\ q \in alive \cup {Root} /\ q \in Tree
          /\ Children(q)' = Children(q) /\ pFirstChild'[q] = pFirstChild[q]
      BY <2>4, <1>1, <1>2, <1>3
    <3>2. \A x \in Children(q) : x \in Node \ New(f)
      BY <1>3 DEF Children
    <3>3. \A x \in Children(q) : pNextBrother'[x] = pNextBrother[x]
      BY <3>2, <1>1
    <3>4. /\ IsFiniteSet(Children(q))
          /\ IsChain(Children(q), pFirstChild[q], pNextBrother)
      BY <3>1, Linked
    <3> QED BY <3>1, <3>3, <3>4, ChainSame
  <2> QED BY <2>1, <2>2, <2>3, <2>4
<1> QED BY <1>5, <1>6

-----------------------------------------------------------------------------
(* The rest of the invariant: the calls of MMIOUnlinkNode(), and the URLs. *)

At(j) == unlink[j].at
Unlinked(j) == unlink[j].node
Calls == 1..Len(unlink)

\* No call is for a node above that of an earlier call.
CallsDescend ==
  \A i, j \in Calls : i < j =>
    /\ Depth(Unlinked(i)) <= Depth(Unlinked(j))
    /\ At(i) = "brother" => Depth(Unlinked(i)) < Depth(Unlinked(j))

\* A call is for the first child or for the next brother of the one before,
\* and that one waits for it; so it comes to nodes whose parents wait too.
CallsOK ==
  /\ unlink # <<>> =>
       /\ pc \in {"unlink", "uninitialize", "unload", "crashed"} /\ walk = <<>>
       /\ pParent[Unlinked(1)] = Root
  /\ \A j \in Calls : Unlinked(j) \in alive
  /\ \A j \in Calls : j # Len(unlink) =>
       /\ At(j) # "child"
       /\ Unlinked(j + 1) = IF At(j) = "brother" THEN pFirstChild[Unlinked(j)]
                            ELSE pNextBrother[Unlinked(j)]
  /\ \A j \in Calls : pParent[Unlinked(j)] # Root =>
       \E i \in Calls : /\ i < j /\ At(i) = "brother"
                        /\ Unlinked(i) = pParent[Unlinked(j)]
  /\ CallsDescend

\* What is below a node is unlinked before its next brother is, and the
\* brothers before the node itself.
DoneOK ==
  /\ \A j \in Calls :
       At(j) = "self" \/ (j = Len(unlink) /\ At(j) = "brother") =>
         \A c \in Children(Unlinked(j)) : Remains(c)
  /\ unlink # <<>> /\ Top.at = "self" =>
       IF iNodeType[Top.node] = URL THEN pNextBrother[Top.node] = NULL
       ELSE \A x \in Children(pParent[Top.node]) :
              Remains(x) \/ \E k \in Calls : x = Unlinked(k)

\* What MMIOOpen() and MMIOClose() work on comes behind the open URLs.
Work == IF walk # <<>> THEN walk[1]
        ELSE IF unlink # <<>> THEN Unlinked(1) ELSE NULL

UrlsOK ==
  /\ \A k \in 1..Len(urls) : urls[k] \in alive /\ pParent[urls[k]] = Root
  /\ \A j, k \in 1..Len(urls) : urls[j] = urls[k] => j = k
  /\ pFirstChild[Root] = IF urls = <<>> THEN Work ELSE urls[1]
  /\ \A k \in 1..Len(urls) :
       pNextBrother[urls[k]] = IF k = Len(urls) THEN Work ELSE urls[k + 1]
  /\ walk # <<>> => pNextBrother[walk[1]] = NULL

\* The nodes of the open URLs, which no call works on.
OpenURLs == {urls[k] : k \in 1..Len(urls)}
Old == UNION {Below(n) : n \in OpenURLs}

OldOK ==
  /\ \A k \in 1..Len(walk) : walk[k] \notin Old
  /\ \A j \in Calls : Unlinked(j) \notin Old

Inv ==
  /\ TypeOK /\ NodesOK /\ ChainsOK
  /\ InstancesOK /\ CountsOK /\ HandOK
  /\ WalkOK /\ CallsOK /\ DoneOK
  /\ UrlsOK /\ OldOK

-----------------------------------------------------------------------------
(* The steps that change the tree.                                         *)

LEMMA TreeSteps ==
  [Next]_vars =>
    \/ UNCHANGED treeVars
    \/ CreateURLNode \/ MMIOLinkPluginToNode \/ DestroyURLNode
    \/ UnlinkURLNode \/ UnlinkPlugin
<1> SUFFICES ASSUME Next, ~ UNCHANGED treeVars
             PROVE  \/ CreateURLNode \/ MMIOLinkPluginToNode \/ DestroyURLNode
                    \/ UnlinkURLNode \/ UnlinkPlugin
  BY DEF vars
<1>1. ASSUME NEW level \in OpenLevels, MMIOOpen(level) PROVE FALSE
  BY <1>1 DEF MMIOOpen
<1>2. ASSUME NEW k \in DOMAIN urls, MMIOClose(k) PROVE FALSE
  BY <1>2 DEF MMIOClose
<1>3. ~ MMIOInitialize /\ ~ MMIOUninitialize
  BY DEF MMIOInitialize, MMIOUninitialize
<1>4. ~ FailOpen /\ ~ MMIOLoadPlugin /\ ~ FailLoad /\ ~ MMIOInitializePlugin
  BY DEF FailOpen, MMIOLoadPlugin, FailLoad, MMIOInitializePlugin
<1>5. ~ FailInitialize /\ ~ Examine /\ ~ FailNode /\ ~ WalkDeeper /\ ~ Visit
  BY DEF FailInitialize, Examine, FailNode, WalkDeeper, Visit
<1>6. ~ NextBrother /\ ~ ReturnOpen /\ ~ MMIOUninitializePlugin
  BY DEF NextBrother, ReturnOpen, MMIOUninitializePlugin
<1>7. ~ MMIOUnloadPlugin /\ ~ UnlinkChild /\ ~ UnlinkBrother
  BY DEF MMIOUnloadPlugin, UnlinkChild, UnlinkBrother
<1>8. ~ UnlinkNothing /\ ~ ReturnClose /\ ~ CallNoPlugin
  BY DEF UnlinkNothing, ReturnClose, CallNoPlugin
<1> QED BY <1>1, <1>2, <1>3, <1>4, <1>5, <1>6, <1>7, <1>8 DEF Next, Step

LEMMA TypeFacts ==
  TypeOK => /\ TreeTypeOK
            /\ walk \in Seq(Node) /\ Len(walk) \in Nat /\ try \in Nat
            /\ unlink \in Seq(Frame) /\ Len(unlink) \in Nat
            /\ urls \in Seq(Node) /\ Len(urls) \in Nat
            /\ walk # <<>> <=> Len(walk) >= 1
            /\ unlink # <<>> <=> Len(unlink) >= 1
            /\ urls # <<>> <=> Len(urls) >= 1
            /\ \A k \in 1..Len(walk) : walk[k] \in Node
            /\ \A k \in 1..Len(urls) : urls[k] \in Node
            /\ \A j \in 1..Len(unlink) : /\ unlink[j] \in Frame
                                         /\ unlink[j].node \in Node
<1> SUFFICES ASSUME TypeOK
             PROVE  /\ walk # <<>> <=> Len(walk) >= 1
                    /\ unlink # <<>> <=> Len(unlink) >= 1
                    /\ urls # <<>> <=> Len(urls) >= 1
                    /\ walk \in Seq(Node) /\ Len(walk) \in Nat /\ try \in Nat
                    /\ unlink \in Seq(Frame) /\ Len(unlink) \in Nat
                    /\ urls \in Seq(Node) /\ Len(urls) \in Nat
                    /\ \A k \in 1..Len(walk) : walk[k] \in Node
                    /\ \A k \in 1..Len(urls) : urls[k] \in Node
                    /\ \A j \in 1..Len(unlink) : /\ unlink[j] \in Frame
                                                 /\ unlink[j].node \in Node
  BY TreeTypes
<1>1. /\ walk \in Seq(Node) /\ unlink \in Seq(Frame) /\ urls \in Seq(Node)
      /\ try \in Nat
  BY DEF TypeOK
<1>2. \A j \in 1..Len(unlink) : unlink[j] \in Frame
  BY <1>1
<1>3. \A x \in Frame : x.node \in Node
  BY DEF Frame
<1> QED BY <1>1, <1>2, <1>3

\* The node that MMIOOpen() has come to.
LEMMA LeafIs ==
  TypeOK /\ WalkOK /\ walk # <<>> =>
    /\ Leaf = walk[Len(walk)] /\ Len(walk) \in 1..Len(walk)
    /\ Leaf \in alive /\ Leaf \in Node /\ iNodeType[Leaf] >= Len(walk)
    /\ iNodeType[Leaf] \in NodeType
<1> SUFFICES ASSUME TypeOK, WalkOK, walk # <<>>
             PROVE  /\ Leaf = walk[Len(walk)] /\ Len(walk) \in 1..Len(walk)
                    /\ Leaf \in alive /\ Leaf \in Node
                    /\ iNodeType[Leaf] >= Len(walk)
                    /\ iNodeType[Leaf] \in NodeType
  OBVIOUS
<1>1. Len(walk) \in 1..Len(walk)
  BY TypeFacts
<1>2. Leaf = walk[Len(walk)]
  BY DEF Leaf, Last
<1>3. Leaf \in alive /\ iNodeType[Leaf] >= Len(walk)
  BY <1>1, <1>2 DEF WalkOK
<1> QED BY <1>1, <1>2, <1>3, TypeFacts DEF TreeTypeOK

\* The plugin that is tried.
LEMMA CandidateIs ==
  TypeOK /\ WalkOK /\ pc \in {"load", "initialize", "examine", "link"} =>
    /\ try \in 1..Len(Usable[iNodeType[Leaf]]) /\ Candidate \in Plugin
    /\ walk # <<>> /\ pFirstChild[Leaf] = NULL
<1> SUFFICES ASSUME TypeOK, WalkOK,
                    pc \in {"load", "initialize", "examine", "link"}
             PROVE  /\ try \in 1..Len(Usable[iNodeType[Leaf]])
                    /\ Candidate \in Plugin
                    /\ walk # <<>> /\ pFirstChild[Leaf] = NULL
  OBVIOUS
<1>1. walk # <<>>
  BY DEF WalkOK
<1>2. /\ pFirstChild[Leaf] = NULL /\ try # 0 /\ try \in Nat
      /\ try <= Len(Usable[iNodeType[Leaf]])
  BY <1>1, TypeFacts DEF WalkOK
<1>3. Usable[iNodeType[Leaf]] \in Seq(Plugin)
  BY <1>1, LeafIs, PluginAssumption
<1>4. Len(Usable[iNodeType[Leaf]]) \in Nat
  BY <1>3
<1>5. try \in 1..Len(Usable[iNodeType[Leaf]])
  BY <1>2, <1>4
<1> QED BY <1>1, <1>2, <1>3, <1>5 DEF Candidate

LEMMA LinkIs ==
  TypeOK /\ WalkOK /\ HandOK /\ MMIOLinkPluginToNode =>
    LET shape == Shape[hPlugin]
        f == Fresh(1 + shape.leaves)
    IN /\ Leaf \in alive /\ pFirstChild[Leaf] = NULL
       /\ pInstance \in Instance /\ hPlugin \in Plugin
       /\ FreshFor(f, shape)
       /\ shape.top > iNodeType[Leaf]
       /\ shape.leaves > 0 => shape.leaf > shape.top
       /\ CreateNodes(Leaf, f, shape, pInstance)
<1> DEFINE shape == Shape[hPlugin]
           f == Fresh(1 + shape.leaves)
<1> SUFFICES ASSUME TypeOK, WalkOK, HandOK, MMIOLinkPluginToNode
             PROVE  /\ Leaf \in alive /\ pFirstChild[Leaf] = NULL
                    /\ pInstance \in Instance /\ hPlugin \in Plugin
                    /\ FreshFor(f, shape)
                    /\ shape.top > iNodeType[Leaf]
                    /\ shape.leaves > 0 => shape.leaf > shape.top
                    /\ CreateNodes(Leaf, f, shape, pInstance)
  OBVIOUS
<1>1. /\ pc = "link" /\ Cardinality(Free) > shape.leaves
      /\ CreateNodes(Leaf, f, shape, pInstance)
  BY DEF MMIOLinkPluginToNode
<1>2. walk # <<>> /\ hPlugin = Candidate
  BY <1>1 DEF WalkOK
<1>3. /\ try \in 1..Len(Usable[iNodeType[Leaf]]) /\ Candidate \in Plugin
      /\ pFirstChild[Leaf] = NULL
  BY <1>1, CandidateIs
<1>4. Leaf \in alive /\ iNodeType[Leaf] \in NodeType
  BY <1>2, LeafIs
<1>5. pInstance \in Instance
  BY <1>1 DEF HandOK, TypeOK
<1>6. /\ shape.top > iNodeType[Leaf]
      /\ shape.leaves > 0 => shape.leaf > shape.top
  BY <1>2, <1>3, <1>4, DeeperAssumption DEF Candidate
<1>7. /\ shape.leaves \in Nat
      /\ shape.top \in NodeType /\ shape.leaf \in NodeType
  BY <1>2, <1>3, PluginAssumption
<1>8. Cardinality(Free) >= 1 + shape.leaves /\ 1 + shape.leaves \in Nat
  <2>1. IsFiniteSet(Free)
    BY NodeSets DEF Free
  <2>2. Cardinality(Free) \in Nat
    BY <2>1, FS_CardinalityType
  <2> QED BY <2>2, <1>1, <1>7
<1>9. FreshFor(f, shape)
  <2> HIDE DEF shape
  <2> QED BY <1>7, <1>8, FreshIs DEF FreshFor
<1> QED BY <1>1, <1>2, <1>3, <1>4, <1>5, <1>6, <1>9

LEMMA CreateURLIs ==
  CreateURLNode => \E n \in Free : /\ CreateURL(n) /\ walk' = <<n>>
                                   /\ UNCHANGED urls /\ UNCHANGED unlink
<1> SUFFICES ASSUME CreateURLNode
             PROVE  \E n \in Free : /\ CreateURL(n) /\ walk' = <<n>>
                                    /\ UNCHANGED urls /\ UNCHANGED unlink
  OBVIOUS
<1>1. IsFiniteSet(Free) /\ Free # {}
  BY NodeSets DEF Free, CreateURLNode
<1>2. Cardinality(Free) \in Nat /\ Cardinality(Free) # 0
  BY <1>1, FS_CardinalityType, FS_EmptySet
<1>3. Fresh(1) \in [1..1 -> Free]
  BY <1>2, FreshIs
<1>4. Fresh(1)[1] \in Free
  BY <1>3
<1> QED BY <1>4 DEF CreateURLNode

\* A leaf is a branch of its own.
LEMMA LeafBranch ==
  TreeTypeOK /\ NodesOK /\ ChainsOK =>
    \A n \in alive : Children(n) = {} => IsBranch(n, {n})
<1> SUFFICES ASSUME TreeTypeOK, NodesOK, ChainsOK, NEW n \in alive,
                    Children(n) = {}
             PROVE  IsBranch(n, {n})
  OBVIOUS
<1>1. \A m \in alive : pParent[m] # n
  BY DEF Children
<1> QED BY <1>1 DEF IsBranch

\* DestroyURLNode: no plugin was linked to the URL node.
LEMMA DestroyURLIs ==
  TypeOK /\ NodesOK /\ ChainsOK /\ WalkOK /\ DestroyURLNode =>
    /\ walk[1] \in alive /\ walk # <<>> /\ pParent[walk[1]] = Root
    /\ IsBranch(walk[1], {walk[1]})
    /\ DestroyNodes(walk[1], {walk[1]})
<1> SUFFICES ASSUME TypeOK, NodesOK, ChainsOK, WalkOK, DestroyURLNode
             PROVE  /\ walk[1] \in alive /\ walk # <<>>
                    /\ pParent[walk[1]] = Root
                    /\ IsBranch(walk[1], {walk[1]})
                    /\ DestroyNodes(walk[1], {walk[1]})
  OBVIOUS
<1>1. pc = "reject" /\ DestroyNodes(walk[1], {walk[1]})
  BY DEF DestroyURLNode
<1>2. walk # <<>>
  BY <1>1 DEF WalkOK
<1>3. Len(walk) = 1 /\ pFirstChild[Leaf] = NULL
  BY <1>1, <1>2 DEF WalkOK
<1>4. Leaf = walk[1] /\ walk[1] \in alive
  BY <1>2, <1>3, LeafIs
<1>5. 1 \in 1..Len(walk)
  BY <1>3
<1>6. pParent[walk[1]] = Root
  BY <1>5 DEF WalkOK
<1>7. Children(walk[1]) = {}
  BY <1>3, <1>4, Linked, TypeFacts
<1> QED BY <1>1, <1>2, <1>4, <1>6, <1>7, LeafBranch, TypeFacts

\* The innermost call.
LEMMA TopIs ==
  TypeOK /\ CallsOK /\ unlink # <<>> =>
    /\ Len(unlink) \in Calls /\ 1 \in Calls
    /\ Top = unlink[Len(unlink)] /\ Top \in Frame
    /\ Top.node = Unlinked(Len(unlink)) /\ Top.at = At(Len(unlink))
    /\ Top.node \in alive /\ Top.node \in Node
<1> SUFFICES ASSUME TypeOK, CallsOK, unlink # <<>>
             PROVE  /\ Len(unlink) \in Calls /\ 1 \in Calls
                    /\ Top = unlink[Len(unlink)] /\ Top \in Frame
                    /\ Top.node = Unlinked(Len(unlink))
                    /\ Top.at = At(Len(unlink))
                    /\ Top.node \in alive /\ Top.node \in Node
  OBVIOUS
<1>1. Len(unlink) \in 1..Len(unlink) /\ 1 \in 1..Len(unlink)
  BY TypeFacts
<1>2. Top = unlink[Len(unlink)]
  BY DEF Top, Last
<1>3. Top.node = Unlinked(Len(unlink)) /\ Top.at = At(Len(unlink))
  BY <1>2 DEF Unlinked, At
<1>4. Unlinked(Len(unlink)) \in alive
  BY <1>1 DEF CallsOK, Calls
<1> QED BY <1>1, <1>2, <1>3, <1>4, TypeFacts DEF Calls

\* UnlinkURLNode: when a URL node is destroyed nothing is below.
LEMMA UnlinkURLIs ==
  /\ TypeOK /\ NodesOK /\ ChainsOK /\ CallsOK /\ DoneOK
  /\ UnlinkURLNode
  => /\ Top.node \in alive /\ pParent[Top.node] = Root
     /\ pNextBrother[Top.node] = NULL
     /\ IsBranch(Top.node, {Top.node})
     /\ DestroyNodes(Top.node, {Top.node})
<1> SUFFICES ASSUME TypeOK, NodesOK, ChainsOK, CallsOK, DoneOK, UnlinkURLNode
             PROVE  /\ Top.node \in alive /\ pParent[Top.node] = Root
                    /\ pNextBrother[Top.node] = NULL
                    /\ IsBranch(Top.node, {Top.node})
                    /\ DestroyNodes(Top.node, {Top.node})
  OBVIOUS
<1>1. /\ unlink # <<>> /\ Top.at = "self" /\ iNodeType[Top.node] = URL
      /\ DestroyNodes(Top.node, {Top.node})
  BY DEF UnlinkURLNode
<1>2. /\ Len(unlink) \in Calls /\ Top.node = Unlinked(Len(unlink))
      /\ Top.at = At(Len(unlink)) /\ Top.node \in alive
  BY <1>1, TopIs
<1>3. /\ pNextBrother[Top.node] = NULL
      /\ \A c \in Children(Top.node) : Remains(c)
  BY <1>1, <1>2 DEF DoneOK
<1>4. pParent[Top.node] = Root /\ pNodeOwnerPluginInstance[Top.node] = NULL
  BY <1>1, <1>2, Parents, TypeFacts
<1>5. ASSUME NEW c \in Children(Top.node) PROVE FALSE
  <2>1. c \in alive /\ pParent[c] = Top.node
    BY <1>5 DEF Children
  <2>2. c \in Node /\ LiveUnder(c, Top.node)
    BY <2>1, <1>2, LiveBelow, Parents, TypeFacts DEF NodesOK
  <2>3. ~ bUnlinkPoint[c]
    BY <1>3, <1>5 DEF Remains
  <2>4. pNodeOwnerPluginInstance[c] = NULL
    BY <2>2, <2>3, <1>4 DEF LiveUnder
  <2>5. pNodeOwnerPluginInstance[c] \in Instance
    BY <2>2 DEF LiveUnder
  <2> QED BY <2>4, <2>5, AddressAssumption
<1>6. Children(Top.node) = {}
  BY <1>5
<1> QED BY <1>1, <1>2, <1>3, <1>4, <1>6, LeafBranch, TypeFacts

\* The nodes of an instance are the one it is unlinked at and its children,
\* when all of these remain.
LEMMA PluginBranch ==
  TypeOK /\ NodesOK /\ InstancesOK =>
    \A n \in alive :
      iNodeType[n] # URL /\ bUnlinkPoint[n] /\ (\A c \in Children(n) : Remains(c))
      => LET i == pNodeOwnerPluginInstance[n] IN
         /\ i \in Instance /\ NodesOf(i) = {n} \cup Children(n)
         /\ IsBranch(n, NodesOf(i))
<1> SUFFICES ASSUME TypeOK, NodesOK, InstancesOK, NEW n \in alive,
                    iNodeType[n] # URL, bUnlinkPoint[n],
                    \A c \in Children(n) : Remains(c)
             PROVE  LET i == pNodeOwnerPluginInstance[n] IN
                    /\ i \in Instance /\ NodesOf(i) = {n} \cup Children(n)
                    /\ IsBranch(n, NodesOf(i))
  OBVIOUS
<1> DEFINE i == pNodeOwnerPluginInstance[n]
           S == NodesOf(i)
<1>1. TreeTypeOK /\ n \in Node /\ Root \notin alive
  BY TypeFacts, AddressAssumption DEF TreeTypeOK
<1>2. i \in Instance
  <2>1. i # NULL
    BY <1>1, Parents
  <2> QED BY <1>1, <2>1 DEF TreeTypeOK
<1>3. \A m \in alive : m \in S <=> pNodeOwnerPluginInstance[m] = i
  BY DEF NodesOf
<1> HIDE DEF S
<1>4. \A c \in alive : c \in Children(n) <=> pParent[c] = n
  BY DEF Children
<1>5. ASSUME NEW c \in alive, pParent[c] = n
      PROVE  c \in S /\ Children(c) = {}
  <2>1. Remains(c)
    BY <1>4, <1>5
  <2>2. ~ bUnlinkPoint[c] /\ Children(c) = {}
    BY <2>1 DEF Remains
  <2>3. LiveUnder(c, n)
    BY <1>1, <1>5, LiveBelow, Parents DEF NodesOK
  <2> QED BY <2>2, <2>3, <1>3 DEF LiveUnder
<1>6. ASSUME NEW m \in alive, m \in S, m # n PROVE pParent[m] = n
  <2>1. pNodeOwnerPluginInstance[m] = i
    BY <1>3, <1>6
  <2>2. pNodeOwnerPluginInstance[m] # NULL
    BY <2>1, <1>2, AddressAssumption
  <2>3. pParent[m] # Root /\ pParent[m] \in alive \cup {Root} /\ m \in Node
    BY <2>2, <1>1, Parents
  <2>4. PICK p \in alive : pParent[m] = p
    BY <2>3
  <2>5. LiveUnder(m, p)
    BY <2>3, <2>4, <1>1, LiveBelow DEF NodesOK
  <2>6. ASSUME NEW x \in alive, bUnlinkPoint[x],
               pNodeOwnerPluginInstance[x] = i
        PROVE  x = n
    <3>1. x \in NodesOf(i) /\ n \in NodesOf(i)
      BY <2>6 DEF NodesOf
    <3> QED BY <3>1, <2>6, <1>2 DEF InstancesOK
  <2>7. ~ bUnlinkPoint[m]
    BY <2>1, <2>6, <1>6
  <2>8. bUnlinkPoint[p] /\ pNodeOwnerPluginInstance[p] = i
    BY <2>5, <2>7, <2>1 DEF LiveUnder
  <2> QED BY <2>4, <2>6, <2>8
<1>7. S \subseteq alive /\ Children(n) \subseteq alive /\ n \in S
  BY DEF Children, NodesOf, S
<1>8. S = {n} \cup Children(n)
  BY <1>4, <1>5, <1>6, <1>7
<1>9. \A m \in alive : pParent[m] # m
  BY <1>1, Parents
<1>10. ASSUME NEW m \in alive, pParent[m] \in S, m # n PROVE m \in S
  <2>1. CASE pParent[m] = n
    BY <2>1, <1>5
  <2>2. CASE pParent[m] # n
    <3>1. PICK c \in alive : pParent[m] = c /\ c \in S /\ c # n
      BY <2>2, <1>7, <1>10
    <3>2. Children(c) = {}
      BY <3>1, <1>5, <1>6
    <3> QED BY <3>1, <3>2 DEF Children
  <2> QED BY <2>1, <2>2
<1>11. ASSUME pParent[n] \in S PROVE FALSE
  <2>1. PICK c \in alive : pParent[n] = c /\ c \in S /\ c # n
    BY <1>7, <1>9, <1>11
  <2>2. Children(c) = {}
    BY <2>1, <1>5, <1>6
  <2> QED BY <2>1, <2>2 DEF Children
<1>12. IsBranch(n, S)
  <2>1. \A m \in alive : m \in S <=> m = n \/ pParent[m] \in S
    BY <1>6, <1>7, <1>10
  <2> QED BY <2>1, <1>7, <1>11 DEF IsBranch
<1> QED BY <1>2, <1>8, <1>12 DEF S

\* UnlinkPlugin: a plugin destroys what it has made, and nothing is below.
LEMMA UnlinkPluginIs ==
  /\ TypeOK /\ NodesOK /\ InstancesOK /\ CallsOK /\ DoneOK
  /\ UnlinkPlugin
  => LET n == Top.node
         i == pNodeOwnerPluginInstance[n]
     IN /\ n \in alive /\ i \in Instance
        /\ NodesOf(i) = {n} \cup Children(n)
        /\ IsBranch(n, NodesOf(i))
        /\ DestroyNodes(n, NodesOf(i))
<1> SUFFICES ASSUME TypeOK, NodesOK, InstancesOK, CallsOK, DoneOK, UnlinkPlugin
             PROVE  LET n == Top.node
                        i == pNodeOwnerPluginInstance[n]
                    IN /\ n \in alive /\ i \in Instance
                       /\ NodesOf(i) = {n} \cup Children(n)
                       /\ IsBranch(n, NodesOf(i))
                       /\ DestroyNodes(n, NodesOf(i))
  OBVIOUS
<1>1. /\ unlink # <<>> /\ Top.at = "self" /\ iNodeType[Top.node] # URL
      /\ bUnlinkPoint[Top.node]
      /\ DestroyNodes(Top.node, NodesOf(pNodeOwnerPluginInstance[Top.node]))
  BY DEF UnlinkPlugin
<1>2. /\ Len(unlink) \in Calls /\ Top.node = Unlinked(Len(unlink))
      /\ Top.at = At(Len(unlink)) /\ Top.node \in alive
  BY <1>1, TopIs
<1>3. \A c \in Children(Top.node) : Remains(c)
  BY <1>1, <1>2 DEF DoneOK
<1> QED BY <1>1, <1>2, <1>3, PluginBranch

\* The pointers go on to form a tree.
LEMMA TreeKept ==
  Inv /\ [Next]_vars => TreeTypeOK' /\ NodesOK' /\ ChainsOK'
<1> SUFFICES ASSUME Inv, [Next]_vars
             PROVE  TreeTypeOK' /\ NodesOK' /\ ChainsOK'
  OBVIOUS
<1>1. /\ TypeOK /\ TreeTypeOK /\ NodesOK /\ ChainsOK /\ InstancesOK /\ HandOK
      /\ WalkOK /\ CallsOK /\ DoneOK
  BY TypeFacts DEF Inv
<1>2. CASE UNCHANGED treeVars
  <2>1. TreeTypeOK'
    BY <1>1, <1>2 DEF TreeTypeOK, treeVars
  <2>2. NodesOK'
    BY <1>1, <1>2 DEF NodesOK, Dead, Live, Children, treeVars
  <2>3. ChainsOK'
    BY <1>1, <1>2 DEF ChainsOK, Children, treeVars
  <2> QED BY <2>1, <2>2, <2>3
<1>3. CASE CreateURLNode
  BY <1>1, <1>3, CreateURLIs, CreateURLKeeps
<1>4. CASE MMIOLinkPluginToNode
  <2>1. PICK shape, f :
          /\ Leaf \in alive /\ pFirstChild[Leaf] = NULL
          /\ pInstance \in Instance
          /\ FreshFor(f, shape)
          /\ shape.top > iNodeType[Leaf]
          /\ shape.leaves > 0 => shape.leaf > shape.top
          /\ CreateNodes(Leaf, f, shape, pInstance)
    BY <1>1, <1>4, LinkIs
  <2>2. PICK n \in alive, i \in Instance : n = Leaf /\ i = pInstance
    BY <2>1
  <2>3. /\ FreshFor(f, shape) /\ pFirstChild[n] = NULL
        /\ shape.top > iNodeType[n]
        /\ shape.leaves > 0 => shape.leaf > shape.top
        /\ CreateNodes(n, f, shape, i)
    BY <2>1, <2>2
  <2> QED BY <2>3, <1>1, CreateNodesKeeps, CreateNodesEffect
<1>5. CASE DestroyURLNode
  <2>1. PICK n : IsBranch(n, {n}) /\ DestroyNodes(n, {n})
    BY <1>1, <1>5, DestroyURLIs
  <2> QED BY <2>1, <1>1, DestroyKeeps, DestroyEffect
<1>6. CASE UnlinkURLNode
  <2>1. PICK n : IsBranch(n, {n}) /\ DestroyNodes(n, {n})
    BY <1>1, <1>6, UnlinkURLIs
  <2> QED BY <2>1, <1>1, DestroyKeeps, DestroyEffect
<1>7. CASE UnlinkPlugin
  <2>1. PICK n, S : IsBranch(n, S) /\ DestroyNodes(n, S)
    BY <1>1, <1>7, UnlinkPluginIs
  <2> QED BY <2>1, <1>1, DestroyKeeps, DestroyEffect
<1> QED BY <1>2, <1>3, <1>4, <1>5, <1>6, <1>7, TreeSteps

-----------------------------------------------------------------------------
(* Plugins and instances.                                                  *)

HandPlaces == {"initialize", "examine", "link", "uninitialize", "unload"}

\* The steps that change plugins and instances, or what is in hand.
LEMMA PluginSteps ==
  [Next]_vars =>
    \/ /\ UNCHANGED <<pluginVars, handVars>>
       /\ pc' = pc \/ (pc \notin HandPlaces /\ pc' \notin HandPlaces)
    \/ MMIOLoadPlugin \/ MMIOInitializePlugin \/ FailInitialize
    \/ Examine \/ FailNode \/ MMIOLinkPluginToNode
    \/ MMIOUninitializePlugin \/ MMIOUnloadPlugin \/ UnlinkPlugin
<1> DEFINE Quiet ==
      /\ UNCHANGED <<pluginVars, handVars>>
      /\ pc' = pc \/ (pc \notin HandPlaces /\ pc' \notin HandPlaces)
<1> SUFFICES ASSUME Next, ~ Quiet
             PROVE  \/ MMIOLoadPlugin \/ MMIOInitializePlugin \/ FailInitialize
                    \/ Examine \/ FailNode \/ MMIOLinkPluginToNode
                    \/ MMIOUninitializePlugin \/ MMIOUnloadPlugin
                    \/ UnlinkPlugin
  BY DEF vars
<1>1. ASSUME NEW level \in OpenLevels, MMIOOpen(level) PROVE Quiet
  BY <1>1 DEF MMIOOpen, Goto, HandPlaces
<1>2. ASSUME NEW k \in DOMAIN urls, MMIOClose(k) PROVE Quiet
  BY <1>2 DEF MMIOClose, Goto, HandPlaces
<1>3. MMIOInitialize \/ MMIOUninitialize => Quiet
  BY DEF MMIOInitialize, MMIOUninitialize, Goto, HandPlaces
<1>4. CreateURLNode \/ FailOpen => Quiet
  BY DEF CreateURLNode, FailOpen, Goto, HandPlaces
<1>5. FailLoad => Quiet
  BY DEF FailLoad, Reject, Goto, HandPlaces
<1>6. WalkDeeper \/ Visit => Quiet
  BY DEF WalkDeeper, Visit, Goto, HandPlaces
<1>7. NextBrother \/ ReturnOpen \/ DestroyURLNode => Quiet
  BY DEF NextBrother, ReturnOpen, DestroyURLNode, Goto, HandPlaces
<1>8. UnlinkChild \/ UnlinkBrother \/ UnlinkURLNode \/ UnlinkNothing => Quiet
  BY DEF UnlinkChild, UnlinkBrother, UnlinkURLNode, UnlinkNothing
<1>9. ReturnClose \/ CallNoPlugin => Quiet
  BY DEF ReturnClose, CallNoPlugin, Goto, HandPlaces
<1> QED
  BY <1>1, <1>2, <1>3, <1>4, <1>5, <1>6, <1>7, <1>8, <1>9 DEF Next, Step

\* The step takes an instance that is free.
LEMMA InitializeIs ==
  MMIOInitializePlugin =>
    /\ pc = "initialize" /\ pInstance' \in Instance
    /\ instances[pInstance'] = NULL
    /\ instances' = [instances EXCEPT ![pInstance'] = hPlugin]
    /\ UNCHANGED <<treeVars, iRefCount, hPlugin>>
<1> SUFFICES ASSUME MMIOInitializePlugin
             PROVE  /\ pc = "initialize" /\ pInstance' \in Instance
                    /\ instances[pInstance'] = NULL
                    /\ instances' = [instances EXCEPT ![pInstance'] = hPlugin]
                    /\ UNCHANGED <<treeVars, iRefCount, hPlugin>>
  OBVIOUS
<1>1. FreeInstances \in SUBSET Nat /\ FreeInstances # {}
  BY AddressAssumption DEF MMIOInitializePlugin, FreeInstances
<1>2. \E i \in FreeInstances : \A j \in FreeInstances : i <= j
  <2> HIDE DEF FreeInstances
  <2> QED BY <1>1, LeastNumber
<1>3. /\ pInstance' \in FreeInstances
      /\ instances' = [instances EXCEPT ![pInstance'] = hPlugin]
  BY <1>2 DEF MMIOInitializePlugin
<1> QED BY <1>3 DEF MMIOInitializePlugin, FreeInstances

LEMMA HandKept == Inv /\ [Next]_vars => HandOK'
<1> SUFFICES ASSUME Inv, [Next]_vars PROVE HandOK'
  OBVIOUS
<1>1. TypeOK /\ HandOK /\ WalkOK
  BY DEF Inv
<1>2. /\ NULL \notin Plugin /\ NULL \notin Instance
      /\ instances \in [Instance -> Plugin \cup {NULL}]
      /\ pInstance \in Instance \cup {NULL} /\ hPlugin \in Plugin \cup {NULL}
  BY <1>1, AddressAssumption DEF TypeOK
<1>3. CASE /\ UNCHANGED <<pluginVars, handVars>>
           /\ pc' = pc \/ (pc \notin HandPlaces /\ pc' \notin HandPlaces)
  BY <1>1, <1>3 DEF HandOK, HandPlaces, pluginVars, handVars
<1>4. CASE MMIOLoadPlugin
  <2>1. pc = "load" /\ hPlugin' = Candidate /\ pc' = "initialize"
        /\ UNCHANGED <<pInstance, instances>>
    BY <1>4 DEF MMIOLoadPlugin, Goto
  <2>2. Candidate \in Plugin
    BY <2>1, <1>1, CandidateIs
  <2> QED BY <2>1, <2>2, <1>1, <1>2 DEF HandOK
<1>5. CASE MMIOInitializePlugin
  <2>1. pc = "initialize" /\ pc' = "examine"
    BY <1>5 DEF MMIOInitializePlugin, Goto
  <2>2. /\ pInstance' \in Instance /\ hPlugin' = hPlugin
        /\ instances' = [instances EXCEPT ![pInstance'] = hPlugin]
    BY <1>5, InitializeIs
  <2> QED BY <2>1, <2>2, <1>1, <1>2 DEF HandOK
<1>6. CASE FailInitialize
  BY <1>1, <1>6 DEF FailInitialize, HandOK, Goto, pluginVars, handVars
<1>7. CASE Examine
  BY <1>1, <1>7 DEF Examine, HandOK, Goto, pluginVars, handVars
<1>8. CASE FailNode
  BY <1>1, <1>8 DEF FailNode, HandOK, Goto, pluginVars, handVars
<1>9. CASE MMIOLinkPluginToNode
  BY <1>1, <1>9 DEF MMIOLinkPluginToNode, HandOK, Goto
<1>10. CASE MMIOUninitializePlugin
  BY <1>1, <1>10 DEF MMIOUninitializePlugin, HandOK, Goto
<1>11. CASE MMIOUnloadPlugin
  <2>1. pc' \notin HandPlaces
    BY <1>11 DEF MMIOUnloadPlugin, Reject, Goto, HandPlaces
  <2> QED BY <2>1, <1>1, <1>11 DEF MMIOUnloadPlugin, HandOK, HandPlaces
<1>12. CASE UnlinkPlugin
  <2>1. /\ pInstance' = pNodeOwnerPluginInstance[Top.node]
        /\ hPlugin' = instances[pInstance'] /\ instances' = instances
        /\ pc' = "uninitialize"
    BY <1>12 DEF UnlinkPlugin, Goto, pluginVars
  <2>2. Top.node \in alive /\ pInstance' \in Instance
    BY <2>1, <1>12, UnlinkPluginIs DEF Inv
  <2>3. instances[pInstance'] # NULL
    BY <2>1, <2>2, <1>2 DEF Inv, InstancesOK
  <2> QED BY <2>1, <2>2, <2>3, <1>2 DEF HandOK
<1> QED BY <1>3, <1>4, <1>5, <1>6, <1>7, <1>8, <1>9, <1>10, <1>11, <1>12,
           PluginSteps

LEMMA CountsKept == Inv /\ [Next]_vars => CountsOK'
<1> SUFFICES ASSUME Inv, [Next]_vars, NEW p \in Plugin
             PROVE  iRefCount'[p]
                      = Cardinality(Users(p)')
                        + (IF hPlugin' = p /\ pInstance' = NULL THEN 1 ELSE 0)
  BY DEF CountsOK
<1> DEFINE Hand == IF hPlugin = p /\ pInstance = NULL THEN 1 ELSE 0
<1>1. TypeOK /\ HandOK /\ WalkOK
  BY DEF Inv
<1>2. /\ NULL \notin Plugin /\ NULL \notin Instance
      /\ instances \in [Instance -> Plugin \cup {NULL}]
      /\ pInstance \in Instance \cup {NULL} /\ hPlugin \in Plugin \cup {NULL}
      /\ iRefCount \in [Plugin -> 0..Cardinality(Instance) + 1]
  BY <1>1, AddressAssumption DEF TypeOK
<1>3. /\ IsFiniteSet(Users(p)) /\ Cardinality(Users(p)) \in Nat
      /\ iRefCount[p] = Cardinality(Users(p)) + Hand
  <2>1. Users(p) \subseteq Instance
    BY DEF Users
  <2>2. IsFiniteSet(Users(p))
    BY <2>1, AddressAssumption, FS_Subset
  <2> QED BY <2>2, FS_CardinalityType DEF Inv, CountsOK
<1>4. instances' = instances => Users(p)' = Users(p)
  BY DEF Users
<1>5. CASE /\ UNCHANGED <<pluginVars, handVars>>
           /\ pc' = pc \/ (pc \notin HandPlaces /\ pc' \notin HandPlaces)
  BY <1>3, <1>4, <1>5 DEF pluginVars, handVars
<1>6. CASE MMIOLoadPlugin
  <2>1. /\ pc = "load" /\ hPlugin' = Candidate
        /\ iRefCount' = [iRefCount EXCEPT ![Candidate] = @ + 1]
        /\ UNCHANGED <<pInstance, instances>>
    BY <1>6 DEF MMIOLoadPlugin, CountLoad
  <2>2. hPlugin = NULL /\ pInstance = NULL
    BY <2>1, <1>1 DEF HandOK
  <2> QED BY <2>1, <2>2, <1>2, <1>3, <1>4
<1>7. CASE MMIOInitializePlugin
  <2>1. /\ pc = "initialize" /\ pInstance' \in Instance
        /\ instances[pInstance'] = NULL
        /\ instances' = [instances EXCEPT ![pInstance'] = hPlugin]
        /\ iRefCount' = iRefCount /\ hPlugin' = hPlugin
    BY <1>7, InitializeIs
  <2>2. pInstance = NULL /\ pInstance' # NULL
    BY <2>1, <1>1, <1>2 DEF HandOK
  <2>3. CASE hPlugin = p
    <3>1. Users(p)' = Users(p) \cup {pInstance'} /\ pInstance' \notin Users(p)
      BY <2>1, <2>3, <1>2 DEF Users
    <3>2. Cardinality(Users(p)') = Cardinality(Users(p)) + 1
      BY <3>1, <1>3, FS_AddElement
    <3> QED BY <3>2, <2>1, <2>2, <2>3, <1>3
  <2>4. CASE hPlugin # p
    <3>1. Users(p)' = Users(p)
      BY <2>1, <2>4, <1>2 DEF Users
    <3> QED BY <3>1, <2>1, <2>4, <1>3
  <2> QED BY <2>3, <2>4
<1>8. CASE FailInitialize \/ Examine \/ FailNode
  <2>1. UNCHANGED <<pluginVars, handVars>>
    BY <1>8 DEF FailInitialize, Examine, FailNode
  <2> QED BY <2>1, <1>3, <1>4 DEF pluginVars, handVars
<1>9. CASE MMIOLinkPluginToNode
  <2>1. /\ pc = "link" /\ UNCHANGED <<iRefCount, instances>>
        /\ hPlugin' = NULL
    BY <1>9 DEF MMIOLinkPluginToNode, pluginVars
  <2>2. pInstance # NULL
    BY <2>1, <1>1 DEF HandOK
  <2> QED BY <2>1, <2>2, <1>2, <1>3, <1>4
<1>10. CASE MMIOUninitializePlugin
  <2>1. /\ pc = "uninitialize" /\ iRefCount' = iRefCount /\ hPlugin' = hPlugin
        /\ instances' = [instances EXCEPT ![pInstance] = NULL]
        /\ pInstance' = NULL
    BY <1>10 DEF MMIOUninitializePlugin
  <2>2. /\ pInstance # NULL /\ pInstance \in Instance
        /\ instances[pInstance] = hPlugin
    BY <2>1, <1>1, <1>2 DEF HandOK
  <2>3. CASE hPlugin = p
    <3>1. Users(p)' = Users(p) \ {pInstance} /\ pInstance \in Users(p)
      BY <2>1, <2>2, <2>3, <1>2 DEF Users
    <3>2. Cardinality(Users(p)') = Cardinality(Users(p)) - 1
      BY <3>1, <1>3, FS_RemoveElement
    <3> QED BY <3>2, <2>1, <2>2, <2>3, <1>3
  <2>4. CASE hPlugin # p
    <3>1. Users(p)' = Users(p)
      BY <2>1, <2>2, <2>4, <1>2 DEF Users
    <3> QED BY <3>1, <2>1, <2>4, <1>3
  <2> QED BY <2>3, <2>4
<1>11. CASE MMIOUnloadPlugin
  <2>1. /\ pc = "unload" /\ hPlugin' = NULL
        /\ iRefCount' = [iRefCount EXCEPT ![hPlugin] = @ - 1]
        /\ UNCHANGED <<pInstance, instances>>
    BY <1>11 DEF MMIOUnloadPlugin, CountUnload
  <2>2. hPlugin # NULL /\ hPlugin \in Plugin /\ pInstance = NULL
    BY <2>1, <1>1, <1>2 DEF HandOK
  <2> QED BY <2>1, <2>2, <1>2, <1>3, <1>4
<1>12. CASE UnlinkPlugin
  <2>1. /\ pc = "unlink" /\ UNCHANGED <<iRefCount, instances>>
        /\ pInstance' = pNodeOwnerPluginInstance[Top.node]
    BY <1>12 DEF UnlinkPlugin, pluginVars
  <2>2. hPlugin = NULL /\ pInstance' \in Instance
    BY <2>1, <1>1, <1>12, UnlinkPluginIs DEF HandOK, Inv
  <2> QED BY <2>1, <2>2, <1>2, <1>3, <1>4
<1> QED BY <1>5, <1>6, <1>7, <1>8, <1>9, <1>10, <1>11, <1>12, PluginSteps

LEMMA InstancesKept == Inv /\ [Next]_vars => InstancesOK'
<1> SUFFICES ASSUME Inv, [Next]_vars PROVE InstancesOK'
  OBVIOUS
<1> DEFINE own == pNodeOwnerPluginInstance
           Same == \A m : /\ m \in alive' /\ own'[m] # NULL
                               <=> m \in alive /\ own[m] # NULL
                          /\ m \in alive /\ own[m] # NULL =>
                               /\ own'[m] = own[m]
                               /\ bUnlinkPoint'[m] = bUnlinkPoint[m]
<1>1. /\ TypeOK /\ TreeTypeOK /\ NodesOK /\ ChainsOK /\ InstancesOK /\ HandOK
      /\ WalkOK /\ CallsOK /\ DoneOK
  BY TypeFacts DEF Inv
<1>2. /\ \A i \in Instance : i # NULL
      /\ instances \in [Instance -> Plugin \cup {NULL}]
      /\ \A m \in alive : own[m] \in Instance \cup {NULL} /\ m \in Node
  BY <1>1, AddressAssumption DEF TypeOK
<1>3. ASSUME NEW i \in Instance, NEW m \in alive
      PROVE  m \in NodesOf(i) <=> own[m] = i
  BY DEF NodesOf
<1>4. /\ \A m \in alive : own[m] # NULL =>
           instances[own[m]] # NULL /\ own[m] # pInstance
      /\ \A i \in Instance : instances[i] # NULL /\ i # pInstance =>
           \E m \in alive : own[m] = i /\ bUnlinkPoint[m]
      /\ \A i \in Instance : \A m, n \in alive :
           /\ own[m] = i /\ own[n] = i
           /\ bUnlinkPoint[m] /\ bUnlinkPoint[n]
           => m = n
  BY <1>1 DEF InstancesOK, NodesOf
<1>5. SUFFICES
        /\ \A m \in alive' : own'[m] # NULL =>
             instances'[own'[m]] # NULL /\ own'[m] # pInstance'
        /\ \A i \in Instance : instances'[i] # NULL /\ i # pInstance' =>
             \E m \in alive' : own'[m] = i /\ bUnlinkPoint'[m]
        /\ \A i \in Instance : \A m, n \in alive' :
             /\ own'[m] = i /\ own'[n] = i
             /\ bUnlinkPoint'[m] /\ bUnlinkPoint'[n]
             => m = n
  BY DEF InstancesOK, NodesOf
<1>6. Same /\ UNCHANGED <<instances, pInstance>> =>
        /\ \A m \in alive' : own'[m] # NULL =>
             instances'[own'[m]] # NULL /\ own'[m] # pInstance'
        /\ \A i \in Instance : instances'[i] # NULL /\ i # pInstance' =>
             \E m \in alive' : own'[m] = i /\ bUnlinkPoint'[m]
        /\ \A i \in Instance : \A m, n \in alive' :
             /\ own'[m] = i /\ own'[n] = i
             /\ bUnlinkPoint'[m] /\ bUnlinkPoint'[n]
             => m = n
  BY <1>2, <1>4
<1>7. CASE UNCHANGED treeVars /\ UNCHANGED <<instances, pInstance>>
  <2>1. Same
    BY <1>7 DEF treeVars
  <2> HIDE DEF Same
  <2> QED BY <2>1, <1>6, <1>7
<1>8. CASE CreateURLNode
  <2>1. PICK n \in Free : CreateURL(n)
    BY <1>8, CreateURLIs
  <2>2. /\ alive' = alive \cup {n} /\ n \notin alive /\ n \in Node
        /\ \A m \in Node :
             /\ own'[m] = IF m = n THEN NULL ELSE own[m]
             /\ bUnlinkPoint'[m] = IF m = n THEN TRUE ELSE bUnlinkPoint[m]
    BY <2>1, <1>1 DEF CreateURL, Free, TreeTypeOK
  <2>3. Same
    BY <2>2, <1>2
  <2>4. UNCHANGED <<instances, pInstance>>
    BY <1>8 DEF CreateURLNode, pluginVars, handVars
  <2> HIDE DEF Same
  <2> QED BY <2>3, <2>4, <1>6
<1>9. CASE DestroyURLNode \/ UnlinkURLNode
  <2>1. PICK n \in alive : /\ pParent[n] = Root
                           /\ IsBranch(n, {n}) /\ DestroyNodes(n, {n})
    <3>1. DestroyURLNode => /\ walk[1] \in alive /\ pParent[walk[1]] = Root
                            /\ IsBranch(walk[1], {walk[1]})
                            /\ DestroyNodes(walk[1], {walk[1]})
      BY <1>1, DestroyURLIs
    <3>2. UnlinkURLNode => /\ Top.node \in alive /\ pParent[Top.node] = Root
                           /\ IsBranch(Top.node, {Top.node})
                           /\ DestroyNodes(Top.node, {Top.node})
      BY <1>1, UnlinkURLIs
    <3> QED BY <3>1, <3>2, <1>9
  <2>2. own[n] = NULL
    BY <2>1, <1>1, Parents
  <2>3. /\ alive' = alive \ {n}
        /\ \A m \in Node \ {n} : /\ own'[m] = own[m]
                                 /\ bUnlinkPoint'[m] = bUnlinkPoint[m]
    BY <2>1, <1>1, DestroyEffect
  <2>4. Same
    BY <2>2, <2>3, <1>2
  <2>5. UNCHANGED <<instances, pInstance>>
    BY <1>9 DEF DestroyURLNode, UnlinkURLNode, pluginVars, handVars
  <2> HIDE DEF Same
  <2> QED BY <2>4, <2>5, <1>6
<1>10. CASE MMIOLinkPluginToNode
  <2>1. PICK shape, f : /\ Leaf \in alive /\ pInstance \in Instance
                        /\ FreshFor(f, shape)
                        /\ CreateNodes(Leaf, f, shape, pInstance)
    BY <1>1, <1>10, LinkIs
  <2>2. PICK n \in alive, i \in Instance : n = Leaf /\ i = pInstance
    BY <2>1
  <2> DEFINE k == 1 + shape.leaves
  <2>3. /\ k \in Nat /\ k >= 1 /\ DOMAIN f = 1..k
        /\ \A j \in 1..k : f[j] \in Node /\ f[j] \notin alive /\ f[j] # n
        /\ alive' = alive \cup New(f)
        /\ \A m \in Node \ New(f) : /\ own'[m] = own[m]
                                    /\ bUnlinkPoint'[m] = bUnlinkPoint[m]
        /\ \A j \in 1..k : /\ bUnlinkPoint'[f[j]] = (j = 1)
                           /\ own'[f[j]] = i
        /\ \A a, b \in 1..k : f[a] = f[b] => a = b
    BY <2>1, <2>2, <1>1, CreateNodesEffect
  <2> HIDE DEF k
  <2>4. /\ New(f) = {f[j] : j \in 1..k} /\ 1 \in 1..k
        /\ \A m \in alive : m \in Node \ New(f)
    BY <2>3, <1>2 DEF New
  <2>5. /\ \A m \in alive : own'[m] = own[m]
                            /\ bUnlinkPoint'[m] = bUnlinkPoint[m]
        /\ \A m \in New(f) : own'[m] = i /\ (bUnlinkPoint'[m] <=> m = f[1])
        /\ f[1] \in New(f) /\ bUnlinkPoint'[f[1]]
    <3>1. \A m \in alive : own'[m] = own[m] /\ bUnlinkPoint'[m] = bUnlinkPoint[m]
      BY <2>3, <2>4
    <3>2. ASSUME NEW j \in 1..k
          PROVE  own'[f[j]] = i /\ (bUnlinkPoint'[f[j]] <=> f[j] = f[1])
      <4>1. bUnlinkPoint'[f[j]] <=> j = 1
        BY <2>3
      <4>2. j = 1 <=> f[j] = f[1]
        BY <2>3, <2>4
      <4> QED BY <4>1, <4>2, <2>3
    <3> QED BY <3>1, <3>2, <2>4
  <2>6. /\ instances' = instances /\ pInstance' = NULL
        /\ instances[i] # NULL
    <3>1. pc = "link" /\ instances' = instances /\ pInstance' = NULL
      BY <1>10 DEF MMIOLinkPluginToNode, pluginVars
    <3>2. hPlugin # NULL /\ pInstance # NULL
      BY <3>1, <1>1 DEF HandOK
    <3> QED BY <3>1, <3>2, <2>2, <1>1 DEF HandOK
  <2>7. \A m \in alive : own[m] # i
    BY <2>2, <1>2, <1>4
  <2> QED BY <2>2, <2>3, <2>5, <2>6, <2>7, <1>2, <1>4
<1>11. CASE UnlinkPlugin
  <2>1. PICK n \in alive : /\ pInstance' = own[n] /\ instances' = instances
                           /\ IsBranch(n, NodesOf(own[n]))
                           /\ DestroyNodes(n, NodesOf(own[n]))
                           /\ own[n] \in Instance
    <3>1. /\ Top.node \in alive
          /\ pNodeOwnerPluginInstance[Top.node] \in Instance
          /\ IsBranch(Top.node, NodesOf(pNodeOwnerPluginInstance[Top.node]))
          /\ DestroyNodes(Top.node,
                          NodesOf(pNodeOwnerPluginInstance[Top.node]))
      BY <1>1, <1>11, UnlinkPluginIs
    <3>2. /\ pInstance' = pNodeOwnerPluginInstance[Top.node]
          /\ instances' = instances
      BY <1>11 DEF UnlinkPlugin, pluginVars
    <3> QED BY <3>1, <3>2
  <2> DEFINE S == NodesOf(own[n])
  <2>2. \A m \in alive : m \in S <=> own[m] = own[n]
    BY DEF NodesOf
  <2> HIDE DEF S
  <2>3. /\ alive' = alive \ S
        /\ \A m \in Node \ S : /\ own'[m] = own[m]
                               /\ bUnlinkPoint'[m] = bUnlinkPoint[m]
    BY <2>1, <1>1, DestroyEffect DEF S
  <2>4. pInstance = NULL
    BY <1>1, <1>11 DEF UnlinkPlugin, HandOK
  <2>5. \A m \in alive' : /\ m \in alive /\ own[m] # own[n]
                          /\ own'[m] = own[m]
                          /\ bUnlinkPoint'[m] = bUnlinkPoint[m]
    BY <2>2, <2>3, <1>2
  <2>6. \A m \in alive : own[m] # own[n] => m \in alive'
    BY <2>2, <2>3
  <2> QED BY <2>1, <2>4, <2>5, <2>6, <1>2, <1>4
<1>12. CASE MMIOInitializePlugin
  <2>1. /\ pc = "initialize" /\ pInstance' \in Instance
        /\ instances[pInstance'] = NULL
        /\ instances' = [instances EXCEPT ![pInstance'] = hPlugin]
        /\ UNCHANGED treeVars
    BY <1>12, InitializeIs
  <2>2. pInstance = NULL
    BY <2>1, <1>1 DEF HandOK
  <2>3. \A i \in Instance : i # pInstance' => instances'[i] = instances[i]
    BY <2>1, <1>2
  <2> QED BY <2>1, <2>2, <2>3, <1>2, <1>4 DEF treeVars
<1>13. CASE MMIOUninitializePlugin
  <2>1. /\ pc = "uninitialize" /\ pInstance' = NULL
        /\ instances' = [instances EXCEPT ![pInstance] = NULL]
        /\ UNCHANGED treeVars
    BY <1>13 DEF MMIOUninitializePlugin
  <2>2. pInstance # NULL /\ pInstance \in Instance
    BY <2>1, <1>1 DEF HandOK, TypeOK
  <2>3. /\ instances'[pInstance] = NULL
        /\ \A i \in Instance : i # pInstance => instances'[i] = instances[i]
    BY <2>1, <2>2, <1>2
  <2> QED BY <2>1, <2>2, <2>3, <1>2, <1>4 DEF treeVars
<1>14. CASE MMIOLoadPlugin \/ MMIOUnloadPlugin \/ FailInitialize
            \/ Examine \/ FailNode
  <2>1. UNCHANGED treeVars /\ UNCHANGED <<instances, pInstance>>
    BY <1>14 DEF MMIOLoadPlugin, MMIOUnloadPlugin, FailInitialize, Examine,
                 FailNode, pluginVars, handVars
  <2> QED BY <2>1, <1>7
<1> QED BY <1>7, <1>8, <1>9, <1>10, <1>11, <1>12, <1>13, <1>14, TreeSteps,
           PluginSteps DEF pluginVars, handVars

-----------------------------------------------------------------------------
(* The way of MMIOOpen() down the tree.                                    *)

LEMMA FrontIs ==
  ASSUME NEW S, NEW s \in Seq(S), s # <<>>
  PROVE  /\ Front(s) \in Seq(S) /\ Len(Front(s)) = Len(s) - 1
         /\ Len(s) - 1 \in Nat
         /\ \A k \in 1..(Len(s) - 1) : Front(s)[k] = s[k]
<1>1. Len(s) \in Nat /\ Len(s) >= 1
  OBVIOUS
<1>2. Len(s) - 1 \in 0..Len(s) /\ 1 \in 1..(Len(s) + 1)
  BY <1>1
<1>3. SubSeq(s, 1, Len(s) - 1) \in Seq(S)
  BY <1>1, SMTT(30)
<1>4. Len(SubSeq(s, 1, Len(s) - 1)) = Len(s) - 1
  BY <1>1, SMTT(30)
<1>5. \A k \in 1..(Len(s) - 1) : SubSeq(s, 1, Len(s) - 1)[k] = s[k]
  BY <1>1
<1> QED BY <1>1, <1>3, <1>4, <1>5 DEF Front

LEMMA AppendIs ==
  ASSUME NEW S, NEW s \in Seq(S), NEW x \in S
  PROVE  /\ Append(s, x) \in Seq(S) /\ Len(Append(s, x)) = Len(s) + 1
         /\ Len(s) \in Nat /\ Append(s, x)[Len(s) + 1] = x
         /\ Append(s, x) # <<>> /\ Last(Append(s, x)) = x
         /\ \A k \in 1..Len(s) : Append(s, x)[k] = s[k]
BY DEF Last

\* The nodes from the URL node down.
Way ==
  \A k \in 1..Len(walk) :
    /\ walk[k] \in alive
    /\ iNodeType[walk[k]] >= k
    /\ pParent[walk[k]] = IF k = 1 THEN Root ELSE walk[k - 1]

LEMMA WalkWay ==
  WalkOK <=>
    /\ pc \in {"load", "initialize", "examine", "link", "deeper", "visit",
               "next", "reject"} => walk # <<>>
    /\ pc \in {"idle", "open", "unlink", "crashed"} => walk = <<>>
    /\ Way
    /\ try # 0
    /\ walk # <<>> =>
         /\ pc \in {"load", "initialize", "examine", "link", "uninitialize",
                    "unload", "reject"} => pFirstChild[Leaf] = NULL
         /\ pc = "deeper" => pFirstChild[Leaf] # NULL
         /\ pc = "reject" => Len(walk) = 1
         /\ pc \in {"load", "initialize", "examine", "link"} =>
              try <= Len(Usable[iNodeType[Leaf]])
         /\ pc \in {"initialize", "examine", "link"} => hPlugin = Candidate
BY DEF WalkOK, Way

LEMMA WalkKept == Inv /\ [Next]_vars => WalkOK'
<1> SUFFICES ASSUME Inv, [Next]_vars PROVE WalkOK'
  OBVIOUS
<1> USE DEF Goto
<1>1. /\ TypeOK /\ TreeTypeOK /\ NodesOK /\ ChainsOK /\ InstancesOK /\ HandOK
      /\ WalkOK /\ CallsOK /\ DoneOK
  BY TypeFacts DEF Inv
<1>2. /\ Way /\ try # 0 /\ try \in Nat /\ walk \in Seq(Node)
      /\ Len(walk) \in Nat /\ walk # <<>> <=> Len(walk) >= 1
  BY <1>1, WalkWay, TypeFacts
<1>3. walk # <<>> =>
        /\ Leaf = walk[Len(walk)] /\ Leaf \in alive /\ Leaf \in Node
        /\ iNodeType[Leaf] \in NodeType /\ iNodeType[Leaf] >= Len(walk)
        /\ Len(walk) \in 1..Len(walk)
        /\ Len(Usable[iNodeType[Leaf]]) \in Nat
  <2>1. walk # <<>> => iNodeType[Leaf] \in NodeType
    BY <1>1, LeafIs
  <2>2. walk # <<>> => Usable[iNodeType[Leaf]] \in Seq(Plugin)
    BY <2>1, PluginAssumption
  <2> QED BY <2>2, <1>1, LeafIs
<1>4. /\ walk' = <<>> /\ try' # 0
      /\ pc' \in {"idle", "open", "unlink", "crashed", "uninitialize",
                 "unload"}
      => WalkOK'
  BY DEF WalkOK
\* The steps on the spot.
<1>5. ASSUME walk # <<>>, UNCHANGED treeVars, UNCHANGED walk
      PROVE  /\ Way' /\ Leaf' = Leaf /\ iNodeType' = iNodeType
             /\ pFirstChild' = pFirstChild
             /\ try' = try => Candidate' = Candidate
  BY <1>2, <1>5 DEF Way, treeVars, Leaf, Last, Candidate
<1>6. ASSUME NEW level \in OpenLevels, MMIOOpen(level) PROVE WalkOK'
  BY <1>1, <1>4, <1>6 DEF MMIOOpen, WalkOK
<1>7. ASSUME NEW k \in DOMAIN urls, MMIOClose(k) PROVE WalkOK'
  BY <1>1, <1>4, <1>7 DEF MMIOClose, WalkOK, openVars
<1>8. CASE MMIOInitialize \/ MMIOUninitialize
  BY <1>1, <1>4, <1>8 DEF MMIOInitialize, MMIOUninitialize, WalkOK, openVars
<1>9. CASE FailOpen
  BY <1>1, <1>4, <1>9 DEF FailOpen, WalkOK, openVars
<1>10. CASE ReturnOpen
  BY <1>2, <1>4, <1>10 DEF ReturnOpen
<1>11. CASE DestroyURLNode
  BY <1>2, <1>4, <1>11 DEF DestroyURLNode
<1>12. CASE UnlinkChild \/ UnlinkBrother \/ UnlinkURLNode \/ UnlinkNothing
  BY <1>1, <1>4, <1>12 DEF UnlinkChild, UnlinkBrother, UnlinkURLNode,
                           UnlinkNothing, WalkOK, openVars
<1>13. CASE UnlinkPlugin
  BY <1>1, <1>4, <1>13 DEF UnlinkPlugin, WalkOK, openVars
<1>14. CASE ReturnClose \/ CallNoPlugin
  BY <1>1, <1>4, <1>14 DEF ReturnClose, CallNoPlugin, WalkOK, openVars
<1>15. ASSUME Reject, walk # <<>>, UNCHANGED <<treeVars, walk>>,
              pFirstChild[Leaf] = NULL
       PROVE  WalkOK'
  <2>1. /\ try' = try + 1
        /\ pc' = IF Len(walk) = 1 THEN "reject"
                 ELSE IF try < Len(Usable[iNodeType[Leaf]]) THEN "load"
                 ELSE "next"
    BY <1>15 DEF Reject
  <2>2. /\ pc' \in {"reject", "load", "next"}
        /\ pc' = "reject" => Len(walk') = 1
        /\ pc' = "load" => try' <= Len(Usable[iNodeType[Leaf]])
    BY <2>1, <1>2, <1>3, <1>15
  <2>3. try' # 0
    BY <2>1, <1>2
  <2>4. Way' /\ Leaf' = Leaf /\ iNodeType' = iNodeType
        /\ pFirstChild' = pFirstChild
    BY <1>5, <1>15
  <2> QED BY <2>2, <2>3, <2>4, <1>15 DEF WalkOK, Way
<1>16. CASE MMIOLoadPlugin
  <2>1. /\ pc = "load" /\ pc' = "initialize" /\ hPlugin' = Candidate
        /\ UNCHANGED <<treeVars, walk, try>>
    BY <1>16 DEF MMIOLoadPlugin, openVars
  <2>2. /\ walk # <<>> /\ pFirstChild[Leaf] = NULL
        /\ try <= Len(Usable[iNodeType[Leaf]])
    BY <2>1, <1>1 DEF WalkOK
  <2> QED BY <2>1, <2>2, <1>2, <1>5 DEF WalkOK, Way
<1>17. CASE FailLoad
  <2>1. pc = "load" /\ Reject /\ UNCHANGED <<treeVars, walk>>
    BY <1>17 DEF FailLoad
  <2> QED BY <2>1, <1>1, <1>15, CandidateIs
<1>18. CASE MMIOInitializePlugin \/ Examine
  <2>1. /\ pc \in {"initialize", "examine"} /\ pc' \in {"examine", "link"}
        /\ UNCHANGED <<treeVars, walk, try, hPlugin>>
    BY <1>18 DEF MMIOInitializePlugin, Examine, openVars, handVars
  <2>2. /\ walk # <<>> /\ pFirstChild[Leaf] = NULL
        /\ try <= Len(Usable[iNodeType[Leaf]]) /\ hPlugin = Candidate
    BY <2>1, <1>1 DEF WalkOK
  <2> QED BY <2>1, <2>2, <1>2, <1>5 DEF WalkOK, Way
<1>19. CASE FailInitialize \/ FailNode
  <2>1. /\ pc \in {"initialize", "examine", "link"}
        /\ pc' \in {"uninitialize", "unload"}
        /\ UNCHANGED <<treeVars, walk, try>>
    BY <1>19 DEF FailInitialize, FailNode, openVars
  <2>2. walk # <<>> /\ pFirstChild[Leaf] = NULL
    BY <2>1, <1>1 DEF WalkOK
  <2> QED BY <2>1, <2>2, <1>2, <1>5 DEF WalkOK, Way
<1>20. CASE MMIOUninitializePlugin
  <2>1. /\ pc = "uninitialize" /\ pc' = "unload"
        /\ UNCHANGED <<treeVars, walk, try>>
    BY <1>20 DEF MMIOUninitializePlugin, openVars
  <2>2. CASE walk = <<>>
    BY <2>1, <2>2, <1>2, <1>4
  <2>3. CASE walk # <<>>
    <3>1. pFirstChild[Leaf] = NULL
      BY <2>1, <2>3, <1>1 DEF WalkOK
    <3> QED BY <2>1, <2>3, <3>1, <1>2, <1>5 DEF WalkOK, Way
  <2> QED BY <2>2, <2>3
<1>21. CASE MMIOUnloadPlugin
  <2>1. pc = "unload" /\ UNCHANGED <<treeVars, walk>>
    BY <1>21 DEF MMIOUnloadPlugin
  <2>2. CASE walk = <<>>
    BY <2>1, <2>2, <1>2, <1>4, <1>21 DEF MMIOUnloadPlugin
  <2>3. CASE walk # <<>>
    <3>1. pFirstChild[Leaf] = NULL
      BY <2>1, <2>3, <1>1 DEF WalkOK
    <3>2. Reject
      BY <2>3, <1>21 DEF MMIOUnloadPlugin
    <3> QED BY <2>1, <2>3, <3>1, <3>2, <1>15
  <2> QED BY <2>2, <2>3
<1>22. CASE Visit
  <2>1. /\ pc = "visit" /\ try' = 1 /\ UNCHANGED <<treeVars, walk>>
        /\ pc' = IF pFirstChild[Leaf] # NULL THEN "deeper"
                 ELSE IF /\ iNodeType[Leaf] # TERMINATOR
                         /\ Usable[iNodeType[Leaf]] # <<>>
                 THEN "load" ELSE "next"
    BY <1>22 DEF Visit
  <2>2. walk # <<>>
    BY <2>1, <1>1 DEF WalkOK
  <2>3. Usable[iNodeType[Leaf]] # <<>> => 1 <= Len(Usable[iNodeType[Leaf]])
    <3>1. Usable[iNodeType[Leaf]] \in Seq(Plugin)
      BY <2>2, <1>3, PluginAssumption
    <3> QED BY <3>1
  <2>4. /\ pc' \in {"deeper", "load", "next"}
        /\ pc' = "deeper" => pFirstChild[Leaf] # NULL
        /\ pc' = "load" => /\ pFirstChild[Leaf] = NULL
                           /\ try' <= Len(Usable[iNodeType[Leaf]])
    BY <2>1, <2>3
  <2> QED BY <2>1, <2>2, <2>4, <1>5 DEF WalkOK, Way
<1>23. CASE CreateURLNode
  <2>1. PICK n \in Free : CreateURL(n) /\ walk' = <<n>>
    BY <1>23, CreateURLIs
  <2>2. /\ pc' = "load" /\ try' = try /\ try <= Len(Usable[URL])
    BY <1>23 DEF CreateURLNode
  <2>3. /\ n \in Node /\ n \in alive' /\ iNodeType'[n] = URL
        /\ pParent'[n] = Root
    BY <2>1, <1>1 DEF CreateURL, TreeTypeOK, Free
  <2>4. pFirstChild'[n] = NULL
    <3>1. pFirstChild[n] = NULL /\ n \in Tree /\ n # Root
      BY <2>1, <1>1, AddressAssumption DEF NodesOK, Dead, Free, Tree
    <3> QED BY <3>1, <2>1, <1>1 DEF CreateURL, TreeTypeOK
  <2>5. Len(walk') = 1 /\ walk'[1] = n /\ walk' # <<>> /\ Leaf' = n
    BY <2>1 DEF Leaf, Last
  <2>6. Way'
    BY <2>3, <2>5 DEF Way, URL
  <2> QED BY <2>2, <2>3, <2>4, <2>5, <2>6, <1>2 DEF WalkOK, Way
<1>24. CASE MMIOLinkPluginToNode
  <2>1. /\ pc = "link" /\ pc' = "deeper" /\ walk' = walk /\ try' = try
    BY <1>24 DEF MMIOLinkPluginToNode, openVars
  <2>2. walk # <<>> /\ Leaf' = Leaf
    BY <2>1, <1>1 DEF WalkOK, Leaf, Last
  <2>3. PICK shape, f : /\ Leaf \in alive /\ pInstance \in Instance
                        /\ FreshFor(f, shape)
                        /\ CreateNodes(Leaf, f, shape, pInstance)
    BY <1>1, <1>24, LinkIs
  <2>4. PICK n \in alive, i \in Instance : n = Leaf /\ i = pInstance
    BY <2>3
  <2> DEFINE k == 1 + shape.leaves
  <2>5. /\ k \in Nat /\ k >= 1 /\ DOMAIN f = 1..k
        /\ \A j \in 1..k : f[j] \in Node /\ f[j] \notin alive /\ f[j] # n
        /\ alive' = alive \cup New(f)
        /\ \A m \in Node \ New(f) : /\ iNodeType'[m] = iNodeType[m]
                                    /\ pParent'[m] = pParent[m]
        /\ pFirstChild'[n] = f[1]
    BY <2>3, <2>4, <1>1, CreateNodesEffect
  <2> HIDE DEF k
  <2>6. \A m \in alive : m \in Node \ New(f) /\ m \in alive'
    BY <2>5, <1>1 DEF New, TreeTypeOK
  <2>7. Way'
    BY <2>1, <2>5, <2>6, <1>2 DEF Way
  <2>8. pFirstChild'[Leaf] # NULL
    <3>1. 1 \in 1..k
      BY <2>5
    <3>2. f[1] \in Node
      BY <3>1, <2>5
    <3> QED BY <3>2, <2>4, <2>5, AddressAssumption
  <2> QED BY <2>1, <2>2, <2>7, <2>8, <1>2 DEF WalkOK, Way
<1>25. CASE WalkDeeper
  <2>1. pc = "deeper" /\ try' = try /\ UNCHANGED treeVars
    BY <1>25 DEF WalkDeeper
  <2>2. walk # <<>> /\ pFirstChild[Leaf] # NULL
    BY <2>1, <1>1 DEF WalkOK
  <2>3. CASE walk' = walk /\ pc' = "next"
    BY <2>1, <2>2, <2>3, <1>2, <1>5 DEF WalkOK, Way
  <2>4. CASE walk' = Append(walk, pFirstChild[Leaf]) /\ pc' = "visit"
    <3> DEFINE c == pFirstChild[Leaf]
    <3>1. c \in Children(Leaf)
      BY <2>2, <1>1, <1>3, Linked
    <3>2. c \in alive /\ pParent[c] = Leaf
      BY <3>1 DEF Children
    <3>3. c \in Node /\ iNodeType[c] \in Nat
      BY <3>2, <1>1, NodeTypes DEF TreeTypeOK
    <3>4. iNodeType[c] > iNodeType[Leaf] /\ iNodeType[Leaf] \in Nat
      BY <3>2, <3>3, <2>2, <1>1, <1>3, LiveBelow, NodeTypes
         DEF NodesOK, LiveUnder
    <3> HIDE DEF c
    <3>5. /\ Len(walk') = Len(walk) + 1 /\ walk'[Len(walk) + 1] = c
          /\ walk' # <<>>
          /\ \A k \in 1..Len(walk) : walk'[k] = walk[k]
      BY <2>4, <3>3, <1>2, AppendIs DEF c
    <3>6. iNodeType[c] >= Len(walk) + 1
      BY <3>3, <3>4, <2>2, <1>2, <1>3
    <3>7. Way'
      <4> SUFFICES ASSUME NEW k \in 1..Len(walk')
                   PROVE  /\ walk'[k] \in alive
                          /\ iNodeType[walk'[k]] >= k
                          /\ pParent[walk'[k]]
                               = IF k = 1 THEN Root ELSE walk'[k - 1]
        BY <2>1 DEF Way, treeVars
      <4>1. CASE k \in 1..Len(walk)
        <5>1. walk'[k] = walk[k]
          BY <4>1, <3>5
        <5>2. k # 1 => k - 1 \in 1..Len(walk) /\ walk'[k - 1] = walk[k - 1]
          BY <4>1, <3>5, <1>2
        <5> QED BY <4>1, <5>1, <5>2, <1>2 DEF Way
      <4>2. CASE k \notin 1..Len(walk)
        <5>1. k = Len(walk) + 1 /\ k # 1
          BY <4>2, <3>5, <2>2, <1>2
        <5>2. k - 1 = Len(walk) /\ walk'[k - 1] = Leaf
          BY <5>1, <3>5, <2>2, <1>2, <1>3
        <5> QED BY <5>1, <5>2, <3>2, <3>5, <3>6
      <4> QED BY <4>1, <4>2
    <3> QED BY <2>1, <2>4, <3>5, <3>7, <1>2 DEF WalkOK, Way
  <2> QED BY <2>3, <2>4, <1>25 DEF WalkDeeper
<1>26. CASE NextBrother
  <2>1. /\ pc = "next" /\ Len(walk) > 1 /\ try' = try /\ UNCHANGED treeVars
    BY <1>26 DEF NextBrother
  <2>2. walk # <<>> /\ Len(walk) - 1 \in Nat
    BY <2>1, <1>2
  <2>3. /\ Front(walk) \in Seq(Node) /\ Len(Front(walk)) = Len(walk) - 1
        /\ \A k \in 1..(Len(walk) - 1) : Front(walk)[k] = walk[k]
    BY <2>2, <1>2, FrontIs
  <2>4. CASE walk' = Front(walk) /\ pc' = pc
    <3>1. Len(walk') >= 1 /\ walk' # <<>>
      BY <2>1, <2>3, <2>4, <1>2
    <3>2. Way'
      <4> SUFFICES ASSUME NEW k \in 1..Len(walk')
                   PROVE  /\ walk'[k] \in alive
                          /\ iNodeType[walk'[k]] >= k
                          /\ pParent[walk'[k]]
                               = IF k = 1 THEN Root ELSE walk'[k - 1]
        BY <2>1 DEF Way, treeVars
      <4>1. k \in 1..Len(walk) /\ k \in 1..(Len(walk) - 1)
        BY <2>3, <2>4, <1>2
      <4>2. walk'[k] = walk[k]
        BY <4>1, <2>3, <2>4
      <4>3. k # 1 => k - 1 \in 1..(Len(walk) - 1) /\ walk'[k - 1] = walk[k - 1]
        BY <4>1, <2>3, <2>4, <1>2
      <4> QED BY <4>1, <4>2, <4>3, <1>2 DEF Way
    <3> QED BY <2>1, <2>4, <3>1, <3>2, <1>2 DEF WalkOK, Way
  <2>5. CASE /\ pNextBrother[Leaf] # NULL /\ pc' = "visit"
             /\ walk' = Append(Front(walk), pNextBrother[Leaf])
    <3> DEFINE c == pNextBrother[Leaf]
               q == walk[Len(walk) - 1]
    <3>1. /\ Len(walk) - 1 \in 1..Len(walk) /\ q \in alive
          /\ pParent[Leaf] = q /\ iNodeType[q] >= Len(walk) - 1
      BY <2>1, <2>2, <1>2, <1>3 DEF Way
    <3>2. Leaf \in Children(q)
      BY <3>1, <2>2, <1>3 DEF Children
    <3>3. c \in Children(q)
      BY <2>5, <3>1, <3>2, <1>1, Linked
    <3>4. c \in alive /\ pParent[c] = q
      BY <3>3 DEF Children
    <3>5. c \in Node /\ iNodeType[c] \in Nat /\ iNodeType[q] \in Nat
      BY <3>1, <3>4, <1>1, NodeTypes DEF TreeTypeOK
    <3>6. iNodeType[c] > iNodeType[q]
      BY <3>1, <3>4, <3>5, <1>1, LiveBelow DEF NodesOK, LiveUnder
    <3> HIDE DEF c
    <3>7. /\ Len(walk') = Len(walk) /\ walk'[Len(walk)] = c /\ walk' # <<>>
          /\ \A k \in 1..(Len(walk) - 1) : walk'[k] = walk[k]
      <4>1. /\ Len(walk') = Len(Front(walk)) + 1
            /\ walk'[Len(Front(walk)) + 1] = c /\ walk' # <<>>
            /\ \A k \in 1..Len(Front(walk)) : walk'[k] = Front(walk)[k]
        BY <2>3, <2>5, <3>5, AppendIs DEF c
      <4>2. Len(Front(walk)) + 1 = Len(walk)
        BY <2>3, <1>2
      <4> QED BY <4>1, <4>2, <2>3
    <3>8. iNodeType[c] >= Len(walk)
      BY <3>1, <3>5, <3>6, <1>2
    <3>9. Way'
      <4> SUFFICES ASSUME NEW k \in 1..Len(walk')
                   PROVE  /\ walk'[k] \in alive
                          /\ iNodeType[walk'[k]] >= k
                          /\ pParent[walk'[k]]
                               = IF k = 1 THEN Root ELSE walk'[k - 1]
        BY <2>1 DEF Way, treeVars
      <4>1. CASE k \in 1..(Len(walk) - 1)
        <5>1. walk'[k] = walk[k] /\ k \in 1..Len(walk)
          BY <4>1, <3>7, <1>2
        <5>2. k # 1 => /\ k - 1 \in 1..(Len(walk) - 1)
                       /\ walk'[k - 1] = walk[k - 1]
          BY <4>1, <3>7, <1>2
        <5> QED BY <4>1, <5>1, <5>2, <1>2 DEF Way
      <4>2. CASE k \notin 1..(Len(walk) - 1)
        <5>1. k = Len(walk) /\ k # 1
          BY <4>2, <3>7, <2>1, <1>2
        <5>2. k - 1 \in 1..(Len(walk) - 1) /\ walk'[k - 1] = q
          BY <5>1, <3>7, <2>1, <1>2
        <5> QED BY <5>1, <5>2, <3>4, <3>7, <3>8
      <4> QED BY <4>1, <4>2
    <3> QED BY <2>1, <2>5, <3>7, <3>9, <1>2 DEF WalkOK, Way
  <2> QED BY <2>4, <2>5, <1>26 DEF NextBrother
<1>27. CASE UNCHANGED vars
  <2>1. WalkOK' <=> WalkOK
    BY <1>27 DEF vars, treeVars, openVars, handVars, WalkOK, Leaf, Last,
                 Candidate
  <2> QED BY <2>1, <1>1
<1> QED
  BY <1>6, <1>7, <1>8, <1>9, <1>10, <1>11, <1>12, <1>13, <1>14, <1>16, <1>17,
     <1>18, <1>19, <1>20, <1>21, <1>22, <1>23, <1>24, <1>25, <1>26, <1>27
  DEF Next, Step

-----------------------------------------------------------------------------
(* The calls of MMIOUnlinkNode().                                          *)

LEMMA CallForIs ==
  ASSUME TypeOK, unlink # <<>>, NEW n \in Node \cup {NULL},
         NEW to \in {"child", "brother", "self"}, CallFor(n, to)
  PROVE  LET L == Len(unlink) IN
         /\ unlink' \in Seq(Frame) /\ L \in Nat /\ L >= 1
         /\ Len(unlink') = IF n = NULL THEN L ELSE L + 1
         /\ \A j \in 1..L : j # L => unlink'[j] = unlink[j]
         /\ unlink'[L].node = unlink[L].node /\ unlink'[L].at = to
         /\ n # NULL => /\ unlink'[L + 1].node = n
                        /\ unlink'[L + 1].at = "child"
<1> DEFINE L == Len(unlink)
           top == [Top EXCEPT !.at = to]
           s == Append(Front(unlink), top)
<1>1. unlink \in Seq(Frame) /\ L \in Nat /\ L >= 1 /\ L - 1 \in Nat
  BY TypeFacts
<1>2. Top = unlink[L] /\ Top \in Frame
  BY <1>1 DEF Top, Last
<1>3. top \in Frame /\ top.node = unlink[L].node /\ top.at = to
  BY <1>2 DEF Frame
<1>4. /\ Front(unlink) \in Seq(Frame) /\ Len(Front(unlink)) = L - 1
      /\ \A j \in 1..(L - 1) : Front(unlink)[j] = unlink[j]
  BY <1>1, FrontIs
<1> HIDE DEF top
<1>5. /\ s \in Seq(Frame) /\ Len(s) = L /\ s[L] = top
      /\ \A j \in 1..(L - 1) : s[j] = unlink[j]
  <2>1. /\ s \in Seq(Frame) /\ Len(s) = Len(Front(unlink)) + 1
        /\ s[Len(Front(unlink)) + 1] = top
        /\ \A j \in 1..Len(Front(unlink)) : s[j] = Front(unlink)[j]
    BY <1>3, <1>4, AppendIs
  <2>2. Len(Front(unlink)) + 1 = L
    BY <1>1, <1>4
  <2> QED BY <2>1, <2>2, <1>4
<1>6. \A j \in 1..L : j # L => j \in 1..(L - 1)
  BY <1>1
<1>7. unlink' = IF n = NULL THEN s ELSE Append(s, Call(n))
  BY DEF CallFor, top
<1> HIDE DEF s
<1>8. CASE n = NULL
  BY <1>1, <1>3, <1>5, <1>6, <1>7, <1>8
<1>9. CASE n # NULL
  <2>1. /\ Call(n) \in Frame /\ Call(n).node = n /\ Call(n).at = "child"
    BY <1>9 DEF Call, Frame
  <2>2. /\ unlink' \in Seq(Frame) /\ Len(unlink') = L + 1
        /\ unlink'[L + 1] = Call(n)
        /\ \A j \in 1..L : unlink'[j] = s[j]
    BY <2>1, <1>5, <1>7, <1>9, AppendIs
  <2>3. L \in 1..L
    BY <1>1
  <2> QED BY <2>1, <2>2, <2>3, <1>1, <1>3, <1>5, <1>6, <1>9
<1> QED BY <1>8, <1>9

LEMMA ReturnIs ==
  ASSUME TypeOK, unlink # <<>>, unlink' = Front(unlink)
  PROVE  LET L == Len(unlink) IN
         /\ unlink' \in Seq(Frame) /\ L \in Nat /\ L >= 1 /\ L - 1 \in Nat
         /\ Len(unlink') = L - 1
         /\ \A j \in 1..(L - 1) : unlink'[j] = unlink[j]
BY TypeFacts, FrontIs

\* Where the stack is empty.
LEMMA NoCalls ==
  WalkOK /\ CallsOK /\ (walk # <<>> \/ pc \in {"idle", "open"})
  => unlink = <<>>
BY DEF WalkOK, CallsOK

LEMMA EmptyCalls == unlink = <<>> => CallsOK /\ DoneOK
<1> SUFFICES ASSUME unlink = <<>> PROVE CallsOK /\ DoneOK
  OBVIOUS
<1>1. Calls = {}
  BY DEF Calls
<1> QED BY <1>1 DEF CallsOK, CallsDescend, DoneOK

LEMMA PrimedEmptyCalls == unlink' = <<>> => CallsOK' /\ DoneOK'
<1>1. (unlink = <<>>)' => (CallsOK /\ DoneOK)'
  BY EmptyCalls, PTL
<1> QED BY <1>1

\* The invariant with the calls and the tree spelled out.
LEMMA CallsAre ==
  CallsOK <=>
    LET L == Len(unlink) IN
    /\ unlink # <<>> =>
         /\ pc \in {"unlink", "uninitialize", "unload", "crashed"}
         /\ walk = <<>>
         /\ pParent[unlink[1].node] = Root
    /\ \A j \in 1..L : unlink[j].node \in alive
    /\ \A j \in 1..L : j # L =>
         /\ unlink[j].at # "child"
         /\ unlink[j + 1].node =
              IF unlink[j].at = "brother" THEN pFirstChild[unlink[j].node]
              ELSE pNextBrother[unlink[j].node]
    /\ \A j \in 1..L : pParent[unlink[j].node] # Root =>
         \E i \in 1..L : /\ i < j /\ unlink[i].at = "brother"
                         /\ unlink[i].node = pParent[unlink[j].node]
    /\ \A i, j \in 1..L : i < j =>
         /\ Depth(unlink[i].node) <= Depth(unlink[j].node)
         /\ unlink[i].at = "brother" =>
              Depth(unlink[i].node) < Depth(unlink[j].node)
BY DEF CallsOK, CallsDescend, Calls, At, Unlinked

\* A node is less deep than its children.
LEMMA Deeper ==
  TreeTypeOK /\ NodesOK =>
    \A n \in alive : /\ Depth(n) \in Nat /\ Depth(n) < iNodeType[n]
                     /\ \A c \in Children(n) : Depth(c) = iNodeType[n]
<1> SUFFICES ASSUME TreeTypeOK, NodesOK, NEW n \in alive
             PROVE  /\ Depth(n) \in Nat /\ Depth(n) < iNodeType[n]
                    /\ \A c \in Children(n) : Depth(c) = iNodeType[n]
  OBVIOUS
<1>1. /\ n \in Node /\ n # Root /\ iNodeType[n] \in Nat /\ iNodeType[n] >= URL
      /\ Live(n) /\ pParent[n] \in alive \cup {Root}
  BY Parents, NodeTypes DEF TreeTypeOK, NodesOK
<1>2. \A c \in Children(n) : Depth(c) = iNodeType[n]
  BY <1>1 DEF Children, Depth
<1>3. Depth(n) \in Nat /\ Depth(n) < iNodeType[n]
  <2>1. CASE pParent[n] = Root
    BY <2>1, <1>1 DEF Depth, URL
  <2>2. CASE pParent[n] # Root
    <3>1. PICK p \in alive : pParent[n] = p
      BY <2>2, <1>1
    <3>2. p \in Node /\ iNodeType[p] \in Nat /\ iNodeType[p] < iNodeType[n]
      BY <3>1, <1>1, LiveBelow, NodeTypes DEF TreeTypeOK, LiveUnder
    <3> QED BY <3>1, <3>2, <2>2 DEF Depth
  <2> QED BY <2>1, <2>2
<1> QED BY <1>2, <1>3

\* The innermost call goes on and calls for the first child or the brother.
Calling(c, to) ==
  LET n == Top.node IN
  /\ pc = "unlink" /\ unlink # <<>> /\ pc' = pc /\ walk' = walk
  /\ UNCHANGED treeVars
  /\ CallFor(c, to) /\ to \in {"brother", "self"}
  /\ Top.at = IF to = "brother" THEN "child" ELSE "brother"
  /\ c = IF to = "brother" THEN pFirstChild[n] ELSE pNextBrother[n]
  /\ n \in alive /\ c \in Node \cup {NULL}
  /\ c # NULL => /\ c \in alive
                 /\ pParent[c] = IF to = "brother" THEN n ELSE pParent[n]

LEMMA CallingSteps ==
  Inv =>
    /\ UnlinkChild => Calling(pFirstChild[Top.node], "brother")
    /\ UnlinkBrother => Calling(pNextBrother[Top.node], "self")
<1> SUFFICES ASSUME Inv, UnlinkChild \/ UnlinkBrother
             PROVE  /\ UnlinkChild => Calling(pFirstChild[Top.node], "brother")
                    /\ UnlinkBrother => Calling(pNextBrother[Top.node], "self")
  OBVIOUS
<1> DEFINE n == Top.node
<1>1. TypeOK /\ TreeTypeOK /\ NodesOK /\ ChainsOK /\ CallsOK
  BY TypeFacts DEF Inv
<1>2. /\ pc = "unlink" /\ unlink # <<>> /\ pc' = pc /\ walk' = walk
      /\ UNCHANGED treeVars
      /\ UnlinkChild => Top.at = "child"
      /\ UnlinkBrother => Top.at = "brother"
  BY DEF UnlinkChild, UnlinkBrother, openVars
<1>3. n \in alive /\ n \in Node
  BY <1>1, <1>2, TopIs
<1> HIDE DEF n
<1>4. /\ pFirstChild[n] \in Node \cup {NULL}
      /\ pNextBrother[n] \in Node \cup {NULL}
  BY <1>1, <1>3 DEF TreeTypeOK, Tree
<1>5. pFirstChild[n] # NULL => pFirstChild[n] \in Children(n)
  BY <1>1, <1>3, Linked
<1>6. pNextBrother[n] # NULL => pNextBrother[n] \in Children(pParent[n])
  BY <1>1, <1>3, Parents, Linked
<1>7. /\ pFirstChild[n] # NULL => /\ pFirstChild[n] \in alive
                                  /\ pParent[pFirstChild[n]] = n
      /\ pNextBrother[n] # NULL => /\ pNextBrother[n] \in alive
                                   /\ pParent[pNextBrother[n]] = pParent[n]
  BY <1>5, <1>6 DEF Children
<1>8. /\ UnlinkChild => CallFor(pFirstChild[n], "brother")
      /\ UnlinkBrother => CallFor(pNextBrother[n], "self")
  BY DEF UnlinkChild, UnlinkBrother, n
<1> QED BY <1>2, <1>3, <1>4, <1>7, <1>8 DEF Calling, n

LEMMA CallingKeepsCalls ==
  ASSUME Inv, NEW c, NEW to, Calling(c, to)
  PROVE  CallsOK'
<1> DEFINE L == Len(unlink)
           n == Top.node
<1>1. /\ TypeOK /\ TreeTypeOK /\ NodesOK /\ ChainsOK /\ WalkOK /\ CallsOK
  BY TypeFacts DEF Inv
<1>2. /\ pc = "unlink" /\ unlink # <<>> /\ pc' = pc /\ walk' = walk
      /\ UNCHANGED <<pParent, pFirstChild, pNextBrother, alive, iNodeType>>
      /\ CallFor(c, to) /\ to \in {"brother", "self"}
      /\ c = IF to = "brother" THEN pFirstChild[n] ELSE pNextBrother[n]
      /\ c \in Node \cup {NULL}
      /\ c # NULL => /\ c \in alive
                     /\ pParent[c] = IF to = "brother" THEN n ELSE pParent[n]
  BY DEF Calling, treeVars
<1>3. n = unlink[L].node /\ n \in alive /\ n \in Node /\ L \in 1..L
  BY <1>1, <1>2, TopIs DEF Unlinked, Calls
<1>5. /\ L \in Nat /\ L >= 1
      /\ Len(unlink') = IF c = NULL THEN L ELSE L + 1
      /\ \A j \in 1..L : j # L => unlink'[j] = unlink[j]
      /\ unlink'[L].node = unlink[L].node /\ unlink'[L].at = to
      /\ c # NULL => /\ unlink'[L + 1].node = c
                     /\ unlink'[L + 1].at = "child"
  BY <1>1, <1>2, CallForIs
<1>6. c # NULL => Depth(c) = IF to = "brother" THEN iNodeType[n] ELSE Depth(n)
  <2>1. to = "brother" /\ c # NULL => Depth(c) = iNodeType[n]
    BY <1>1, <1>2, <1>3, Deeper DEF Children
  <2>2. to = "self" /\ c # NULL => Depth(c) = Depth(n)
    BY <1>2 DEF Depth
  <2> QED BY <2>1, <2>2, <1>2
<1> HIDE DEF L, n
<1>8. /\ walk = <<>> /\ pParent[unlink[1].node] = Root
      /\ \A j \in 1..L : unlink[j].node \in alive
      /\ \A j \in 1..L : j # L =>
           /\ unlink[j].at # "child"
           /\ unlink[j + 1].node =
                IF unlink[j].at = "brother" THEN pFirstChild[unlink[j].node]
                ELSE pNextBrother[unlink[j].node]
      /\ \A j \in 1..L : pParent[unlink[j].node] # Root =>
           \E i \in 1..L : /\ i < j /\ unlink[i].at = "brother"
                           /\ unlink[i].node = pParent[unlink[j].node]
      /\ \A i, j \in 1..L : i < j =>
           /\ Depth(unlink[i].node) <= Depth(unlink[j].node)
           /\ unlink[i].at = "brother" =>
                Depth(unlink[i].node) < Depth(unlink[j].node)
  BY <1>1, <1>2, CallsAre DEF L
<1> DEFINE M == Len(unlink')
<1>9. /\ M \in Nat /\ \A j \in 1..L : unlink'[j].node = unlink[j].node
      /\ \A j \in 1..M : j \in 1..L \/ (c # NULL /\ j = L + 1)
      /\ \A j \in 1..L : j \in 1..M
  BY <1>5
<1>10. /\ unlink' # <<>> => /\ pc' = "unlink" /\ walk' = <<>>
                            /\ pParent'[unlink'[1].node] = Root
  BY <1>2, <1>5, <1>8, <1>9
<1>11. \A j \in 1..M : unlink'[j].node \in alive'
  BY <1>2, <1>5, <1>6, <1>8, <1>9
<1>12. ASSUME NEW j \in 1..M, j # M
       PROVE  /\ unlink'[j].at # "child"
              /\ unlink'[j + 1].node =
                   IF unlink'[j].at = "brother"
                   THEN pFirstChild'[unlink'[j].node]
                   ELSE pNextBrother'[unlink'[j].node]
  <2>1. CASE j = L
    <3>1. c # NULL /\ unlink'[j + 1].node = c
      BY <2>1, <1>5, <1>12
    <3> QED BY <2>1, <3>1, <1>2, <1>3, <1>5
  <2>2. CASE j # L
    <3>1. j \in 1..L /\ j + 1 \in 1..L
      BY <2>2, <1>5, <1>9, <1>12
    <3>2. unlink'[j] = unlink[j] /\ unlink'[j + 1].node = unlink[j + 1].node
      BY <2>2, <3>1, <1>5, <1>9
    <3> QED BY <2>2, <3>1, <3>2, <1>2, <1>8
  <2> QED BY <2>1, <2>2
<1>13. ASSUME NEW j \in 1..M, pParent'[unlink'[j].node] # Root
       PROVE  \E i \in 1..M : /\ i < j /\ unlink'[i].at = "brother"
                              /\ unlink'[i].node = pParent'[unlink'[j].node]
  <2>1. CASE j \in 1..L
    <3>1. PICK i \in 1..L : /\ i < j /\ unlink[i].at = "brother"
                            /\ unlink[i].node = pParent[unlink[j].node]
      BY <2>1, <1>2, <1>8, <1>9, <1>13
    <3>2. i # L
      BY <2>1, <3>1, <1>5
    <3> QED BY <2>1, <3>1, <3>2, <1>2, <1>5, <1>9
  <2>2. CASE j \notin 1..L
    <3>1. c # NULL /\ j = L + 1 /\ unlink'[j].node = c
      BY <2>2, <1>5, <1>9
    <3>2. CASE to = "brother"
      <4>1. L < j /\ unlink'[L].node = pParent'[unlink'[j].node] /\ L \in 1..M
        BY <3>1, <3>2, <1>2, <1>3, <1>5, <1>9
      <4> QED BY <3>2, <4>1, <1>5
    <3>3. CASE to # "brother"
      <4>1. pParent'[unlink'[j].node] = pParent[unlink[L].node]
        BY <3>1, <3>3, <1>2, <1>3
      <4>2. PICK i \in 1..L : /\ i < L /\ unlink[i].at = "brother"
                              /\ unlink[i].node = pParent[unlink[L].node]
        BY <4>1, <1>3, <1>8, <1>13
      <4> QED BY <3>1, <4>1, <4>2, <1>5, <1>9
    <3> QED BY <3>2, <3>3
  <2> QED BY <2>1, <2>2
<1>14. ASSUME NEW i \in 1..M, NEW j \in 1..M, i < j
       PROVE  /\ Depth(unlink[i].node) <= Depth(unlink'[j].node)
              /\ unlink'[i].at = "brother" =>
                   Depth(unlink[i].node) < Depth(unlink'[j].node)
              /\ unlink'[i].node = unlink[i].node
  <2>1. i \in 1..L /\ unlink'[i].node = unlink[i].node
    BY <1>5, <1>9, <1>14
  <2>2. CASE j \in 1..L
    <3>1. i # L /\ unlink'[i] = unlink[i]
      BY <2>1, <2>2, <1>5, <1>14
    <3> QED BY <2>1, <2>2, <3>1, <1>8, <1>9, <1>14
  <2>3. CASE j \notin 1..L
    <3>1. c # NULL /\ j = L + 1 /\ unlink'[j].node = c
      BY <2>3, <1>5, <1>9
    <3>2. /\ Depth(unlink[i].node) \in Nat /\ Depth(n) \in Nat
          /\ Depth(n) < iNodeType[n] /\ iNodeType[n] \in Nat
      BY <2>1, <1>1, <1>3, <1>8, Deeper, NodeTypes DEF TreeTypeOK
    <3>3. Depth(unlink[i].node) <= Depth(n)
      BY <2>1, <3>2, <1>3, <1>5, <1>8
    <3>4. CASE to = "brother"
      BY <2>1, <3>1, <3>2, <3>3, <3>4, <1>6
    <3>5. CASE to # "brother"
      <4>1. unlink'[i].at = "brother" => i # L
        BY <3>5, <1>2, <1>5
      <4>2. i # L =>
              /\ unlink'[i] = unlink[i] /\ i < L
              /\ unlink[i].at = "brother" => Depth(unlink[i].node) < Depth(n)
        BY <2>1, <1>3, <1>5, <1>8
      <4> QED BY <2>1, <3>1, <3>3, <3>5, <4>1, <4>2, <1>6
    <3> QED BY <3>4, <3>5
  <2> QED BY <2>2, <2>3
<1>15. CallsDescend'
  BY <1>2, <1>14 DEF CallsDescend, Calls, At, Unlinked, Depth
<1> QED BY <1>10, <1>11, <1>12, <1>13, <1>15 DEF CallsOK, Calls, At, Unlinked

\* When a node without a next brother is called for, so were all its brothers.
LEMMA AllCalled ==
  ASSUME TypeOK, TreeTypeOK, NodesOK, ChainsOK, CallsOK, unlink # <<>>,
         pParent[Top.node] # Root, pNextBrother[Top.node] = NULL
  PROVE  \A x \in Children(pParent[Top.node]) :
           \E k \in 1..Len(unlink) : x = unlink[k].node
<1> DEFINE L == Len(unlink)
           n == Top.node
<1>1. n = unlink[L].node /\ n \in alive /\ n \in Node /\ L \in 1..L
  BY TopIs DEF Unlinked, Calls
<1>2. L \in Nat
  BY TypeFacts
<1> HIDE DEF n, L
<1>3. PICK p \in alive : pParent[n] = p
  BY <1>1, Parents DEF n
<1>4. /\ \A j \in 1..L : unlink[j].node \in alive
      /\ \A j \in 1..L : j # L =>
           /\ unlink[j].at # "child"
           /\ unlink[j + 1].node =
                IF unlink[j].at = "brother" THEN pFirstChild[unlink[j].node]
                ELSE pNextBrother[unlink[j].node]
      /\ \A j \in 1..L : pParent[unlink[j].node] # Root =>
           \E i \in 1..L : /\ i < j /\ unlink[i].at = "brother"
                           /\ unlink[i].node = pParent[unlink[j].node]
      /\ \A i, j \in 1..L : i < j =>
           /\ Depth(unlink[i].node) <= Depth(unlink[j].node)
           /\ unlink[i].at = "brother" =>
                Depth(unlink[i].node) < Depth(unlink[j].node)
  BY CallsAre DEF L
<1>5. PICK i \in 1..L : /\ i < L /\ unlink[i].at = "brother"
                        /\ unlink[i].node = p
  BY <1>1, <1>3, <1>4 DEF n
<1>6. i + 1 \in 1..L /\ unlink[i + 1].node = pFirstChild[p]
  BY <1>2, <1>4, <1>5
<1> DEFINE T == {x \in Children(p) : \E k \in (i + 1)..L : x = unlink[k].node}
<1>7. /\ IsFiniteSet(Children(p)) /\ NULL \notin Children(p)
      /\ IsChain(Children(p), pFirstChild[p], pNextBrother)
      /\ pFirstChild[p] # NULL => pFirstChild[p] \in Children(p)
      /\ \A x \in Children(p) : pNextBrother[x] \in Children(p) \cup {NULL}
  BY <1>3, Linked
<1>8. pFirstChild[p] \in T
  <2>1. pFirstChild[p] \in alive
    BY <1>4, <1>6
  <2>2. pFirstChild[p] \in Children(p)
    BY <2>1, <1>7, NodeSets DEF TreeTypeOK
  <2>3. i + 1 \in (i + 1)..L
    BY <1>6
  <2> QED BY <2>2, <2>3, <1>6
<1>9. ASSUME NEW x \in T PROVE pNextBrother[x] \in T \cup {NULL}
  <2>1. PICK k \in (i + 1)..L : x = unlink[k].node
    BY <1>9
  <2>2. x \in Children(p)
    BY <1>9
  <2>3. CASE k = L
    BY <2>1, <2>3, <1>1 DEF n
  <2>4. CASE k # L
    <3>1. k \in 1..L /\ i < k /\ k < L /\ k + 1 \in (i + 1)..L
      BY <2>4, <1>2
    <3>2. Depth(x) = Depth(n)
      BY <2>2, <1>1, <1>3 DEF Children, Depth
    <3>3. Depth(n) \in Nat
      BY <1>1, Deeper
    <3>4. unlink[k].at # "brother"
      BY <2>1, <3>1, <3>2, <3>3, <1>1, <1>4 DEF n
    <3>5. unlink[k + 1].node = pNextBrother[x]
      BY <2>1, <2>4, <3>1, <3>4, <1>4
    <3> QED BY <2>2, <3>1, <3>5, <1>7
  <2> QED BY <2>3, <2>4
<1>10. T = Children(p)
  <2>1. T \in SUBSET Children(p)
    OBVIOUS
  <2> HIDE DEF T
  <2> QED BY <2>1, <1>7, <1>8, <1>9, ChainAll
<1>11. \A k \in (i + 1)..L : k \in 1..L
  OBVIOUS
<1>12. \A x \in Children(p) : \E k \in 1..L : x = unlink[k].node
  BY <1>10, <1>11
<1> QED BY <1>3, <1>12 DEF n, L

LEMMA DoneIs ==
  DoneOK <=>
    /\ \A j \in 1..Len(unlink) :
         unlink[j].at = "self" \/ (j = Len(unlink) /\ unlink[j].at = "brother")
         => \A c \in Children(unlink[j].node) : Remains(c)
    /\ unlink # <<>> /\ Top.at = "self" =>
         IF iNodeType[Top.node] = URL THEN pNextBrother[Top.node] = NULL
         ELSE \A x \in Children(pParent[Top.node]) :
                Remains(x) \/ \E k \in 1..Len(unlink) : x = unlink[k].node
BY DEF DoneOK, Calls, At, Unlinked

LEMMA CallingKeepsDone ==
  ASSUME Inv, NEW c, NEW to, Calling(c, to)
  PROVE  DoneOK'
<1> DEFINE L == Len(unlink)
           M == Len(unlink')
           n == Top.node
<1>1. /\ TypeOK /\ TreeTypeOK /\ NodesOK /\ ChainsOK /\ CallsOK /\ DoneOK
  BY TypeFacts DEF Inv
<1>2. /\ unlink # <<>>
      /\ UNCHANGED treeVars
      /\ CallFor(c, to) /\ to \in {"brother", "self"}
      /\ Top.at = IF to = "brother" THEN "child" ELSE "brother"
      /\ c = IF to = "brother" THEN pFirstChild[n] ELSE pNextBrother[n]
      /\ c \in Node \cup {NULL}
  BY DEF Calling
<1>3. /\ n = unlink[L].node /\ n \in alive /\ n \in Node /\ L \in 1..L
      /\ Top.at = unlink[L].at
  BY <1>1, <1>2, TopIs DEF Unlinked, At, Calls
<1>4. /\ L \in Nat /\ L >= 1
      /\ M = IF c = NULL THEN L ELSE L + 1
      /\ \A j \in 1..L : j # L => unlink'[j] = unlink[j]
      /\ unlink'[L].node = unlink[L].node /\ unlink'[L].at = to
      /\ c # NULL => /\ unlink'[L + 1].node = c
                     /\ unlink'[L + 1].at = "child"
  BY <1>1, <1>2, CallForIs
<1>5. /\ alive' = alive /\ iNodeType' = iNodeType /\ pParent' = pParent
      /\ pNextBrother' = pNextBrother /\ bUnlinkPoint' = bUnlinkPoint
  BY <1>2 DEF treeVars
<1>6. /\ \A j \in 1..L :
           unlink[j].at = "self" \/ (j = L /\ unlink[j].at = "brother")
           => \A x \in Children(unlink[j].node) : Remains(x)
      /\ Top.at = "self" =>
           IF iNodeType[Top.node] = URL THEN pNextBrother[Top.node] = NULL
           ELSE \A x \in Children(pParent[Top.node]) :
                  Remains(x) \/ \E k \in 1..L : x = unlink[k].node
  BY <1>1, <1>2, DoneIs
<1>7. pFirstChild[n] = NULL => Children(n) = {}
  BY <1>1, <1>3, Linked
<1> HIDE DEF L, n, M
<1>8. /\ \A m : Children(m)' = Children(m)
      /\ \A m : Remains(m)' <=> Remains(m)
  BY <1>5 DEF Children, Remains
<1>9. ASSUME NEW j \in 1..M,
             unlink'[j].at = "self" \/ (j = M /\ unlink'[j].at = "brother")
      PROVE  \A x \in Children(unlink'[j].node) : Remains(x)
  <2>1. CASE j = L
    <3>1. CASE to = "self"
      BY <2>1, <3>1, <1>2, <1>3, <1>4, <1>6
    <3>2. CASE to = "brother"
      BY <2>1, <3>2, <1>2, <1>3, <1>4, <1>7, <1>9
    <3> QED BY <3>1, <3>2, <1>2
  <2>2. CASE j # L
    <3>1. j \in 1..L /\ j # M
      BY <2>2, <1>4, <1>9
    <3> QED BY <2>2, <3>1, <1>4, <1>6, <1>9
  <2> QED BY <2>1, <2>2
<1>10. ASSUME unlink'[M].at = "self"
       PROVE  /\ unlink'[M].node = n
              /\ IF iNodeType[n] = URL THEN pNextBrother[n] = NULL
                 ELSE \A x \in Children(pParent[n]) :
                        Remains(x) \/ \E k \in 1..M : x = unlink'[k].node
  <2>1. M = L /\ to = "self" /\ c = NULL /\ pNextBrother[n] = NULL
    BY <1>2, <1>4, <1>10
  <2>2. unlink'[M].node = n
    BY <2>1, <1>3, <1>4
  <2>3. CASE iNodeType[n] = URL
    BY <2>1, <2>2, <2>3
  <2>4. CASE iNodeType[n] # URL
    <3>1. pParent[n] # Root
      BY <2>4, <1>1, <1>3, Parents
    <3>2. \A x \in Children(pParent[n]) :
            \E k \in 1..L : x = unlink[k].node
      BY <2>1, <3>1, <1>1, <1>2, AllCalled DEF n, L
    <3>3. \A k \in 1..L : unlink'[k].node = unlink[k].node
      BY <1>4
    <3> QED BY <2>1, <2>2, <2>4, <3>2, <3>3
  <2> QED BY <2>3, <2>4
<1>11. Top' = unlink'[M]
  BY DEF Top, Last, M
<1>12. (\A j \in Calls :
          At(j) = "self" \/ (j = Len(unlink) /\ At(j) = "brother") =>
            \A x \in Children(Unlinked(j)) : Remains(x))'
  BY <1>5, <1>9 DEF Calls, At, Unlinked, M, Children, Remains
<1>13. (unlink # <<>> /\ Top.at = "self" =>
          IF iNodeType[Top.node] = URL THEN pNextBrother[Top.node] = NULL
          ELSE \A x \in Children(pParent[Top.node]) :
                 Remains(x) \/ \E k \in Calls : x = Unlinked(k))'
  BY <1>5, <1>10, <1>11 DEF Calls, Unlinked, M, Children, Remains
<1> QED BY <1>12, <1>13 DEF DoneOK

\* The calls that have not returned are not for the innermost node again, nor
\* for one below.
LEMMA OtherCalls ==
  ASSUME TypeOK, TreeTypeOK, NodesOK, CallsOK, unlink # <<>>,
         pNextBrother[Top.node] = NULL
  PROVE  \A j \in 1..Len(unlink) : j # Len(unlink) =>
           unlink[j].node # Top.node /\ pParent[unlink[j].node] # Top.node
<1> DEFINE L == Len(unlink)
           n == Top.node
<1>1. n = unlink[L].node /\ n \in alive /\ n \in Node /\ L \in 1..L /\ L \in Nat
  BY TopIs, TypeFacts DEF Unlinked, Calls
<1> HIDE DEF n, L
<1>2. /\ \A j \in 1..L : unlink[j].node \in alive
      /\ \A j \in 1..L : j # L =>
           /\ unlink[j].at # "child"
           /\ unlink[j + 1].node =
                IF unlink[j].at = "brother" THEN pFirstChild[unlink[j].node]
                ELSE pNextBrother[unlink[j].node]
      /\ \A j \in 1..L : pParent[unlink[j].node] # Root =>
           \E i \in 1..L : /\ i < j /\ unlink[i].at = "brother"
                           /\ unlink[i].node = pParent[unlink[j].node]
      /\ \A i, j \in 1..L : i < j =>
           /\ Depth(unlink[i].node) <= Depth(unlink[j].node)
           /\ unlink[i].at = "brother" =>
                Depth(unlink[i].node) < Depth(unlink[j].node)
  BY CallsAre DEF L
<1>3. Depth(n) \in Nat
  BY <1>1, Deeper
<1>4. ASSUME NEW j \in 1..L, j # L PROVE unlink[j].node # n
  <2> SUFFICES ASSUME unlink[j].node = n PROVE FALSE
    OBVIOUS
  <2>1. j < L /\ j + 1 \in 1..L
    BY <1>1, <1>4
  <2>2. unlink[j].at # "brother"
    BY <2>1, <1>1, <1>2, <1>3
  <2>3. unlink[j + 1].node = pNextBrother[n]
    BY <2>2, <1>2, <1>4
  <2>4. unlink[j + 1].node \in alive
    BY <2>1, <1>2
  <2> QED BY <2>3, <2>4, NodeSets DEF TreeTypeOK, n
<1>5. ASSUME NEW j \in 1..L, j # L PROVE pParent[unlink[j].node] # n
  <2> SUFFICES ASSUME pParent[unlink[j].node] = n PROVE FALSE
    OBVIOUS
  <2>1. n # Root
    BY <1>1, AddressAssumption
  <2>2. PICK i \in 1..L : i < j /\ unlink[i].node = n
    BY <2>1, <1>2
  <2>3. i # L
    BY <2>2, <1>1, <1>5
  <2> QED BY <2>2, <2>3, <1>4
<1> QED BY <1>4, <1>5 DEF n, L

\* The innermost call returns; it has destroyed the nodes S, if any.
Returning(S) ==
  LET n == Top.node IN
  /\ pc = "unlink" /\ unlink # <<>> /\ pc' \in {"unlink", "uninitialize"}
  /\ walk' = walk /\ unlink' = Front(unlink)
  /\ Top.at = "self"
  /\ n \in alive
  /\ \/ S = {} /\ UNCHANGED treeVars
     \/ /\ IsBranch(n, S) /\ S \subseteq {n} \cup Children(n)
        /\ DestroyNodes(n, S) /\ pNextBrother[n] = NULL

LEMMA ReturningEffect ==
  ASSUME Inv, NEW S, Returning(S)
  PROVE  LET L == Len(unlink) IN
         /\ alive' = alive \ S /\ TreeTypeOK'
         /\ \A m \in Node \ S :
              /\ iNodeType'[m] = iNodeType[m]
              /\ pParent'[m] = pParent[m]
              /\ bUnlinkPoint'[m] = bUnlinkPoint[m]
              /\ pNextBrother[m] # Top.node =>
                   pNextBrother'[m] = pNextBrother[m]
         /\ \A m \in Tree \ S :
              pFirstChild[m] # Top.node => pFirstChild'[m] = pFirstChild[m]
         /\ \A j \in 1..L : j # L =>
              /\ unlink[j].node \in alive /\ unlink[j].node \notin S
              /\ S # {} => unlink[j].node # Top.node
<1>1. /\ TypeOK /\ TreeTypeOK /\ NodesOK /\ ChainsOK /\ CallsOK
  BY TypeFacts DEF Inv
<1>2. \A j \in 1..Len(unlink) : unlink[j].node \in alive
  BY <1>1, CallsAre
<1>3. CASE S = {} /\ UNCHANGED treeVars
  <2>1. TreeTypeOK'
    BY <1>1, <1>3 DEF TreeTypeOK, treeVars
  <2> QED BY <2>1, <1>2, <1>3 DEF treeVars
<1>4. CASE /\ IsBranch(Top.node, S)
           /\ S \subseteq {Top.node} \cup Children(Top.node)
           /\ DestroyNodes(Top.node, S) /\ pNextBrother[Top.node] = NULL
  <2>1. PICK n : n = Top.node
    OBVIOUS
  <2>2. /\ alive' = alive \ S /\ TreeTypeOK'
        /\ \A m \in Node \ S :
             /\ iNodeType'[m] = iNodeType[m]
             /\ pParent'[m] = pParent[m]
             /\ bUnlinkPoint'[m] = bUnlinkPoint[m]
             /\ pNextBrother'[m] = IF pNextBrother[m] = n THEN pNextBrother[n]
                                   ELSE pNextBrother[m]
        /\ \A m \in Tree \ S :
             pFirstChild'[m] = IF m = pParent[n] /\ pFirstChild[m] = n
                               THEN pNextBrother[n] ELSE pFirstChild[m]
    BY <2>1, <1>1, <1>4, DestroyEffect
  <2>3. unlink # <<>>
    BY DEF Returning
  <2>4. \A j \in 1..Len(unlink) : j # Len(unlink) =>
          unlink[j].node # n /\ pParent[unlink[j].node] # n
    BY <2>1, <2>3, <1>1, <1>4, OtherCalls
  <2>5. \A m \in S : m = n \/ pParent[m] = n
    BY <2>1, <1>4 DEF Children
  <2> QED BY <2>1, <2>2, <2>4, <2>5, <1>2
<1> QED BY <1>3, <1>4 DEF Returning

LEMMA ReturningKeepsCalls ==
  ASSUME Inv, NEW S, Returning(S)
  PROVE  CallsOK'
<1> DEFINE L == Len(unlink)
           M == Len(unlink')
           n == Top.node
<1>1. /\ TypeOK /\ TreeTypeOK /\ NodesOK /\ ChainsOK /\ CallsOK
  BY TypeFacts DEF Inv
<1>2. /\ unlink # <<>> /\ pc' \in {"unlink", "uninitialize"}
      /\ walk' = walk /\ unlink' = Front(unlink)
      /\ n \in alive
  BY DEF Returning
<1>3. /\ L \in Nat /\ L >= 1 /\ M = L - 1 /\ M \in Nat
      /\ \A j \in 1..M : unlink'[j] = unlink[j]
      /\ \A j \in 1..M : j \in 1..L /\ j # L /\ j + 1 \in 1..L
  BY <1>1, <1>2, ReturnIs
<1>4. /\ alive' = alive \ S /\ TreeTypeOK'
      /\ \A m \in Node \ S :
           /\ iNodeType'[m] = iNodeType[m]
           /\ pParent'[m] = pParent[m]
           /\ pNextBrother[m] # n => pNextBrother'[m] = pNextBrother[m]
      /\ \A m \in Tree \ S :
           pFirstChild[m] # n => pFirstChild'[m] = pFirstChild[m]
      /\ \A j \in 1..L : j # L =>
           /\ unlink[j].node \in alive /\ unlink[j].node \notin S
           /\ S # {} => unlink[j].node # n
  BY ReturningEffect
<1>5. S = {} => UNCHANGED treeVars
  BY DEF Returning, IsBranch
<1> HIDE DEF L, n, M
<1>6. /\ walk = <<>> /\ pParent[unlink[1].node] = Root
      /\ \A j \in 1..L : unlink[j].node \in alive
      /\ \A j \in 1..L : j # L =>
           /\ unlink[j].at # "child"
           /\ unlink[j + 1].node =
                IF unlink[j].at = "brother" THEN pFirstChild[unlink[j].node]
                ELSE pNextBrother[unlink[j].node]
      /\ \A j \in 1..L : pParent[unlink[j].node] # Root =>
           \E i \in 1..L : /\ i < j /\ unlink[i].at = "brother"
                           /\ unlink[i].node = pParent[unlink[j].node]
      /\ \A i, j \in 1..L : i < j =>
           /\ Depth(unlink[i].node) <= Depth(unlink[j].node)
           /\ unlink[i].at = "brother" =>
                Depth(unlink[i].node) < Depth(unlink[j].node)
  BY <1>1, <1>2, CallsAre DEF L
<1>7. \A m \in alive : m \in Node /\ m \in Tree
  BY <1>1 DEF TreeTypeOK, Tree
<1>8. \A j \in 1..M :
        /\ unlink[j].node \in Node \ S /\ unlink[j].node \in Tree \ S
        /\ pParent'[unlink[j].node] = pParent[unlink[j].node]
        /\ iNodeType'[unlink[j].node] = iNodeType[unlink[j].node]
  BY <1>3, <1>4, <1>7
<1>9. unlink' # <<>> => pParent'[unlink'[1].node] = Root
  <2>1. ASSUME unlink' # <<>> PROVE 1 \in 1..M
    <3>1. unlink' \in Seq(Frame)
      BY <1>1, <1>2, ReturnIs
    <3> QED BY <3>1, <2>1, <1>3 DEF M
  <2> QED BY <2>1, <1>3, <1>6, <1>8
<1>10. \A j \in 1..M : unlink'[j].node \in alive'
  BY <1>3, <1>4, <1>6, <1>8
<1>11. ASSUME NEW j \in 1..M, j # M
       PROVE  /\ unlink'[j].at # "child"
              /\ unlink'[j + 1].node =
                   IF unlink'[j].at = "brother"
                   THEN pFirstChild'[unlink'[j].node]
                   ELSE pNextBrother'[unlink'[j].node]
  <2>1. j + 1 \in 1..M /\ unlink'[j] = unlink[j]
        /\ unlink'[j + 1] = unlink[j + 1]
    BY <1>3, <1>11
  <2>2. /\ unlink[j].at # "child"
        /\ unlink[j + 1].node =
             IF unlink[j].at = "brother" THEN pFirstChild[unlink[j].node]
             ELSE pNextBrother[unlink[j].node]
    BY <1>3, <1>6
  <2>3. CASE S = {}
    BY <2>1, <2>2, <2>3, <1>5 DEF treeVars
  <2>4. CASE S # {}
    <3>1. unlink[j + 1].node # n
      BY <2>1, <2>4, <1>3, <1>4
    <3> QED BY <3>1, <2>1, <2>2, <1>4, <1>8
  <2> QED BY <2>3, <2>4
<1>12. ASSUME NEW j \in 1..M, pParent'[unlink'[j].node] # Root
       PROVE  \E i \in 1..M : /\ i < j /\ unlink'[i].at = "brother"
                              /\ unlink'[i].node = pParent'[unlink'[j].node]
  <2>1. PICK i \in 1..L : /\ i < j /\ unlink[i].at = "brother"
                          /\ unlink[i].node = pParent[unlink[j].node]
    BY <1>3, <1>6, <1>8, <1>12
  <2>2. i \in 1..M
    BY <2>1, <1>3
  <2> QED BY <2>1, <2>2, <1>3, <1>8
<1>13. ASSUME NEW j \in 1..M
       PROVE  /\ pParent'[unlink[j].node] = pParent[unlink[j].node]
              /\ pParent[unlink[j].node] # Root =>
                   iNodeType'[pParent[unlink[j].node]]
                     = iNodeType[pParent[unlink[j].node]]
  <2>1. pParent[unlink[j].node] # Root =>
          \E i \in 1..M : unlink[i].node = pParent[unlink[j].node]
    <3> SUFFICES ASSUME pParent[unlink[j].node] # Root
                 PROVE  \E i \in 1..M :
                          unlink[i].node = pParent[unlink[j].node]
      OBVIOUS
    <3>1. PICK i \in 1..L : /\ i < j
                            /\ unlink[i].node = pParent[unlink[j].node]
      BY <1>3, <1>6
    <3> QED BY <3>1, <1>3
  <2> QED BY <2>1, <1>8
<1>14. CallsDescend'
  <2>1. \A i, j \in 1..M : i < j =>
          /\ Depth(unlink[i].node) <= Depth(unlink[j].node)
          /\ unlink[i].at = "brother" =>
               Depth(unlink[i].node) < Depth(unlink[j].node)
    BY <1>3, <1>6
  <2> QED BY <2>1, <1>3, <1>13 DEF CallsDescend, Calls, At, Unlinked, Depth, M
<1> QED BY <1>2, <1>6, <1>9, <1>10, <1>11, <1>12, <1>14
        DEF CallsOK, Calls, At, Unlinked, M

\* A plugin's own node has no brother.
LEMMA OnlyChild ==
  TreeTypeOK /\ NodesOK /\ ChainsOK =>
    \A n \in alive : iNodeType[n] # URL /\ bUnlinkPoint[n] =>
      /\ pParent[n] \in alive /\ Children(pParent[n]) = {n}
      /\ pNextBrother[n] = NULL
<1> SUFFICES ASSUME TreeTypeOK, NodesOK, ChainsOK, NEW n \in alive,
                    iNodeType[n] # URL, bUnlinkPoint[n]
             PROVE  /\ pParent[n] \in alive /\ Children(pParent[n]) = {n}
                    /\ pNextBrother[n] = NULL
  OBVIOUS
<1>1. n \in Node /\ pParent[n] # Root /\ pParent[n] \in alive \cup {Root}
  BY Parents
<1>2. PICK p \in alive : pParent[n] = p
  BY <1>1
<1>3. Children(p) = {n}
  BY <1>1, <1>2, LiveBelow DEF NodesOK, LiveUnder
<1>4. IsChain({n}, pFirstChild[p], pNextBrother)
  BY <1>2, <1>3, Linked
<1>5. pNextBrother[n] = NULL
  BY <1>1, <1>4, SingleChain, AddressAssumption
<1> QED BY <1>2, <1>3, <1>5

LEMMA ReturningSteps ==
  Inv =>
    /\ UnlinkNothing => Returning({})
    /\ UnlinkURLNode => Returning({Top.node})
    /\ UnlinkPlugin => Returning(NodesOf(pNodeOwnerPluginInstance[Top.node]))
<1> SUFFICES ASSUME Inv, UnlinkNothing \/ UnlinkURLNode \/ UnlinkPlugin
             PROVE  /\ UnlinkNothing => Returning({})
                    /\ UnlinkURLNode => Returning({Top.node})
                    /\ UnlinkPlugin =>
                         Returning(NodesOf(pNodeOwnerPluginInstance[Top.node]))
  OBVIOUS
<1>1. /\ TypeOK /\ TreeTypeOK /\ NodesOK /\ ChainsOK /\ InstancesOK /\ CallsOK
      /\ DoneOK
  BY TypeFacts DEF Inv
<1>2. /\ pc = "unlink" /\ unlink # <<>> /\ pc' \in {"unlink", "uninitialize"}
      /\ walk' = walk /\ unlink' = Front(unlink) /\ Top.at = "self"
  BY DEF UnlinkNothing, UnlinkURLNode, UnlinkPlugin, Goto, openVars
<1>3. Top.node \in alive
  BY <1>1, <1>2, TopIs
<1>4. ASSUME UnlinkNothing PROVE Returning({})
  <2>1. UNCHANGED treeVars
    BY <1>4 DEF UnlinkNothing
  <2> QED BY <2>1, <1>2, <1>3 DEF Returning
<1>5. ASSUME UnlinkURLNode PROVE Returning({Top.node})
  <2>1. /\ pNextBrother[Top.node] = NULL
        /\ IsBranch(Top.node, {Top.node})
        /\ DestroyNodes(Top.node, {Top.node})
    BY <1>1, <1>5, UnlinkURLIs
  <2> QED BY <2>1, <1>2, <1>3 DEF Returning
<1>6. ASSUME UnlinkPlugin
      PROVE  Returning(NodesOf(pNodeOwnerPluginInstance[Top.node]))
  <2> DEFINE S == NodesOf(pNodeOwnerPluginInstance[Top.node])
  <2>1. /\ S = {Top.node} \cup Children(Top.node)
        /\ IsBranch(Top.node, S)
        /\ DestroyNodes(Top.node, S)
    BY <1>1, <1>6, UnlinkPluginIs
  <2>2. iNodeType[Top.node] # URL /\ bUnlinkPoint[Top.node]
    BY <1>6 DEF UnlinkPlugin
  <2>3. pNextBrother[Top.node] = NULL
    BY <2>2, <1>1, <1>3, OnlyChild
  <2> HIDE DEF S
  <2>4. S \subseteq {Top.node} \cup Children(Top.node)
    BY <2>1
  <2>5. Returning(S)
    BY <2>1, <2>3, <2>4, <1>2, <1>3 DEF Returning
  <2> QED BY <2>5 DEF S
<1> QED BY <1>4, <1>5, <1>6

\* DoneOK after a step, with the calls spelled out.
LEMMA PrimedDoneIs ==
  LET M == Len(unlink') IN
  DoneOK' <=>
    /\ \A j \in 1..M :
         unlink'[j].at = "self" \/ (j = M /\ unlink'[j].at = "brother") =>
           \A x \in alive' : pParent'[x] = unlink'[j].node => Remains(x)'
    /\ unlink' # <<>> /\ unlink'[M].at = "self" =>
         IF iNodeType'[unlink'[M].node] = URL
         THEN pNextBrother'[unlink'[M].node] = NULL
         ELSE \A x \in alive' : pParent'[x] = pParent'[unlink'[M].node] =>
                Remains(x)' \/ \E k \in 1..M : x = unlink'[k].node
BY DEF DoneOK, Calls, At, Unlinked, Top, Last, Children

\* What is left to unlink when a call returns.
LEMMA ReturningKeepsDone ==
  ASSUME Inv, UnlinkNothing \/ UnlinkURLNode \/ UnlinkPlugin
  PROVE  DoneOK'
<1> DEFINE L == Len(unlink)
           M == Len(unlink')
           n == Top.node
           S == IF UnlinkNothing THEN {}
                ELSE IF UnlinkURLNode THEN {n}
                ELSE NodesOf(pNodeOwnerPluginInstance[n])
<1>1. /\ TypeOK /\ TreeTypeOK /\ NodesOK /\ ChainsOK /\ CallsOK /\ DoneOK
      /\ InstancesOK
  BY TypeFacts DEF Inv
<1>2. Returning(S)
  BY ReturningSteps
<1>3. /\ unlink # <<>> /\ unlink' = Front(unlink) /\ n \in alive
      /\ Top.at = "self"
  BY <1>2 DEF Returning
<1>4. /\ L \in Nat /\ L >= 1 /\ M = L - 1 /\ M \in Nat
      /\ \A j \in 1..M : unlink'[j] = unlink[j]
      /\ \A j \in 1..M : j \in 1..L /\ j # L /\ j + 1 \in 1..L
  BY <1>1, <1>3, ReturnIs
<1>5. /\ n = unlink[L].node /\ unlink[L].at = "self" /\ n \in Node
      /\ L \in 1..L
  BY <1>1, <1>3, TopIs DEF Unlinked, At, Calls
<1> HIDE DEF S
<1>6. /\ alive' = alive \ S
      /\ \A m \in Node \ S :
           /\ iNodeType'[m] = iNodeType[m]
           /\ pParent'[m] = pParent[m]
           /\ bUnlinkPoint'[m] = bUnlinkPoint[m]
           /\ pNextBrother[m] # n => pNextBrother'[m] = pNextBrother[m]
      /\ \A j \in 1..L : j # L =>
           /\ unlink[j].node \in alive /\ unlink[j].node \notin S
           /\ S # {} => unlink[j].node # n
  BY <1>2, ReturningEffect
<1>7. /\ \A j \in 1..L :
           unlink[j].at = "self" \/ (j = L /\ unlink[j].at = "brother")
           => \A x \in Children(unlink[j].node) : Remains(x)
      /\ IF iNodeType[n] = URL THEN pNextBrother[n] = NULL
         ELSE \A x \in Children(pParent[n]) :
                Remains(x) \/ \E k \in 1..L : x = unlink[k].node
  BY <1>1, <1>3, DoneIs
<1>8. /\ \A j \in 1..L : j # L =>
           /\ unlink[j].at # "child"
           /\ unlink[j + 1].node =
                IF unlink[j].at = "brother" THEN pFirstChild[unlink[j].node]
                ELSE pNextBrother[unlink[j].node]
      /\ \A j \in 1..L : unlink[j].at \in {"child", "brother", "self"}
      /\ \A i, j \in 1..L : i < j =>
           Depth(unlink[i].node) <= Depth(unlink[j].node)
  <2>1. \A x \in Frame : x.at \in {"child", "brother", "self"}
    BY DEF Frame
  <2> QED BY <2>1, <1>1, CallsAre, TypeFacts
<1> HIDE DEF L, n, M
<1>9. \A m \in alive : m \in Node
  BY <1>1 DEF TreeTypeOK
<1>10. /\ \A q : \A x \in Children(q)' : x \in Children(q) /\ x \notin S
       /\ \A x \in alive : Remains(x) /\ x \notin S => Remains(x)'
  <2>1. \A q : \A x \in Children(q)' : x \in Children(q) /\ x \notin S
    BY <1>6, <1>9 DEF Children
  <2> QED BY <2>1, <1>6, <1>9 DEF Remains
\* The last of the other calls is for the parent, or for the brother before.
<1>11. ASSUME M >= 1
       PROVE  LET m == unlink[M].node IN
              /\ m \in alive /\ m \in Node \ S
              /\ unlink[M].at = "brother" => pParent[n] = m
              /\ unlink[M].at = "self" =>
                   pNextBrother[m] = n /\ pParent[n] = pParent[m]
              /\ unlink[M].at # "child"
  <2> DEFINE m == unlink[M].node
  <2>1. M \in 1..M /\ M \in 1..L /\ M # L /\ M + 1 = L
    BY <1>4, <1>11
  <2>2. /\ m \in alive /\ m \in Node \ S /\ unlink[M].at # "child"
        /\ n = IF unlink[M].at = "brother" THEN pFirstChild[m]
               ELSE pNextBrother[m]
    BY <2>1, <1>5, <1>6, <1>8, <1>9
  <2> HIDE DEF m
  <2>3. n # NULL
    BY <1>5, AddressAssumption
  <2>4. unlink[M].at = "brother" => n \in Children(m)
    BY <2>2, <2>3, <1>1, Linked
  <2>5. unlink[M].at = "self" => n \in Children(pParent[m])
    BY <2>2, <2>3, <1>1, Linked, Parents
  <2> QED BY <2>2, <2>4, <2>5 DEF Children, m
<1>12. ASSUME NEW j \in 1..M, unlink'[j].at = "self",
              NEW x \in alive', pParent'[x] = unlink'[j].node
       PROVE  Remains(x)'
  <2>1. PICK q : q = unlink[j].node
    OBVIOUS
  <2>2. x \in Children(q)'
    BY <2>1, <1>4, <1>12 DEF Children
  <2>3. x \in Children(q) /\ x \notin S
    BY <2>2, <1>10
  <2>4. x \in alive /\ Remains(x)
    BY <2>1, <2>3, <1>4, <1>7, <1>12 DEF Children
  <2> QED BY <2>3, <2>4, <1>10
<1>13. CASE UnlinkNothing
  <2>1. S = {} /\ iNodeType[n] # URL /\ ~ bUnlinkPoint[n] /\ UNCHANGED treeVars
    BY <1>13 DEF UnlinkNothing, S, n
  <2>2. pParent[n] # Root
    BY <2>1, <1>1, <1>3, Parents DEF n
  <2>3. PICK p \in alive : pParent[n] = p
    BY <2>2, <1>1, <1>3, Parents DEF n
  <2>4. LiveUnder(n, p) /\ p \in Node /\ p # Root /\ n \in alive
    BY <2>3, <1>1, <1>3, <1>5, LiveBelow, Parents DEF NodesOK, n
  <2>5. Remains(n)
    <3>1. ASSUME NEW c \in Children(n) PROVE FALSE
      <4>1. c \in alive /\ pParent[c] = n
        BY <3>1 DEF Children
      <4>2. c \in Node /\ LiveUnder(c, n)
        BY <4>1, <2>4, <1>1, LiveBelow, Parents DEF NodesOK
      <4>3. Remains(c)
        BY <3>1, <1>5, <1>7
      <4> QED BY <4>2, <4>3, <2>1 DEF LiveUnder, Remains
    <3> QED BY <3>1, <2>1 DEF Remains
  <2>7. ASSUME NEW x \in Children(p), ~ Remains(x)
        PROVE  M >= 1 /\ unlink[M].at # "brother"
               /\ \E k \in 1..M : x = unlink[k].node
    <3>1. PICK k \in 1..L : x = unlink[k].node
      BY <2>1, <2>3, <2>7, <1>7
    <3>2. k # L /\ k \in 1..M
      BY <3>1, <2>5, <2>7, <1>4, <1>5
    <3>3. M >= 1
      BY <3>2, <1>4
    <3>4. ASSUME unlink[M].at = "brother" PROVE FALSE
      <4>1. unlink[M].node = p
        BY <3>3, <3>4, <2>3, <1>11
      <4>2. Depth(x) = iNodeType[p] /\ Depth(p) < iNodeType[p]
            /\ Depth(p) \in Nat /\ iNodeType[p] \in Nat
        BY <2>4, <2>7, <1>1, Deeper, NodeTypes DEF TreeTypeOK
      <4>3. k # M
        BY <3>1, <4>1, <4>2
      <4>4. Depth(x) <= Depth(p)
        BY <3>1, <3>2, <4>1, <4>3, <1>4, <1>8
      <4> QED BY <4>2, <4>4
    <3> QED BY <3>1, <3>2, <3>3, <3>4
  <2>8. /\ \A m : Children(m)' = Children(m)
        /\ \A m : Remains(m)' <=> Remains(m)
    BY <2>1 DEF Children, Remains, treeVars
  <2>9. ASSUME M >= 1, unlink'[M].at = "brother",
               NEW x \in alive', pParent'[x] = unlink'[M].node
        PROVE  Remains(x)'
    <3>1. unlink'[M] = unlink[M]
      BY <2>9, <1>4
    <3>2. unlink'[M].node = p
      BY <3>1, <2>3, <2>9, <1>11
    <3>3. x \in Children(p)
      BY <3>2, <2>1, <2>9 DEF Children, treeVars
    <3> QED BY <3>1, <3>3, <2>7, <2>8, <2>9
  <2>10. ASSUME M >= 1, unlink'[M].at = "self"
         PROVE  /\ iNodeType[unlink'[M].node] # URL
                /\ pParent[unlink'[M].node] = p
                /\ \A x \in Children(p) :
                     Remains(x) \/ \E k \in 1..M : x = unlink'[k].node
    <3>1. unlink'[M] = unlink[M]
      BY <2>10, <1>4
    <3>2. pParent[unlink'[M].node] = p /\ unlink'[M].node \in alive
      BY <3>1, <2>3, <2>10, <1>11
    <3>3. iNodeType[unlink'[M].node] # URL
      BY <3>2, <2>4, <1>1, Parents
    <3> QED BY <3>2, <3>3, <2>7, <1>4
  <2>11. \A x \in alive' : pParent'[x] = p => x \in Children(p)
    BY <2>1 DEF Children, treeVars
  <2>12. unlink' # <<>> => M >= 1
    BY <1>1, <1>3, <1>4, ReturnIs DEF M
  <2>13. unlink' # <<>> /\ unlink'[M].at = "self" =>
           IF iNodeType'[unlink'[M].node] = URL
           THEN pNextBrother'[unlink'[M].node] = NULL
           ELSE \A x \in alive' : pParent'[x] = pParent'[unlink'[M].node] =>
                  Remains(x)' \/ \E k \in 1..M : x = unlink'[k].node
    BY <2>1, <2>8, <2>10, <2>11, <2>12 DEF treeVars
  <2> QED BY <2>9, <2>13, <1>4, <1>12, PrimedDoneIs DEF M
<1>14. CASE UnlinkURLNode
  <2>1. ~ UnlinkNothing /\ S = {n} /\ iNodeType[n] = URL
    BY <1>14 DEF UnlinkNothing, UnlinkURLNode, S, n
  <2>2. pParent[n] = Root /\ pNextBrother[n] = NULL
    BY <1>1, <1>14, UnlinkURLIs DEF n
  <2>3. DestroyNodes(n, S)
    BY <2>1, <1>1, <1>14, UnlinkURLIs DEF n
  <2>4. M >= 1 => unlink[M].at = "self"
    <3>1. M >= 1 => M \in 1..L /\ unlink[M].node \in Node
      BY <1>4, <1>6, <1>9
    <3> QED BY <3>1, <2>2, <1>8, <1>11, AddressAssumption
  <2>5. ASSUME M >= 1
        PROVE  /\ iNodeType'[unlink'[M].node] = URL
               /\ pNextBrother'[unlink'[M].node] = NULL
    <3> DEFINE m == unlink[M].node
    <3>1. unlink'[M] = unlink[M]
      BY <2>5, <1>4
    <3>2. /\ m \in alive /\ m \in Node \ S /\ pParent[m] = Root
          /\ pNextBrother[m] = n
      BY <2>2, <2>4, <2>5, <1>11
    <3>3. iNodeType[m] = URL
      BY <3>2, <1>1, Parents
    <3>4. pNextBrother'[m] = NULL
      BY <3>2, <2>2, <2>3 DEF DestroyNodes, Detach
    <3> QED BY <3>1, <3>2, <3>3, <3>4, <1>6
  <2>6. unlink' # <<>> => M >= 1
    BY <1>1, <1>3, <1>4, ReturnIs DEF M
  <2>7. \A j \in 1..M : unlink'[j].at = "self" \/ j # M
    BY <2>4, <1>4
  <2> QED BY <2>5, <2>6, <2>7, <1>4, <1>12, PrimedDoneIs DEF M
<1>15. CASE UnlinkPlugin
  <2>1. /\ ~ UnlinkNothing /\ ~ UnlinkURLNode
        /\ S = NodesOf(pNodeOwnerPluginInstance[n])
        /\ iNodeType[n] # URL /\ bUnlinkPoint[n]
    BY <1>15 DEF UnlinkNothing, UnlinkURLNode, UnlinkPlugin, S, n
  <2>2. IsBranch(n, S)
    BY <2>1, <1>1, <1>15, UnlinkPluginIs DEF n
  <2>3. n \in S
    BY <2>2 DEF IsBranch
  <2>4. PICK p \in alive : pParent[n] = p
    BY <2>1, <1>1, <1>3, OnlyChild DEF n
  <2>5. Children(p) = {n}
    BY <2>1, <2>4, <1>1, <1>3, OnlyChild DEF n
  <2>6. ASSUME M >= 1 PROVE unlink[M].at = "brother" /\ unlink[M].node = p
    <3>1. M \in 1..L /\ M # L
      BY <2>6, <1>4
    <3>2. unlink[M].at # "self"
      <4> SUFFICES ASSUME unlink[M].at = "self" PROVE FALSE
        OBVIOUS
      <4>1. unlink[M].node \in alive /\ pParent[unlink[M].node] = p
        BY <2>4, <2>6, <1>11
      <4>2. unlink[M].node = n
        BY <4>1, <2>5 DEF Children
      <4> QED BY <3>1, <4>2, <2>3, <1>6
    <3> QED BY <3>1, <3>2, <2>4, <2>6, <1>8, <1>11
  <2>7. ASSUME M >= 1
        PROVE  /\ unlink'[M].at = "brother"
               /\ \A x \in alive' : pParent'[x] # unlink'[M].node
    <3>1. Children(p)' = {}
      BY <2>3, <2>5, <1>10
    <3>2. unlink'[M].at = "brother" /\ unlink'[M].node = p
      BY <2>6, <2>7, <1>4
    <3> QED BY <3>1, <3>2 DEF Children
  <2>8. unlink' # <<>> => M >= 1
    BY <1>1, <1>3, <1>4, ReturnIs DEF M
  <2>9. \A j \in 1..M : j = M => M >= 1
    BY <1>4
  <2> QED BY <2>7, <2>8, <2>9, <1>12, PrimedDoneIs DEF M
<1> QED BY <1>13, <1>14, <1>15

\* The first call, for a URL node.
LEMMA FirstCall ==
  ASSUME NEW n \in alive, pParent[n] = Root, unlink' = <<Call(n)>>,
         walk' = <<>>, pc' = "unlink", UNCHANGED treeVars
  PROVE  CallsOK' /\ DoneOK'
<1>1. /\ Len(unlink') = 1 /\ unlink'[1].node = n /\ unlink'[1].at = "child"
      /\ alive' = alive /\ pParent' = pParent
      /\ 1..Len(unlink') = {1}
  BY DEF Call, treeVars
<1>2. CallsDescend'
  BY <1>1 DEF CallsDescend, Calls, At, Unlinked
<1>3. CallsOK'
  BY <1>1, <1>2 DEF CallsOK, Calls, At, Unlinked
<1> QED BY <1>1, <1>3, PrimedDoneIs

LEMMA SameCalls ==
  ASSUME CallsOK, DoneOK, UNCHANGED <<treeVars, unlink>>, walk' = walk,
         pc' \in {"unlink", "uninitialize", "unload", "crashed"}
  PROVE  CallsOK' /\ DoneOK'
<1>1. CallsDescend'
  BY DEF CallsOK, CallsDescend, Calls, At, Unlinked, Depth, treeVars
<1>2. CallsOK'
  BY <1>1 DEF CallsOK, Calls, At, Unlinked, treeVars
<1>3. DoneOK'
  BY DEF DoneOK, Calls, At, Unlinked, Top, Last, Children, Remains, treeVars
<1> QED BY <1>2, <1>3

LEMMA StackKept == Inv /\ [Next]_vars => CallsOK' /\ DoneOK'
<1> SUFFICES ASSUME Inv, [Next]_vars PROVE CallsOK' /\ DoneOK'
  OBVIOUS
<1> USE DEF Goto
<1>1. /\ TypeOK /\ TreeTypeOK /\ NodesOK /\ ChainsOK /\ WalkOK /\ CallsOK
      /\ DoneOK /\ UrlsOK
  BY TypeFacts DEF Inv
<1>2. /\ walk # <<>> => unlink = <<>>
      /\ pc \in {"idle", "open"} => unlink = <<>> /\ walk = <<>>
      /\ pc \in {"load", "initialize", "examine", "link", "deeper", "visit",
                 "next", "reject"} => unlink = <<>>
      /\ unlink # <<>> => walk = <<>>
  <2>1. pc \in {"load", "initialize", "examine", "link", "deeper", "visit",
                "next", "reject"} => walk # <<>>
    BY <1>1 DEF WalkOK
  <2>2. pc \in {"idle", "open"} => walk = <<>>
    BY <1>1 DEF WalkOK
  <2> QED BY <2>1, <2>2, <1>1, NoCalls
<1>3. ASSUME unlink = <<>>, unlink' = unlink PROVE CallsOK' /\ DoneOK'
  BY <1>3, PrimedEmptyCalls
<1>4. ASSUME NEW level \in OpenLevels, MMIOOpen(level)
      PROVE  CallsOK' /\ DoneOK'
  BY <1>2, <1>3, <1>4 DEF MMIOOpen
<1>5. ASSUME NEW k \in DOMAIN urls, MMIOClose(k) PROVE CallsOK' /\ DoneOK'
  <2>1. k \in 1..Len(urls)
    <3>1. urls \in Seq(Node)
      BY <1>1 DEF TypeOK
    <3> QED BY <3>1
  <2>2. PICK n : n = urls[k]
    OBVIOUS
  <2>3. n \in alive /\ pParent[n] = Root
    BY <2>1, <2>2, <1>1 DEF UrlsOK
  <2>4. /\ unlink' = <<Call(n)>> /\ walk' = <<>> /\ pc' = "unlink"
        /\ UNCHANGED treeVars
    BY <1>2, <1>5, <2>2 DEF MMIOClose, openVars
  <2> QED BY <2>3, <2>4, FirstCall
<1>6. CASE MMIOInitialize
  BY <1>2, <1>3, <1>6 DEF MMIOInitialize
<1>7. CASE MMIOUninitialize
  <2>1. pc = "idle" /\ walk' = <<>> /\ UNCHANGED treeVars
    BY <1>2, <1>7 DEF MMIOUninitialize, openVars
  <2>2. CASE pFirstChild[Root] = NULL
    BY <2>1, <2>2, <1>2, <1>3, <1>7 DEF MMIOUninitialize
  <2>3. CASE pFirstChild[Root] # NULL
    <3>1. pFirstChild[Root] \in Children(Root)
      BY <2>3, <1>1, Linked
    <3>2. pFirstChild[Root] \in alive /\ pParent[pFirstChild[Root]] = Root
      BY <3>1 DEF Children
    <3>3. unlink' = <<Call(pFirstChild[Root])>> /\ pc' = "unlink"
      BY <2>3, <1>7 DEF MMIOUninitialize
    <3> QED BY <2>1, <3>2, <3>3, FirstCall
  <2> QED BY <2>2, <2>3
<1>8. CASE CreateURLNode \/ FailOpen
  BY <1>2, <1>3, <1>8 DEF CreateURLNode, FailOpen
<1>9. CASE MMIOLoadPlugin \/ FailLoad \/ MMIOInitializePlugin
           \/ FailInitialize
  BY <1>2, <1>3, <1>9 DEF MMIOLoadPlugin, FailLoad, MMIOInitializePlugin,
                          FailInitialize
<1>10. CASE Examine \/ FailNode \/ MMIOLinkPluginToNode
  BY <1>2, <1>3, <1>10 DEF Examine, FailNode, MMIOLinkPluginToNode
<1>11. CASE WalkDeeper \/ Visit \/ NextBrother \/ ReturnOpen
            \/ DestroyURLNode
  BY <1>2, <1>3, <1>11 DEF WalkDeeper, Visit, NextBrother, ReturnOpen,
                           DestroyURLNode
<1>12. ASSUME unlink # <<>>, UNCHANGED <<treeVars, unlink>>, walk' = walk,
              pc' \in {"unlink", "uninitialize", "unload", "crashed"}
       PROVE  CallsOK' /\ DoneOK'
  BY <1>1, <1>12, SameCalls
<1>13. CASE MMIOUninitializePlugin
  <2>1. /\ pc' = "unload" /\ UNCHANGED <<treeVars, unlink>> /\ walk' = walk
    BY <1>13 DEF MMIOUninitializePlugin, openVars
  <2> QED BY <2>1, <1>3, <1>12
<1>14. CASE MMIOUnloadPlugin
  <2>1. /\ UNCHANGED <<treeVars, unlink>> /\ walk' = walk
        /\ walk = <<>> => pc' = "unlink"
    BY <1>14 DEF MMIOUnloadPlugin
  <2> QED BY <2>1, <1>2, <1>3, <1>12
<1>15. CASE UnlinkChild
  BY <1>15, CallingSteps, CallingKeepsCalls, CallingKeepsDone
<1>16. CASE UnlinkBrother
  BY <1>16, CallingSteps, CallingKeepsCalls, CallingKeepsDone
<1>17. CASE UnlinkNothing \/ UnlinkURLNode \/ UnlinkPlugin
  <2>1. \E S : Returning(S)
    BY <1>17, ReturningSteps
  <2> QED BY <2>1, <1>17, ReturningKeepsCalls, ReturningKeepsDone
<1>18. CASE ReturnClose
  BY <1>3, <1>18 DEF ReturnClose
<1>19. CASE CallNoPlugin
  <2>1. /\ UNCHANGED <<treeVars, unlink>> /\ walk' = walk /\ pc' = "crashed"
    BY <1>19 DEF CallNoPlugin, openVars
  <2> QED BY <2>1, <1>3, <1>12
<1>20. CASE UNCHANGED vars
  <2>1. /\ UNCHANGED <<treeVars, unlink>> /\ walk' = walk /\ pc' = pc
    BY <1>20 DEF vars, openVars
  <2>2. unlink # <<>> =>
          pc \in {"unlink", "uninitialize", "unload", "crashed"}
    BY <1>1 DEF CallsOK
  <2> QED BY <2>1, <2>2, <1>3, <1>12
<1> QED
  BY <1>4, <1>5, <1>6, <1>7, <1>8, <1>9, <1>10, <1>11, <1>13, <1>14, <1>15,
     <1>16, <1>17, <1>18, <1>19, <1>20
  DEF Next, Step

-----------------------------------------------------------------------------
(* The open URLs.                                                          *)

\* What is below an open URL.
LEMMA OldIs ==
  TreeTypeOK /\ NodesOK /\ OpenURLs \subseteq alive =>
    /\ Old \subseteq alive /\ OpenURLs \subseteq Old
    /\ \A m \in alive : m \in Old <=> m \in OpenURLs \/ pParent[m] \in Old
<1> SUFFICES ASSUME TreeTypeOK, NodesOK, OpenURLs \subseteq alive
             PROVE  /\ Old \subseteq alive /\ OpenURLs \subseteq Old
                    /\ \A m \in alive :
                         m \in Old <=> m \in OpenURLs \/ pParent[m] \in Old
  OBVIOUS
<1>1. \A n \in OpenURLs :
        /\ n \in alive /\ Below(n) \subseteq alive
        /\ \A m \in alive : m \in Below(n) <=> m = n \/ pParent[m] \in Below(n)
  BY BelowIs DEF TreeTypeOK
<1> HIDE DEF OpenURLs
<1>2. \A m : m \in Old <=> \E n \in OpenURLs : m \in Below(n)
  BY DEF Old
<1> QED BY <1>1, <1>2

LEMMA PrimedOldIs ==
  TreeTypeOK' /\ NodesOK' /\ OpenURLs' \subseteq alive' =>
    /\ Old' \subseteq alive' /\ OpenURLs' \subseteq Old'
    /\ \A m \in alive' : m \in Old' <=> m \in OpenURLs' \/ pParent'[m] \in Old'
<1>1. (TreeTypeOK /\ NodesOK /\ OpenURLs \subseteq alive)' =>
        (/\ Old \subseteq alive /\ OpenURLs \subseteq Old
         /\ \A m \in alive : m \in Old <=> m \in OpenURLs \/ pParent[m] \in Old)'
  BY OldIs, PTL
<1> QED BY <1>1

LEMMA PrimedTopmost ==
  TreeTypeOK' /\ NodesOK' =>
    \A T \in SUBSET alive' : T # {} => \E m \in T : pParent'[m] \notin T
<1>1. (TreeTypeOK /\ NodesOK)' =>
        (\A T \in SUBSET alive : T # {} => \E m \in T : pParent[m] \notin T)'
  BY Topmost, PTL
<1> QED BY <1>1

LEMMA UrlFacts ==
  TypeOK /\ UrlsOK =>
    /\ OpenURLs \subseteq alive
    /\ \A n \in OpenURLs : pParent[n] = Root
    /\ \A k \in 1..Len(urls) : urls[k] \in OpenURLs
BY DEF UrlsOK, OpenURLs

\* The brothers and the children of a node are as old as it is.
LEMMA OldNodes ==
  Inv =>
    /\ Old \subseteq alive /\ NULL \notin Old /\ Root \notin Old
    /\ OpenURLs \subseteq Old
    /\ \A n \in alive : n \notin Old =>
         pNextBrother[n] \notin Old /\ pFirstChild[n] \notin Old
<1> SUFFICES ASSUME Inv
             PROVE  /\ Old \subseteq alive /\ NULL \notin Old /\ Root \notin Old
                    /\ OpenURLs \subseteq Old
                    /\ \A n \in alive : n \notin Old =>
                         /\ pNextBrother[n] \notin Old
                         /\ pFirstChild[n] \notin Old
  OBVIOUS
<1>1. TypeOK /\ TreeTypeOK /\ NodesOK /\ ChainsOK /\ UrlsOK
  BY TypeFacts DEF Inv
<1>2. /\ OpenURLs \subseteq alive
      /\ \A n \in OpenURLs : pParent[n] = Root
      /\ \A k \in 1..Len(urls) : urls[k] \in OpenURLs
  BY <1>1, UrlFacts
<1>3. /\ Old \subseteq alive /\ OpenURLs \subseteq Old
      /\ \A m \in alive : m \in Old <=> m \in OpenURLs \/ pParent[m] \in Old
  BY <1>1, <1>2, OldIs
<1>4. NULL \notin Old /\ Root \notin Old /\ Root \notin alive
  BY <1>1, <1>3, AddressAssumption DEF TreeTypeOK
<1> HIDE DEF OpenURLs, Old
<1>5. ASSUME NEW n \in alive, n \notin Old, pNextBrother[n] \in Old
      PROVE  FALSE
  <2>1. PICK x \in Old : pNextBrother[n] = x
    BY <1>5
  <2>2. PICK p \in alive \cup {Root} : pParent[n] = p /\ n \in Children(p)
    BY <1>1, Parents
  <2>3. x \in Children(p) /\ x # pFirstChild[p]
    BY <2>1, <2>2, <1>1, <1>4, Linked
  <2>4. pParent[x] = p /\ x \in alive
    BY <2>3 DEF Children
  <2>5. p \notin Old
    BY <2>2, <1>3, <1>5
  <2>6. x \in OpenURLs /\ p = Root
    BY <2>1, <2>4, <2>5, <1>2, <1>3
  <2>7. PICK k \in 1..Len(urls) : urls[k] = x
    BY <2>6 DEF OpenURLs
  <2>8. Len(urls) \in Nat /\ urls # <<>>
    BY <2>7, <1>1, TypeFacts
  <2>9. k # 1
    BY <2>3, <2>6, <2>7, <2>8, <1>1 DEF UrlsOK
  <2>10. k - 1 \in 1..Len(urls) /\ k - 1 # Len(urls)
    BY <2>7, <2>8, <2>9
  <2>11. pNextBrother[urls[k - 1]] = x
    BY <2>7, <2>8, <2>10, <1>1 DEF UrlsOK
  <2>12. urls[k - 1] \in OpenURLs
    BY <2>10, <1>2
  <2>13. urls[k - 1] \in Children(p)
    BY <2>6, <2>12, <1>2 DEF Children
  <2>14. urls[k - 1] = n
    BY <2>1, <2>2, <2>11, <2>13, <1>1, Linked
  <2> QED BY <2>12, <2>14, <1>3, <1>5
<1>6. ASSUME NEW n \in alive, n \notin Old, pFirstChild[n] \in Old
      PROVE  FALSE
  <2>1. pFirstChild[n] \in Children(n)
    BY <1>1, <1>4, <1>6, Linked
  <2>2. pParent[pFirstChild[n]] = n /\ n # Root
    BY <2>1, <1>4 DEF Children
  <2> QED BY <2>2, <1>2, <1>3, <1>6
<1> QED BY <1>3, <1>4, <1>5, <1>6

\* The nodes below a node that is not old are not, either.
LEMMA BranchNotOld ==
  ASSUME Inv, NEW n, NEW S, IsBranch(n, S), n \notin Old
  PROVE  S \cap Old = {}
<1>1. TypeOK /\ TreeTypeOK /\ NodesOK /\ UrlsOK
  BY TypeFacts DEF Inv
<1>2. /\ OpenURLs \subseteq alive
      /\ \A x \in OpenURLs : pParent[x] = Root
  BY <1>1, UrlFacts
<1>3. \A m \in alive : m \in Old <=> m \in OpenURLs \/ pParent[m] \in Old
  BY <1>1, <1>2, OldIs
<1>4. /\ S \subseteq alive /\ Root \notin S
      /\ \A m \in alive : m \in S <=> m = n \/ pParent[m] \in S
  BY <1>1, AddressAssumption DEF IsBranch, TreeTypeOK
<1> HIDE DEF Old, OpenURLs
<1> SUFFICES ASSUME S \cap Old # {} PROVE FALSE
  OBVIOUS
<1>5. S \cap Old \in SUBSET alive
  BY <1>4
<1>6. PICK m \in S \cap Old : pParent[m] \notin S \cap Old
  BY <1>1, <1>5, Topmost
<1>7. m \in alive /\ m # n
  BY <1>4, <1>6
<1>8. pParent[m] \in S
  BY <1>4, <1>6, <1>7
<1>9. m \in OpenURLs
  BY <1>3, <1>6, <1>7, <1>8
<1> QED BY <1>2, <1>4, <1>8, <1>9

\* No step makes a node old.
LEMMA OldShrinks ==
  ASSUME Inv, TreeTypeOK', NodesOK', OpenURLs' \subseteq alive',
         OpenURLs' \subseteq OpenURLs,
         \A m \in alive' : m \in alive => pParent'[m] = pParent[m],
         \A m \in alive' : m \notin alive => pParent'[m] \notin Old
  PROVE  Old' \subseteq Old
<1>1. TypeOK /\ TreeTypeOK /\ NodesOK /\ UrlsOK
  BY TypeFacts DEF Inv
<1>2. OpenURLs \subseteq alive
  BY <1>1, UrlFacts
<1>3. /\ OpenURLs \subseteq Old
      /\ \A m \in alive : m \in Old <=> m \in OpenURLs \/ pParent[m] \in Old
  BY <1>1, <1>2, OldIs
<1>4. /\ Old' \subseteq alive'
      /\ \A m \in alive' :
           m \in Old' <=> m \in OpenURLs' \/ pParent'[m] \in Old'
  BY PrimedOldIs
<1> DEFINE T == Old' \ Old
<1>5. T \in SUBSET alive'
  BY <1>4
<1>6. \A m \in T : m \in Old' /\ m \notin Old /\ m \in alive'
  BY <1>4
<1>7. \A m : m \in Old' /\ m \notin Old => m \in T
  OBVIOUS
<1> HIDE DEF T, Old, OpenURLs
<1>8. ASSUME T # {} PROVE FALSE
  <2>1. PICK m \in T : pParent'[m] \notin T
    BY <1>5, <1>8, PrimedTopmost
  <2>2. m \notin OpenURLs' /\ pParent'[m] \in Old'
    BY <2>1, <1>3, <1>4, <1>6
  <2>3. pParent'[m] \in Old
    BY <2>1, <2>2, <1>7
  <2>4. m \in alive /\ pParent'[m] = pParent[m]
    BY <2>1, <2>3, <1>6
  <2> QED BY <2>1, <2>3, <2>4, <1>3, <1>6
<1> QED BY <1>7, <1>8

\* The steps that neither change the tree nor begin or end a call.
Going ==
  /\ UNCHANGED treeVars /\ UNCHANGED urls /\ Work' = Work
  /\ walk' # <<>> => walk # <<>> /\ walk'[1] = walk[1]

LEMMA WalkingGoes ==
  Inv /\ (WalkDeeper \/ NextBrother) =>
    /\ Going /\ Len(walk') <= Len(walk) + 1
    /\ \A k \in 1..Len(walk') :
         \/ k \in 1..Len(walk) /\ walk'[k] = walk[k]
         \/ walk'[k] \in {pFirstChild[Leaf], pNextBrother[Leaf]} \ {NULL}
<1> SUFFICES ASSUME Inv, WalkDeeper \/ NextBrother
             PROVE  /\ Going /\ Len(walk') <= Len(walk) + 1
                    /\ \A k \in 1..Len(walk') :
                         \/ k \in 1..Len(walk) /\ walk'[k] = walk[k]
                         \/ walk'[k] \in {pFirstChild[Leaf],
                                         pNextBrother[Leaf]}
                                           \ {NULL}
  OBVIOUS
<1>1. /\ TypeOK /\ TreeTypeOK /\ WalkOK
  BY TypeFacts DEF Inv
<1>2. /\ UNCHANGED treeVars /\ UNCHANGED <<unlink, urls>>
      /\ pc \in {"deeper", "next"}
  BY DEF WalkDeeper, NextBrother
<1>3. walk # <<>> /\ walk \in Seq(Node) /\ Len(walk) \in Nat /\ Len(walk) >= 1
  BY <1>1, <1>2, TypeFacts DEF WalkOK
<1>4. Leaf \in alive /\ Leaf \in Node /\ Leaf \in Tree
  BY <1>1, <1>3, LeafIs DEF Tree
<1>5. /\ pFirstChild[Leaf] \in Node \cup {NULL}
      /\ pNextBrother[Leaf] \in Node \cup {NULL}
  BY <1>1, <1>4 DEF TreeTypeOK
<1>6. CASE walk' = walk
  <2>1. Going
    BY <1>2, <1>6 DEF Going, Work, Unlinked
  <2> QED BY <2>1, <1>3, <1>6
<1>7. CASE walk' # walk
  <2>1. \/ /\ walk' = Append(walk, pFirstChild[Leaf])
           /\ pFirstChild[Leaf] # NULL
        \/ walk' = Front(walk) /\ Len(walk) > 1
        \/ /\ walk' = Append(Front(walk), pNextBrother[Leaf]) /\ Len(walk) > 1
           /\ pNextBrother[Leaf] # NULL
    BY <1>1, <1>3, <1>7 DEF WalkDeeper, NextBrother, WalkOK
  <2>2. /\ Front(walk) \in Seq(Node) /\ Len(Front(walk)) = Len(walk) - 1
        /\ \A k \in 1..(Len(walk) - 1) : Front(walk)[k] = walk[k]
    BY <1>3, FrontIs
  <2>3. CASE /\ walk' = Append(walk, pFirstChild[Leaf])
             /\ pFirstChild[Leaf] # NULL
    <3>1. /\ Len(walk') = Len(walk) + 1
          /\ walk'[Len(walk) + 1] = pFirstChild[Leaf]
          /\ \A k \in 1..Len(walk) : walk'[k] = walk[k]
      BY <2>3, <1>3, <1>5, AppendIs
    <3>2. walk'[1] = walk[1]
      BY <3>1, <1>3
    <3>3. Going
      BY <3>1, <3>2, <1>2, <1>3 DEF Going, Work, Unlinked
    <3>4. \A k \in 1..Len(walk') : k \in 1..Len(walk) \/ k = Len(walk) + 1
      BY <3>1, <1>3
    <3> QED BY <2>3, <3>1, <3>3, <3>4, <1>3
  <2>4. CASE walk' = Front(walk) /\ Len(walk) > 1
    <3>1. walk'[1] = walk[1] /\ Len(walk') = Len(walk) - 1 /\ walk' # <<>>
      BY <2>2, <2>4, <1>3
    <3>2. Going
      BY <3>1, <1>2, <1>3 DEF Going, Work, Unlinked
    <3>3. \A k \in 1..Len(walk') : k \in 1..Len(walk) /\ walk'[k] = walk[k]
      BY <3>1, <2>2, <2>4, <1>3
    <3> QED BY <3>1, <3>2, <3>3, <1>3
  <2>5. CASE /\ walk' = Append(Front(walk), pNextBrother[Leaf])
             /\ Len(walk) > 1 /\ pNextBrother[Leaf] # NULL
    <3>1. /\ Len(walk') = Len(Front(walk)) + 1
          /\ walk'[Len(Front(walk)) + 1] = pNextBrother[Leaf]
          /\ walk' # <<>>
          /\ \A k \in 1..Len(Front(walk)) : walk'[k] = Front(walk)[k]
      BY <2>2, <2>5, <1>5, AppendIs
    <3>2. /\ Len(walk') = Len(walk) /\ walk'[Len(walk)] = pNextBrother[Leaf]
          /\ \A k \in 1..(Len(walk) - 1) : walk'[k] = walk[k]
      BY <3>1, <2>2, <1>3
    <3>3. walk'[1] = walk[1]
      BY <3>2, <2>5, <1>3
    <3>4. Going
      BY <3>1, <3>3, <1>2, <1>3 DEF Going, Work, Unlinked
    <3>5. \A k \in 1..Len(walk') : k \in 1..(Len(walk) - 1) \/ k = Len(walk)
      BY <3>2, <1>3
    <3>6. \A k \in 1..(Len(walk) - 1) : k \in 1..Len(walk)
      BY <1>3
    <3> QED BY <2>5, <3>2, <3>4, <3>5, <3>6, <1>3
  <2> QED BY <2>1, <2>3, <2>4, <2>5
<1> QED BY <1>6, <1>7

LEMMA UnlinkingGoes ==
  Inv /\ (UnlinkChild \/ UnlinkBrother \/ UnlinkNothing) => Going
<1> SUFFICES ASSUME Inv, UnlinkChild \/ UnlinkBrother \/ UnlinkNothing
             PROVE  Going
  OBVIOUS
<1>1. TypeOK /\ TreeTypeOK /\ NodesOK /\ WalkOK /\ CallsOK
  BY TypeFacts DEF Inv
<1>2. /\ UNCHANGED treeVars /\ UNCHANGED urls /\ walk' = walk
      /\ unlink # <<>>
  BY DEF UnlinkChild, UnlinkBrother, UnlinkNothing, openVars
<1>3. walk = <<>>
  BY <1>1, <1>2 DEF CallsOK
<1>4. unlink' # <<>> /\ unlink'[1].node = unlink[1].node
  <2>1. CASE UnlinkNothing
    <3>1. unlink' = Front(unlink) /\ iNodeType[Top.node] # URL
      BY <2>1 DEF UnlinkNothing
    <3>2. /\ unlink' \in Seq(Frame) /\ Len(unlink) \in Nat /\ Len(unlink) >= 1
          /\ Len(unlink') = Len(unlink) - 1
          /\ \A j \in 1..(Len(unlink) - 1) : unlink'[j] = unlink[j]
      BY <3>1, <1>1, <1>2, ReturnIs
    <3>3. Top.node = unlink[Len(unlink)].node /\ Top.node \in alive
      BY <1>1, <1>2, TopIs DEF Unlinked
    <3>4. pParent[unlink[1].node] = Root
      BY <1>1, <1>2 DEF CallsOK, Unlinked
    <3>5. Len(unlink) # 1
      BY <3>1, <3>3, <3>4, <1>1, Parents
    <3> QED BY <3>2, <3>5
  <2>2. CASE UnlinkChild \/ UnlinkBrother
    <3>1. PICK c, to : Calling(c, to)
      BY <2>2, CallingSteps
    <3>2. /\ c \in Node \cup {NULL} /\ to \in {"brother", "self"}
          /\ CallFor(c, to)
      BY <3>1 DEF Calling
    <3>3. /\ unlink' \in Seq(Frame) /\ Len(unlink) \in Nat /\ Len(unlink) >= 1
          /\ Len(unlink') = IF c = NULL THEN Len(unlink) ELSE Len(unlink) + 1
          /\ \A j \in 1..Len(unlink) : j # Len(unlink) => unlink'[j] = unlink[j]
          /\ unlink'[Len(unlink)].node = unlink[Len(unlink)].node
      BY <3>2, <1>1, <1>2, CallForIs
    <3>4. Len(unlink') >= 1 /\ 1 \in 1..Len(unlink)
      BY <3>3
    <3> QED BY <3>3, <3>4
  <2> QED BY <2>1, <2>2
<1> QED BY <1>2, <1>3, <1>4 DEF Going, Work, Unlinked

LEMMA UrlSteps ==
  Inv /\ [Next]_vars =>
    \/ Going
    \/ CreateURLNode \/ MMIOLinkPluginToNode \/ ReturnOpen \/ DestroyURLNode
    \/ UnlinkURLNode \/ UnlinkPlugin
    \/ \E k \in 1..Len(urls) : MMIOClose(k)
    \/ MMIOUninitialize
<1> SUFFICES ASSUME Inv, [Next]_vars
             PROVE  \/ Going
                    \/ CreateURLNode \/ MMIOLinkPluginToNode \/ ReturnOpen
                    \/ DestroyURLNode
                    \/ UnlinkURLNode \/ UnlinkPlugin
                    \/ \E k \in 1..Len(urls) : MMIOClose(k)
                    \/ MMIOUninitialize
  OBVIOUS
<1>1. TypeOK
  BY DEF Inv
<1>2. UNCHANGED treeVars /\ UNCHANGED <<walk, unlink, urls>> => Going
  BY DEF Going, Work, Unlinked
<1>3. ASSUME NEW level \in OpenLevels, MMIOOpen(level) PROVE Going
  BY <1>2, <1>3 DEF MMIOOpen
<1>4. ASSUME NEW k \in DOMAIN urls, MMIOClose(k)
      PROVE  \E j \in 1..Len(urls) : MMIOClose(j)
  <2>1. k \in 1..Len(urls)
    BY <1>1, TypeFacts
  <2> QED BY <2>1, <1>4
<1>5. MMIOInitialize \/ FailOpen => Going
  BY <1>2 DEF MMIOInitialize, FailOpen, openVars
<1>6. MMIOLoadPlugin \/ FailLoad => Going
  BY <1>2 DEF MMIOLoadPlugin, FailLoad, openVars
<1>7. MMIOInitializePlugin \/ FailInitialize \/ Examine \/ FailNode => Going
  BY <1>2 DEF MMIOInitializePlugin, FailInitialize, Examine, FailNode, openVars
<1>8. WalkDeeper \/ NextBrother => Going
  BY WalkingGoes
<1>9. Visit \/ MMIOUninitializePlugin \/ MMIOUnloadPlugin => Going
  BY <1>2 DEF Visit, MMIOUninitializePlugin, MMIOUnloadPlugin, openVars
<1>10. UnlinkChild \/ UnlinkBrother \/ UnlinkNothing => Going
  BY UnlinkingGoes
<1>11. ReturnClose \/ CallNoPlugin => Going
  BY <1>2 DEF ReturnClose, CallNoPlugin, openVars
<1>12. UNCHANGED vars => Going
  BY <1>2 DEF vars, openVars
<1> QED BY <1>3, <1>4, <1>5, <1>6, <1>7, <1>8, <1>9, <1>10, <1>11, <1>12
        DEF Next, Step

\* A node that is not of an open URL is destroyed.
LEMMA UrlsDetach ==
  ASSUME Inv, NEW n, NEW S, IsBranch(n, S), DestroyNodes(n, S), n \notin Old,
         pNextBrother[n] = NULL, urls' = urls, walk' = <<>>,
         Work' = IF Work = n THEN NULL ELSE Work
  PROVE  UrlsOK'
<1>1. TypeOK /\ TreeTypeOK /\ NodesOK /\ ChainsOK /\ UrlsOK
  BY TypeFacts DEF Inv
<1>2. S \cap Old = {} /\ S \subseteq alive
  BY BranchNotOld DEF IsBranch
<1>3. /\ \A k \in 1..Len(urls) :
           /\ urls[k] \in alive /\ urls[k] \in Node /\ urls[k] \notin S
           /\ urls[k] # n /\ pParent[urls[k]] = Root
      /\ urls # <<>> => 1 \in 1..Len(urls)
      /\ Len(urls) \in Nat
  <2>1. \A k \in 1..Len(urls) : urls[k] \in OpenURLs
    BY <1>1, UrlFacts
  <2>2. OpenURLs \subseteq Old
    BY OldNodes
  <2> QED BY <2>1, <2>2, <1>1, <1>2, TypeFacts DEF UrlsOK
<1>4. /\ alive' = alive \ S
      /\ \A m \in Node \ S :
           /\ pParent'[m] = pParent[m]
           /\ pNextBrother'[m] = IF pNextBrother[m] = n THEN NULL
                                 ELSE pNextBrother[m]
      /\ \A m \in Tree \ S :
           pFirstChild'[m] = IF m = pParent[n] /\ pFirstChild[m] = n
                             THEN NULL ELSE pFirstChild[m]
  BY <1>1, DestroyEffect
<1>5. Root \in Tree \ S /\ n \in alive /\ n # NULL
  BY <1>1, <1>2, AddressAssumption DEF TreeTypeOK, Tree, IsBranch
<1>6. pFirstChild[Root] = n => pParent[n] = Root
  <2>1. pFirstChild[Root] = n => n \in Children(Root)
    BY <1>1, <1>5, Linked
  <2> QED BY <2>1 DEF Children
<1>7. pFirstChild'[Root] = IF pFirstChild[Root] = n THEN NULL
                           ELSE pFirstChild[Root]
  BY <1>4, <1>5, <1>6
<1>8. pFirstChild'[Root] = IF urls = <<>> THEN Work' ELSE urls[1]
  BY <1>1, <1>3, <1>7 DEF UrlsOK
<1>9. \A k \in 1..Len(urls) :
        pNextBrother'[urls[k]] = IF k = Len(urls) THEN Work' ELSE urls[k + 1]
  <2> SUFFICES ASSUME NEW k \in 1..Len(urls)
               PROVE  pNextBrother'[urls[k]] = IF k = Len(urls) THEN Work'
                                               ELSE urls[k + 1]
    OBVIOUS
  <2>1. pNextBrother[urls[k]] = IF k = Len(urls) THEN Work ELSE urls[k + 1]
    BY <1>1 DEF UrlsOK
  <2>2. k # Len(urls) => k + 1 \in 1..Len(urls)
    BY <1>3
  <2> QED BY <2>1, <2>2, <1>3, <1>4
<1> QED BY <1>1, <1>3, <1>4, <1>8, <1>9 DEF UrlsOK

LEMMA UrlsKept == Inv /\ [Next]_vars => UrlsOK'
<1> SUFFICES ASSUME Inv, [Next]_vars PROVE UrlsOK'
  OBVIOUS
<1>1. /\ TypeOK /\ TreeTypeOK /\ NodesOK /\ ChainsOK /\ WalkOK /\ CallsOK
      /\ HandOK /\ DoneOK /\ InstancesOK /\ UrlsOK /\ OldOK
  BY TypeFacts DEF Inv
<1>2. /\ \A k \in 1..Len(urls) :
           /\ urls[k] \in alive /\ urls[k] \in Node
           /\ pParent[urls[k]] = Root /\ urls[k] \in Old
           /\ pNextBrother[urls[k]]
                = IF k = Len(urls) THEN Work ELSE urls[k + 1]
      /\ \A j, k \in 1..Len(urls) : urls[j] = urls[k] => j = k
      /\ pFirstChild[Root] = IF urls = <<>> THEN Work ELSE urls[1]
      /\ walk # <<>> => pNextBrother[walk[1]] = NULL
  <2>1. \A k \in 1..Len(urls) : urls[k] \in OpenURLs
    BY <1>1, UrlFacts
  <2>2. OpenURLs \subseteq Old
    BY OldNodes
  <2> QED BY <2>1, <2>2, <1>1, TypeFacts DEF UrlsOK
<1>3. /\ urls \in Seq(Node) /\ Len(urls) \in Nat
      /\ urls # <<>> <=> Len(urls) >= 1
      /\ \A k \in 1..Len(urls) : k # Len(urls) => k + 1 \in 1..Len(urls)
  BY <1>1, TypeFacts
<1>4. Root \in Tree /\ Root \notin Node /\ NULL \notin Node
  BY AddressAssumption DEF Tree
<1>5. CASE Going
  BY <1>1, <1>5 DEF UrlsOK, Going, treeVars
<1>6. CASE CreateURLNode
  <2>1. PICK n \in Free : CreateURL(n) /\ walk' = <<n>> /\ urls' = urls
    BY <1>6, CreateURLIs
  <2>2. /\ pNextBrother'[n] = NULL
        /\ IF pFirstChild[Root] = NULL
           THEN pFirstChild'[Root] = n /\ pNextBrother' = pNextBrother
           ELSE /\ pFirstChild'[Root] = pFirstChild[Root]
                /\ \A m \in Node :
                     pNextBrother'[m] =
                       IF m \in Children(Root) /\ pNextBrother[m] = NULL
                       THEN n ELSE pNextBrother[m]
    BY <2>1, <1>1, CreateURLKeeps
  <2>3. /\ alive' = alive \cup {n} /\ n \in Node /\ n \notin alive
        /\ \A m \in Node : m # n => pParent'[m] = pParent[m]
    BY <2>1, <1>1 DEF CreateURL, Free, TreeTypeOK
  <2>4. Work = NULL
    <3>1. walk = <<>> /\ unlink = <<>>
      BY <1>1, <1>6, NoCalls DEF CreateURLNode, WalkOK
    <3> QED BY <3>1 DEF Work
  <2>5. Work' = n /\ walk'[1] = n
    BY <2>1 DEF Work
  <2>6. \A k \in 1..Len(urls) : urls[k] # n /\ urls[k] \in Children(Root)
    BY <2>3, <1>2 DEF Children
  <2>7. CASE urls = <<>>
    BY <2>1, <2>2, <2>4, <2>5, <2>7, <1>2, <1>3 DEF UrlsOK
  <2>8. CASE urls # <<>>
    <3>1. 1 \in 1..Len(urls)
      BY <2>8, <1>3
    <3>2. pFirstChild[Root] # NULL
      BY <2>8, <3>1, <1>2, <1>4
    <3>3. \A k \in 1..Len(urls) :
            pNextBrother'[urls[k]]
              = IF k = Len(urls) THEN n ELSE urls[k + 1]
      BY <2>2, <2>4, <2>6, <3>2, <1>2, <1>3, <1>4
    <3> QED BY <2>1, <2>2, <2>3, <2>5, <2>6, <2>8, <3>2, <3>3, <1>2
            DEF UrlsOK
  <2> QED BY <2>7, <2>8
<1>7. CASE MMIOLinkPluginToNode
  <2>1. PICK shape, f : /\ Leaf \in alive /\ pInstance \in Instance
                        /\ FreshFor(f, shape)
                        /\ CreateNodes(Leaf, f, shape, pInstance)
    BY <1>1, <1>7, LinkIs
  <2>2. PICK n \in alive, i \in Instance : n = Leaf /\ i = pInstance
    BY <2>1
  <2> DEFINE K == 1 + shape.leaves
  <2>3. /\ K \in Nat /\ DOMAIN f = 1..K
        /\ \A j \in 1..K : f[j] \in Node /\ f[j] \notin alive
        /\ alive' = alive \cup New(f)
        /\ \A m \in Node \ New(f) :
             /\ pParent'[m] = pParent[m]
             /\ pNextBrother'[m] = pNextBrother[m]
        /\ \A m \in Tree : m # n /\ m \notin New(f) =>
             pFirstChild'[m] = pFirstChild[m]
    BY <2>1, <2>2, <1>1, CreateNodesEffect
  <2> HIDE DEF K
  <2>4. /\ \A m \in alive : m \in Node \ New(f) /\ m \in alive'
        /\ Root \notin New(f) /\ Root # n
    BY <2>3, <1>1, <1>4 DEF New, TreeTypeOK
  <2>5. /\ urls' = urls /\ walk' = walk /\ unlink' = unlink /\ walk # <<>>
        /\ 1 \in 1..Len(walk)
    BY <1>1, <1>7, TypeFacts DEF MMIOLinkPluginToNode, openVars, WalkOK
  <2>6. Work' = Work
    BY <2>5 DEF Work, Unlinked
  <2>7. walk[1] \in alive
    BY <2>5, <1>1 DEF WalkOK
  <2>8. pFirstChild'[Root] = pFirstChild[Root]
    BY <2>3, <2>4, <1>4
  <2> QED BY <2>3, <2>4, <2>5, <2>6, <2>7, <2>8, <1>2 DEF UrlsOK
<1>8. CASE ReturnOpen
  <2> DEFINE n == walk[1]
  <2>1. /\ urls' = Append(urls, n) /\ walk' = <<>> /\ UNCHANGED treeVars
        /\ unlink' = unlink /\ pc = "next"
    BY <1>8 DEF ReturnOpen
  <2>2. walk # <<>> /\ unlink = <<>> /\ 1 \in 1..Len(walk)
    BY <2>1, <1>1, NoCalls, TypeFacts DEF WalkOK
  <2>3. Work = n /\ Work' = NULL
    BY <2>1, <2>2 DEF Work
  <2>4. n \in alive /\ n \in Node /\ pParent[n] = Root /\ n \notin Old
    BY <2>2, <1>1, TypeFacts DEF WalkOK, OldOK
  <2>5. pNextBrother[n] = NULL
    BY <2>2, <1>2
  <2> HIDE DEF n
  <2>6. /\ Len(urls') = Len(urls) + 1 /\ urls'[Len(urls) + 1] = n
        /\ urls' # <<>>
        /\ \A k \in 1..Len(urls) : urls'[k] = urls[k]
    BY <2>1, <2>4, <1>3, AppendIs
  <2>7. \A k \in 1..Len(urls') : k \in 1..Len(urls) \/ k = Len(urls) + 1
    BY <2>6, <1>3
  <2>8. \A k \in 1..Len(urls') : urls'[k] \in alive /\ pParent[urls'[k]] = Root
    BY <2>4, <2>6, <2>7, <1>2
  <2>9. \A j, k \in 1..Len(urls') : urls'[j] = urls'[k] => j = k
    BY <2>4, <2>6, <2>7, <1>2
  <2>10. pFirstChild[Root] = urls'[1]
    BY <2>3, <2>6, <1>2, <1>3
  <2>11. \A k \in 1..Len(urls') :
           pNextBrother[urls'[k]] = IF k = Len(urls') THEN NULL ELSE urls'[k + 1]
    <3> SUFFICES ASSUME NEW k \in 1..Len(urls')
                 PROVE  pNextBrother[urls'[k]]
                          = IF k = Len(urls') THEN NULL ELSE urls'[k + 1]
      OBVIOUS
    <3>1. CASE k = Len(urls) + 1
      BY <3>1, <2>5, <2>6
    <3>2. CASE k \in 1..Len(urls)
      <4>1. k # Len(urls') /\ urls'[k] = urls[k]
        BY <3>2, <2>6, <1>3
      <4>2. CASE k = Len(urls)
        BY <4>1, <4>2, <3>2, <2>3, <2>6, <1>2
      <4>3. CASE k # Len(urls)
        <5>1. k + 1 \in 1..Len(urls)
          BY <4>3, <3>2, <1>3
        <5> QED BY <5>1, <4>1, <4>3, <3>2, <2>6, <1>2
      <4> QED BY <4>2, <4>3
    <3> QED BY <3>1, <3>2, <2>7
  <2> QED BY <2>1, <2>3, <2>6, <2>8, <2>9, <2>10, <2>11 DEF UrlsOK, treeVars
<1>9. CASE DestroyURLNode
  <2>1. PICK n : n = walk[1]
    OBVIOUS
  <2>2. IsBranch(n, {n}) /\ DestroyNodes(n, {n}) /\ walk # <<>>
    BY <2>1, <1>1, <1>9, DestroyURLIs
  <2>3. walk' = <<>> /\ urls' = urls /\ unlink' = unlink /\ unlink = <<>>
    BY <2>2, <1>1, <1>9, NoCalls DEF DestroyURLNode
  <2>4. 1 \in 1..Len(walk)
    BY <2>2, <1>1, TypeFacts
  <2>5. n \notin Old /\ pNextBrother[n] = NULL
    BY <2>1, <2>2, <2>4, <1>1, <1>2 DEF OldOK
  <2>6. Work = n /\ Work' = NULL
    BY <2>1, <2>2, <2>3 DEF Work
  <2> QED BY <2>2, <2>3, <2>5, <2>6, UrlsDetach
<1>10. CASE UnlinkURLNode \/ UnlinkPlugin
  <2>1. PICK S : Returning(S) /\ S # {}
    <3>1. \A i : {Top.node} # {}
      OBVIOUS
    <3>2. UnlinkPlugin => NodesOf(pNodeOwnerPluginInstance[Top.node]) # {}
      BY <1>1, UnlinkPluginIs
    <3> QED BY <3>1, <3>2, <1>10, ReturningSteps
  <2>2. PICK n : n = Top.node
    OBVIOUS
  <2>3. /\ unlink # <<>> /\ unlink' = Front(unlink) /\ walk' = walk
        /\ IsBranch(n, S) /\ DestroyNodes(n, S) /\ pNextBrother[n] = NULL
    BY <2>1, <2>2 DEF Returning
  <2>4. urls' = urls
    BY <1>10 DEF UnlinkURLNode, UnlinkPlugin
  <2>5. walk = <<>>
    BY <2>3, <1>1 DEF CallsOK
  <2>6. /\ n = unlink[Len(unlink)].node /\ Len(unlink) \in Calls
        /\ n \notin Old
    BY <2>2, <2>3, <1>1, TopIs DEF Unlinked, OldOK
  <2>7. /\ unlink' \in Seq(Frame) /\ Len(unlink) \in Nat /\ Len(unlink) >= 1
        /\ Len(unlink') = Len(unlink) - 1
        /\ \A j \in 1..(Len(unlink) - 1) : unlink'[j] = unlink[j]
    BY <2>3, <1>1, ReturnIs
  <2>8. \A j \in 1..Len(unlink) : j # Len(unlink) => unlink[j].node # n
    BY <2>2, <2>3, <1>1, OtherCalls
  <2>9. Work = unlink[1].node
    BY <2>3, <2>5 DEF Work, Unlinked
  <2>10. Work' = IF Work = n THEN NULL ELSE Work
    <3>1. CASE Len(unlink) = 1
      <4>1. unlink' = <<>>
        BY <3>1, <2>7
      <4> QED BY <4>1, <3>1, <2>3, <2>5, <2>6, <2>9 DEF Work
    <3>2. CASE Len(unlink) # 1
      <4>1. /\ unlink' # <<>> /\ unlink'[1] = unlink[1]
            /\ unlink[1].node # n
        BY <3>2, <2>7, <2>8
      <4> QED BY <4>1, <2>3, <2>5, <2>9 DEF Work, Unlinked
    <3> QED BY <3>1, <3>2
  <2> QED BY <2>3, <2>4, <2>5, <2>6, <2>10, UrlsDetach
<1>11. CASE \E k \in 1..Len(urls) : MMIOClose(k)
  <2>1. PICK k \in 1..Len(urls) : MMIOClose(k)
    BY <1>11
  <2>2. /\ unlink' = <<Call(urls[k])>> /\ urls' = SubSeq(urls, 1, k - 1)
        /\ UNCHANGED treeVars /\ walk' = walk /\ pc = "idle"
    BY <2>1 DEF MMIOClose, openVars
  <2>3. walk = <<>>
    BY <2>2, <1>1 DEF WalkOK
  <2>4. Work' = urls[k]
    BY <2>2, <2>3 DEF Work, Unlinked, Call
  <2>5. /\ Len(urls') = k - 1 /\ k - 1 \in Nat
        /\ \A j \in 1..(k - 1) : urls'[j] = urls[j]
        /\ \A j \in 1..(k - 1) : j \in 1..Len(urls) /\ j # Len(urls)
    BY <2>2, <1>3
  <2>6. urls' = <<>> <=> k = 1
    BY <2>5
  <2>7. \A j \in 1..(k - 1) :
          pNextBrother[urls[j]] = IF j = k - 1 THEN urls[k] ELSE urls'[j + 1]
    <3> SUFFICES ASSUME NEW j \in 1..(k - 1)
                 PROVE  pNextBrother[urls[j]]
                          = IF j = k - 1 THEN urls[k] ELSE urls'[j + 1]
      OBVIOUS
    <3>1. pNextBrother[urls[j]] = urls[j + 1]
      BY <2>5, <1>2
    <3>2. j # k - 1 => j + 1 \in 1..(k - 1)
      BY <2>5
    <3>3. j = k - 1 => j + 1 = k
      BY <2>5
    <3> QED BY <3>1, <3>2, <3>3, <2>5
  <2>8. pFirstChild[Root] = IF urls' = <<>> THEN urls[k] ELSE urls'[1]
    <3>1. urls # <<>> /\ pFirstChild[Root] = urls[1]
      BY <1>2, <1>3
    <3>2. k # 1 => 1 \in 1..(k - 1)
      BY <2>5
    <3> QED BY <3>1, <3>2, <2>5, <2>6
  <2> QED BY <2>2, <2>3, <2>4, <2>5, <2>7, <2>8, <1>2 DEF UrlsOK, treeVars
<1>12. CASE MMIOUninitialize
  <2>1. /\ urls' = <<>> /\ UNCHANGED treeVars /\ walk' = walk /\ pc = "idle"
        /\ IF pFirstChild[Root] = NULL THEN unlink' = unlink
           ELSE unlink' = <<Call(pFirstChild[Root])>>
    BY <1>12 DEF MMIOUninitialize, openVars
  <2>2. walk = <<>> /\ unlink = <<>>
    BY <2>1, <1>1, NoCalls DEF WalkOK
  <2>3. Work' = pFirstChild[Root]
    BY <2>1, <2>2 DEF Work, Unlinked, Call
  <2>4. 1..Len(urls') = {}
    BY <2>1
  <2> QED BY <2>1, <2>2, <2>3, <2>4 DEF UrlsOK, treeVars
<1> QED BY <1>5, <1>6, <1>7, <1>8, <1>9, <1>10, <1>11, <1>12, UrlSteps

LEMMA OldKept == Inv /\ [Next]_vars => OldOK'
<1> SUFFICES ASSUME Inv, [Next]_vars PROVE OldOK'
  OBVIOUS
<1>1. /\ TypeOK /\ TreeTypeOK /\ NodesOK /\ ChainsOK /\ WalkOK /\ CallsOK
      /\ HandOK /\ DoneOK /\ InstancesOK /\ UrlsOK /\ OldOK
  BY TypeFacts DEF Inv
<1>2. TreeTypeOK' /\ NodesOK' /\ UrlsOK'
  BY TreeKept, UrlsKept
<1>3. /\ Old \subseteq alive /\ NULL \notin Old /\ Root \notin Old
      /\ OpenURLs \subseteq Old
      /\ \A n \in alive : n \notin Old =>
           pNextBrother[n] \notin Old /\ pFirstChild[n] \notin Old
  BY OldNodes
<1>4. OpenURLs' \subseteq alive'
  BY <1>2 DEF UrlsOK, OpenURLs
<1>5. /\ \A k \in 1..Len(walk) : walk[k] \notin Old
      /\ \A j \in 1..Len(unlink) : unlink[j].node \notin Old
  BY <1>1 DEF OldOK, Calls, Unlinked
<1>6. walk' = <<>> /\ unlink' = <<>> => OldOK'
  BY DEF OldOK, Calls
<1>7. ASSUME Old' \subseteq Old,
             \A k \in 1..Len(walk') : walk'[k] \notin Old,
             \A j \in 1..Len(unlink') : unlink'[j].node \notin Old
      PROVE  OldOK'
  BY <1>7 DEF OldOK, Calls, Unlinked
<1>8. UNCHANGED treeVars /\ OpenURLs' \subseteq OpenURLs => Old' \subseteq Old
  <2>1. UNCHANGED treeVars => alive' = alive /\ pParent' = pParent
    BY DEF treeVars
  <2> QED BY <2>1, <1>2, <1>4, OldShrinks
<1>9. urls' = urls => OpenURLs' = OpenURLs
  BY DEF OpenURLs
<1>10. ASSUME UNCHANGED treeVars, UNCHANGED <<walk, unlink, urls>>
       PROVE  OldOK'
  BY <1>5, <1>7, <1>8, <1>9, <1>10
<1>11. ASSUME NEW level \in OpenLevels, MMIOOpen(level) PROVE OldOK'
  BY <1>10, <1>11 DEF MMIOOpen
<1>12. CASE MMIOInitialize \/ FailOpen \/ MMIOLoadPlugin \/ FailLoad
  BY <1>10, <1>12 DEF MMIOInitialize, FailOpen, MMIOLoadPlugin, FailLoad,
                      openVars
<1>13. CASE MMIOInitializePlugin \/ FailInitialize \/ Examine \/ FailNode
  BY <1>10, <1>13 DEF MMIOInitializePlugin, FailInitialize, Examine, FailNode,
                      openVars
<1>14. CASE Visit \/ MMIOUninitializePlugin \/ MMIOUnloadPlugin
  BY <1>10, <1>14 DEF Visit, MMIOUninitializePlugin, MMIOUnloadPlugin, openVars
<1>15. CASE ReturnClose \/ CallNoPlugin \/ UNCHANGED vars
  BY <1>10, <1>15 DEF ReturnClose, CallNoPlugin, vars, openVars
<1>16. CASE CreateURLNode
  <2>1. PICK n \in Free : /\ CreateURL(n) /\ walk' = <<n>>
                          /\ urls' = urls /\ unlink' = unlink
    BY <1>16, CreateURLIs
  <2>2. /\ alive' = alive \cup {n} /\ n \notin alive /\ pParent'[n] = Root
        /\ \A m \in alive : pParent'[m] = pParent[m]
    BY <2>1, <1>1 DEF CreateURL, Free, TreeTypeOK
  <2>3. /\ \A m \in alive' : m \in alive => pParent'[m] = pParent[m]
        /\ \A m \in alive' : m \notin alive => pParent'[m] \notin Old
    BY <2>2, <1>3
  <2>4. Old' \subseteq Old
    BY <2>1, <2>3, <1>2, <1>4, <1>9, OldShrinks
  <2>5. n \notin Old /\ Len(walk') = 1 /\ walk'[1] = n
    BY <2>1, <2>2, <1>3
  <2> QED BY <2>1, <2>4, <2>5, <1>5, <1>7
<1>17. CASE MMIOLinkPluginToNode
  <2>1. PICK shape, f : /\ Leaf \in alive /\ pInstance \in Instance
                        /\ FreshFor(f, shape)
                        /\ CreateNodes(Leaf, f, shape, pInstance)
    BY <1>1, <1>17, LinkIs
  <2>2. PICK n \in alive, i \in Instance : n = Leaf /\ i = pInstance
    BY <2>1
  <2> DEFINE K == 1 + shape.leaves
  <2>3. /\ K \in Nat /\ DOMAIN f = 1..K
        /\ \A j \in 1..K : f[j] \in Node /\ f[j] \notin alive
        /\ alive' = alive \cup New(f)
        /\ \A m \in Node \ New(f) : pParent'[m] = pParent[m]
        /\ \A j \in 1..K : pParent'[f[j]] = IF j = 1 THEN n ELSE f[1]
        /\ K >= 1
    BY <2>1, <2>2, <1>1, CreateNodesEffect
  <2> HIDE DEF K
  <2>4. /\ pc = "link" /\ urls' = urls /\ walk' = walk /\ unlink' = unlink
    BY <1>17 DEF MMIOLinkPluginToNode, openVars
  <2>5. walk # <<>>
    BY <2>4, <1>1 DEF WalkOK
  <2>6. n \notin Old
    BY <2>2, <2>5, <1>1, <1>5, LeafIs
  <2>7. \A m \in alive : m \in Node \ New(f)
    BY <2>3, <1>1 DEF New, TreeTypeOK
  <2>8. \A m \in alive' : m \notin alive => \E j \in 1..K : m = f[j]
    BY <2>3 DEF New
  <2>9. f[1] \notin Old
    <3>1. f[1] \notin alive
      BY <2>3
    <3> QED BY <3>1, <1>3
  <2>10. /\ \A m \in alive' : m \in alive => pParent'[m] = pParent[m]
         /\ \A m \in alive' : m \notin alive => pParent'[m] \notin Old
    BY <2>3, <2>6, <2>7, <2>8, <2>9
  <2>11. Old' \subseteq Old
    BY <2>4, <2>10, <1>2, <1>4, <1>9, OldShrinks
  <2> QED BY <2>4, <2>11, <1>5, <1>7
<1>18. CASE WalkDeeper \/ NextBrother
  <2>1. /\ Going
        /\ \A k \in 1..Len(walk') :
             \/ k \in 1..Len(walk) /\ walk'[k] = walk[k]
             \/ walk'[k] \in {pFirstChild[Leaf], pNextBrother[Leaf]} \ {NULL}
    BY <1>18, WalkingGoes
  <2>2. pc \in {"deeper", "next"} /\ unlink' = unlink
    BY <1>18 DEF WalkDeeper, NextBrother
  <2>3. walk # <<>>
    BY <2>2, <1>1 DEF WalkOK
  <2>4. Leaf \in alive /\ Leaf \notin Old
    BY <2>3, <1>1, <1>5, LeafIs
  <2>5. pFirstChild[Leaf] \notin Old /\ pNextBrother[Leaf] \notin Old
    BY <2>4, <1>3
  <2>6. \A k \in 1..Len(walk') : walk'[k] \notin Old
    BY <2>1, <2>5, <1>5
  <2>7. Old' \subseteq Old
    BY <2>1, <1>8, <1>9 DEF Going
  <2> QED BY <2>2, <2>6, <2>7, <1>5, <1>7
<1>19. CASE ReturnOpen \/ DestroyURLNode
  <2>1. walk' = <<>> /\ unlink' = unlink /\ pc \in {"next", "reject"}
    BY <1>19 DEF ReturnOpen, DestroyURLNode
  <2>2. unlink = <<>>
    BY <2>1, <1>1, NoCalls DEF WalkOK
  <2> QED BY <2>1, <2>2, <1>6
<1>20. CASE UnlinkChild \/ UnlinkBrother
  <2>1. PICK c, to : /\ Calling(c, to)
                     /\ c \in {pFirstChild[Top.node], pNextBrother[Top.node]}
    BY <1>20, CallingSteps
  <2>2. /\ unlink # <<>> /\ UNCHANGED treeVars /\ walk' = walk
        /\ CallFor(c, to) /\ c \in Node \cup {NULL}
        /\ to \in {"brother", "self"}
    BY <2>1 DEF Calling
  <2>3. /\ Len(unlink) \in Nat /\ Len(unlink) \in 1..Len(unlink)
        /\ Len(unlink') = IF c = NULL THEN Len(unlink) ELSE Len(unlink) + 1
        /\ \A j \in 1..Len(unlink) : j # Len(unlink) => unlink'[j] = unlink[j]
        /\ unlink'[Len(unlink)].node = unlink[Len(unlink)].node
        /\ c # NULL => unlink'[Len(unlink) + 1].node = c
    BY <2>2, <1>1, CallForIs
  <2>4. Top.node \in alive /\ Top.node \notin Old
    BY <2>2, <2>3, <1>1, <1>5, TopIs DEF Unlinked
  <2>5. c \notin Old
    BY <2>1, <2>4, <1>3
  <2>6. \A j \in 1..Len(unlink') :
          \/ j \in 1..Len(unlink) /\ unlink'[j].node = unlink[j].node
          \/ c # NULL /\ j = Len(unlink) + 1
    BY <2>3
  <2>7. \A j \in 1..Len(unlink') : unlink'[j].node \notin Old
    BY <2>3, <2>5, <2>6, <1>5
  <2>8. urls' = urls
    BY <1>20 DEF UnlinkChild, UnlinkBrother
  <2> QED BY <2>2, <2>7, <2>8, <1>5, <1>7, <1>8, <1>9
<1>21. CASE UnlinkNothing \/ UnlinkURLNode \/ UnlinkPlugin
  <2>1. PICK S : Returning(S)
    BY <1>21, ReturningSteps
  <2>2. urls' = urls
    BY <1>21 DEF UnlinkNothing, UnlinkURLNode, UnlinkPlugin
  <2>3. unlink # <<>> /\ unlink' = Front(unlink) /\ walk' = walk
    BY <2>1 DEF Returning
  <2>4. /\ Len(unlink') = Len(unlink) - 1 /\ Len(unlink) \in Nat
        /\ \A j \in 1..(Len(unlink) - 1) : unlink'[j] = unlink[j]
    BY <2>3, <1>1, ReturnIs
  <2>5. /\ alive' = alive \ S
        /\ \A m \in Node \ S : pParent'[m] = pParent[m]
    BY <2>1, ReturningEffect
  <2>6. /\ \A m \in alive' : m \in alive => pParent'[m] = pParent[m]
        /\ \A m \in alive' : m \notin alive => pParent'[m] \notin Old
    BY <2>5, <1>1 DEF TreeTypeOK
  <2>7. Old' \subseteq Old
    BY <2>2, <2>6, <1>2, <1>4, <1>9, OldShrinks
  <2>8. \A j \in 1..Len(unlink') : unlink'[j].node \notin Old
    BY <2>4, <1>5
  <2> QED BY <2>3, <2>7, <2>8, <1>5, <1>7
<1>22. ASSUME NEW k \in DOMAIN urls, MMIOClose(k) PROVE OldOK'
  <2>1. /\ k \in 1..Len(urls) /\ urls \in Seq(Node) /\ Len(urls) \in Nat
    BY <1>1, TypeFacts
  <2>2. /\ unlink' = <<Call(urls[k])>> /\ urls' = SubSeq(urls, 1, k - 1)
        /\ UNCHANGED treeVars /\ walk' = walk /\ pc = "idle"
    BY <1>22 DEF MMIOClose, openVars
  <2>3. walk' = <<>>
    BY <2>2, <1>1 DEF WalkOK
  <2>4. /\ Len(urls') = k - 1
        /\ \A j \in 1..(k - 1) : urls'[j] = urls[j]
        /\ \A j \in 1..(k - 1) : j \in 1..Len(urls) /\ j # k
    BY <2>1, <2>2
  <2>5. urls[k] \in alive /\ pParent[urls[k]] = Root
    BY <2>1, <1>1 DEF UrlsOK
  <2>6. urls[k] \notin OpenURLs'
    BY <2>1, <2>4, <1>1 DEF OpenURLs, UrlsOK
  <2>7. Root \notin alive' /\ urls[k] \in alive' /\ pParent'[urls[k]] = Root
    BY <2>2, <2>5, <1>2, AddressAssumption DEF TreeTypeOK, treeVars
  <2>8. urls[k] \notin Old'
    BY <2>6, <2>7, <1>2, <1>4, PrimedOldIs
  <2>9. Len(unlink') = 1 /\ unlink'[1].node = urls[k]
    BY <2>2 DEF Call
  <2> QED BY <2>3, <2>8, <2>9 DEF OldOK, Calls, Unlinked
<1>23. CASE MMIOUninitialize
  <2>1. urls' = <<>> /\ walk' = walk /\ pc = "idle"
    BY <1>23 DEF MMIOUninitialize, openVars
  <2>2. walk' = <<>> /\ OpenURLs' = {}
    BY <2>1, <1>1 DEF WalkOK, OpenURLs
  <2>3. Old' = {}
    BY <2>2 DEF Old
  <2> QED BY <2>2, <2>3 DEF OldOK
<1> QED
  BY <1>11, <1>12, <1>13, <1>14, <1>15, <1>16, <1>17, <1>18, <1>19, <1>20,
     <1>21, <1>22, <1>23
  DEF Next, Step

-----------------------------------------------------------------------------
(* Types.                                                                  *)

PluginTypeOK ==
  /\ iRefCount = [p \in Plugin |-> iRefCount[p]]
  /\ instances \in [Instance -> Plugin \cup {NULL}]
  /\ hPlugin \in Plugin \cup {NULL}
  /\ pInstance \in Instance \cup {NULL}

ThreadTypeOK ==
  /\ bInitialized \in BOOLEAN
  /\ pc \in Place
  /\ walk \in Seq(Node)
  /\ try \in Nat
  /\ iOpenLevel \in NodeType
  /\ unlink \in Seq(Frame)
  /\ urls \in Seq(Node)

LEMMA PluginTypes ==
  Inv /\ [Next]_vars => PluginTypeOK'
<1> SUFFICES ASSUME Inv, [Next]_vars PROVE PluginTypeOK'
  OBVIOUS
<1>1. TypeOK /\ WalkOK /\ HandOK
  BY DEF Inv
<1>2. /\ iRefCount = [p \in Plugin |-> iRefCount[p]]
      /\ instances \in [Instance -> Plugin \cup {NULL}]
      /\ hPlugin \in Plugin \cup {NULL}
      /\ pInstance \in Instance \cup {NULL}
  BY <1>1 DEF TypeOK
<1>3. CASE UNCHANGED <<pluginVars, handVars>>
  BY <1>2, <1>3 DEF PluginTypeOK, pluginVars, handVars
<1>4. CASE MMIOLoadPlugin
  <2>1. pc = "load" /\ hPlugin' = Candidate
    BY <1>4 DEF MMIOLoadPlugin
  <2>2. Candidate \in Plugin
    BY <2>1, <1>1, CandidateIs
  <2>3. iRefCount' = [iRefCount EXCEPT ![Candidate] = @ + 1]
        /\ UNCHANGED <<instances, pInstance>>
    BY <1>4 DEF MMIOLoadPlugin, CountLoad
  <2> QED BY <2>1, <2>2, <2>3, <1>2 DEF PluginTypeOK
<1>5. CASE MMIOInitializePlugin
  <2>1. /\ pInstance' \in Instance
        /\ instances' = [instances EXCEPT ![pInstance'] = hPlugin]
        /\ UNCHANGED <<iRefCount, hPlugin>>
    BY <1>5, InitializeIs
  <2> QED BY <2>1, <1>2 DEF PluginTypeOK
<1>6. CASE FailInitialize \/ Examine \/ FailNode
  BY <1>3, <1>6 DEF FailInitialize, Examine, FailNode
<1>7. CASE MMIOLinkPluginToNode
  BY <1>2, <1>7 DEF MMIOLinkPluginToNode, PluginTypeOK, pluginVars
<1>8. CASE MMIOUninitializePlugin
  BY <1>2, <1>8 DEF MMIOUninitializePlugin, PluginTypeOK
<1>9. CASE MMIOUnloadPlugin
  BY <1>2, <1>9 DEF MMIOUnloadPlugin, CountUnload, PluginTypeOK
<1>10. CASE UnlinkPlugin
  <2>1. /\ pInstance' = pNodeOwnerPluginInstance[Top.node]
        /\ hPlugin' = instances[pInstance'] /\ UNCHANGED pluginVars
    BY <1>10 DEF UnlinkPlugin
  <2>2. pInstance' \in Instance
    BY <2>1, <1>10, UnlinkPluginIs DEF Inv
  <2> QED BY <2>1, <2>2, <1>2 DEF PluginTypeOK, pluginVars
<1> QED BY <1>3, <1>4, <1>5, <1>6, <1>7, <1>8, <1>9, <1>10, PluginSteps

LEMMA ThreadTypes ==
  Inv /\ [Next]_vars => ThreadTypeOK'
<1> SUFFICES ASSUME Inv, [Next]_vars PROVE ThreadTypeOK'
  OBVIOUS
<1> USE DEF Goto, openVars
<1>1. /\ TypeOK /\ TreeTypeOK /\ NodesOK /\ ChainsOK /\ WalkOK /\ CallsOK
      /\ UrlsOK
  BY TypeFacts DEF Inv
<1>2. /\ bInitialized \in BOOLEAN /\ pc \in Place /\ walk \in Seq(Node)
      /\ try \in Nat /\ try + 1 \in Nat /\ iOpenLevel \in NodeType
      /\ unlink \in Seq(Frame) /\ urls \in Seq(Node)
  BY <1>1 DEF TypeOK
<1>3. /\ \A x \in {"idle", "open", "load", "initialize", "examine", "link",
                   "deeper", "visit", "next", "reject", "uninitialize",
                   "unload", "unlink", "crashed"} : x \in Place
      /\ <<>> \in Seq(Node)
      /\ 1 \in Nat
  BY DEF Place
<1>4. ASSUME UNCHANGED <<walk, unlink, urls>>, bInitialized' \in BOOLEAN,
             try' \in {try, 1, try + 1}, iOpenLevel' \in NodeType,
             pc' \in Place
      PROVE  ThreadTypeOK'
  BY <1>2, <1>4 DEF ThreadTypeOK
<1>5. ASSUME NEW level \in OpenLevels, MMIOOpen(level) PROVE ThreadTypeOK'
  <2>1. level \in NodeType
    BY LevelAssumption
  <2> QED BY <2>1, <1>2, <1>3, <1>4, <1>5 DEF MMIOOpen
<1>6. CASE MMIOInitialize \/ FailOpen \/ ReturnClose \/ CallNoPlugin
  BY <1>2, <1>3, <1>4, <1>6
     DEF MMIOInitialize, FailOpen, ReturnClose, CallNoPlugin
<1>7. CASE MMIOLoadPlugin \/ MMIOInitializePlugin \/ FailInitialize
           \/ Examine \/ FailNode
  BY <1>2, <1>3, <1>4, <1>7
     DEF MMIOLoadPlugin, MMIOInitializePlugin, FailInitialize, Examine,
         FailNode
<1>8. CASE MMIOLinkPluginToNode \/ Visit \/ MMIOUninitializePlugin
  BY <1>2, <1>3, <1>4, <1>8
     DEF MMIOLinkPluginToNode, Visit, MMIOUninitializePlugin
<1>9. CASE FailLoad \/ MMIOUnloadPlugin
  BY <1>2, <1>3, <1>4, <1>9 DEF FailLoad, MMIOUnloadPlugin, Reject
<1>10. ASSUME NEW k \in DOMAIN urls, MMIOClose(k) PROVE ThreadTypeOK'
  <2>1. k \in 1..Len(urls) /\ Len(urls) \in Nat
    BY <1>2
  <2>2. urls[k] \in Node
    BY <2>1, <1>2
  <2>3. Call(urls[k]) \in Frame
    BY <2>2 DEF Call, Frame
  <2>4. SubSeq(urls, 1, k - 1) \in Seq(Node)
    BY <2>1, <1>2
  <2>5. <<Call(urls[k])>> \in Seq(Frame)
    BY <2>3
  <2> QED BY <2>4, <2>5, <1>2, <1>3, <1>10 DEF MMIOClose, ThreadTypeOK
<1>11. CASE MMIOUninitialize
  <2>1. unlink' \in Seq(Frame) /\ pc' \in Place
    <3>1. CASE pFirstChild[Root] = NULL
      BY <3>1, <1>2, <1>11 DEF MMIOUninitialize
    <3>2. CASE pFirstChild[Root] # NULL
      <4>1. pFirstChild[Root] \in Children(Root)
        BY <3>2, <1>1, Linked
      <4>2. pFirstChild[Root] \in Node
        BY <4>1, <1>1 DEF Children, TreeTypeOK
      <4>3. Call(pFirstChild[Root]) \in Frame
        BY <4>2 DEF Call, Frame
      <4>4. <<Call(pFirstChild[Root])>> \in Seq(Frame)
        BY <4>3
      <4> QED BY <4>4, <3>2, <1>3, <1>11 DEF MMIOUninitialize
    <3> QED BY <3>1, <3>2
  <2> QED BY <2>1, <1>2, <1>3, <1>11 DEF MMIOUninitialize, ThreadTypeOK
<1>12. CASE CreateURLNode
  <2>1. PICK n \in Free : walk' = <<n>> /\ urls' = urls /\ unlink' = unlink
    BY <1>12, CreateURLIs
  <2>2. walk' \in Seq(Node)
    BY <2>1 DEF Free
  <2> QED BY <2>1, <2>2, <1>2, <1>3, <1>12 DEF CreateURLNode, ThreadTypeOK
<1>13. CASE WalkDeeper
  <2>1. walk # <<>> /\ pFirstChild[Leaf] # NULL
    BY <1>1, <1>13 DEF WalkDeeper, WalkOK
  <2>2. pFirstChild[Leaf] \in Node
    BY <2>1, <1>1, LeafIs DEF TreeTypeOK, Tree
  <2>3. Append(walk, pFirstChild[Leaf]) \in Seq(Node)
    BY <2>2, <1>2, AppendIs
  <2>4. walk' \in Seq(Node) /\ pc' \in Place
    BY <2>3, <1>2, <1>3, <1>13 DEF WalkDeeper
  <2> QED BY <2>4, <1>2, <1>13 DEF WalkDeeper, ThreadTypeOK
<1>14. CASE NextBrother
  <2>1. walk # <<>>
    BY <1>1, <1>14 DEF NextBrother, WalkOK
  <2>2. Front(walk) \in Seq(Node)
    BY <2>1, <1>2, FrontIs
  <2>3. pNextBrother[Leaf] \in Node \cup {NULL}
    BY <2>1, <1>1, LeafIs DEF TreeTypeOK
  <2>4. pNextBrother[Leaf] # NULL =>
          Append(Front(walk), pNextBrother[Leaf]) \in Seq(Node)
    BY <2>2, <2>3, AppendIs
  <2>5. walk' \in Seq(Node) /\ pc' \in Place
    BY <2>2, <2>4, <1>2, <1>3, <1>14 DEF NextBrother
  <2> QED BY <2>5, <1>2, <1>14 DEF NextBrother, ThreadTypeOK
<1>15. CASE ReturnOpen
  <2>1. walk # <<>>
    BY <1>1, <1>15 DEF ReturnOpen, WalkOK
  <2>2. walk[1] \in Node
    BY <2>1, <1>1, TypeFacts
  <2>3. Append(urls, walk[1]) \in Seq(Node)
    BY <2>2, <1>2, AppendIs
  <2> QED BY <2>3, <1>2, <1>3, <1>15 DEF ReturnOpen, ThreadTypeOK
<1>16. CASE DestroyURLNode
  BY <1>2, <1>3, <1>16 DEF DestroyURLNode, ThreadTypeOK
<1>17. CASE UnlinkChild \/ UnlinkBrother
  <2>1. PICK c, to : Calling(c, to)
    BY <1>17, CallingSteps
  <2>2. /\ unlink # <<>> /\ CallFor(c, to) /\ c \in Node \cup {NULL}
        /\ to \in {"brother", "self"}
    BY <2>1 DEF Calling
  <2>3. unlink' \in Seq(Frame)
    BY <2>2, <1>1, CallForIs
  <2> QED BY <2>3, <1>2, <1>17 DEF UnlinkChild, UnlinkBrother, ThreadTypeOK
<1>18. CASE UnlinkURLNode \/ UnlinkPlugin \/ UnlinkNothing
  <2>1. /\ unlink # <<>> /\ unlink' = Front(unlink)
        /\ pc' \in {"unlink", "uninitialize"}
        /\ UNCHANGED <<openVars, bInitialized, urls>>
    BY <1>18 DEF UnlinkURLNode, UnlinkPlugin, UnlinkNothing
  <2>2. unlink' \in Seq(Frame)
    BY <2>1, <1>2, FrontIs
  <2> QED BY <2>1, <2>2, <1>2, <1>3 DEF ThreadTypeOK
<1>19. CASE UNCHANGED vars
  BY <1>2, <1>4, <1>19 DEF vars
<1> QED
  BY <1>5, <1>6, <1>7, <1>8, <1>9, <1>10, <1>11, <1>12, <1>13, <1>14, <1>15,
     <1>16, <1>17, <1>18, <1>19
  DEF Next, Step

\* The counts are bounded by the number of instances, and the way down by the
\* number of types.
LEMMA Bounds ==
  TreeTypeOK /\ PluginTypeOK /\ ThreadTypeOK /\ CountsOK /\ WalkOK => TypeOK
<1> SUFFICES ASSUME TreeTypeOK, PluginTypeOK, ThreadTypeOK, CountsOK, WalkOK
             PROVE  TypeOK
  OBVIOUS
<1>1. iRefCount \in [Plugin -> 0..Cardinality(Instance) + 1]
  <2> SUFFICES ASSUME NEW p \in Plugin
               PROVE  iRefCount[p] \in 0..Cardinality(Instance) + 1
    BY DEF PluginTypeOK
  <2>1. Users(p) \subseteq Instance
    BY DEF Users
  <2>2. /\ Cardinality(Users(p)) \in Nat /\ Cardinality(Instance) \in Nat
        /\ Cardinality(Users(p)) <= Cardinality(Instance)
    BY <2>1, AddressAssumption, FS_Subset, FS_CardinalityType
  <2>3. \/ iRefCount[p] = Cardinality(Users(p)) + 1
        \/ iRefCount[p] = Cardinality(Users(p)) + 0
    BY DEF CountsOK
  <2> QED BY <2>2, <2>3
<1>2. walk \in Seq(Node) /\ Len(walk) <= TERMINATOR
  <2>1. walk \in Seq(Node) /\ Len(walk) \in Nat
    BY DEF ThreadTypeOK
  <2>2. CASE Len(walk) = 0
    BY <2>1, <2>2 DEF TERMINATOR
  <2>3. CASE Len(walk) # 0
    <3>1. Len(walk) \in 1..Len(walk)
      BY <2>1, <2>3
    <3>2. walk[Len(walk)] \in Node /\ iNodeType[walk[Len(walk)]] >= Len(walk)
      BY <2>1, <3>1 DEF WalkOK
    <3>3. iNodeType[walk[Len(walk)]] \in NodeType
      BY <3>2 DEF TreeTypeOK
    <3> QED BY <2>1, <3>2, <3>3, NodeTypes DEF TERMINATOR
  <2> QED BY <2>1, <2>2, <2>3
<1> QED BY <1>1, <1>2 DEF TypeOK, TreeTypeOK, PluginTypeOK, ThreadTypeOK

LEMMA TypeKept == Inv /\ [Next]_vars => TypeOK'
<1>1. (TreeTypeOK /\ PluginTypeOK /\ ThreadTypeOK /\ CountsOK /\ WalkOK)'
      => TypeOK'
  BY Bounds, PTL
<1> QED BY <1>1, TreeKept, PluginTypes, ThreadTypes, CountsKept, WalkKept

-----------------------------------------------------------------------------
(* The invariant holds, and what follows from it.                          *)

LEMMA InitInv == Init => Inv
<1> SUFFICES ASSUME Init PROVE Inv
  OBVIOUS
<1>1. /\ alive = {} /\ pc = "idle" /\ walk = <<>> /\ unlink = <<>>
      /\ urls = <<>> /\ try = 1 /\ bInitialized = TRUE
      /\ hPlugin = NULL /\ pInstance = NULL /\ iOpenLevel = TERMINATOR
      /\ pParent = [n \in Node |-> NULL]
      /\ pFirstChild = [n \in Tree |-> NULL]
      /\ pNextBrother = [n \in Node |-> NULL]
      /\ bUnlinkPoint = [n \in Node |-> FALSE]
      /\ pNodeOwnerPluginInstance = [n \in Node |-> NULL]
      /\ iRefCount = [p \in Plugin |-> 0]
      /\ instances = [i \in Instance |-> NULL]
      /\ iNodeType = [n \in Node |-> URL]
  BY DEF Init
<1>2. /\ NULL \notin Plugin /\ NULL \notin Instance /\ NULL \notin Node
      /\ Root \in Tree /\ \A n \in Node : n \in Tree
  BY AddressAssumption DEF Tree
<1>3. Cardinality(Instance) \in Nat
  BY AddressAssumption, FS_CardinalityType
<1>4. TypeOK
  BY <1>1, <1>3 DEF TypeOK, Place, NodeType, URL, TERMINATOR
<1>5. NodesOK
  BY <1>1, <1>2 DEF NodesOK, Dead
<1>6. ChainsOK
  <2>1. Children(Root) = {}
    BY <1>1 DEF Children
  <2>2. pFirstChild[Root] = NULL
    BY <1>1, <1>2
  <2>3. IsChain({}, NULL, pNextBrother)
    BY ChainEmpty
  <2> QED BY <2>1, <2>2, <2>3, <1>1 DEF ChainsOK
<1>7. InstancesOK
  BY <1>1 DEF InstancesOK, NodesOf
<1>8. CountsOK
  <2> SUFFICES ASSUME NEW p \in Plugin
               PROVE  iRefCount[p] = Cardinality(Users(p))
                        + (IF hPlugin = p /\ pInstance = NULL THEN 1 ELSE 0)
    BY DEF CountsOK
  <2>1. Users(p) = {}
    BY <1>1, <1>2 DEF Users
  <2>2. Cardinality({}) = 0
    BY FS_EmptySet
  <2> QED BY <2>1, <2>2, <1>1, <1>2
<1>9. HandOK
  BY <1>1 DEF HandOK
<1>10. WalkOK
  BY <1>1 DEF WalkOK
<1>11. CallsOK /\ DoneOK
  BY <1>1, EmptyCalls
<1>12. UrlsOK
  BY <1>1, <1>2 DEF UrlsOK, Work
<1>13. OldOK
  BY <1>1 DEF OldOK, Calls
<1> QED BY <1>4, <1>5, <1>6, <1>7, <1>8, <1>9, <1>10, <1>11, <1>12, <1>13
        DEF Inv

LEMMA InvKept == Inv /\ [Next]_vars => Inv'
BY TypeKept, TreeKept, InstancesKept, CountsKept, HandKept, WalkKept,
   StackKept, UrlsKept, OldKept
DEF Inv

LEMMA InvAlways == Spec => []Inv
BY InitInv, InvKept, PTL DEF Spec

\* The variables have their types.  So MMIOOpen() goes down no more levels
\* than there are types of nodes, and no count of references gets below zero
\* or above the number of instances by more than the one in hand
\* (MMIO_internal_OpenCoreWalkTree(), MMIOLoadPlugin(), MMIOUnloadPlugin()).
THEOREM TypeCorrect == Spec => []TypeOK
BY InvAlways, PTL DEF Inv

\* At every step of every call the pointers form a tree of exactly the nodes
\* that are allocated, and the calls that have not returned work on allocated
\* nodes only (MMIOPsCreateAndLinkNewNodeStruct(),
\* MMIOPsUnlinkAndDestroyNodeStruct(), MMIOUnlinkNode()).
THEOREM TreeCorrect == Spec => []TreeOK
<1>1. Inv => TreeOK
  <2> SUFFICES ASSUME Inv PROVE TreeOK
    OBVIOUS
  <2>1. /\ TypeOK /\ TreeTypeOK /\ NodesOK /\ ChainsOK /\ WalkOK /\ CallsOK
    BY TypeFacts DEF Inv
  <2>2. DOMAIN walk = 1..Len(walk) /\ DOMAIN unlink = 1..Len(unlink)
    BY <2>1, TypeFacts
  <2>3. \A n \in alive : pParent[n] \in alive \cup {Root}
    BY <2>1, Parents
  <2>4. \A k \in 1..Len(walk) : walk[k] \in alive
    BY <2>1 DEF WalkOK
  <2>5. \A k \in 1..Len(unlink) : unlink[k].node \in alive
    BY <2>1, CallsAre
  <2> QED BY <2>1, <2>2, <2>3, <2>4, <2>5 DEF TreeOK, ChainsOK
<1> QED BY <1>1, InvAlways, PTL

\* However calls fail, a plugin has exactly a reference for each of its
\* instances, and an instance one node at which it is unlinked
\* (MMIOLoadPlugin(), MMIOUnloadPlugin(), MMIOLinkPluginToNode(),
\* MMIOUnlinkNode()).
THEOREM RefsCorrect == Spec => []RefsExact
<1>1. Inv => RefsExact
  <2> SUFFICES ASSUME Inv PROVE RefsExact
    OBVIOUS
  <2>1. /\ TypeOK /\ TreeTypeOK /\ InstancesOK /\ CountsOK
    BY TypeFacts DEF Inv
  <2>2. \A p \in Plugin :
          iRefCount[p] = Cardinality({i \in Instance : instances[i] = p})
                         + (IF hPlugin = p /\ pInstance = NULL THEN 1 ELSE 0)
    BY <2>1 DEF CountsOK, Users
  <2>3. ASSUME NEW i \in Instance, instances[i] # NULL
        PROVE  Cardinality({n \in NodesOf(i) : bUnlinkPoint[n]})
                 = (IF i = pInstance THEN 0 ELSE 1)
    <3> DEFINE U == {n \in NodesOf(i) : bUnlinkPoint[n]}
    <3>1. CASE i = pInstance
      <4>1. NodesOf(i) = {}
        BY <3>1, <2>1, AddressAssumption DEF InstancesOK, NodesOf
      <4>2. U = {}
        BY <4>1
      <4> QED BY <3>1, <4>2, FS_EmptySet
    <3>2. CASE i # pInstance
      <4>1. PICK n \in NodesOf(i) : bUnlinkPoint[n]
        BY <3>2, <2>1, <2>3 DEF InstancesOK
      <4>2. \A m \in U : m = n
        BY <4>1, <2>1 DEF InstancesOK
      <4>3. U = {n}
        BY <4>1, <4>2
      <4> QED BY <3>2, <4>3, FS_Singleton
    <3> QED BY <3>1, <3>2
  <2> QED BY <2>2, <2>3 DEF RefsExact
<1> QED BY <1>1, InvAlways, PTL

\* Between the calls the tree consists of what the successful calls of
\* MMIOOpen() made and MMIOClose() did not take back: a call that fails leaves
\* nothing behind.
THEOREM RestCorrect == Spec => []RestOK
<1>1. Inv => RestOK
  <2> SUFFICES ASSUME Inv, pc = "idle"
               PROVE  /\ alive = UNION {Below(urls[k]) : k \in DOMAIN urls}
                      /\ {n \in alive : iNodeType[n] = URL}
                           = {urls[k] : k \in DOMAIN urls}
    BY DEF RestOK
  <2>1. /\ TypeOK /\ TreeTypeOK /\ NodesOK /\ ChainsOK /\ WalkOK /\ CallsOK
        /\ UrlsOK
    BY TypeFacts DEF Inv
  <2>2. DOMAIN urls = 1..Len(urls) /\ Len(urls) \in Nat
    BY <2>1, TypeFacts
  <2>3. Work = NULL
    <3>1. walk = <<>> /\ unlink = <<>>
      BY <2>1, NoCalls DEF WalkOK
    <3> QED BY <3>1 DEF Work
  <2>4. /\ OpenURLs \subseteq alive
        /\ \A n \in OpenURLs : pParent[n] = Root
        /\ \A k \in 1..Len(urls) : urls[k] \in OpenURLs
    BY <2>1, UrlFacts
  <2>5. OpenURLs = Children(Root)
    <3>1. OpenURLs \in SUBSET Children(Root)
      BY <2>4 DEF Children
    <3>2. pFirstChild[Root] \in OpenURLs \cup {NULL}
      <4>1. urls # <<>> => 1 \in 1..Len(urls)
        BY <2>1, TypeFacts
      <4>2. pFirstChild[Root] = IF urls = <<>> THEN Work ELSE urls[1]
        BY <2>1 DEF UrlsOK
      <4> QED BY <4>1, <4>2, <2>3, <2>4
    <3>3. ASSUME NEW x \in OpenURLs PROVE pNextBrother[x] \in OpenURLs \cup {NULL}
      <4>1. PICK k \in 1..Len(urls) : x = urls[k]
        BY <3>3 DEF OpenURLs
      <4>2. Len(urls) \in Nat
        BY <2>2
      <4>3. k # Len(urls) => k + 1 \in 1..Len(urls)
        BY <4>2
      <4>4. pNextBrother[urls[k]]
              = IF k = Len(urls) THEN Work ELSE urls[k + 1]
        BY <2>1 DEF UrlsOK
      <4> QED BY <4>1, <4>3, <4>4, <2>3, <2>4
    <3>4. /\ IsFiniteSet(Children(Root)) /\ NULL \notin Children(Root)
          /\ IsChain(Children(Root), pFirstChild[Root], pNextBrother)
      BY <2>1, Linked
    <3> HIDE DEF OpenURLs, Children
    <3> QED BY <3>1, <3>2, <3>3, <3>4, ChainAll
  <2>6. /\ Old \subseteq alive /\ OpenURLs \subseteq Old
        /\ \A m \in alive : m \in Old <=> m \in OpenURLs \/ pParent[m] \in Old
    BY <2>1, <2>4, OldIs
  <2>7. ASSUME alive \ Old # {} PROVE FALSE
    <3>1. alive \ Old \in SUBSET alive
      OBVIOUS
    <3>2. PICK m \in alive \ Old : pParent[m] \notin alive \ Old
      BY <2>1, <2>7, <3>1, Topmost
    <3>3. pParent[m] \in alive \cup {Root} /\ m \in Children(pParent[m])
      BY <3>2, <2>1, Parents
    <3>4. pParent[m] # Root
      BY <3>2, <3>3, <2>5, <2>6
    <3> QED BY <3>2, <3>3, <3>4, <2>6
  <2>8. alive = Old
    BY <2>6, <2>7
  <2>9. alive = UNION {Below(urls[k]) : k \in DOMAIN urls}
    BY <2>2, <2>8 DEF Old, OpenURLs
  <2>10. \A n \in alive : iNodeType[n] = URL <=> n \in Children(Root)
    BY <2>1, Parents DEF Children
  <2>11. Children(Root) \subseteq alive
    BY DEF Children
  <2>12. {n \in alive : iNodeType[n] = URL} = Children(Root)
    BY <2>10, <2>11
  <2> QED BY <2>2, <2>5, <2>9, <2>12 DEF OpenURLs
<1> QED BY <1>1, InvAlways, PTL

\* A call leaves the trees of the older URLs alone, in each of its steps
\* (MMIOOpen(), MMIOClose(), MMIOUnlinkNode()).
THEOREM OldTreesCorrect == Spec => OldTreesKept
<1> DEFINE Kept ==
      \A k \in DOMAIN urls' : k \in DOMAIN urls =>
        /\ pFirstChild'[Root] = pFirstChild[Root]
        /\ \A n \in Below(urls[k]) :
             /\ n \in alive'
             /\ pFirstChild'[n] = pFirstChild[n]
             /\ pNodeOwnerPluginInstance'[n] = pNodeOwnerPluginInstance[n]
<1>1. Inv /\ [Next]_vars => [Kept]_vars
  <2> SUFFICES ASSUME Inv, [Next]_vars PROVE Kept
    OBVIOUS
  <2>1. /\ TypeOK /\ TreeTypeOK /\ NodesOK /\ ChainsOK /\ WalkOK /\ HandOK
        /\ CallsOK /\ DoneOK /\ InstancesOK /\ UrlsOK /\ OldOK
    BY TypeFacts DEF Inv
  <2>2. /\ Old \subseteq alive /\ NULL \notin Old /\ Root \notin Old
        /\ OpenURLs \subseteq Old
    BY OldNodes
  <2>3. \A k \in DOMAIN urls : Below(urls[k]) \subseteq Old
    BY DEF Old, OpenURLs
  <2>4. ASSUME urls # <<>> =>
                 /\ pFirstChild'[Root] = pFirstChild[Root]
                 /\ \A n \in Old :
                      /\ n \in alive'
                      /\ pFirstChild'[n] = pFirstChild[n]
                      /\ pNodeOwnerPluginInstance'[n]
                           = pNodeOwnerPluginInstance[n]
        PROVE  Kept
    BY <2>3, <2>4
  <2> HIDE DEF Kept
  <2>5. urls # <<>> => pFirstChild[Root] \in Old
    <3>1. urls # <<>> => 1 \in 1..Len(urls)
      BY <2>1, TypeFacts
    <3> QED BY <3>1, <2>1, <2>2, UrlFacts DEF UrlsOK
  <2>6. \A n \in Old : n \in Node /\ n \in Tree
    BY <2>1, <2>2 DEF TreeTypeOK, Tree
  <2>7. CASE UNCHANGED treeVars
    BY <2>2, <2>4, <2>7 DEF treeVars
  <2>8. CASE CreateURLNode
    <3>1. PICK n \in Free : CreateURL(n)
      BY <2>8, CreateURLIs
    <3>2. n \notin Old
      BY <3>1, <2>2 DEF Free
    <3>3. /\ alive' = alive \cup {n}
          /\ pNodeOwnerPluginInstance'
               = [pNodeOwnerPluginInstance EXCEPT ![n] = NULL]
          /\ pFirstChild[Root] # NULL => pFirstChild' = pFirstChild
      BY <3>1 DEF CreateURL
    <3>4. \A m \in Old : pNodeOwnerPluginInstance'[m]
                           = pNodeOwnerPluginInstance[m]
      BY <3>2, <3>3, <2>1, <2>6 DEF TreeTypeOK
    <3> QED BY <3>3, <3>4, <2>2, <2>4, <2>5
  <2>9. CASE MMIOLinkPluginToNode
    <3>1. PICK shape, f : /\ Leaf \in alive /\ pInstance \in Instance
                          /\ FreshFor(f, shape)
                          /\ CreateNodes(Leaf, f, shape, pInstance)
      BY <2>1, <2>9, LinkIs
    <3>2. PICK n \in alive, i \in Instance : n = Leaf /\ i = pInstance
      BY <3>1
    <3> DEFINE K == 1 + shape.leaves
    <3>3. /\ DOMAIN f = 1..K
          /\ \A j \in 1..K : f[j] \in Node /\ f[j] \notin alive
          /\ alive' = alive \cup New(f)
          /\ \A m \in Node \ New(f) :
               pNodeOwnerPluginInstance'[m] = pNodeOwnerPluginInstance[m]
          /\ \A m \in Tree : m # n /\ m \notin New(f) =>
               pFirstChild'[m] = pFirstChild[m]
      BY <3>1, <3>2, <2>1, CreateNodesEffect
    <3> HIDE DEF K
    <3>4. walk # <<>>
      BY <2>1, <2>9 DEF MMIOLinkPluginToNode, WalkOK
    <3>5. Leaf = walk[Len(walk)] /\ Len(walk) \in 1..Len(walk)
      BY <3>4, <2>1, LeafIs
    <3>6. n \notin Old
      BY <3>2, <3>5, <2>1 DEF OldOK
    <3>7. /\ \A m \in Old : m \notin New(f) /\ m # n
          /\ Root \in Tree /\ Root \notin New(f) /\ Root # n
      BY <3>3, <3>6, <2>1, <2>2, AddressAssumption DEF New, Tree, TreeTypeOK
    <3> QED BY <3>3, <3>7, <2>2, <2>4, <2>6
  <2>10. CASE DestroyURLNode \/ UnlinkURLNode \/ UnlinkPlugin
    <3>1. PICK n, S : /\ IsBranch(n, S) /\ DestroyNodes(n, S) /\ n \notin Old
      <4>1. CASE DestroyURLNode
        <5>1. PICK n : n = walk[1]
          OBVIOUS
        <5>2. IsBranch(n, {n}) /\ DestroyNodes(n, {n}) /\ walk # <<>>
          BY <5>1, <4>1, <2>1, DestroyURLIs
        <5>3. 1 \in 1..Len(walk)
          BY <5>2, <2>1, TypeFacts
        <5> QED BY <5>1, <5>2, <5>3, <2>1 DEF OldOK
      <4>2. CASE UnlinkURLNode \/ UnlinkPlugin
        <5>1. PICK n : n = Top.node
          OBVIOUS
        <5>2. \E S : IsBranch(n, S) /\ DestroyNodes(n, S)
          BY <5>1, <4>2, <2>1, UnlinkURLIs, UnlinkPluginIs
        <5>3. unlink # <<>>
          BY <4>2 DEF UnlinkURLNode, UnlinkPlugin
        <5>4. n = Unlinked(Len(unlink)) /\ Len(unlink) \in Calls
          BY <5>1, <5>3, <2>1, TopIs
        <5> QED BY <5>2, <5>4, <2>1 DEF OldOK
      <4> QED BY <4>1, <4>2, <2>10
    <3>2. S \cap Old = {} /\ S \subseteq alive /\ n \in alive
      BY <3>1, BranchNotOld DEF IsBranch
    <3>3. /\ alive' = alive \ S
          /\ \A m \in Node \ S :
               pNodeOwnerPluginInstance'[m] = pNodeOwnerPluginInstance[m]
          /\ \A m \in Tree \ S :
               pFirstChild'[m] = IF m = pParent[n] /\ pFirstChild[m] = n
                                 THEN pNextBrother[n] ELSE pFirstChild[m]
      BY <3>1, <2>1, DestroyEffect
    <3>4. pParent[n] \notin Old
      <4>1. OpenURLs \subseteq alive
        BY <2>1, UrlFacts
      <4> QED BY <4>1, <3>1, <3>2, <2>1, OldIs
    <3>5. Root \in Tree \ S
      BY <3>2, <2>1, AddressAssumption DEF Tree, TreeTypeOK
    <3>6. urls # <<>> => pFirstChild[Root] # n
      BY <3>1, <2>5
    <3>7. urls # <<>> => pFirstChild'[Root] = pFirstChild[Root]
      BY <3>3, <3>5, <3>6
    <3>8. \A m \in Old : /\ m \in Tree \ S /\ m \in Node \ S /\ m \in alive'
                         /\ m # pParent[n]
      BY <3>2, <3>3, <3>4, <2>2, <2>6
    <3> QED BY <3>3, <3>7, <3>8, <2>4
  <2> QED BY <2>7, <2>8, <2>9, <2>10, TreeSteps
<1> QED BY <1>1, InvAlways, PTL DEF Spec, OldTreesKept

-----------------------------------------------------------------------------
(* ProcessTree implements PluginUse.                                       *)

Loaded == {p \in Plugin : iRefCount[p] > 0}
Made == [i \in Instance |-> NodesOf(i)]

\* Only a plugin makes or destroys nodes that an instance owns.
LEMMA MadeKept ==
  Inv /\ [Next]_vars => Made' = Made \/ MMIOLinkPluginToNode \/ UnlinkPlugin
<1> SUFFICES ASSUME Inv, [Next]_vars,
                    ~ MMIOLinkPluginToNode, ~ UnlinkPlugin
             PROVE  Made' = Made
  OBVIOUS
<1>1. /\ TypeOK /\ TreeTypeOK /\ NodesOK /\ ChainsOK /\ WalkOK /\ CallsOK
      /\ DoneOK
  BY TypeFacts DEF Inv
<1>2. SUFFICES ASSUME NEW i \in Instance PROVE NodesOf(i)' = NodesOf(i)
  BY DEF Made
<1>3. i # NULL
  BY AddressAssumption
<1>4. CASE UNCHANGED treeVars
  BY <1>4 DEF treeVars, NodesOf
<1>5. CASE CreateURLNode
  <2>1. PICK n \in Free : CreateURL(n)
    BY <1>5, CreateURLIs
  <2>2. /\ alive' = alive \cup {n} /\ n \notin alive /\ n \in Node
        /\ \A m \in Node : pNodeOwnerPluginInstance'[m]
             = IF m = n THEN NULL ELSE pNodeOwnerPluginInstance[m]
    BY <2>1, <1>1 DEF CreateURL, Free, TreeTypeOK
  <2> QED BY <2>2, <1>1, <1>3 DEF NodesOf, TreeTypeOK
<1>6. CASE DestroyURLNode \/ UnlinkURLNode
  <2>1. PICK n \in alive : /\ pParent[n] = Root
                           /\ IsBranch(n, {n}) /\ DestroyNodes(n, {n})
    <3>1. DestroyURLNode => /\ walk[1] \in alive /\ pParent[walk[1]] = Root
                            /\ IsBranch(walk[1], {walk[1]})
                            /\ DestroyNodes(walk[1], {walk[1]})
      BY <1>1, DestroyURLIs
    <3>2. UnlinkURLNode => /\ Top.node \in alive /\ pParent[Top.node] = Root
                           /\ IsBranch(Top.node, {Top.node})
                           /\ DestroyNodes(Top.node, {Top.node})
      BY <1>1, UnlinkURLIs
    <3> QED BY <3>1, <3>2, <1>6
  <2>2. pNodeOwnerPluginInstance[n] = NULL
    BY <2>1, <1>1, Parents
  <2>3. /\ alive' = alive \ {n}
        /\ \A m \in Node \ {n} :
             pNodeOwnerPluginInstance'[m] = pNodeOwnerPluginInstance[m]
    BY <2>1, <1>1, DestroyEffect
  <2> QED BY <2>2, <2>3, <1>1, <1>3 DEF NodesOf, TreeTypeOK
<1> QED BY <1>4, <1>5, <1>6, TreeSteps

\* A plugin that is linked makes nodes for an instance that has none.
LEMMA LinkUses == Inv /\ MMIOLinkPluginToNode => Use!Link(pInstance)
<1> SUFFICES ASSUME Inv, MMIOLinkPluginToNode PROVE Use!Link(pInstance)
  OBVIOUS
<1>1. /\ TypeOK /\ TreeTypeOK /\ NodesOK /\ WalkOK /\ HandOK /\ InstancesOK
  BY TypeFacts DEF Inv
<1>2. PICK shape, f : /\ Leaf \in alive /\ pInstance \in Instance
                      /\ FreshFor(f, shape)
                      /\ CreateNodes(Leaf, f, shape, pInstance)
  BY <1>1, LinkIs
<1>3. PICK n \in alive, i \in Instance : n = Leaf /\ i = pInstance
  BY <1>2
<1> DEFINE K == 1 + shape.leaves
<1>4. /\ DOMAIN f = 1..K
      /\ \A j \in 1..K : f[j] \in Node /\ f[j] \notin alive
      /\ alive' = alive \cup New(f)
      /\ \A m \in Node \ New(f) :
           pNodeOwnerPluginInstance'[m] = pNodeOwnerPluginInstance[m]
      /\ \A j \in 1..K : pNodeOwnerPluginInstance'[f[j]] = i
  <2>1. FreshFor(f, shape) /\ CreateNodes(n, f, shape, i)
    BY <1>2, <1>3
  <2> QED BY <2>1, <1>1, CreateNodesEffect
<1> HIDE DEF K
<1>5. /\ New(f) \in SUBSET Node /\ New(f) \cap alive = {}
      /\ \A m \in New(f) : pNodeOwnerPluginInstance'[m] = i
  BY <1>4 DEF New
<1>6. pc = "link" /\ iRefCount' = iRefCount /\ instances' = instances
  BY DEF MMIOLinkPluginToNode, pluginVars
<1>7. instances[i] # NULL /\ i # NULL
  BY <1>6, <1>1, <1>3, AddressAssumption DEF HandOK
<1>8. \A m \in alive : pNodeOwnerPluginInstance[m] # i
  BY <1>7, <1>3, <1>1 DEF InstancesOK
<1>9. NodesOf(i) = {}
  BY <1>8 DEF NodesOf
<1>10. ASSUME NEW j \in Instance
       PROVE  NodesOf(j)' = IF j = i THEN New(f) ELSE NodesOf(j)
  BY <1>4, <1>5, <1>8, <1>1 DEF NodesOf, TreeTypeOK
<1>11. Made' = [Made EXCEPT ![i] = New(f)] /\ Made[i] = {}
  BY <1>9, <1>10 DEF Made
<1>12. \E S \in SUBSET Node : Made' = [Made EXCEPT ![i] = S]
  BY <1>5, <1>11
<1> QED BY <1>3, <1>6, <1>7, <1>11, <1>12 DEF Use!Link, Made

\* A plugin that is unlinked destroys all the nodes of its instance.
LEMMA UnlinkUses == Inv /\ UnlinkPlugin => \E i \in Instance : Use!Unlink(i)
<1> SUFFICES ASSUME Inv, UnlinkPlugin PROVE \E i \in Instance : Use!Unlink(i)
  OBVIOUS
<1>1. /\ TypeOK /\ TreeTypeOK /\ NodesOK /\ InstancesOK /\ CallsOK /\ DoneOK
  BY TypeFacts DEF Inv
<1>2. PICK n \in alive : /\ IsBranch(n, NodesOf(pNodeOwnerPluginInstance[n]))
                         /\ DestroyNodes(n,
                                         NodesOf(pNodeOwnerPluginInstance[n]))
                         /\ pNodeOwnerPluginInstance[n] \in Instance
  <2>1. PICK n : n = Top.node
    OBVIOUS
  <2> QED BY <2>1, <1>1, UnlinkPluginIs
<1>3. PICK i \in Instance : i = pNodeOwnerPluginInstance[n]
  BY <1>2
<1>4. /\ alive' = alive \ NodesOf(i)
      /\ \A m \in Node \ NodesOf(i) :
           pNodeOwnerPluginInstance'[m] = pNodeOwnerPluginInstance[m]
  BY <1>1, <1>2, <1>3, DestroyEffect
<1>5. ASSUME NEW j \in Instance
      PROVE  NodesOf(j)' = IF j = i THEN {} ELSE NodesOf(j)
  BY <1>4, <1>1 DEF NodesOf, TreeTypeOK
<1>6. Made' = [Made EXCEPT ![i] = {}]
  BY <1>5 DEF Made
<1>7. iRefCount' = iRefCount /\ instances' = instances
  BY DEF UnlinkPlugin, pluginVars
<1>8. instances[i] # NULL
  BY <1>1, <1>3, AddressAssumption DEF InstancesOK
<1> QED BY <1>6, <1>7, <1>8 DEF Use!Unlink, Made

\* A plugin is loaded in the step that gives it a reference, if it is not.
LEMMA LoadUses ==
  Inv /\ MMIOLoadPlugin => \E p \in Plugin : Loaded' = Loaded \cup {p}
<1> SUFFICES ASSUME Inv, MMIOLoadPlugin
             PROVE  \E p \in Plugin : Loaded' = Loaded \cup {p}
  OBVIOUS
<1>1. /\ pc = "load"
      /\ iRefCount' = [iRefCount EXCEPT ![Candidate] = @ + 1]
  BY DEF MMIOLoadPlugin, CountLoad
<1>2. PICK p \in Plugin : p = Candidate
  BY <1>1, CandidateIs DEF Inv
<1>3. ASSUME NEW q \in Plugin
      PROVE  /\ iRefCount[q] \in Nat
             /\ iRefCount'[q] = IF q = p THEN iRefCount[q] + 1
                                ELSE iRefCount[q]
  <2>1. iRefCount \in [Plugin -> 0..Cardinality(Instance) + 1]
    BY DEF Inv, TypeOK
  <2>2. Cardinality(Instance) \in Nat
    BY AddressAssumption, FS_CardinalityType
  <2> QED BY <2>1, <2>2, <1>1, <1>2
<1>4. \A q \in Plugin : iRefCount'[q] > 0 <=> q = p \/ iRefCount[q] > 0
  BY <1>3
<1> QED BY <1>4 DEF Loaded

\* The last reference is gone when no instance is left.
LEMMA UnloadUses ==
  Inv /\ MMIOUnloadPlugin =>
    \/ Loaded' = Loaded
    \/ \E p \in Plugin : /\ Loaded' = Loaded \ {p}
                         /\ \A i \in Instance : instances[i] # p
<1> SUFFICES ASSUME Inv, MMIOUnloadPlugin
             PROVE  \/ Loaded' = Loaded
                    \/ \E p \in Plugin :
                         /\ Loaded' = Loaded \ {p}
                         /\ \A i \in Instance : instances[i] # p
  OBVIOUS
<1>1. /\ pc = "unload"
      /\ iRefCount' = [iRefCount EXCEPT ![hPlugin] = @ - 1]
  BY DEF MMIOUnloadPlugin, CountUnload
<1>2. pInstance = NULL /\ hPlugin # NULL /\ hPlugin \in Plugin
  BY <1>1 DEF Inv, HandOK, TypeOK
<1>3. PICK p \in Plugin : p = hPlugin
  BY <1>2
<1>4. /\ IsFiniteSet(Users(p)) /\ Cardinality(Users(p)) \in Nat
      /\ iRefCount[p] = Cardinality(Users(p)) + 1
  <2>1. Users(p) \subseteq Instance
    BY DEF Users
  <2>2. IsFiniteSet(Users(p))
    BY <2>1, AddressAssumption, FS_Subset
  <2> QED BY <2>2, <1>2, <1>3, FS_CardinalityType DEF Inv, CountsOK
<1>5. \A q \in Plugin : iRefCount'[q] = IF q = p THEN Cardinality(Users(p))
                                        ELSE iRefCount[q]
  BY <1>1, <1>3, <1>4 DEF Inv, TypeOK
<1>6. CASE Cardinality(Users(p)) > 0
  <2>1. \A q \in Plugin : iRefCount'[q] > 0 <=> iRefCount[q] > 0
    BY <1>4, <1>5, <1>6
  <2> QED BY <2>1 DEF Loaded
<1>7. CASE Cardinality(Users(p)) = 0
  <2>1. Users(p) = {}
    BY <1>4, <1>7, FS_EmptySet
  <2>2. \A i \in Instance : instances[i] # p
    BY <2>1 DEF Users
  <2>3. \A q \in Plugin : iRefCount'[q] > 0 <=> q # p /\ iRefCount[q] > 0
    BY <1>5, <1>7
  <2>4. Loaded' = Loaded \ {p}
    BY <2>3 DEF Loaded
  <2> QED BY <2>2, <2>4
<1> QED BY <1>4, <1>6, <1>7

LEMMA UseInit == Init => Use!Init
<1> SUFFICES ASSUME Init PROVE Use!Init
  OBVIOUS
<1>1. \A p \in Plugin : ~ (iRefCount[p] > 0)
  BY DEF Init
<1>2. \A i \in Instance : NodesOf(i) = {}
  BY DEF Init, NodesOf
<1> QED BY <1>1, <1>2 DEF Init, Use!Init

LEMMA UseStep == Inv /\ [Next]_vars => [Use!Next]_(Use!vars)
<1> SUFFICES ASSUME Inv, [Next]_vars PROVE [Use!Next]_(Use!vars)
  OBVIOUS
<1>1. TypeOK /\ HandOK /\ InstancesOK /\ CountsOK
  BY DEF Inv
<1>2. iRefCount' = iRefCount => Loaded' = Loaded
  BY DEF Loaded
<1>3. Loaded' = Loaded /\ Made' = Made /\ instances' = instances
      => UNCHANGED Use!vars
  BY DEF Use!vars, Loaded, Made
<1>4. CASE MMIOLinkPluginToNode
  <2>1. pInstance \in Instance
    BY <1>1, <1>4, LinkIs DEF Inv
  <2> QED BY <2>1, <1>4, LinkUses DEF Use!Next
<1>5. CASE UnlinkPlugin
  BY <1>5, UnlinkUses DEF Use!Next
<1>6. ASSUME Made' = Made,
             \/ UNCHANGED <<pluginVars, handVars>>
             \/ FailInitialize \/ Examine \/ FailNode
      PROVE  [Use!Next]_(Use!vars)
  <2>1. iRefCount' = iRefCount /\ instances' = instances
    BY <1>6 DEF FailInitialize, Examine, FailNode, pluginVars
  <2> QED BY <2>1, <1>2, <1>3, <1>6
<1>7. ASSUME Made' = Made, MMIOLoadPlugin PROVE [Use!Next]_(Use!vars)
  <2>1. instances' = instances
    BY <1>7 DEF MMIOLoadPlugin
  <2>2. PICK p \in Plugin : Loaded' = Loaded \cup {p}
    BY <1>7, LoadUses
  <2>3. Use!Load(p)
    BY <2>1, <2>2, <1>7 DEF Use!Load, Loaded, Made
  <2> QED BY <2>3 DEF Use!Next
<1>8. ASSUME Made' = Made, MMIOUnloadPlugin PROVE [Use!Next]_(Use!vars)
  <2>1. instances' = instances
    BY <1>8 DEF MMIOUnloadPlugin
  <2>2. CASE Loaded' = Loaded
    BY <2>1, <2>2, <1>3, <1>8
  <2>3. ASSUME NEW p \in Plugin, Loaded' = Loaded \ {p},
               \A i \in Instance : instances[i] # p
        PROVE  Use!Next
    <3>1. Use!Unload(p)
      BY <2>1, <2>3, <1>8 DEF Use!Unload, Loaded, Made
    <3> QED BY <3>1 DEF Use!Next
  <2> QED BY <2>2, <2>3, <1>8, UnloadUses
<1>9. ASSUME Made' = Made, MMIOInitializePlugin PROVE [Use!Next]_(Use!vars)
  <2>1. /\ pc = "initialize" /\ pInstance' \in Instance
        /\ instances[pInstance'] = NULL
        /\ instances' = [instances EXCEPT ![pInstance'] = hPlugin]
        /\ iRefCount' = iRefCount
    BY <1>9, InitializeIs
  <2>2. hPlugin \in Plugin /\ pInstance = NULL
    BY <2>1, <1>1 DEF HandOK, TypeOK
  <2>3. hPlugin \in Loaded
    <3>1. Users(hPlugin) \subseteq Instance
      BY DEF Users
    <3>2. Cardinality(Users(hPlugin)) \in Nat
      BY <3>1, AddressAssumption, FS_Subset, FS_CardinalityType
    <3>3. iRefCount[hPlugin] = Cardinality(Users(hPlugin)) + 1
      BY <2>2, <1>1 DEF CountsOK
    <3> QED BY <3>2, <3>3, <2>2 DEF Loaded
  <2>4. PICK i \in Instance : i = pInstance'
    BY <2>1
  <2>5. Use!Initialize(i, hPlugin)
    BY <2>1, <2>3, <2>4, <1>2, <1>9 DEF Use!Initialize, Loaded, Made
  <2> QED BY <2>2, <2>5 DEF Use!Next
<1>10. ASSUME Made' = Made, MMIOUninitializePlugin
       PROVE  [Use!Next]_(Use!vars)
  <2>1. /\ pc = "uninitialize" /\ iRefCount' = iRefCount
        /\ instances' = [instances EXCEPT ![pInstance] = NULL]
    BY <1>10 DEF MMIOUninitializePlugin
  <2>2. pInstance \in Instance
    BY <2>1, <1>1 DEF HandOK, TypeOK
  <2>3. NodesOf(pInstance) = {}
    BY <2>2, <1>1, AddressAssumption DEF InstancesOK, NodesOf
  <2>4. Use!Uninitialize(pInstance)
    BY <2>1, <2>2, <2>3, <1>2, <1>10 DEF Use!Uninitialize, Loaded, Made
  <2> QED BY <2>2, <2>4 DEF Use!Next
<1> QED BY <1>4, <1>5, <1>6, <1>7, <1>8, <1>9, <1>10, MadeKept, PluginSteps

\* Plugins are used as PluginUse says: none is unloaded while it has an
\* instance, and no instance is given up while it has nodes (MMIOCore.c, the
\* calls of MMIOUnlinkNode(), MMIOUninitializePlugin(), MMIOUnloadPlugin()).
THEOREM UseCorrect == Spec => UseSpec
BY UseInit, UseStep, InvAlways, PTL DEF Spec, UseSpec, Use!Spec

=============================================================================
