------------------------------ MODULE ProcessTree ------------------------------
(***************************************************************************)
(* The process tree of the MMIO core (MMIOCore.c) and the plugins that     *)
(* build it.  MMIOOpen() puts a URL node under the root, and a plugin      *)
(* under every leaf it can handle, from the medium down to the terminators *)
(* that play; whatever a plugin fails in, the next one is tried.           *)
(* MMIOClose() unlinks plugins from the leaves up.  A plugin is loaded     *)
(* once, with a reference for each of its instances.                       *)
(*                                                                         *)
(* Open and close are recursive.  Here `walk' holds the node that each     *)
(* level of MMIO_internal_OpenCoreWalkTree() has come to, and `unlink' the *)
(* calls of MMIOUnlinkNode().  One thread makes these calls, as in the     *)
(* test programs.                                                          *)
(*                                                                         *)
(* The plugins are outside of the core and given by Usable and Shape: each *)
(* makes one node with bUnlinkPoint, and may make nodes below it; its      *)
(* Unlink destroys what is below that node.  Which of the possible output  *)
(* formats a plugin is linked with does not matter here, and the type of a *)
(* node stands for its format.                                             *)
(***************************************************************************)
EXTENDS PointerLists, Sequences

CONSTANTS
  Node,        \* addresses of nodes, numbers
  Root,        \* pRootNode
  Plugin,      \* registered plugins
  Instance,    \* addresses of plugin instances, numbers
  Usable,      \* the plugins for a node type, in the order of importance
  Shape,       \* what a plugin makes: type of its node, number and type of
               \* the nodes below
  OpenLevels   \* values of iOpenLevel that applications use

URL == 1           \* MMIO_NODETYPE_URL
TERMINATOR == 6    \* MMIO_NODETYPE_TERMINATOR
NodeType == URL..TERMINATOR

ASSUME AddressAssumption ==
  /\ Node \subseteq Nat /\ IsFiniteSet(Node)
  /\ Instance \subseteq Nat /\ IsFiniteSet(Instance)
  /\ Root \notin Node /\ NULL \notin Node \cup {Root} \cup Instance \cup Plugin
ASSUME PluginAssumption ==
  /\ Usable \in [NodeType -> Seq(Plugin)]
  /\ \A p \in Plugin : /\ Shape[p].top \in NodeType \ {URL}
                       /\ Shape[p].leaf \in NodeType \ {URL}
                       /\ Shape[p].leaves \in Nat
\* Every plugin works towards the terminators: what it makes of a node is of a
\* later type.  The core relies on it and does not look.
ASSUME DeeperAssumption ==
  \A t \in NodeType : \A j \in 1..Len(Usable[t]) :
    LET shape == Shape[Usable[t][j]] IN
    shape.top > t /\ (shape.leaves > 0 => shape.leaf > shape.top)
ASSUME LevelAssumption == OpenLevels \subseteq NodeType

VARIABLES
  alive,         \* nodes that are allocated, without the root
  iNodeType,
  pParent, pFirstChild, pNextBrother,
  bUnlinkPoint,
  pNodeOwnerPluginInstance,
  iRefCount,     \* references to a plugin; it is loaded when there are any
  instances,     \* the plugin of an instance
  bInitialized,
  pc,            \* where the thread is
  walk,          \* the nodes MMIOOpen() has come to, level by level
  try,           \* the plugin it tries for the last of them
  iOpenLevel,
  hPlugin,       \* the plugin it has loaded or will unload ...
  pInstance,     \* ... and the instance of it
  unlink,        \* the calls of MMIOUnlinkNode() that have not returned
  urls           \* history: the URLs that are open, oldest first

treeVars == <<alive, iNodeType, pParent, pFirstChild, pNextBrother,
              bUnlinkPoint, pNodeOwnerPluginInstance>>
pluginVars == <<iRefCount, instances>>
openVars == <<walk, try, iOpenLevel>>
handVars == <<hPlugin, pInstance>>
vars == <<treeVars, pluginVars, openVars, handVars, bInitialized, pc, unlink,
          urls>>

Tree == Node \cup {Root}
Frame == [node : Node, at : {"child", "brother", "self"}]
Place ==
  {"idle", "open", "load", "initialize", "examine", "link", "deeper", "visit",
   "next", "reject", "uninitialize", "unload", "unlink", "crashed"}

TypeOK ==
  /\ alive \subseteq Node
  /\ iNodeType \in [Node -> NodeType]
  /\ pParent \in [Node -> Tree \cup {NULL}]
  /\ pFirstChild \in [Tree -> Node \cup {NULL}]
  /\ pNextBrother \in [Node -> Node \cup {NULL}]
  /\ bUnlinkPoint \in [Node -> BOOLEAN]
  /\ pNodeOwnerPluginInstance \in [Node -> Instance \cup {NULL}]
  /\ iRefCount \in [Plugin -> 0..Cardinality(Instance) + 1]
  /\ instances \in [Instance -> Plugin \cup {NULL}]
  /\ bInitialized \in BOOLEAN
  /\ pc \in Place
  /\ walk \in Seq(Node) /\ Len(walk) <= TERMINATOR
  /\ try \in Nat
  /\ iOpenLevel \in NodeType
  /\ hPlugin \in Plugin \cup {NULL}
  /\ pInstance \in Instance \cup {NULL}
  /\ unlink \in Seq(Frame)
  /\ urls \in Seq(Node)

Init ==
  /\ alive = {}
  /\ iNodeType = [n \in Node |-> URL]
  /\ pParent = [n \in Node |-> NULL]
  /\ pFirstChild = [n \in Tree |-> NULL]
  /\ pNextBrother = [n \in Node |-> NULL]
  /\ bUnlinkPoint = [n \in Node |-> FALSE]
  /\ pNodeOwnerPluginInstance = [n \in Node |-> NULL]
  /\ iRefCount = [p \in Plugin |-> 0]
  /\ instances = [i \in Instance |-> NULL]
  /\ bInitialized = TRUE
  /\ pc = "idle"
  /\ walk = <<>> /\ try = 1 /\ iOpenLevel = TERMINATOR
  /\ hPlugin = NULL /\ pInstance = NULL
  /\ unlink = <<>> /\ urls = <<>>

-----------------------------------------------------------------------------
(* The nodes.                                                              *)

Free == Node \ alive
Last(s) == s[Len(s)]
Front(s) == SubSeq(s, 1, Len(s) - 1)

\* k nodes that are free, in the order of their addresses.
Fresh(k) ==
  CHOOSE f \in [1..k -> Free] : \A i, j \in 1..k : i < j => f[i] < f[j]

Children(n) == {m \in alive : pParent[m] = n}
LastChild(n) == CHOOSE m \in Children(n) : pNextBrother[m] = NULL

NodesOf(i) == {n \in alive : pNodeOwnerPluginInstance[n] = i}

\* MMIOPsCreateAndLinkNewNodeStruct(pRootNode) and what MMIOOpen() fills in.
CreateURL(n) ==
  /\ alive' = alive \cup {n}
  /\ iNodeType' = [iNodeType EXCEPT ![n] = URL]
  /\ pParent' = [pParent EXCEPT ![n] = Root]
  /\ IF pFirstChild[Root] = NULL
     THEN /\ pFirstChild' = [pFirstChild EXCEPT ![Root] = n]
          /\ UNCHANGED pNextBrother
     ELSE /\ pNextBrother' = [pNextBrother EXCEPT ![LastChild(Root)] = n]
          /\ UNCHANGED pFirstChild
  /\ bUnlinkPoint' = [bUnlinkPoint EXCEPT ![n] = TRUE]
  /\ pNodeOwnerPluginInstance' = [pNodeOwnerPluginInstance EXCEPT ![n] = NULL]

\* The plugin makes node f[1] below the leaf n, and f[2], ... below that one;
\* MMIO_internal_SetOwnerPluginOfChildrenNodes() makes them its own.
CreateNodes(n, f, shape, i) ==
  LET new == {f[j] : j \in DOMAIN f}
      top == f[1]
      k == Len(f)
  IN
  /\ alive' = alive \cup new
  /\ iNodeType' = [m \in Node |-> IF m = top THEN shape.top
                                  ELSE IF m \in new THEN shape.leaf
                                  ELSE iNodeType[m]]
  /\ pParent' = [m \in Node |-> IF m = top THEN n
                                ELSE IF m \in new THEN top ELSE pParent[m]]
  /\ pFirstChild' = [m \in Tree |-> IF m = n THEN top
                                    ELSE IF m = top /\ k > 1 THEN f[2]
                                    ELSE pFirstChild[m]]
  /\ pNextBrother' = [m \in Node |-> IF \E j \in 2..(k - 1) : m = f[j]
                                     THEN f[1 + CHOOSE j \in 2..(k - 1) : m = f[j]]
                                     ELSE pNextBrother[m]]
  /\ bUnlinkPoint' = [m \in Node |-> IF m \in new THEN m = top
                                     ELSE bUnlinkPoint[m]]
  /\ pNodeOwnerPluginInstance' =
       [m \in Node |-> IF m \in new THEN i ELSE pNodeOwnerPluginInstance[m]]

\* Mutation: the node is taken for the first child.
DetachFirst(n, S) ==
  /\ pFirstChild' = [m \in Tree |-> IF m \in S THEN NULL
                                    ELSE IF m = pParent[n]
                                    THEN pNextBrother[n] ELSE pFirstChild[m]]
  /\ pNextBrother' = [m \in Node |-> IF m \in S THEN NULL ELSE pNextBrother[m]]

\* Node n leaves the children of its parent, and with it the nodes S below.
Detach(n, S) ==
  LET up == pParent[n] IN
  /\ pFirstChild' = [m \in Tree |-> IF m \in S THEN NULL
                                    ELSE IF m = up /\ pFirstChild[m] = n
                                    THEN pNextBrother[n] ELSE pFirstChild[m]]
  /\ pNextBrother' = [m \in Node |-> IF m \in S THEN NULL
                                     ELSE IF pNextBrother[m] = n
                                     THEN pNextBrother[n] ELSE pNextBrother[m]]

\* MMIOPsUnlinkAndDestroyNodeStruct() for n and each of the nodes S below it.
DestroyNodes(n, S) ==
  /\ Detach(n, S)
  /\ alive' = alive \ S
  /\ pParent' = [m \in Node |-> IF m \in S THEN NULL ELSE pParent[m]]
  /\ pNodeOwnerPluginInstance' =
       [m \in Node |-> IF m \in S THEN NULL ELSE pNodeOwnerPluginInstance[m]]
  /\ bUnlinkPoint' = [m \in Node |-> m \notin S /\ bUnlinkPoint[m]]
  /\ iNodeType' = [m \in Node |-> IF m \in S THEN URL ELSE iNodeType[m]]

-----------------------------------------------------------------------------
(* MMIOOpen()                                                              *)

Goto(to) == pc' = to

MMIOOpen(level) ==
  /\ bInitialized /\ pc = "idle"
  /\ iOpenLevel' = level
  /\ try' = 1
  /\ Goto("open")
  /\ UNCHANGED <<treeVars, pluginVars, handVars, bInitialized, walk, unlink,
                 urls>>

\* The next media handler is tried, with a URL node of its own.
CreateURLNode ==
  /\ pc = "open"
  /\ try <= Len(Usable[URL]) /\ Free # {}
  /\ LET n == Fresh(1)[1] IN
       /\ CreateURL(n)
       /\ walk' = <<n>>
  /\ Goto("load")
  /\ UNCHANGED <<pluginVars, handVars, bInitialized, try, iOpenLevel, unlink,
                 urls>>

\* There is none any more, or no memory: the call fails.
FailOpen ==
  /\ pc = "open"
  /\ try > Len(Usable[URL]) \/ Free = {}
  /\ Goto("idle")
  /\ UNCHANGED <<treeVars, pluginVars, openVars, handVars, bInitialized,
                 unlink, urls>>

Leaf == Last(walk)
Candidate == Usable[iNodeType[Leaf]][try]

\* Mutation: the same plugin is tried again.
RejectSame ==
  /\ UNCHANGED try
  /\ Goto(IF Len(walk) = 1 THEN "reject"
          ELSE IF try < Len(Usable[iNodeType[Leaf]]) THEN "load" ELSE "next")

\* The plugin is not used for this leaf, and the next one is tried.
Reject ==
  /\ try' = try + 1
  /\ Goto(IF Len(walk) = 1 THEN "reject"
          ELSE IF try < Len(Usable[iNodeType[Leaf]]) THEN "load" ELSE "next")

\* Mutation: a plugin that is loaded already gets no reference.
CountLoadOnce(p) ==
  iRefCount' = [iRefCount EXCEPT ![p] = 1]

CountLoad(p) == iRefCount' = [iRefCount EXCEPT ![p] = @ + 1]

MMIOLoadPlugin ==
  /\ pc = "load"
  /\ CountLoad(Candidate)
  /\ hPlugin' = Candidate
  /\ Goto("initialize")
  /\ UNCHANGED <<treeVars, instances, openVars, pInstance, bInitialized,
                 unlink, urls>>

\* The binary is missing, or is no plugin.
FailLoad ==
  /\ pc = "load" /\ iRefCount[Candidate] = 0
  /\ Reject
  /\ UNCHANGED <<treeVars, pluginVars, handVars, bInitialized, walk,
                 iOpenLevel, unlink, urls>>

FreeInstances == {i \in Instance : instances[i] = NULL}

MMIOInitializePlugin ==
  /\ pc = "initialize" /\ FreeInstances # {}
  /\ LET i == CHOOSE i \in FreeInstances : \A j \in FreeInstances : i <= j IN
       /\ instances' = [instances EXCEPT ![i] = hPlugin]
       /\ pInstance' = i
  /\ Goto("examine")
  /\ UNCHANGED <<treeVars, iRefCount, openVars, hPlugin, bInitialized, unlink,
                 urls>>

FailInitialize ==
  /\ pc = "initialize"
  /\ Goto("unload")
  /\ UNCHANGED <<treeVars, pluginVars, openVars, handVars, bInitialized,
                 unlink, urls>>

\* MMIOExamineNodeWithPlugin() finds a format the plugin can make of the node.
Examine ==
  /\ pc = "examine"
  /\ Goto("link")
  /\ UNCHANGED <<treeVars, pluginVars, openVars, handVars, bInitialized,
                 unlink, urls>>

\* Mutation: the instance is forgotten.
FailNodeUnload ==
  /\ pc \in {"examine", "link"}
  /\ pInstance' = NULL
  /\ Goto("unload")
  /\ UNCHANGED <<treeVars, pluginVars, openVars, hPlugin, bInitialized, unlink,
                 urls>>

\* The plugin cannot examine the node, or can be linked with no format; it
\* leaves no node behind.
FailNode ==
  /\ pc \in {"examine", "link"}
  /\ Goto("uninitialize")
  /\ UNCHANGED <<treeVars, pluginVars, openVars, handVars, bInitialized,
                 unlink, urls>>

MMIOLinkPluginToNode ==
  LET shape == Shape[hPlugin] IN
  /\ pc = "link"
  /\ Cardinality(Free) > shape.leaves
  /\ CreateNodes(Leaf, Fresh(1 + shape.leaves), shape, pInstance)
  /\ hPlugin' = NULL /\ pInstance' = NULL
  /\ Goto("deeper")
  /\ UNCHANGED <<pluginVars, openVars, bInitialized, unlink, urls>>

\* MMIO_internal_OpenCoreWalkTree() for the children of a node.
WalkDeeper ==
  /\ pc = "deeper"
  /\ IF iNodeType[Leaf] >= iOpenLevel THEN Goto("next") /\ UNCHANGED walk
     ELSE /\ walk' = Append(walk, pFirstChild[Leaf])
          /\ Goto("visit")
  /\ UNCHANGED <<treeVars, pluginVars, handVars, bInitialized, try, iOpenLevel,
                 unlink, urls>>

Visit ==
  /\ pc = "visit"
  /\ try' = 1
  /\ Goto(IF pFirstChild[Leaf] # NULL THEN "deeper"
          ELSE IF iNodeType[Leaf] # TERMINATOR /\ Usable[iNodeType[Leaf]] # <<>>
          THEN "load" ELSE "next")
  /\ UNCHANGED <<treeVars, pluginVars, handVars, bInitialized, walk,
                 iOpenLevel, unlink, urls>>

\* The node is done: its brother follows, or its parent is done too.
NextBrother ==
  /\ pc = "next" /\ Len(walk) > 1
  /\ IF pNextBrother[Leaf] # NULL
     THEN walk' = Append(Front(walk), pNextBrother[Leaf]) /\ Goto("visit")
     ELSE walk' = Front(walk) /\ UNCHANGED pc
  /\ UNCHANGED <<treeVars, pluginVars, handVars, bInitialized, try, iOpenLevel,
                 unlink, urls>>

\* MMIOOpen() returns the URL node.
ReturnOpen ==
  /\ pc = "next" /\ Len(walk) = 1
  /\ urls' = Append(urls, walk[1])
  /\ walk' = <<>>
  /\ Goto("idle")
  /\ UNCHANGED <<treeVars, pluginVars, handVars, bInitialized, try, iOpenLevel,
                 unlink>>

\* Mutation: the URL node stays.
KeepURLNode ==
  /\ pc = "reject"
  /\ walk' = <<>>
  /\ Goto("open")
  /\ UNCHANGED <<treeVars, pluginVars, handVars, bInitialized, try, iOpenLevel,
                 unlink, urls>>

\* No tree could be built with this media handler.
DestroyURLNode ==
  /\ pc = "reject"
  /\ DestroyNodes(walk[1], {walk[1]})
  /\ walk' = <<>>
  /\ Goto("open")
  /\ UNCHANGED <<pluginVars, handVars, bInitialized, try, iOpenLevel, unlink,
                 urls>>

-----------------------------------------------------------------------------
(* A plugin is given up, by either call.                                   *)

MMIOUninitializePlugin ==
  /\ pc = "uninitialize"
  /\ instances' = [instances EXCEPT ![pInstance] = NULL]
  /\ pInstance' = NULL
  /\ Goto("unload")
  /\ UNCHANGED <<treeVars, iRefCount, openVars, hPlugin, bInitialized, unlink,
                 urls>>

CountUnload(p) == iRefCount' = [iRefCount EXCEPT ![p] = @ - 1]

\* The last reference takes the plugin out of the list and closes its binary.
MMIOUnloadPlugin ==
  /\ pc = "unload"
  /\ CountUnload(hPlugin)
  /\ hPlugin' = NULL
  /\ IF walk = <<>> THEN Goto("unlink") /\ UNCHANGED try ELSE Reject
  /\ UNCHANGED <<treeVars, instances, walk, iOpenLevel, pInstance,
                 bInitialized, unlink, urls>>

-----------------------------------------------------------------------------
(* MMIOUnlinkNode()                                                        *)

Top == Last(unlink)
Call(n) == [node |-> n, at |-> "child"]

\* The innermost call goes on at `to', after a call for n if there is n.
CallFor(n, to) ==
  LET s == Append(Front(unlink), [Top EXCEPT !.at = to]) IN
  unlink' = IF n = NULL THEN s ELSE Append(s, Call(n))

UnlinkChild ==
  /\ pc = "unlink" /\ unlink # <<>> /\ Top.at = "child"
  /\ CallFor(pFirstChild[Top.node], "brother")
  /\ UNCHANGED <<treeVars, pluginVars, openVars, handVars, bInitialized, pc,
                 urls>>

\* Mutation: only the first child of a node is unlinked.
UnlinkNoBrother ==
  /\ pc = "unlink" /\ unlink # <<>> /\ Top.at = "brother"
  /\ CallFor(NULL, "self")
  /\ UNCHANGED <<treeVars, pluginVars, openVars, handVars, bInitialized, pc,
                 urls>>

UnlinkBrother ==
  /\ pc = "unlink" /\ unlink # <<>> /\ Top.at = "brother"
  /\ CallFor(pNextBrother[Top.node], "self")
  /\ UNCHANGED <<treeVars, pluginVars, openVars, handVars, bInitialized, pc,
                 urls>>

\* MMIOUninitialize() works itself on the first URL and calls the rest.
Uninitializing == ~bInitialized /\ Len(unlink) = 1

UnlinkURLNode ==
  /\ pc = "unlink" /\ unlink # <<>> /\ Top.at = "self"
  /\ iNodeType[Top.node] = URL /\ ~Uninitializing
  /\ DestroyNodes(Top.node, {Top.node})
  /\ unlink' = Front(unlink)
  /\ UNCHANGED <<pluginVars, openVars, handVars, bInitialized, pc, urls>>

\* The plugin destroys its nodes; it is uninitialized and unloaded then, with
\* the handles that were read before.
UnlinkPlugin ==
  LET n == Top.node IN
  /\ pc = "unlink" /\ unlink # <<>> /\ Top.at = "self"
  /\ iNodeType[n] # URL /\ bUnlinkPoint[n]
  /\ pInstance' = pNodeOwnerPluginInstance[n]
  /\ hPlugin' = instances[pNodeOwnerPluginInstance[n]]
  /\ DestroyNodes(n, NodesOf(pNodeOwnerPluginInstance[n]))
  /\ unlink' = Front(unlink)
  /\ Goto("uninitialize")
  /\ UNCHANGED <<pluginVars, openVars, bInitialized, urls>>

\* The node is destroyed together with another one.
UnlinkNothing ==
  /\ pc = "unlink" /\ unlink # <<>> /\ Top.at = "self"
  /\ iNodeType[Top.node] # URL /\ ~bUnlinkPoint[Top.node]
  /\ unlink' = Front(unlink)
  /\ UNCHANGED <<treeVars, pluginVars, openVars, handVars, bInitialized, pc,
                 urls>>

MMIOClose(k) ==
  /\ bInitialized /\ pc = "idle"
  /\ k \in DOMAIN urls
  /\ unlink' = <<Call(urls[k])>>
  /\ urls' = SubSeq(urls, 1, k - 1)
  /\ Goto("unlink")
  /\ UNCHANGED <<treeVars, pluginVars, openVars, handVars, bInitialized>>

ReturnClose ==
  /\ pc = "unlink" /\ unlink = <<>>
  /\ Goto("idle")
  /\ UNCHANGED <<treeVars, pluginVars, openVars, handVars, bInitialized,
                 unlink, urls>>

-----------------------------------------------------------------------------
(* MMIOInitialize() and MMIOUninitialize()                                 *)

MMIOInitialize ==
  /\ ~bInitialized /\ pc = "idle"
  /\ bInitialized' = TRUE
  /\ UNCHANGED <<treeVars, pluginVars, openVars, handVars, pc, unlink, urls>>

MMIOUninitialize ==
  /\ bInitialized /\ pc = "idle"
  /\ bInitialized' = FALSE
  /\ urls' = <<>>
  /\ IF pFirstChild[Root] = NULL THEN UNCHANGED <<pc, unlink>>
     ELSE unlink' = <<Call(pFirstChild[Root])>> /\ Goto("unlink")
  /\ UNCHANGED <<treeVars, pluginVars, openVars, handVars>>

\* The first URL is unlinked with its own pNodeOwnerPluginHandle, which nobody
\* has set: the process ends.
CallNoPlugin ==
  /\ pc = "unlink" /\ Uninitializing /\ Top.at = "self"
  /\ Goto("crashed")
  /\ UNCHANGED <<treeVars, pluginVars, openVars, handVars, bInitialized,
                 unlink, urls>>

-----------------------------------------------------------------------------

\* The steps inside the calls.
Step ==
  \/ CreateURLNode \/ FailOpen
  \/ MMIOLoadPlugin \/ FailLoad
  \/ MMIOInitializePlugin \/ FailInitialize
  \/ Examine \/ FailNode \/ MMIOLinkPluginToNode
  \/ WalkDeeper \/ Visit \/ NextBrother \/ ReturnOpen \/ DestroyURLNode
  \/ MMIOUninitializePlugin \/ MMIOUnloadPlugin
  \/ UnlinkChild \/ UnlinkBrother
  \/ UnlinkURLNode \/ UnlinkPlugin \/ UnlinkNothing
  \/ ReturnClose \/ CallNoPlugin

Next ==
  \/ \E level \in OpenLevels : MMIOOpen(level)
  \/ \E k \in DOMAIN urls : MMIOClose(k)
  \/ MMIOInitialize \/ MMIOUninitialize
  \/ Step

Spec == Init /\ [][Next]_vars

\* A thread goes on inside a call.
FairSpec == Spec /\ WF_vars(Step)

-----------------------------------------------------------------------------
(* Properties.                                                             *)

\* The nodes at n and below.
Below(n) ==
  LET under[m \in Tree \cup {NULL}] ==
        m = n \/ (m \in Node /\ under[pParent[m]])
  IN {m \in alive : under[m]}

\* At every step of every call the pointers form a tree of exactly the nodes
\* that are allocated: each is reached once, from its parent.  The calls that
\* have not returned work on allocated nodes only, although plugins destroy
\* nodes meanwhile.
TreeOK ==
  /\ \A n \in alive \cup {Root} :
       IsChain(Children(n), pFirstChild[n], pNextBrother)
  /\ \A n \in alive : pParent[n] \in alive \cup {Root}
  /\ \A k \in DOMAIN walk : walk[k] \in alive
  /\ \A k \in DOMAIN unlink : unlink[k].node \in alive

\* A plugin has a reference for each of its instances, and one more between
\* its load and its initialization, or its uninitialization and its unload;
\* and an instance has a node it is unlinked at, or a call has it in hand.  So
\* no failure of a plugin leaves it loaded, and none is unloaded too early.
RefsExact ==
  /\ \A p \in Plugin :
       iRefCount[p] = Cardinality({i \in Instance : instances[i] = p})
                      + (IF hPlugin = p /\ pInstance = NULL THEN 1 ELSE 0)
  /\ \A i \in Instance :
       instances[i] # NULL =>
         Cardinality({n \in NodesOf(i) : bUnlinkPoint[n]})
         = (IF i = pInstance THEN 0 ELSE 1)

\* Between the calls the tree consists of what the successful calls of
\* MMIOOpen() made and MMIOClose() did not take back, for a URL and all that
\* were opened after it: a call that fails leaves nothing behind.
RestOK ==
  pc = "idle" =>
    /\ alive = UNION {Below(urls[k]) : k \in DOMAIN urls}
    /\ {n \in alive : iNodeType[n] = URL} = {urls[k] : k \in DOMAIN urls}

\* A call leaves the trees of the older URLs alone, in each of its steps.
OldTreesKept ==
  [][\A k \in DOMAIN urls' : k \in DOMAIN urls =>
       /\ pFirstChild'[Root] = pFirstChild[Root]
       /\ \A n \in Below(urls[k]) :
            /\ n \in alive'
            /\ pFirstChild'[n] = pFirstChild[n]
            /\ pNodeOwnerPluginInstance'[n] = pNodeOwnerPluginInstance[n]]_vars

\* Plugins are used as PluginUse says.
Use == INSTANCE PluginUse WITH
  loaded <- {p \in Plugin : iRefCount[p] > 0},
  nodes <- [i \in Instance |-> NodesOf(i)]

UseSpec == Use!Spec

\* Every call of MMIOOpen() and MMIOClose() returns, however deep the tree.
CallsReturn == pc # "idle" ~> pc \in {"idle", "crashed"}
=============================================================================
