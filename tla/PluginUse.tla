------------------------------- MODULE PluginUse -------------------------------
(***************************************************************************)
(* What a plugin may rely on: its binary is loaded as long as it has an    *)
(* instance, and an instance lives as long as it has nodes in the process  *)
(* tree.  A plugin whose code or data is gone is never called.             *)
(***************************************************************************)
EXTENDS Naturals

CONSTANTS Plugin, Instance, Node, NULL

VARIABLES
  loaded,     \* the plugins whose binaries are loaded
  instances,  \* the plugin of an instance, NULL for none
  nodes       \* the nodes an instance has made

vars == <<loaded, instances, nodes>>

Init ==
  /\ loaded = {}
  /\ instances = [i \in Instance |-> NULL]
  /\ nodes = [i \in Instance |-> {}]

Load(p) ==
  /\ loaded' = loaded \cup {p}
  /\ UNCHANGED <<instances, nodes>>

Initialize(i, p) ==
  /\ p \in loaded /\ instances[i] = NULL
  /\ instances' = [instances EXCEPT ![i] = p]
  /\ UNCHANGED <<loaded, nodes>>

Link(i) ==
  /\ instances[i] # NULL /\ nodes[i] = {}
  /\ \E S \in SUBSET Node : nodes' = [nodes EXCEPT ![i] = S]
  /\ UNCHANGED <<loaded, instances>>

Unlink(i) ==
  /\ instances[i] # NULL
  /\ nodes' = [nodes EXCEPT ![i] = {}]
  /\ UNCHANGED <<loaded, instances>>

Uninitialize(i) ==
  /\ nodes[i] = {}
  /\ instances' = [instances EXCEPT ![i] = NULL]
  /\ UNCHANGED <<loaded, nodes>>

Unload(p) ==
  /\ \A i \in Instance : instances[i] # p
  /\ loaded' = loaded \ {p}
  /\ UNCHANGED <<instances, nodes>>

Next ==
  \/ \E p \in Plugin : Load(p) \/ Unload(p)
  \/ \E i \in Instance :
       \/ Link(i) \/ Unlink(i) \/ Uninitialize(i)
       \/ \E p \in Plugin : Initialize(i, p)

Spec == Init /\ [][Next]_vars
=============================================================================
