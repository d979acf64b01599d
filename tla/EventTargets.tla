----------------------------- MODULE EventTargets -----------------------------
(***************************************************************************)
(* What a terminator may rely on when it reports an event: the stream      *)
(* group it reports to exists until the report is over.  Groups come and   *)
(* go, streams join at most one of them and leave it again, and a group    *)
(* ends only when it is nobody's target.                                   *)
(***************************************************************************)
CONSTANTS Node, Group, NoGroup

VARIABLES
  live,      \* the groups that exist
  attached,  \* the group of a stream
  sending    \* the group a stream is just reporting to

vars == <<live, attached, sending>>

Init ==
  /\ live = {}
  /\ attached = [n \in Node |-> NoGroup]
  /\ sending = [n \in Node |-> NoGroup]

Open(g) ==
  /\ g \notin live
  /\ live' = live \cup {g}
  /\ UNCHANGED <<attached, sending>>

Close(g) ==
  /\ \A n \in Node : attached[n] # g /\ sending[n] # g
  /\ live' = live \ {g}
  /\ UNCHANGED <<attached, sending>>

Attach(n, g) ==
  /\ g \in live /\ attached[n] = NoGroup
  /\ attached' = [attached EXCEPT ![n] = g]
  /\ UNCHANGED <<live, sending>>

Detach(n) ==
  /\ sending[n] = NoGroup
  /\ attached' = [attached EXCEPT ![n] = NoGroup]
  /\ UNCHANGED <<live, sending>>

StartReport(n) ==
  /\ sending[n] = NoGroup
  /\ sending' = [sending EXCEPT ![n] = attached[n]]
  /\ UNCHANGED <<live, attached>>

EndReport(n) ==
  /\ sending' = [sending EXCEPT ![n] = NoGroup]
  /\ UNCHANGED <<live, attached>>

Next ==
  \/ \E g \in Group : Open(g) \/ Close(g)
  \/ \E n \in Node, g \in Group : Attach(n, g)
  \/ \E n \in Node : Detach(n) \/ StartReport(n) \/ EndReport(n)

Spec == Init /\ [][Next]_vars
=============================================================================
