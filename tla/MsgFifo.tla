------------------------------- MODULE MsgFifo -------------------------------
(***************************************************************************)
(* What a message queue promises: a bounded first-in, first-out queue,     *)
(* from which a call of a receiver takes the oldest message or fails.      *)
(***************************************************************************)
EXTENDS Naturals, Sequences

CONSTANTS Receiver, Data, NoData, iMsgQSize

VARIABLES
  queue,   \* the messages sent and not received
  result   \* what the last call of a receiver returned

vars == <<queue, result>>

Init == queue = <<>> /\ result = [r \in Receiver |-> NoData]

Send(d) ==
  /\ Len(queue) < iMsgQSize
  /\ queue' = Append(queue, d)
  /\ UNCHANGED result

Receive(r) ==
  /\ queue # <<>>
  /\ queue' = Tail(queue)
  /\ result' = [result EXCEPT ![r] = Head(queue)]

Fail(r) == result' = [result EXCEPT ![r] = NoData] /\ UNCHANGED queue

Next ==
  \/ \E d \in Data : Send(d)
  \/ \E r \in Receiver : Receive(r) \/ Fail(r)

Spec == Init /\ [][Next]_vars
=============================================================================
