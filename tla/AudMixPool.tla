------------------------------ MODULE AudMixPool ------------------------------
(***************************************************************************)
(* What the AudioMixer promises the threads of one client about its audio  *)
(* buffers: at any time a buffer is owned by the pool of empty buffers, by *)
(* one thread, or by the queue of full buffers; full buffers are read in   *)
(* the order in which they were put, each from its start to its end, and   *)
(* every one of them comes back to the pool.                               *)
(***************************************************************************)
EXTENDS Naturals, Sequences

CONSTANTS Buffer, Thread

VARIABLES
  owner,   \* "none" (not allocated), "pool", "queue" or a thread
  queue,   \* the full buffers, the one being read first
  pos      \* samples read of the first full buffer

vars == <<owner, queue, pos>>

Init == owner = [b \in Buffer |-> "none"] /\ queue = <<>> /\ pos = 0

\* b changes hands.
Pass(b, from, to) == owner[b] = from /\ owner' = [owner EXCEPT ![b] = to]

Create(b) == Pass(b, "none", "pool") /\ UNCHANGED <<queue, pos>>
Acquire(t, b) == Pass(b, "pool", t) /\ UNCHANGED <<queue, pos>>
GiveBack(t, b) == Pass(b, t, "pool") /\ UNCHANGED <<queue, pos>>
Destroy(t, b) == Pass(b, t, "none") /\ UNCHANGED <<queue, pos>>

Exchange(t, b, c) ==
  /\ owner[b] = t /\ owner[c] = "none"
  /\ owner' = [owner EXCEPT ![b] = "none", ![c] = t]
  /\ UNCHANGED <<queue, pos>>

Submit(t, b) ==
  /\ Pass(b, t, "queue")
  /\ queue' = Append(queue, b)
  /\ UNCHANGED pos

Read ==
  /\ queue # <<>>
  /\ pos' > pos
  /\ UNCHANGED <<owner, queue>>

Finish ==
  /\ queue # <<>>
  /\ Pass(Head(queue), "queue", "pool")
  /\ queue' = Tail(queue)
  /\ pos' = 0

Next ==
  \/ Read \/ Finish
  \/ \E b \in Buffer :
       \/ Create(b)
       \/ \E t \in Thread :
            \/ Acquire(t, b) \/ GiveBack(t, b) \/ Destroy(t, b) \/ Submit(t, b)
            \/ \E c \in Buffer : Exchange(t, b, c)

\* Who owns which buffer, without the promise that all of them come back.
OwnerSpec == Init /\ [][Next]_vars

Spec == OwnerSpec /\ WF_vars(Finish)
=============================================================================
