------------------------------- MODULE TplMsgQ -------------------------------
(***************************************************************************)
(* The message queue of the Triton Porting Layer (tpl_msgq_os2.c): a       *)
(* linked list of malloc()ed elements that is guarded by a mutex, and a    *)
(* counting event semaphore (tpl_cevsem_os2.c) that should count them.     *)
(* OS/2 has no counting semaphore: the count is the number of times an     *)
(* event semaphore was posted, and to take one away a waiter resets the    *)
(* semaphore and posts it again one time less, in steps of its own.        *)
(*                                                                         *)
(* A critical section under hmtxUseQueue is one step.  Queue deletion is   *)
(* left to its callers.                                                    *)
(***************************************************************************)
EXTENDS PointerLists

CONSTANTS
  Node,       \* addresses of queue elements
  Data,       \* messages
  Big,        \* the messages that do not fit into a small receive buffer
  NoData,     \* what a call that returns 0 gives
  Receiver,   \* threads that receive
  iMsgQSize,  \* the capacity of the queue
  MaxPosts,   \* DosPostEventSem() fails when the semaphore has so many posts
  Wrap        \* the range of the unsigned ulPostCount (2^32)

ASSUME NodeAssumption == IsFiniteSet(Node) /\ NULL \notin Node
ASSUME DataAssumption == Big \subseteq Data /\ NoData \notin Data
ASSUME ReceiverAssumption == IsFiniteSet(Receiver)
ASSUME CountAssumption ==
  /\ iMsgQSize \in Nat \ {0}
  /\ MaxPosts \in Nat /\ iMsgQSize <= MaxPosts
  /\ Wrap \in Nat /\ MaxPosts < Wrap

VARIABLES
  elements,               \* the nodes that are allocated
  pHead, pTail, pNext, pData,
  iNumOfElementsInQueue,
  posts,                  \* the post count of hcevDataInQueue
  pc,                     \* where a receiver is in tpl_msgqReceive()
  forever,                \* its iTimeOut is TPL_WAIT_FOREVER
  small,                  \* its buffer is too small for big messages
  left,                   \* the posts that remain to be done
  result                  \* what its last call returned

listVars == <<elements, pHead, pTail, pNext, pData, iNumOfElementsInQueue>>
callVars == <<forever, small>>
vars == <<listVars, posts, pc, callVars, left, result>>

Pointer == Node \cup {NULL}

TypeOK ==
  /\ elements \subseteq Node
  /\ pHead \in Pointer /\ pTail \in Pointer
  /\ pNext \in [Node -> Pointer]
  /\ pData \in [Node -> Data \cup {NoData}]
  /\ iNumOfElementsInQueue \in 0..iMsgQSize
  /\ posts \in 0..MaxPosts
  /\ pc \in [Receiver -> {"idle", "waiting", "resetting", "posting", "locking"}]
  /\ forever \in [Receiver -> BOOLEAN]
  /\ small \in [Receiver -> BOOLEAN]
  /\ left \in [Receiver -> 0..(Wrap - 1)]
  /\ result \in [Receiver -> Data \cup {NoData}]

\* tpl_msgqCreate()
Init ==
  /\ elements = {} /\ pHead = NULL /\ pTail = NULL
  /\ pNext = [n \in Node |-> NULL] /\ pData = [n \in Node |-> NoData]
  /\ iNumOfElementsInQueue = 0
  /\ posts = 0
  /\ pc = [r \in Receiver |-> "idle"]
  /\ forever = [r \in Receiver |-> FALSE]
  /\ small = [r \in Receiver |-> FALSE]
  /\ left = [r \in Receiver |-> 0]
  /\ result = [r \in Receiver |-> NoData]

Goto(r, to) == pc' = [pc EXCEPT ![r] = to]

\* tpl_cevsemPost()
Post == posts' = IF posts < MaxPosts THEN posts + 1 ELSE posts

-----------------------------------------------------------------------------
\* Mutation: the new element goes to the front of the list.
LinkFirst(n) ==
  /\ pNext' = [pNext EXCEPT ![n] = pHead]
  /\ pHead' = n
  /\ pTail' = IF pTail = NULL THEN n ELSE pTail

\* The new element goes to the end of the list.
LinkLast(n) ==
  /\ pNext' = [x \in Node |-> IF x = n THEN NULL
                              ELSE IF x = pTail THEN n ELSE pNext[x]]
  /\ pTail' = n
  /\ pHead' = IF pTail = NULL THEN n ELSE pHead

\* Mutation: the capacity is not looked at.
SendUnbounded(n, d) ==
  /\ n \notin elements
  /\ elements' = elements \cup {n}
  /\ pData' = [pData EXCEPT ![n] = d]
  /\ LinkLast(n)
  /\ iNumOfElementsInQueue' = iNumOfElementsInQueue + 1
  /\ Post
  /\ UNCHANGED <<pc, callVars, left, result>>

\* tpl_msgqSend() with space in the queue and memory for the element; a call
\* without returns 0 and changes nothing.
Send(n, d) ==
  /\ iNumOfElementsInQueue < iMsgQSize
  /\ n \notin elements
  /\ elements' = elements \cup {n}
  /\ pData' = [pData EXCEPT ![n] = d]
  /\ LinkLast(n)
  /\ iNumOfElementsInQueue' = iNumOfElementsInQueue + 1
  /\ Post
  /\ UNCHANGED <<pc, callVars, left, result>>

-----------------------------------------------------------------------------
(* tpl_msgqReceive()                                                       *)

Receive(r) ==
  /\ pc[r] = "idle"
  /\ Goto(r, "waiting")
  /\ \E f, s \in BOOLEAN : /\ forever' = [forever EXCEPT ![r] = f]
                           /\ small' = [small EXCEPT ![r] = s]
  /\ UNCHANGED <<listVars, posts, left, result>>

\* tpl_cevsemWaitFor(): DosWaitEventSem() returns; the semaphore stays posted.
Wake(r) ==
  /\ pc[r] = "waiting"
  /\ posts > 0
  /\ Goto(r, "resetting")
  /\ UNCHANGED <<listVars, posts, callVars, left, result>>

\* The call returns v; its parameters are gone.
Return(r, v) ==
  /\ Goto(r, "idle")
  /\ result' = [result EXCEPT ![r] = v]
  /\ forever' = [forever EXCEPT ![r] = FALSE]
  /\ small' = [small EXCEPT ![r] = FALSE]

Fail(r) == Return(r, NoData)

TimeOut(r) ==
  /\ pc[r] = "waiting" /\ ~forever[r]
  /\ Fail(r)
  /\ UNCHANGED <<listVars, posts, left>>

\* DosResetEventSem(), which returns the post count, and ulPostCount--.
Reset(r) ==
  /\ pc[r] = "resetting"
  /\ posts' = 0
  /\ left' = [left EXCEPT ![r] = (posts + Wrap - 1) % Wrap]
  /\ Goto(r, "posting")
  /\ UNCHANGED <<listVars, callVars, result>>

\* An iteration of the loop that posts again.
Repost(r) ==
  /\ pc[r] = "posting" /\ left[r] > 0
  /\ left' = [left EXCEPT ![r] = @ - 1]
  /\ Post
  /\ UNCHANGED <<listVars, pc, callVars, result>>

Reposted(r) ==
  /\ pc[r] = "posting" /\ left[r] = 0
  /\ Goto(r, "locking")
  /\ UNCHANGED <<listVars, posts, callVars, left, result>>

\* Another receiver took what was in the queue.
TakeNothing(r) ==
  /\ pc[r] = "locking" /\ pHead = NULL
  /\ Fail(r)
  /\ UNCHANGED <<listVars, posts, left>>

Fits(r) == ~(small[r] /\ pData[pHead] \in Big)

\* Mutation: the counter is not increased again for the message that stays.
LeaveTooBigUncounted(r) ==
  /\ pc[r] = "locking" /\ pHead # NULL /\ ~Fits(r)
  /\ Fail(r)
  /\ UNCHANGED <<listVars, posts, left>>

\* The message does not fit and stays in the queue.
LeaveTooBig(r) ==
  /\ pc[r] = "locking" /\ pHead # NULL /\ ~Fits(r)
  /\ Post
  /\ Fail(r)
  /\ UNCHANGED <<listVars, left>>

\* Mutation: the tail keeps pointing at the freed element.
TakeFirstKeepTail(r) ==
  /\ pc[r] = "locking" /\ pHead # NULL /\ Fits(r)
  /\ pHead' = pNext[pHead]
  /\ elements' = elements \ {pHead}
  /\ iNumOfElementsInQueue' = iNumOfElementsInQueue - 1
  /\ Return(r, pData[pHead])
  /\ UNCHANGED <<pTail, pNext, pData, posts, left>>

\* The message is copied and its element freed, with what it held.
TakeFirst(r) ==
  /\ pc[r] = "locking" /\ pHead # NULL /\ Fits(r)
  /\ pHead' = pNext[pHead]
  /\ pTail' = IF pNext[pHead] = NULL THEN NULL ELSE pTail
  /\ elements' = elements \ {pHead}
  /\ iNumOfElementsInQueue' = iNumOfElementsInQueue - 1
  /\ pData' = [pData EXCEPT ![pHead] = NoData]
  /\ pNext' = [pNext EXCEPT ![pHead] = NULL]
  /\ Return(r, pData[pHead])
  /\ UNCHANGED <<posts, left>>

Running(r) ==
  \/ Wake(r) \/ Reset(r) \/ Repost(r) \/ Reposted(r)
  \/ TakeNothing(r) \/ LeaveTooBig(r) \/ TakeFirst(r)

Next ==
  \/ \E n \in Node, d \in Data : Send(n, d)
  \/ \E r \in Receiver : Receive(r) \/ TimeOut(r) \/ Running(r)

Spec == Init /\ [][Next]_vars

\* A thread inside tpl_msgqReceive() is scheduled.
FairSpec == Spec /\ \A r \in Receiver : WF_vars(Running(r))

-----------------------------------------------------------------------------
(* Properties.                                                             *)

\* The elements form a list that is entered at pHead and ends at pTail, and
\* the counter that limits the queue counts them: none is lost, none is
\* reachable after it was freed, and the queue is never taken to be full or
\* empty when it is not.
QueueOK ==
  /\ IsQueue(elements, pHead, pTail, pNext)
  /\ iNumOfElementsInQueue = Cardinality(elements)

\* The posts a receiver has taken away and will not give back.
Taken(r) == CASE pc[r] = "posting" -> 1 + left[r]
              [] pc[r] = "locking" -> 1
              [] OTHER -> 0

\* With one receiver, the event semaphore is a counting semaphore: with what
\* the receiver has in hand it counts the messages at every moment, in the
\* window between the reset and the last post too.
CountExact ==
  \A r \in Receiver :
    Receiver = {r} => posts + Taken(r) = iNumOfElementsInQueue

\* With any number of receivers, no message stays behind unannounced: when
\* every receiver is at rest there is a post for every message.
NoneUnannounced ==
  (\A r \in Receiver : pc[r] \in {"idle", "waiting"})
    => posts >= iNumOfElementsInQueue

\* The messages in the order of the list.
Messages ==
  LET s == ListOrder(elements, pHead, pNext) IN [i \in DOMAIN s |-> pData[s[i]]]

\* The queue is a bounded first-in, first-out queue: no message is lost,
\* received twice, or overtaken by a later one.
Fifo == INSTANCE MsgFifo WITH queue <- Messages

FifoSpec == Fifo!Spec

\* When every receiver is inside the call and there is a message, one of them
\* returns: it gets the message, or finds that its buffer is too small or its
\* time is up, but they do not all sleep over it, however they disturb each
\* other's counting.
ReceiverWakes ==
  (pHead # NULL /\ \A r \in Receiver : pc[r] # "idle")
    ~> \E r \in Receiver : pc[r] = "idle"
=============================================================================
