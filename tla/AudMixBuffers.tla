---------------------------- MODULE AudMixBuffers ----------------------------
(***************************************************************************)
(* The audio buffers of one AudioMixer client (AudMixer.c), at the level   *)
(* of the pointers that chain them: the list of allocated buffers, the     *)
(* doubly linked list of empty buffers and the list of full buffers, all   *)
(* in shared memory and guarded by the client mutex hmtxUseClient.  The    *)
(* threads of the client process take empty buffers out and put full or    *)
(* empty ones back; the mixer of the daemon process reads the full buffers *)
(* from the head of their list and returns them to the empty list.         *)
(*                                                                         *)
(* A critical section under hmtxUseClient is one step, except the mixing   *)
(* of one destination buffer: the mixer keeps the mutex through a loop     *)
(* whose iterations are steps.  A request of the mutex that times out      *)
(* makes the call return 0 without an effect, a stuttering step here.      *)
(***************************************************************************)
EXTENDS PointerLists

CONSTANTS
  Buffer,     \* addresses of the buffer descriptors
  Thread,     \* threads of the client process
  DestSize,   \* samples of the mixing destination (the work buffer)
  MaxData     \* samples a client puts in one buffer at most

ASSUME BufferAssumption == IsFiniteSet(Buffer) /\ NULL \notin Buffer
ASSUME SizeAssumption == DestSize \in Nat \ {0} /\ MaxData \in Nat \ {0}

VARIABLES
  pAllocatedBufListHead, pNextAllocated,
  pEmptyBufListHead, pEmptyBufListLast, pNextEmpty, pPrevEmpty,
  pFullBufListHead, pFullBufListLast, pNextFull,
  uiBufferStatus,  \* "FREE" is memory that is not allocated
  uiDataInside,    \* samples inside the buffer
  mixable,         \* whether a custom mixer exists for fmtFormat
  pSource,         \* the buffer pClient->pSource points into, or NULL ...
  sourceOffset,    \* ... and how many samples of it are behind pSource
  room,            \* samples between pDestination and pFirstNonDestinationAddr
  mixing,          \* the mixer owns hmtxUseClient
  hevMoved,        \* hevBufferWasMovedFromFullToEmpty is posted
  getting,         \* where a thread is in AudMixGetEmptyBuffer()
  held             \* buffers (user pointers) a thread has in hand

allocVars == <<pAllocatedBufListHead, pNextAllocated>>
emptyVars == <<pEmptyBufListHead, pEmptyBufListLast, pNextEmpty, pPrevEmpty>>
fullVars == <<pFullBufListHead, pFullBufListLast, pNextFull>>
dataVars == <<uiDataInside, mixable>>
mixVars == <<pSource, sourceOffset, room, mixing>>
threadVars == <<getting, held>>
vars == <<allocVars, emptyVars, fullVars, uiBufferStatus, dataVars, mixVars,
          hevMoved, threadVars>>

Pointer == Buffer \cup {NULL}
Status == {"FREE", "EMPTY", "FILLING", "FULL"}
Getting == {"no", "missed", "blocked", "retry"}

TypeOK ==
  /\ pAllocatedBufListHead \in Pointer
  /\ pNextAllocated \in [Buffer -> Pointer]
  /\ pEmptyBufListHead \in Pointer
  /\ pEmptyBufListLast \in Pointer
  /\ pNextEmpty \in [Buffer -> Pointer]
  /\ pPrevEmpty \in [Buffer -> Pointer]
  /\ pFullBufListHead \in Pointer
  /\ pFullBufListLast \in Pointer
  /\ pNextFull \in [Buffer -> Pointer]
  /\ uiBufferStatus \in [Buffer -> Status]
  /\ uiDataInside \in [Buffer -> 0..MaxData]
  /\ mixable \in [Buffer -> BOOLEAN]
  /\ pSource \in Pointer
  /\ sourceOffset \in 0..MaxData
  /\ room \in 0..DestSize
  /\ mixing \in BOOLEAN
  /\ hevMoved \in BOOLEAN
  /\ getting \in [Thread -> Getting]
  /\ held \in [Thread -> SUBSET Buffer]

-----------------------------------------------------------------------------
(* The pointer surgery that several operations share.                      *)

\* A new buffer goes to the head of the list of allocated buffers.
LinkAllocated(b) ==
  /\ pNextAllocated' = [pNextAllocated EXCEPT ![b] = pAllocatedBufListHead]
  /\ pAllocatedBufListHead' = b

\* Replaces the pointer to b in the list of allocated buffers by p: the
\* predecessor found by the search loop is changed, or the head.
RelinkAllocated(b, p, next) ==
  /\ pNextAllocated' =
       [x \in Buffer |->
          IF next[x] = b /\ uiBufferStatus[x] # "FREE" THEN p ELSE next[x]]
  /\ pAllocatedBufListHead' =
       IF pAllocatedBufListHead = b THEN p ELSE pAllocatedBufListHead

\* An empty buffer goes to the head of the list of empty buffers.
PushEmptyHead(b) ==
  /\ pNextEmpty' = [pNextEmpty EXCEPT ![b] = pEmptyBufListHead]
  /\ pPrevEmpty' = [x \in Buffer |-> IF x = b THEN NULL
                                     ELSE IF x = pEmptyBufListHead THEN b
                                     ELSE pPrevEmpty[x]]
  /\ pEmptyBufListLast' =
       IF pEmptyBufListHead = NULL THEN b ELSE pEmptyBufListLast
  /\ pEmptyBufListHead' = b

\* Mutation: the head keeps pointing at the buffer that was the only one.
UnlinkEmptyLastKeepHead ==
  LET prev == pPrevEmpty[pEmptyBufListLast] IN
  /\ pNextEmpty' = [x \in Buffer |-> IF x = prev THEN NULL ELSE pNextEmpty[x]]
  /\ pEmptyBufListLast' = prev
  /\ UNCHANGED <<pPrevEmpty, pEmptyBufListHead>>

\* Mutation: the buffer is given out but stays listed.
UnlinkEmptyLastPeek == UNCHANGED emptyVars

\* The last empty buffer leaves the list of empty buffers.
UnlinkEmptyLast ==
  LET prev == pPrevEmpty[pEmptyBufListLast] IN
  /\ pNextEmpty' = [x \in Buffer |-> IF x = prev THEN NULL ELSE pNextEmpty[x]]
  /\ pEmptyBufListHead' = IF prev = NULL THEN NULL ELSE pEmptyBufListHead
  /\ pEmptyBufListLast' = prev
  /\ UNCHANGED pPrevEmpty

\* An empty buffer goes to the end of the list of empty buffers.
AppendEmpty(b) ==
  /\ pPrevEmpty' = [pPrevEmpty EXCEPT ![b] = pEmptyBufListLast]
  /\ pNextEmpty' = [x \in Buffer |-> IF x = b THEN NULL
                                     ELSE IF x = pEmptyBufListLast THEN b
                                     ELSE pNextEmpty[x]]
  /\ pEmptyBufListHead' =
       IF pEmptyBufListLast = NULL THEN b ELSE pEmptyBufListHead
  /\ pEmptyBufListLast' = b

\* Mutation: a full buffer jumps the queue.
AppendFullAtHead(b) ==
  /\ pNextFull' = [pNextFull EXCEPT ![b] = pFullBufListHead]
  /\ pFullBufListHead' = b
  /\ pFullBufListLast' =
       IF pFullBufListLast = NULL THEN b ELSE pFullBufListLast

\* A full buffer goes to the end of the list of full buffers.
AppendFull(b) ==
  /\ pNextFull' = [x \in Buffer |-> IF x = b THEN NULL
                                    ELSE IF x = pFullBufListLast THEN b
                                    ELSE pNextFull[x]]
  /\ pFullBufListHead' =
       IF pFullBufListLast = NULL THEN b ELSE pFullBufListHead
  /\ pFullBufListLast' = b

\* DosPostEventSem() makes every thread that is blocked on the semaphore
\* ready, and the semaphore stays posted until it is reset.
PostMoved ==
  /\ hevMoved' = TRUE
  /\ getting' = [t \in Thread |->
                   IF getting[t] = "blocked" THEN "retry" ELSE getting[t]]

\* internal_MoveFullBufferToEmpty()
MoveFullBufferToEmpty ==
  LET b == pFullBufListHead
      next == pNextFull[b] IN
  /\ pFullBufListHead' = next
  /\ pFullBufListLast' = IF next = NULL THEN NULL ELSE pFullBufListLast
  /\ pNextFull' = [pNextFull EXCEPT ![b] = NULL]
  /\ PushEmptyHead(b)
  /\ uiBufferStatus' = [uiBufferStatus EXCEPT ![b] = "EMPTY"]
  /\ PostMoved

\* Mutation: the source pointer of the buffer that was moved is kept.
NextSourceStale == UNCHANGED <<pSource, sourceOffset>>

\* What internal_MixClient() does after each move ("Also update pSource!").
NextSource == pSource' = pFullBufListHead' /\ sourceOffset' = 0

-----------------------------------------------------------------------------
(* Calls of the client process.                                            *)

\* A descriptor address the system can hand out.
Allocatable(b) == uiBufferStatus[b] = "FREE"

\* AudMixCreateClient() allocates the first buffers, AudMixAddNewBuffer()
\* the later ones: each goes to the head of both lists.
AddNewBuffer(b) ==
  /\ ~mixing
  /\ Allocatable(b)
  /\ LinkAllocated(b)
  /\ PushEmptyHead(b)
  /\ pNextFull' = [pNextFull EXCEPT ![b] = NULL]
  /\ uiBufferStatus' = [uiBufferStatus EXCEPT ![b] = "EMPTY"]
  /\ uiDataInside' = [uiDataInside EXCEPT ![b] = 0]
  /\ UNCHANGED <<pFullBufListHead, pFullBufListLast, mixable, mixVars,
                 hevMoved, threadVars>>

\* AudMixResizeBuffer(): a buffer the caller holds is replaced by a larger
\* one at the same place of the list of allocated buffers, and freed.
ResizeBuffer(t, b, c) ==
  /\ ~mixing
  /\ b \in held[t] /\ uiBufferStatus[b] = "FILLING"
  /\ Allocatable(c)
  /\ RelinkAllocated(b, c, [pNextAllocated EXCEPT ![c] = pNextAllocated[b]])
  /\ uiBufferStatus' = [uiBufferStatus EXCEPT ![b] = "FREE", ![c] = "FILLING"]
  /\ pNextEmpty' = [pNextEmpty EXCEPT ![c] = pNextEmpty[b]]
  /\ pPrevEmpty' = [pPrevEmpty EXCEPT ![c] = pPrevEmpty[b]]
  /\ pNextFull' = [pNextFull EXCEPT ![c] = pNextFull[b]]
  /\ uiDataInside' = [uiDataInside EXCEPT ![c] = uiDataInside[b]]
  /\ mixable' = [mixable EXCEPT ![c] = mixable[b]]
  /\ held' = [held EXCEPT ![t] = (@ \ {b}) \cup {c}]
  /\ UNCHANGED <<pEmptyBufListHead, pEmptyBufListLast, pFullBufListHead,
                 pFullBufListLast, mixVars, hevMoved, getting>>

\* AudMixDestroyBuffer(): a buffer the caller holds is unlinked and freed.
DestroyBuffer(t, b) ==
  /\ ~mixing
  /\ b \in held[t] /\ uiBufferStatus[b] = "FILLING"
  /\ RelinkAllocated(b, pNextAllocated[b], pNextAllocated)
  /\ uiBufferStatus' = [uiBufferStatus EXCEPT ![b] = "FREE"]
  /\ held' = [held EXCEPT ![t] = @ \ {b}]
  /\ UNCHANGED <<emptyVars, fullVars, dataVars, mixVars, hevMoved, getting>>

\* The critical section of AudMixGetEmptyBuffer() when there is an empty
\* buffer: the last one of the list goes to the caller.
TakeEmpty(t) ==
  /\ ~mixing
  /\ pEmptyBufListLast # NULL
  /\ UnlinkEmptyLast
  /\ uiBufferStatus' = [uiBufferStatus EXCEPT ![pEmptyBufListLast] = "FILLING"]
  /\ held' = [held EXCEPT ![t] = @ \cup {pEmptyBufListLast}]
  /\ getting' = [getting EXCEPT ![t] = "no"]
  /\ UNCHANGED <<allocVars, fullVars, dataVars, mixVars, hevMoved>>

\* The critical section of AudMixGetEmptyBuffer() when there is none: the
\* event is reset, and the caller goes on at `to'.
MissEmpty(t, to) ==
  /\ ~mixing
  /\ pEmptyBufListLast = NULL
  /\ hevMoved' = FALSE
  /\ getting' = [getting EXCEPT ![t] = to]
  /\ UNCHANGED <<allocVars, emptyVars, fullVars, uiBufferStatus, dataVars,
                 mixVars, held>>

\* The first try of AudMixGetEmptyBuffer(): a call without a timeout returns
\* 0 when there is no empty buffer, one with a timeout goes on to wait.
GetEmptyBuffer(t) ==
  /\ getting[t] = "no"
  /\ TakeEmpty(t) \/ MissEmpty(t, "missed") \/ MissEmpty(t, "no")

\* Mutation: a post before the wait is lost, as with a pulse.
WaitForEmptyPulse(t) ==
  /\ getting[t] = "missed"
  /\ getting' = [getting EXCEPT ![t] = "blocked"]
  /\ UNCHANGED <<allocVars, emptyVars, fullVars, uiBufferStatus, dataVars,
                 mixVars, hevMoved, held>>

\* DosWaitEventSem() after the mutex was released: it returns at once when
\* the event is posted, and blocks the thread otherwise.
WaitForEmpty(t) ==
  /\ getting[t] = "missed"
  /\ getting' = [getting EXCEPT ![t] = IF hevMoved THEN "retry" ELSE "blocked"]
  /\ UNCHANGED <<allocVars, emptyVars, fullVars, uiBufferStatus, dataVars,
                 mixVars, hevMoved, held>>

\* The wait times out: the call returns 0.
WaitTimeout(t) ==
  /\ getting[t] = "blocked"
  /\ getting' = [getting EXCEPT ![t] = "no"]
  /\ UNCHANGED <<allocVars, emptyVars, fullVars, uiBufferStatus, dataVars,
                 mixVars, hevMoved, held>>

\* The event was posted: AudMixGetEmptyBuffer() calls itself once, without
\* a timeout, and returns 0 when another thread was faster.
RetryEmpty(t) ==
  /\ getting[t] = "retry"
  /\ TakeEmpty(t) \/ MissEmpty(t, "no")

\* AudMixPutEmptyBuffer(), also called by AudMixPutFullBuffer() for a buffer
\* with less than one sample inside.
PutEmptyBuffer(t, b) ==
  /\ ~mixing
  /\ b \in held[t]
  /\ AppendEmpty(b)
  /\ pNextFull' = [pNextFull EXCEPT ![b] = NULL]
  /\ uiBufferStatus' = [uiBufferStatus EXCEPT ![b] = "EMPTY"]
  /\ uiDataInside' = [uiDataInside EXCEPT ![b] = 0]
  /\ held' = [held EXCEPT ![t] = @ \ {b}]
  /\ UNCHANGED <<allocVars, pFullBufListHead, pFullBufListLast, mixable,
                 mixVars, hevMoved, getting>>

\* AudMixPutFullBuffer() with n samples in a valid format, for which the
\* mixer can (m) or cannot generate code.
PutFullBuffer(t, b, n, m) ==
  /\ ~mixing
  /\ b \in held[t]
  /\ AppendFull(b)
  /\ pPrevEmpty' = [pPrevEmpty EXCEPT ![b] = NULL]
  /\ pNextEmpty' = [pNextEmpty EXCEPT ![b] = NULL]
  /\ uiBufferStatus' = [uiBufferStatus EXCEPT ![b] = "FULL"]
  /\ uiDataInside' = [uiDataInside EXCEPT ![b] = n]
  /\ mixable' = [mixable EXCEPT ![b] = m]
  /\ held' = [held EXCEPT ![t] = @ \ {b}]
  /\ UNCHANGED <<allocVars, pEmptyBufListHead, pEmptyBufListLast, mixVars,
                 hevMoved, getting>>

-----------------------------------------------------------------------------
(* The mixer of the daemon process.                                        *)

\* internal_MixChannelsIntoBuffer() got the mutex of a client that has a
\* full buffer, and internal_MixClient() sets up source and destination.
MixStart ==
  /\ ~mixing
  /\ pFullBufListHead # NULL
  /\ mixing' = TRUE
  /\ room' = DestSize
  /\ IF pSource = NULL
     THEN pSource' = pFullBufListHead /\ sourceOffset' = 0
     ELSE UNCHANGED <<pSource, sourceOffset>>
  /\ UNCHANGED <<allocVars, emptyVars, fullVars, uiBufferStatus, dataVars,
                 hevMoved, threadVars>>

\* The mixer gives the mutex back when it ran out of full buffers or of
\* destination, and keeps it for another iteration otherwise.
MixContinue(left) ==
  IF pFullBufListHead' = NULL \/ left = 0
  THEN mixing' = FALSE /\ room' = 0
  ELSE UNCHANGED mixing /\ room' = left

\* No custom mixer for the format: the buffer is simply consumed.
MixSkip ==
  /\ mixing /\ ~mixable[pFullBufListHead]
  /\ MoveFullBufferToEmpty
  /\ NextSource
  /\ MixContinue(room)
  /\ UNCHANGED <<allocVars, dataVars, held>>

\* The custom mixer writes `out' samples until the source runs out; sample
\* rates differ, so the source may end anywhere in the destination.
MixToSourceEnd ==
  /\ mixing /\ mixable[pFullBufListHead]
  /\ MoveFullBufferToEmpty
  /\ NextSource
  /\ \E out \in 1..room : MixContinue(room - out)
  /\ UNCHANGED <<allocVars, dataVars, held>>

\* The custom mixer fills the destination while `read' more samples of the
\* source are passed and some are left.  A whole destination passes at least
\* one: AudMixPutFullBuffer() refuses rates below 100 Hz, and the daemon's
\* destinations have 1024 samples at 44100 Hz.
MixToDestEnd ==
  /\ mixing /\ mixable[pFullBufListHead]
  /\ \E read \in (IF room = DestSize THEN 1 ELSE 0)..MaxData :
       /\ sourceOffset + read < uiDataInside[pFullBufListHead]
       /\ sourceOffset' = sourceOffset + read
  /\ mixing' = FALSE /\ room' = 0
  /\ UNCHANGED <<allocVars, emptyVars, fullVars, uiBufferStatus, dataVars,
                 pSource, hevMoved, threadVars>>

Mix == MixStart \/ MixSkip \/ MixToSourceEnd \/ MixToDestEnd

-----------------------------------------------------------------------------
Init ==
  /\ pAllocatedBufListHead = NULL
  /\ pNextAllocated = [b \in Buffer |-> NULL]
  /\ pEmptyBufListHead = NULL /\ pEmptyBufListLast = NULL
  /\ pNextEmpty = [b \in Buffer |-> NULL]
  /\ pPrevEmpty = [b \in Buffer |-> NULL]
  /\ pFullBufListHead = NULL /\ pFullBufListLast = NULL
  /\ pNextFull = [b \in Buffer |-> NULL]
  /\ uiBufferStatus = [b \in Buffer |-> "FREE"]
  /\ uiDataInside = [b \in Buffer |-> 0]
  /\ mixable = [b \in Buffer |-> FALSE]
  /\ pSource = NULL /\ sourceOffset = 0 /\ room = 0 /\ mixing = FALSE
  /\ hevMoved = FALSE
  /\ getting = [t \in Thread |-> "no"]
  /\ held = [t \in Thread |-> {}]

\* A thread is in one call at a time.
Idle(t) == getting[t] = "no"

ThreadNext(t) ==
  \/ GetEmptyBuffer(t) \/ WaitForEmpty(t) \/ WaitTimeout(t) \/ RetryEmpty(t)
  \/ /\ Idle(t)
     /\ \/ \E b \in Buffer :
             \/ AddNewBuffer(b) \/ DestroyBuffer(t, b) \/ PutEmptyBuffer(t, b)
             \/ \E c \in Buffer : ResizeBuffer(t, b, c)
             \/ \E n \in 1..MaxData, m \in BOOLEAN : PutFullBuffer(t, b, n, m)

Next == Mix \/ \E t \in Thread : ThreadNext(t)

\* DART asks for the next buffer for ever, so the mixer keeps running; a
\* thread inside AudMixGetEmptyBuffer() is scheduled, but no client has to
\* call anything, and no wait has to time out.
Fairness ==
  /\ WF_vars(Mix)
  /\ \A t \in Thread : WF_vars(WaitForEmpty(t)) /\ WF_vars(RetryEmpty(t))

Spec == Init /\ [][Next]_vars
FairSpec == Spec /\ Fairness

-----------------------------------------------------------------------------
(* Properties.                                                             *)

WithStatus(st) == {b \in Buffer : uiBufferStatus[b] = st}
Allocated == {b \in Buffer : uiBufferStatus[b] # "FREE"}

\* The three lists of audmixClient_t are well linked, and each holds exactly
\* the buffers whose status says so: no buffer is lost, listed twice, or
\* still listed when it was freed or is in the hands of the client.
ListsOK ==
  /\ IsChain(Allocated, pAllocatedBufListHead, pNextAllocated)
  /\ IsDeque(WithStatus("EMPTY"), pEmptyBufListHead, pEmptyBufListLast,
             pNextEmpty, pPrevEmpty)
  /\ IsQueue(WithStatus("FULL"), pFullBufListHead, pFullBufListLast, pNextFull)

\* A buffer is FILLING exactly while one thread, and only one, has it: what
\* a thread writes into is neither mixed nor given to another thread.
HandsOK ==
  /\ WithStatus("FILLING") = UNION {held[t] : t \in Thread}
  /\ \A t, u \in Thread : t # u => held[t] \cap held[u] = {}

\* The source pointer a mix leaves behind is NULL or points at a sample of
\* the first full buffer that was not read yet: never into a buffer that
\* went back to the client, and never behind the data.
SourceOK ==
  /\ pSource # NULL => /\ pSource = pFullBufListHead
                       /\ sourceOffset < uiDataInside[pSource]
  /\ mixing => pSource # NULL /\ room > 0

\* Who owns each buffer, and the full buffers in the order of their list.
Owner ==
  [b \in Buffer |->
     CASE uiBufferStatus[b] = "FREE" -> "none"
       [] uiBufferStatus[b] = "EMPTY" -> "pool"
       [] uiBufferStatus[b] = "FULL" -> "queue"
       [] OTHER -> CHOOSE t \in Thread : b \in held[t]]
FullQueue == ListOrder(WithStatus("FULL"), pFullBufListHead, pNextFull)

\* The client process sees exactly the promises of AudMixPool.
Pool == INSTANCE AudMixPool WITH
  owner <- Owner, queue <- FullQueue, pos <- sourceOffset

PoolSpec == Pool!Spec

\* A call of AudMixGetEmptyBuffer() that found no empty buffer while the mixer
\* has work left does not wait for ever, wherever the mixer's next move falls
\* between the miss, the release of the mutex and DosWaitEventSem(), unless
\* other threads get all the buffers.
WaiterWakes ==
  \A t \in Thread :
    getting[t] \in {"missed", "blocked"} /\ pFullBufListHead # NULL
      ~> \/ getting[t] \notin {"missed", "blocked"}
         \/ pFullBufListHead = NULL /\ pEmptyBufListLast = NULL
=============================================================================
