-------------------------------- MODULE Outputs --------------------------------
(***************************************************************************)
(* The output plugins (terminators) MPAOUT, MPVOUT and MPNulOut.  Each     *)
(* has a worker thread that takes frames from a raw stream node and gives  *)
(* them to the AudioMixer, to a window, or to nobody.  A second thread     *)
(* reports the position (MPAOUT) or paints the window (MPVOUT).            *)
(*                                                                         *)
(* The node above, the decoder, is given a buffer for every frame.  It may *)
(* keep the buffer and ask for one more, and return another one than it    *)
(* was given, so that it can reorder frames.  It is not part of this       *)
(* module: each of its answers is an action of its own.  The AudioMixer is *)
(* what AudMixPool says: it plays full buffers in order and returns them.  *)
(*                                                                         *)
(* The buffers of MPAOUT are those of its AudioMixer client, and bInUse    *)
(* has those that are not in the client's list of empty ones; the buffers  *)
(* of the other two are the slots of their pool.                           *)
(***************************************************************************)
EXTENDS Naturals, Sequences, FiniteSets

CONSTANTS
  Kinds,     \* the plugins to look at, of "aout", "vout" and "nullout"
  Buffer,    \* the slots of the pool, or the addresses of audio buffers
  Initial,   \* buffers MPAOUT creates its client with
  MaxSize,   \* how often a buffer can be resized
  NULL

ASSUME KindAssumption == Kinds \subseteq {"aout", "vout", "nullout"}
ASSUME BufferAssumption ==
  /\ Buffer \subseteq Nat /\ IsFiniteSet(Buffer) /\ NULL \notin Buffer
  /\ NULL \notin {"app", "worker"}
  /\ Initial \in 1..Cardinality(Buffer)
ASSUME SizeAssumption == MaxSize \in Nat

VARIABLES
  kind,              \* the plugin
  app,               \* where the thread is that links and unlinks it
  linked,            \* pOurNode is allocated
  iWorkerState,
  bShutdownRequest,
  iDirection,
  hmtxUseRSNode,     \* owner of the mutex
  worker,            \* where the worker thread is
  second,            \* the reporter or the PM thread
  painting,          \* the image it paints under hmtxUseImageBuffer
  allocated,         \* buffers that have memory
  bInUse,
  size,              \* ulBufferSize, in increments
  sent,              \* the buffer the decoder is given
  got,               \* the buffer with the frame
  shown,             \* the buffers with the frames to be played, oldest first
  kept,              \* the buffers the decoder has kept
  lost               \* history: the buffers MPAOUT never gives back

threadVars == <<linked, iWorkerState, bShutdownRequest, second, painting>>
bufferVars == <<allocated, bInUse, size, sent, got, shown, kept, lost>>
vars == <<kind, app, iDirection, hmtxUseRSNode, worker, threadVars, bufferVars>>

Pool == kind \in {"vout", "nullout"}
Image == {shown[k] : k \in DOMAIN shown}

App ==
  {"create", "ready", "starting", "failWorker", "failReporter", "linked",
   "direction", "unlinkWorker", "unlinkReporter", "unlinked"}
Worker ==
  {"none", "init", "start", "get", "decode", "decoding", "small", "more",
   "getmore", "unused", "noerror", "putback", "frame", "show",
   "error", "stopPM", "release", "free", "ended"}

TypeOK ==
  /\ kind \in Kinds
  /\ app \in App
  /\ linked \in BOOLEAN
  /\ iWorkerState \in {"starting", "running", "stopped", "failed"}
  /\ bShutdownRequest \in BOOLEAN
  /\ iDirection \in {"stop", "play"}
  /\ hmtxUseRSNode \in {NULL, "app", "worker"}
  /\ worker \in Worker
  /\ second \in {"none", "running", "stopping", "ended"}
  /\ painting \in Buffer \cup {NULL}
  /\ allocated \subseteq Buffer
  /\ bInUse \subseteq Buffer
  /\ size \in [Buffer -> 0..MaxSize]
  /\ sent \in Buffer \cup {NULL} /\ got \in Buffer \cup {NULL}
  /\ shown \in Seq(Buffer)
  /\ kept \subseteq Buffer /\ lost \subseteq Buffer

Init ==
  /\ kind \in Kinds
  /\ app = IF kind = "aout" THEN "create" ELSE "ready"
  /\ linked = FALSE
  /\ iWorkerState = "starting" /\ bShutdownRequest = FALSE
  /\ iDirection = "stop" /\ hmtxUseRSNode = NULL
  /\ worker = "none" /\ second = "none" /\ painting = NULL
  /\ allocated = {} /\ bInUse = {}
  /\ size = [b \in Buffer |-> 0]
  /\ sent = NULL /\ got = NULL /\ shown = <<>>
  /\ kept = {} /\ lost = {}

At(from, to) == worker = from /\ worker' = to
AppAt(from, to) == app = from /\ app' = to

-----------------------------------------------------------------------------
(* Link, Unlink and SetDirection: the application's thread.                *)

\* aout_Initialize() creates the client with its buffers.
CreateClientBuffer ==
  /\ app = "create" /\ Cardinality(allocated) < Initial
  /\ \E b \in Buffer \ allocated : allocated' = allocated \cup {b}
  /\ app' = IF Cardinality(allocated') = Initial THEN "ready" ELSE app
  /\ UNCHANGED <<kind, iDirection, hmtxUseRSNode, worker, threadVars, bInUse,
                 size, sent, got, shown, kept, lost>>

Link ==
  /\ AppAt("ready", "starting")
  /\ linked' = TRUE
  /\ iDirection' = "stop" /\ bShutdownRequest' = FALSE
  /\ iWorkerState' = "starting"
  /\ worker = "none" /\ worker' = "init"
  /\ UNCHANGED <<kind, hmtxUseRSNode, second, painting, bufferVars>>

\* The worker runs; MPAOUT starts its reporter then, which may fail.
LinkWorker ==
  /\ app = "starting" /\ iWorkerState = "running"
  /\ \/ /\ app' = "linked"
        /\ second' = IF kind = "aout" THEN "running" ELSE second
        /\ UNCHANGED bShutdownRequest
     \/ /\ kind = "aout"
        /\ app' = "failReporter"
        /\ bShutdownRequest' = TRUE
        /\ UNCHANGED second
  /\ UNCHANGED <<kind, iDirection, hmtxUseRSNode, worker, linked, iWorkerState,
                 painting, bufferVars>>

LinkWorkerFailed ==
  /\ AppAt("starting", "failWorker") /\ iWorkerState = "failed"
  /\ UNCHANGED <<kind, iDirection, hmtxUseRSNode, worker, threadVars,
                 bufferVars>>

\* The node is destroyed when the threads have died, after an Unlink as after
\* a Link that has failed.
DestroyNode ==
  /\ app \in {"failWorker", "failReporter", "unlinkReporter"}
  /\ worker = "ended"
  /\ app = "unlinkReporter" => second \in {"none", "ended"}
  /\ app' = "unlinked"
  /\ linked' = FALSE
  /\ UNCHANGED <<kind, iDirection, hmtxUseRSNode, worker, iWorkerState,
                 bShutdownRequest, second, painting, bufferVars>>

Unlink ==
  /\ AppAt("linked", "unlinkWorker")
  /\ bShutdownRequest' = TRUE
  /\ UNCHANGED <<kind, iDirection, hmtxUseRSNode, worker, linked, iWorkerState,
                 second, painting, bufferVars>>

UnlinkWait ==
  /\ AppAt("unlinkWorker", "unlinkReporter")
  /\ worker = "ended"
  /\ UNCHANGED <<kind, iDirection, hmtxUseRSNode, worker, threadVars,
                 bufferVars>>

RequestDirection ==
  /\ AppAt("linked", "direction")
  /\ hmtxUseRSNode = NULL /\ hmtxUseRSNode' = "app"
  /\ UNCHANGED <<kind, iDirection, worker, threadVars, bufferVars>>

\* Mutation: an early return keeps the mutex.
SetDirectionLocked ==
  /\ AppAt("direction", "linked")
  /\ \/ iDirection' \in {"stop", "play"} /\ hmtxUseRSNode' = NULL
     \/ UNCHANGED <<iDirection, hmtxUseRSNode>>
  /\ UNCHANGED <<kind, worker, threadVars, bufferVars>>

\* The decoder may refuse.
SetDirection ==
  /\ AppAt("direction", "linked")
  /\ iDirection' \in {"stop", "play"}
  /\ hmtxUseRSNode' = NULL
  /\ UNCHANGED <<kind, worker, threadVars, bufferVars>>

-----------------------------------------------------------------------------
(* The second thread.                                                      *)

\* The reporter looks at bShutdownRequest after every report, the PM thread
\* at its message queue.
EndSecond ==
  /\ \/ second = "running" /\ kind = "aout" /\ bShutdownRequest
     \/ second = "stopping" /\ painting = NULL
  /\ second' = "ended"
  /\ UNCHANGED <<kind, app, iDirection, hmtxUseRSNode, worker, linked,
                 iWorkerState, bShutdownRequest, painting, bufferVars>>

\* WM_PAINT takes the image under hmtxUseImageBuffer; it comes after the
\* messages that are posted.
BeginPaint ==
  /\ kind = "vout" /\ second = "running" /\ painting = NULL
  /\ shown # <<>>
  /\ worker # "show"
  /\ painting' = shown[1]
  /\ UNCHANGED <<kind, app, iDirection, hmtxUseRSNode, worker, linked,
                 iWorkerState, bShutdownRequest, second, bufferVars>>

EndPaint ==
  /\ painting # NULL
  /\ painting' = NULL
  /\ UNCHANGED <<kind, app, iDirection, hmtxUseRSNode, worker, linked,
                 iWorkerState, bShutdownRequest, second, bufferVars>>

-----------------------------------------------------------------------------
(* The worker: start, and a buffer for the next frame.                     *)

\* What the worker remembers of a frame is not used after its turn.
EndTurn == sent' = NULL /\ got' = NULL

AppVars == <<kind, app, linked, bShutdownRequest, iDirection>>
otherVars == <<AppVars, iWorkerState, second, painting>>

\* MPVOUT starts its PM thread first, which may fail.
StartWorker ==
  /\ worker = "init"
  /\ \/ /\ worker' = "start" /\ iWorkerState' = "running"
        /\ second' = IF kind = "vout" THEN "running" ELSE second
     \/ /\ kind = "vout"
        /\ worker' = "ended" /\ iWorkerState' = "failed"
        /\ UNCHANGED second
  /\ UNCHANGED <<AppVars, hmtxUseRSNode, painting, bufferVars>>

TakeTurn ==
  /\ At("start", "get")
  /\ ~bShutdownRequest /\ iDirection # "stop"
  /\ UNCHANGED <<otherVars, hmtxUseRSNode, bufferVars>>

\* Slot b is the one a search from the start of the pool finds.
FreeSlot(b) == b \notin bInUse /\ \A c \in Buffer \ bInUse : b <= c

\* Buffer b is the one for the decoder.
Use(b) ==
  /\ sent' = b
  /\ bInUse' = bInUse \cup {b}
  /\ UNCHANGED <<got, shown, kept, lost>>

GetEmptyBuffer ==
  /\ At("get", "decode") /\ ~Pool
  /\ \E b \in allocated \ bInUse : Use(b)
  /\ UNCHANGED <<otherVars, hmtxUseRSNode, allocated, size>>

\* After 100 milliseconds, or without the mutex of the client.
MissEmptyBuffer ==
  /\ At("get", "start") /\ ~Pool
  /\ UNCHANGED <<otherVars, hmtxUseRSNode, bufferVars>>

GetSlot ==
  /\ At("get", "decode") /\ Pool
  /\ \E b \in Buffer :
       /\ FreeSlot(b)
       /\ Use(b)
       /\ allocated' = allocated \cup {b}
  /\ UNCHANGED <<otherVars, hmtxUseRSNode, size>>

\* The decoder has kept all, or there is no memory.
FailSlot ==
  /\ At("get", "error") /\ Pool
  /\ \A b \in allocated : ~FreeSlot(b)
  /\ UNCHANGED <<otherVars, hmtxUseRSNode, bufferVars>>

-----------------------------------------------------------------------------
(* mmiors_GetOneFrame(), under the mutex of the node.                      *)

RequestRSNode ==
  /\ At("decode", "decoding")
  /\ hmtxUseRSNode = NULL /\ hmtxUseRSNode' = "worker"
  /\ UNCHANGED <<otherVars, bufferVars>>

Answer(to) ==
  /\ At("decoding", to)
  /\ hmtxUseRSNode' = NULL
  /\ UNCHANGED <<otherVars, allocated, bInUse, size, sent, shown, lost>>

\* A decoder refuses a NULL pointer before it looks at anything else.
HasMemory == sent \in allocated

\* MMIO_NOERROR: the frame is in the buffer sent, or in one kept before.
DecodeFrame ==
  /\ Answer("noerror") /\ HasMemory
  /\ \E b \in kept \cup {sent} : /\ got' = b
                                /\ kept' = (kept \cup {sent}) \ {b}

\* MMIO_ERROR_BUFFER_NOT_USED: it is in one kept before, and the buffer sent
\* comes back too.
DecodeKept ==
  /\ Answer("unused") /\ HasMemory
  /\ \E b \in kept : got' = b /\ kept' = kept \ {b}

\* MMIO_ERROR_NEED_MORE_BUFFERS
KeepBuffer ==
  /\ Answer("more") /\ HasMemory
  /\ kept' = kept \cup {sent}
  /\ UNCHANGED got

\* MMIO_ERROR_BUFFER_TOO_SMALL
DecodeTooSmall ==
  /\ Answer("small") /\ HasMemory
  /\ UNCHANGED <<got, kept>>

DecodeError ==
  /\ Answer("putback")
  /\ UNCHANGED <<got, kept>>

-----------------------------------------------------------------------------
(* What the worker makes of the answer.                                    *)

CanGrow == size[sent] < MaxSize

\* AudMixResizeBuffer() replaces the buffer by another one.
ResizeBuffer ==
  /\ At("small", "decode") /\ ~Pool /\ CanGrow
  /\ \E c \in Buffer \ allocated :
       /\ allocated' = (allocated \ {sent}) \cup {c}
       /\ bInUse' = (bInUse \ {sent}) \cup {c}
       /\ size' = [size EXCEPT ![c] = size[sent] + 1, ![sent] = 0]
       /\ sent' = c
  /\ UNCHANGED <<otherVars, hmtxUseRSNode, got, shown, kept, lost>>

\* The loop is left, and the buffer is forgotten.
FailResizeBuffer ==
  /\ At("small", "error") /\ ~Pool
  /\ lost' = lost \cup {sent}
  /\ UNCHANGED <<otherVars, hmtxUseRSNode, allocated, bInUse, size, sent, got,
                 shown, kept>>

ReallocSlot ==
  /\ At("small", "decode") /\ Pool /\ CanGrow
  /\ size' = [size EXCEPT ![sent] = @ + 1]
  /\ UNCHANGED <<otherVars, hmtxUseRSNode, allocated, bInUse, sent, got, shown,
                 kept, lost>>

\* The buffer sent is free again.
FreeSent ==
  /\ bInUse' = bInUse \ {sent}
  /\ UNCHANGED <<otherVars, hmtxUseRSNode, allocated, size, sent, got, shown,
                 kept, lost>>

FailReallocSlot ==
  /\ At("small", "error") /\ Pool
  /\ FreeSent

AddNewBuffer ==
  /\ At("more", "getmore") /\ ~Pool
  /\ \E c \in Buffer \ allocated :
       /\ allocated' = allocated \cup {c}
       /\ size' = [size EXCEPT ![c] = size[sent]]
  /\ UNCHANGED <<otherVars, hmtxUseRSNode, bInUse, sent, got, shown, kept,
                 lost>>

GetNewBuffer ==
  /\ At("getmore", "decode")
  /\ \E b \in allocated \ bInUse : Use(b)
  /\ UNCHANGED <<otherVars, hmtxUseRSNode, allocated, size>>

\* A free slot is used as it is, with memory or without.
GetMoreSlot ==
  /\ At("more", "decode") /\ Pool
  /\ \E b \in Buffer : FreeSlot(b) /\ Use(b)
  /\ UNCHANGED <<otherVars, hmtxUseRSNode, allocated, size>>

\* No buffer, no slot, or no mutex of the client.
FailMore ==
  /\ worker \in {"more", "getmore"} /\ worker' = "error"
  /\ Pool => bInUse = Buffer
  /\ UNCHANGED <<otherVars, hmtxUseRSNode, bufferVars>>

\* Mutation: the buffer with the frame is destroyed.
DestroyUnusedGot ==
  /\ At("unused", "frame") /\ ~Pool
  /\ allocated' = allocated \ {got}
  /\ bInUse' = bInUse \ {got}
  /\ size' = [size EXCEPT ![got] = 0]
  /\ UNCHANGED <<otherVars, hmtxUseRSNode, sent, got, shown, kept, lost>>

DestroyUnused ==
  /\ At("unused", "frame") /\ ~Pool
  /\ allocated' = allocated \ {sent}
  /\ bInUse' = bInUse \ {sent}
  /\ size' = [size EXCEPT ![sent] = 0]
  /\ UNCHANGED <<otherVars, hmtxUseRSNode, sent, got, shown, kept, lost>>

\* Mutation: the slot sent is freed, whichever came back.
GotSlotSent ==
  /\ worker \in {"unused", "noerror"} /\ worker' = "frame"
  /\ bInUse' = IF ~Pool THEN bInUse
               ELSE bInUse \ (IF worker = "unused" THEN {got, sent} ELSE {sent})
  /\ UNCHANGED <<otherVars, hmtxUseRSNode, allocated, size, sent, got, shown,
                 kept, lost>>

\* The slot that came back counts as free until its frame is shown, and so
\* does the one that was not used.
GotSlot ==
  /\ worker \in {"unused", "noerror"} /\ worker' = "frame"
  /\ Pool \/ worker = "noerror"
  /\ bInUse' = IF ~Pool THEN bInUse
               ELSE bInUse \ (IF worker = "unused" THEN {got, sent} ELSE {got})
  /\ UNCHANGED <<otherVars, hmtxUseRSNode, allocated, size, sent, got, shown,
                 kept, lost>>

PutBack ==
  /\ At("putback", "error")
  /\ FreeSent

\* The mutex of the client is not got in five seconds, and the buffer stays
\* in use: neither call is looked at for its result.
MissDestroyUnused ==
  /\ At("unused", "frame") /\ ~Pool
  /\ lost' = lost \cup {sent}
  /\ UNCHANGED <<otherVars, hmtxUseRSNode, allocated, bInUse, size, sent, got,
                 shown, kept>>

MissPutBack ==
  /\ At("putback", "error") /\ ~Pool
  /\ lost' = lost \cup {sent}
  /\ UNCHANGED <<otherVars, hmtxUseRSNode, allocated, bInUse, size, sent, got,
                 shown, kept>>

ReportError ==
  /\ At("error", "start")
  /\ EndTurn
  /\ UNCHANGED <<otherVars, hmtxUseRSNode, allocated, bInUse, size, shown, kept,
                 lost>>

-----------------------------------------------------------------------------
(* The frame is played.                                                    *)

\* Without a direction the sample rate is 0 and refused.
PutFullBuffer ==
  /\ At("frame", "start") /\ kind = "aout"
  /\ iDirection # "stop"
  /\ shown' = Append(shown, got)
  /\ EndTurn
  /\ UNCHANGED <<otherVars, hmtxUseRSNode, allocated, bInUse, size, kept,
                 lost>>

PutEmptyBuffer ==
  /\ At("frame", "start") /\ kind = "aout"
  /\ bInUse' = bInUse \ {got}
  /\ EndTurn
  /\ UNCHANGED <<otherVars, hmtxUseRSNode, allocated, size, shown, kept, lost>>

MissPutEmptyBuffer ==
  /\ At("frame", "start") /\ kind = "aout"
  /\ lost' = lost \cup {got}
  /\ EndTurn
  /\ UNCHANGED <<otherVars, hmtxUseRSNode, allocated, bInUse, size, shown,
                 kept>>

\* The AudioMixer has played the first buffer.
MoveFullBufferToEmpty ==
  /\ kind = "aout" /\ shown # <<>>
  /\ bInUse' = bInUse \ {shown[1]}
  /\ shown' = Tail(shown)
  /\ UNCHANGED <<otherVars, hmtxUseRSNode, worker, allocated, size, sent, got,
                 kept, lost>>

\* When its time has come the new frame replaces the last one under
\* hmtxUseImageBuffer.
TakeBack ==
  /\ At("frame", "show") /\ kind = "vout" /\ painting = NULL
  /\ bInUse' = bInUse \ Image
  /\ shown' = <<>>
  /\ UNCHANGED <<otherVars, hmtxUseRSNode, allocated, size, sent, got, kept,
                 lost>>

Show ==
  /\ At("show", "start")
  /\ bInUse' = bInUse \cup {got}
  /\ shown' = <<got>>
  /\ EndTurn
  /\ UNCHANGED <<otherVars, hmtxUseRSNode, allocated, size, kept, lost>>

\* MPNulOut has only waited for its time.
ShowNothing ==
  /\ At("frame", "start") /\ kind = "nullout"
  /\ EndTurn
  /\ UNCHANGED <<otherVars, hmtxUseRSNode, allocated, bInUse, size, shown, kept,
                 lost>>

-----------------------------------------------------------------------------
(* The worker ends.                                                        *)

Leave ==
  /\ worker = "start" /\ bShutdownRequest
  /\ worker' = IF kind = "vout" THEN "stopPM" ELSE "release"
  /\ second' = IF kind = "vout" THEN "stopping" ELSE second
  /\ UNCHANGED <<AppVars, iWorkerState, painting, hmtxUseRSNode, bufferVars>>

PMThreadEnded ==
  /\ At("stopPM", "release") /\ second = "ended"
  /\ UNCHANGED <<otherVars, hmtxUseRSNode, bufferVars>>

\* Mutation: the decoder is not told.
ReleaseNot ==
  /\ worker = "release"
  /\ worker' = IF Pool THEN "free" ELSE "ended"
  /\ UNCHANGED <<otherVars, hmtxUseRSNode, bufferVars>>

ReleaseForeignBuffers ==
  /\ worker = "release"
  /\ kept' = {}
  /\ worker' = IF Pool THEN "free" ELSE "ended"
  /\ iWorkerState' = IF Pool THEN iWorkerState ELSE "stopped"
  /\ UNCHANGED <<AppVars, second, painting, hmtxUseRSNode, allocated, bInUse,
                 size, sent, got, shown, lost>>

FreePool ==
  /\ At("free", "ended")
  /\ allocated' = {}
  /\ iWorkerState' = "stopped"
  /\ UNCHANGED <<AppVars, second, painting, hmtxUseRSNode, bInUse, size, sent,
                 got, shown, kept, lost>>

-----------------------------------------------------------------------------

Application ==
  \/ CreateClientBuffer \/ Link \/ LinkWorker \/ LinkWorkerFailed
  \/ DestroyNode \/ Unlink \/ UnlinkWait
  \/ RequestDirection \/ SetDirection

SecondThread == EndSecond \/ BeginPaint \/ EndPaint

Decoder ==
  DecodeFrame \/ DecodeKept \/ KeepBuffer \/ DecodeTooSmall \/ DecodeError

WorkerThread ==
  \/ StartWorker \/ TakeTurn \/ Leave
  \/ GetEmptyBuffer \/ MissEmptyBuffer \/ GetSlot \/ FailSlot
  \/ RequestRSNode \/ Decoder
  \/ ResizeBuffer \/ FailResizeBuffer \/ ReallocSlot \/ FailReallocSlot
  \/ AddNewBuffer \/ GetNewBuffer \/ GetMoreSlot \/ FailMore
  \/ DestroyUnused \/ MissDestroyUnused \/ GotSlot
  \/ PutBack \/ MissPutBack \/ ReportError
  \/ PutFullBuffer \/ PutEmptyBuffer \/ MissPutEmptyBuffer
  \/ TakeBack \/ Show \/ ShowNothing
  \/ PMThreadEnded \/ ReleaseForeignBuffers \/ FreePool

Next == Application \/ SecondThread \/ WorkerThread \/ MoveFullBufferToEmpty

Spec == Init /\ [][Next]_vars

\* The threads run, the AudioMixer plays, and every frame's time comes; no
\* application has to link or unlink, but an Unlink goes on.  A worker that
\* waits for hmtxUseImageBuffer gets it between two paintings.
FairSpec ==
  /\ Spec
  /\ WF_vars(WorkerThread) /\ SF_vars(TakeBack)
  /\ WF_vars(EndPaint) /\ WF_vars(EndSecond)
  /\ WF_vars(UnlinkWait) /\ WF_vars(DestroyNode) /\ WF_vars(SetDirection)

-----------------------------------------------------------------------------
(* Properties.                                                             *)

\* The buffer the worker has in its hand to be sent, and the one it has got.
Sending ==
  IF worker \in {"decode", "decoding", "small", "unused", "putback"}
  THEN {sent} ELSE {}
Got == IF worker \in {"unused", "noerror", "frame", "show"} THEN {got} ELSE {}

\* Every buffer in use is with exactly one of the worker, the decoder and the
\* screen or the AudioMixer, and all the others are free for the next frame:
\* so no frame is decoded into a buffer that is being played or painted, or
\* that the decoder refers to, whatever the decoder answers.  A buffer MPAOUT
\* could not resize or give back is with nobody, and a slot with a frame that
\* is not shown yet counts as free.
BuffersAccounted ==
  worker \notin {"free", "ended"} =>
    /\ Sending \cap kept = {} /\ (Sending \cup kept) \cap Image = {}
    /\ Got \cap (Sending \cup kept \cup Image) = {}
    /\ \A j, k \in DOMAIN shown : shown[j] = shown[k] => j = k
    /\ lost \cap (Sending \cup Got \cup kept \cup Image) = {}
    /\ bInUse = Sending \cup kept \cup Image \cup lost
                \cup (IF Pool /\ worker \in {"frame", "show"} THEN {} ELSE Got)
    /\ Got \cup kept \cup Image \subseteq allocated
    /\ painting # NULL => painting \in Image

\* Nothing outlives the terminator: its threads and its mutex are done with
\* the node before it is destroyed, no node above has a buffer of it, and no
\* window has an image.
NothingOutlives ==
  ~linked =>
    /\ worker \in {"none", "ended"} /\ second \in {"none", "ended"}
    /\ kept = {} /\ painting = NULL /\ hmtxUseRSNode = NULL

\* Who owns a buffer of MPAOUT's client; the other plugins have no client.
Owner ==
  [b \in Buffer |->
     IF Pool \/ b \notin allocated THEN "none"
     ELSE IF b \notin bInUse THEN "pool"
     ELSE IF b \in Image THEN "queue" ELSE "worker"]

PoolOfClient == INSTANCE AudMixPool WITH
  Thread <- {"worker"},
  owner <- Owner,
  queue <- IF Pool THEN <<>> ELSE shown,
  pos <- 0

\* MPAOUT handles the buffers of its client as AudMixPool demands: it gives
\* back, submits and destroys only what it has acquired, and nothing twice.
ClientOwnerSpec == PoolOfClient!OwnerSpec

\* Unlink returns, whatever the worker, the decoder and the second thread are
\* doing, and a worker that waits for the mutex gets it.
UnlinkReturns == app = "unlinkWorker" ~> app = "unlinked"
=============================================================================
