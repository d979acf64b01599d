----------------------------- MODULE StreamGroups -----------------------------
(***************************************************************************)
(* Stream groups of the MMIO core (MMIOCore.c).  An application puts the   *)
(* terminators of its streams into groups, which play, stop and report     *)
(* events together.  Three kinds of threads meet here: the main thread of  *)
(* the application, which makes every call; its event thread, which takes  *)
(* events and changes the direction (mmiotest.c); and a thread of each     *)
(* terminator plugin, which reports positions and events.  They share the  *)
(* mutex of the group, hmtxUseStreamGroup, and the one of the node's field *)
(* pOwnerStreamGroup.                                                      *)
(*                                                                         *)
(* A list is a set of entries and an event queue the number of its events. *)
(* Memory does not run out, so the node an entry is for may go with its    *)
(* address; which of two entries of one node comes first is left open.     *)
(* Time stamps and positions are left out: no decision here depends on     *)
(* them.  One thread adds and removes streams, and it ends the event       *)
(* thread's calls before it destroys the group, as mmiotest.c does.        *)
(*                                                                         *)
(* MMIORemoveStreamFromGroup() does not look whether the stream is in the  *)
(* group it is given.  Neither does the model: such calls are made, and    *)
(* misnamed keeps the streams for which another group than theirs was      *)
(* named.                                                                  *)
(***************************************************************************)
EXTENDS Naturals, FiniteSets

CONSTANTS
  Node,        \* terminator nodes
  Entry,       \* addresses of list entries ...
  pNode,       \* ... and the node of each
  Audio,       \* those of audio streams ...
  Video,       \* ... and of video streams
  Capable,     \* terminators that can play
  Refusing,    \* terminators whose SetDirection may fail
  Reporting,   \* terminators with a thread that reports
  Group,       \* addresses of stream groups
  NoGroup,     \* NULL as a group
  NoNode,      \* NULL as a node
  NoEntry,     \* NULL as an entry
  QueueSize    \* MMIO_STREAMGROUP_MQ_SIZE

ASSUME NodeAssumption ==
  /\ IsFiniteSet(Node)
  /\ Audio \subseteq Node /\ Video \subseteq Node /\ Capable \subseteq Node
  /\ Refusing \subseteq Node /\ Reporting \subseteq Node
  /\ NoNode \notin Node
ASSUME EntryAssumption ==
  IsFiniteSet(Entry) /\ pNode \in [Entry -> Node] /\ NoEntry \notin Entry
ASSUME GroupAssumption == NoGroup \notin Group
ASSUME QueueAssumption == QueueSize \in Nat

Caller == {"main", "events"}
Nobody == "nobody"
Direction == {"STOP", "PLAY"}

\* iTermCapabilities: the directions a terminator supports.
Capabilities(n) == IF n \in Capable THEN {"STOP", "PLAY"} ELSE {"STOP"}

VARIABLES
  alive,              \* groups that are allocated
  listed,             \* groups in the list at pStreamGroupListHead
  pStreamList,        \* entries of a group's streams ...
  pMainStream,        \* ... and that of the one the others follow
  iDirection,         \* direction of a group
  iTermCapabilities,
  iSubscribedEvents,  \* whether the application wants events
  queue,              \* events in hmqEventMessageQueue
  hmtxUseStreamGroup, \* owner of the mutex of a group
  pOwnerStreamGroup,  \* group of a node
  playing,            \* terminators that play
  pc,                 \* where a caller is ...
  group,              \* ... the group it works on ...
  node,               \* ... the node it adds or removes ...
  entry,              \* ... the entry it adds ...
  todo,               \* ... and the entries its loop has not reached
  report,             \* where the thread of a terminator is ...
  seen,               \* ... and the group it has read
  (* History.                                                              *)
  stray,              \* streams that did not follow the last request
  chosen,             \* groups whose main stream was set by the application
  misnamed            \* streams removed from another group than theirs

groupVars == <<alive, listed>>
streamVars == <<pStreamList, pMainStream, iTermCapabilities, chosen>>
moveVars == <<iDirection, playing, stray>>
callVars == <<pc, group, node, entry, todo>>
reportVars == <<report, seen>>
vars == <<groupVars, streamVars, moveVars, callVars, reportVars,
          iSubscribedEvents, queue, hmtxUseStreamGroup, pOwnerStreamGroup,
          misnamed>>

Place ==
  {"idle", "adding", "owning", "joining", "removing", "disowning",
   "unlinking", "turning", "locking", "stopping", "clearing"}

TypeOK ==
  /\ alive \subseteq Group
  /\ listed \subseteq alive
  /\ pStreamList \in [Group -> SUBSET Entry]
  /\ pMainStream \in [Group -> Entry \cup {NoEntry}]
  /\ iDirection \in [Group -> Direction]
  /\ iTermCapabilities \in [Group -> SUBSET Direction]
  /\ iSubscribedEvents \in [Group -> BOOLEAN]
  /\ queue \in [Group -> 0..QueueSize]
  /\ hmtxUseStreamGroup \in [Group -> Caller \cup {Nobody}]
  /\ pOwnerStreamGroup \in [Node -> Group \cup {NoGroup}]
  /\ playing \subseteq Node
  /\ pc \in [Caller -> Place]
  /\ group \in [Caller -> Group \cup {NoGroup}]
  /\ node \in Node \cup {NoNode}
  /\ entry \in Entry \cup {NoEntry}
  /\ todo \in [Caller -> SUBSET Entry]
  /\ report \in [Node -> {"idle", "position", "event"}]
  /\ seen \in [Node -> Group \cup {NoGroup}]
  /\ stray \subseteq Node
  /\ chosen \subseteq Group
  /\ misnamed \subseteq Node

Init ==
  /\ alive = {} /\ listed = {}
  /\ pStreamList = [g \in Group |-> {}]
  /\ pMainStream = [g \in Group |-> NoEntry]
  /\ iDirection = [g \in Group |-> "STOP"]
  /\ iTermCapabilities = [g \in Group |-> {}]
  /\ iSubscribedEvents = [g \in Group |-> FALSE]
  /\ queue = [g \in Group |-> 0]
  /\ hmtxUseStreamGroup = [g \in Group |-> Nobody]
  /\ pOwnerStreamGroup = [n \in Node |-> NoGroup]
  /\ playing = {} /\ stray = {} /\ chosen = {} /\ misnamed = {}
  /\ pc = [t \in Caller |-> "idle"]
  /\ group = [t \in Caller |-> NoGroup]
  /\ node = NoNode /\ entry = NoEntry
  /\ todo = [t \in Caller |-> {}]
  /\ report = [n \in Node |-> "idle"]
  /\ seen = [n \in Node |-> NoGroup]

-----------------------------------------------------------------------------
(* What the calls are made of.                                             *)

MutexFree(g) == hmtxUseStreamGroup[g] = Nobody

\* hmtxUseOwnerStreamGroupField: only a thread that reports an event owns it
\* for longer than a step.
FieldFree(n) == report[n] # "event"

\* The length of the queue after k events, which are lost when it is full.
Posted(g, k) ==
  IF ~iSubscribedEvents[g] THEN queue[g]
  ELSE IF queue[g] + k > QueueSize THEN QueueSize ELSE queue[g] + k

Post(g, k) == queue' = [queue EXCEPT ![g] = Posted(g, k)]

\* Whether a stream of n's kind is preferred as the main stream.
Rank(n) == IF n \in Audio THEN 2 ELSE IF n \in Video THEN 1 ELSE 0

Combined(S) ==
  IF S = {} THEN {} ELSE {d \in Direction : \A n \in S : d \in Capabilities(n)}

\* The nodes with an entry in the list of g.
Streams(g) == {pNode[e] : e \in pStreamList[g]}

\* The terminator n is told to take direction d, and reports the change to its
\* group.  Some may fail, and then keep what they do.
Tell(n, d) ==
  \/ /\ playing' = IF d = "PLAY" THEN playing \cup {n} ELSE playing \ {n}
     /\ stray' = stray \ {n}
     /\ IF pOwnerStreamGroup[n] = NoGroup THEN UNCHANGED queue
        ELSE Post(pOwnerStreamGroup[n], 1)
  \/ /\ n \in Refusing
     /\ stray' = stray \cup {n}
     /\ UNCHANGED <<playing, queue>>

\* The main thread releases the mutex of g and returns.
ReturnMain(g) ==
  /\ hmtxUseStreamGroup' = [hmtxUseStreamGroup EXCEPT ![g] = Nobody]
  /\ pc' = [pc EXCEPT !["main"] = "idle"]
  /\ group' = [group EXCEPT !["main"] = NoGroup]
  /\ node' = NoNode /\ entry' = NoEntry

\* Mutation: the node keeps the group it leaves.
DisownNot(n) == UNCHANGED pOwnerStreamGroup

\* The node forgets its group, under the mutex of that field.
Disown(n) == pOwnerStreamGroup' = [pOwnerStreamGroup EXCEPT ![n] = NoGroup]

\* Mutation: the capabilities do not start from those of the first stream.
RecalculateNarrow(g, S) ==
  iTermCapabilities' = [iTermCapabilities EXCEPT ![g] = @ \cap Combined(S)]

\* The capabilities of the group when S are its streams.
Recalculate(g, S) ==
  iTermCapabilities' = [iTermCapabilities EXCEPT ![g] = Combined(S)]

-----------------------------------------------------------------------------
(* Calls of the main thread.                                               *)

CreateEmptyStreamGroup(g) ==
  /\ pc["main"] = "idle"
  /\ g \notin alive
  /\ alive' = alive \cup {g}
  /\ listed' = listed \cup {g}
  /\ pStreamList' = [pStreamList EXCEPT ![g] = {}]
  /\ pMainStream' = [pMainStream EXCEPT ![g] = NoEntry]
  /\ iDirection' = [iDirection EXCEPT ![g] = "STOP"]
  /\ iTermCapabilities' = [iTermCapabilities EXCEPT ![g] = {}]
  /\ iSubscribedEvents' = [iSubscribedEvents EXCEPT ![g] = FALSE]
  /\ queue' = [queue EXCEPT ![g] = 0]
  /\ chosen' = chosen \ {g}
  /\ UNCHANGED <<hmtxUseStreamGroup, pOwnerStreamGroup, playing, stray,
                 misnamed, callVars, reportVars>>

\* MMIOAddStreamsToGroup() has come to a terminator that is in no group, and
\* has allocated an entry for it.
FindStream(g, e) ==
  /\ pc["main"] = "idle"
  /\ g \in listed /\ pOwnerStreamGroup[pNode[e]] = NoGroup
  /\ \A h \in Group : e \notin pStreamList[h]
  /\ pc' = [pc EXCEPT !["main"] = "adding"]
  /\ group' = [group EXCEPT !["main"] = g]
  /\ node' = pNode[e] /\ entry' = e
  /\ UNCHANGED <<groupVars, streamVars, moveVars, reportVars, todo, misnamed,
                 iSubscribedEvents, queue, hmtxUseStreamGroup,
                 pOwnerStreamGroup>>

\* Mutation: the newest stream is the main one.
PreferNewAny(g, e) == pMainStream' = [pMainStream EXCEPT ![g] = e]

\* A new stream becomes the main one if there is none, if it is audio, or if
\* it is video and the main one is not audio.
PreferNew(g, e) ==
  pMainStream' =
    [pMainStream EXCEPT ![g] =
       IF \/ @ = NoEntry
          \/ pNode[e] \in Audio
          \/ pNode[e] \in Video /\ pNode[@] \notin Audio
       THEN e ELSE @]

\* Mutation: the new stream is not told.
JoinUntold(g, n) ==
  /\ stray' = stray \ {n}
  /\ UNCHANGED <<playing, queue, iDirection>>

\* The new stream takes the direction of the group.
Join(g, n) ==
  /\ Tell(n, iDirection[g])
  /\ stray' = stray \ {n}
  /\ UNCHANGED iDirection

\* The new stream refuses that direction: all streams shall be stopped, but
\* every call is made for the instance of the new one.
JoinRefused(g, n) ==
  /\ n \in Refusing
  /\ \/ playing' = playing \ {n} /\ Post(g, Cardinality(pStreamList[g]))
     \/ UNCHANGED <<playing, queue>>
  /\ stray' = stray \cup Streams(g)
  /\ iDirection' = [iDirection EXCEPT ![g] = "STOP"]

\* Under the mutex of the group the entry is linked ...
AddStream ==
  LET g == group["main"] IN
  /\ pc["main"] = "adding"
  /\ MutexFree(g)
  /\ hmtxUseStreamGroup' = [hmtxUseStreamGroup EXCEPT ![g] = "main"]
  /\ pStreamList' = [pStreamList EXCEPT ![g] = @ \cup {entry}]
  /\ pc' = [pc EXCEPT !["main"] = "owning"]
  /\ UNCHANGED <<groupVars, moveVars, reportVars, pMainStream, chosen,
                 iTermCapabilities, group, node, entry, todo, misnamed,
                 iSubscribedEvents, queue, pOwnerStreamGroup>>

\* ... the node gets its group, without the mutex of that field, and main
\* stream and capabilities are revised ...
OwnStream ==
  LET g == group["main"]
      n == node
  IN
  /\ pc["main"] = "owning"
  /\ pOwnerStreamGroup' = [pOwnerStreamGroup EXCEPT ![n] = g]
  /\ PreferNew(g, entry)
  /\ chosen' = IF n \in Audio THEN chosen \ {g} ELSE chosen
  /\ Recalculate(g, Streams(g))
  /\ pc' = [pc EXCEPT !["main"] = "joining"]
  /\ UNCHANGED <<groupVars, moveVars, reportVars, pStreamList, group, node,
                 entry, todo, misnamed, iSubscribedEvents, queue,
                 hmtxUseStreamGroup>>

\* ... and the stream is told the direction of the group.
JoinStream ==
  LET g == group["main"]
      n == node
  IN
  /\ pc["main"] = "joining"
  /\ FieldFree(n)
  /\ Join(g, n) \/ JoinRefused(g, n)
  /\ ReturnMain(g)
  /\ UNCHANGED <<groupVars, streamVars, reportVars, todo, misnamed,
                 iSubscribedEvents, pOwnerStreamGroup>>

\* The walk that selects a main stream ends with an audio stream if there is
\* one, and otherwise with a video stream if there is one.
Best(S, e) == e \in S /\ \A f \in S : Rank(pNode[f]) <= Rank(pNode[e])

\* The main stream leaves: the best of the streams that stay replaces it.
Reselect(g, e, S) ==
  IF pMainStream[g] # e THEN UNCHANGED <<pMainStream, chosen>>
  ELSE /\ \E f \in Entry \cup {NoEntry} :
            /\ IF S = {} THEN f = NoEntry ELSE Best(S, f)
            /\ pMainStream' = [pMainStream EXCEPT ![g] = f]
       /\ chosen' = chosen \ {g}

\* The stream may be in this group, in another one or in none.
RemoveStreamFromGroup(g, n) ==
  /\ pc["main"] = "idle"
  /\ g \in listed
  /\ MutexFree(g)
  /\ hmtxUseStreamGroup' = [hmtxUseStreamGroup EXCEPT ![g] = "main"]
  /\ pc' = [pc EXCEPT !["main"] = "removing"]
  /\ group' = [group EXCEPT !["main"] = g]
  /\ node' = n
  /\ misnamed' = IF pOwnerStreamGroup[n] \in {g, NoGroup} THEN misnamed
                 ELSE misnamed \cup {n}
  /\ UNCHANGED <<groupVars, streamVars, moveVars, reportVars, entry, todo,
                 iSubscribedEvents, queue, pOwnerStreamGroup>>

\* The stream is stopped ...
StopRemoved ==
  /\ pc["main"] = "removing"
  /\ FieldFree(node)
  /\ Tell(node, "STOP") /\ UNCHANGED iDirection
  /\ pc' = [pc EXCEPT !["main"] = "disowning"]
  /\ UNCHANGED <<groupVars, streamVars, reportVars, group, node, entry, todo,
                 misnamed, iSubscribedEvents, hmtxUseStreamGroup,
                 pOwnerStreamGroup>>

\* ... forgets its group, whichever that is ...
DisownRemoved ==
  /\ pc["main"] = "disowning"
  /\ FieldFree(node)
  /\ Disown(node)
  /\ pc' = [pc EXCEPT !["main"] = "unlinking"]
  /\ UNCHANGED <<groupVars, streamVars, moveVars, reportVars, group, node,
                 entry, todo, misnamed, iSubscribedEvents, queue,
                 hmtxUseStreamGroup>>

\* ... and its entry is unlinked if there is one in this list.  The entry is
\* not freed.
UnlinkRemoved ==
  LET g == group["main"] IN
  /\ pc["main"] = "unlinking"
  /\ \/ \E e \in pStreamList[g] :
          /\ pNode[e] = node
          /\ pStreamList' = [pStreamList EXCEPT ![g] = @ \ {e}]
          /\ Reselect(g, e, pStreamList[g] \ {e})
          /\ Recalculate(g, {pNode[f] : f \in pStreamList[g] \ {e}})
     \/ node \notin Streams(g) /\ UNCHANGED streamVars
  /\ ReturnMain(g)
  /\ UNCHANGED <<groupVars, moveVars, reportVars, todo, misnamed,
                 iSubscribedEvents, queue, pOwnerStreamGroup>>

SetMainStreamOfGroup(g, e) ==
  /\ pc["main"] = "idle"
  /\ g \in listed /\ MutexFree(g)
  /\ e \in pStreamList[g]
  /\ pMainStream' = [pMainStream EXCEPT ![g] = e]
  /\ chosen' = chosen \cup {g}
  /\ UNCHANGED <<groupVars, moveVars, callVars, reportVars, pStreamList,
                 iTermCapabilities, misnamed, iSubscribedEvents, queue,
                 hmtxUseStreamGroup, pOwnerStreamGroup>>

SubscribeEvents(g, b) ==
  /\ pc["main"] = "idle"
  /\ g \in listed /\ MutexFree(g)
  /\ iSubscribedEvents' = [iSubscribedEvents EXCEPT ![g] = b]
  /\ UNCHANGED <<groupVars, streamVars, moveVars, callVars, reportVars,
                 misnamed, queue, hmtxUseStreamGroup, pOwnerStreamGroup>>

-----------------------------------------------------------------------------
(* MMIODestroyStreamGroup().                                               *)

\* The group leaves the list; the event thread has ended its calls.
DestroyStreamGroup(g) ==
  /\ pc["main"] = "idle"
  /\ g \in listed
  /\ group["events"] # g
  /\ listed' = listed \ {g}
  /\ pc' = [pc EXCEPT !["main"] = "locking"]
  /\ group' = [group EXCEPT !["main"] = g]
  /\ UNCHANGED <<alive, streamVars, moveVars, reportVars, node, entry, todo,
                 misnamed, iSubscribedEvents, queue, hmtxUseStreamGroup,
                 pOwnerStreamGroup>>

LockGroup ==
  LET g == group["main"] IN
  /\ pc["main"] = "locking"
  /\ MutexFree(g)
  /\ hmtxUseStreamGroup' = [hmtxUseStreamGroup EXCEPT ![g] = "main"]
  /\ pc' = [pc EXCEPT !["main"] = "stopping"]
  /\ todo' = [todo EXCEPT !["main"] = pStreamList[g]]
  /\ UNCHANGED <<groupVars, streamVars, moveVars, reportVars, group, node,
                 entry, misnamed, iSubscribedEvents, queue,
                 pOwnerStreamGroup>>

StopStream(e) ==
  /\ pc["main"] = "stopping"
  /\ e \in todo["main"] /\ FieldFree(pNode[e])
  /\ Tell(pNode[e], "STOP") /\ UNCHANGED iDirection
  /\ todo' = [todo EXCEPT !["main"] = @ \ {e}]
  /\ UNCHANGED <<groupVars, streamVars, reportVars, pc, group, node, entry,
                 misnamed, iSubscribedEvents, hmtxUseStreamGroup,
                 pOwnerStreamGroup>>

AllStopped ==
  /\ pc["main"] = "stopping"
  /\ todo["main"] = {}
  /\ pc' = [pc EXCEPT !["main"] = "clearing"]
  /\ todo' = [todo EXCEPT !["main"] = pStreamList[group["main"]]]
  /\ UNCHANGED <<groupVars, streamVars, moveVars, reportVars, group, node,
                 entry, misnamed, iSubscribedEvents, queue,
                 hmtxUseStreamGroup, pOwnerStreamGroup>>

\* Mutation: the field is cleared without its mutex.
ForgetStreamUnlocked(e) ==
  /\ pc["main"] = "clearing"
  /\ e \in todo["main"]
  /\ Disown(pNode[e])
  /\ todo' = [todo EXCEPT !["main"] = @ \ {e}]
  /\ UNCHANGED <<groupVars, streamVars, moveVars, reportVars, pc, group, node,
                 entry, misnamed, iSubscribedEvents, queue,
                 hmtxUseStreamGroup>>

\* The node forgets its group, and the entry of the stream is freed.
ForgetStream(e) ==
  /\ pc["main"] = "clearing"
  /\ e \in todo["main"] /\ FieldFree(pNode[e])
  /\ Disown(pNode[e])
  /\ todo' = [todo EXCEPT !["main"] = @ \ {e}]
  /\ UNCHANGED <<groupVars, streamVars, moveVars, reportVars, pc, group, node,
                 entry, misnamed, iSubscribedEvents, queue,
                 hmtxUseStreamGroup>>

DrainQueue ==
  LET g == group["main"] IN
  /\ pc["main"] = "clearing" /\ todo["main"] = {}
  /\ queue[g] > 0
  /\ queue' = [queue EXCEPT ![g] = @ - 1]
  /\ UNCHANGED <<groupVars, streamVars, moveVars, callVars, reportVars,
                 misnamed, iSubscribedEvents, hmtxUseStreamGroup,
                 pOwnerStreamGroup>>

\* Queue, mutex and group are deleted.
FreeGroup ==
  LET g == group["main"] IN
  /\ pc["main"] = "clearing" /\ todo["main"] = {}
  /\ queue[g] = 0
  /\ alive' = alive \ {g}
  /\ pStreamList' = [pStreamList EXCEPT ![g] = {}]
  /\ pMainStream' = [pMainStream EXCEPT ![g] = NoEntry]
  /\ iTermCapabilities' = [iTermCapabilities EXCEPT ![g] = {}]
  /\ ReturnMain(g)
  /\ UNCHANGED <<listed, chosen, moveVars, reportVars, todo, misnamed,
                 iSubscribedEvents, queue, pOwnerStreamGroup>>

-----------------------------------------------------------------------------
(* MMIOSetDirection() and MMIOGetEvent(), of either thread.                *)

SetDirection(t, g, d) ==
  /\ pc[t] = "idle"
  /\ g \in listed /\ MutexFree(g)
  /\ d \in iTermCapabilities[g]
  /\ hmtxUseStreamGroup' = [hmtxUseStreamGroup EXCEPT ![g] = t]
  /\ iDirection' = [iDirection EXCEPT ![g] = d]
  /\ pc' = [pc EXCEPT ![t] = "turning"]
  /\ group' = [group EXCEPT ![t] = g]
  /\ todo' = [todo EXCEPT ![t] = pStreamList[g]]
  /\ UNCHANGED <<groupVars, streamVars, reportVars, playing, stray, node,
                 entry, misnamed, iSubscribedEvents, queue,
                 pOwnerStreamGroup>>

TurnStream(t, e) ==
  /\ pc[t] = "turning"
  /\ e \in todo[t] /\ FieldFree(pNode[e])
  /\ Tell(pNode[e], iDirection[group[t]]) /\ UNCHANGED iDirection
  /\ todo' = [todo EXCEPT ![t] = @ \ {e}]
  /\ UNCHANGED <<groupVars, streamVars, reportVars, pc, group, node, entry,
                 misnamed, iSubscribedEvents, hmtxUseStreamGroup,
                 pOwnerStreamGroup>>

\* Mutation: the mutex of the group is not released.
ReturnSetDirectionLocked(t) ==
  /\ pc[t] = "turning" /\ todo[t] = {}
  /\ pc' = [pc EXCEPT ![t] = "idle"]
  /\ group' = [group EXCEPT ![t] = NoGroup]
  /\ UNCHANGED <<groupVars, streamVars, moveVars, reportVars, node, entry,
                 todo, misnamed, iSubscribedEvents, queue,
                 hmtxUseStreamGroup, pOwnerStreamGroup>>

ReturnSetDirection(t) ==
  /\ pc[t] = "turning" /\ todo[t] = {}
  /\ hmtxUseStreamGroup' = [hmtxUseStreamGroup EXCEPT ![group[t]] = Nobody]
  /\ pc' = [pc EXCEPT ![t] = "idle"]
  /\ group' = [group EXCEPT ![t] = NoGroup]
  /\ UNCHANGED <<groupVars, streamVars, moveVars, reportVars, node, entry,
                 todo, misnamed, iSubscribedEvents, queue, pOwnerStreamGroup>>

GetEvent(g) ==
  /\ pc["events"] = "idle"
  /\ g \in listed /\ queue[g] > 0
  /\ queue' = [queue EXCEPT ![g] = @ - 1]
  /\ UNCHANGED <<groupVars, streamVars, moveVars, callVars, reportVars,
                 misnamed, iSubscribedEvents, hmtxUseStreamGroup,
                 pOwnerStreamGroup>>

-----------------------------------------------------------------------------
(* The thread of a terminator.                                             *)

\* MMIOPsReportPosition() reads the group of the node without the mutex of
\* that field.
ReportPosition(n) ==
  /\ report[n] = "idle"
  /\ pOwnerStreamGroup[n] # NoGroup
  /\ report' = [report EXCEPT ![n] = "position"]
  /\ seen' = [seen EXCEPT ![n] = pOwnerStreamGroup[n]]
  /\ UNCHANGED <<groupVars, streamVars, moveVars, callVars, misnamed,
                 iSubscribedEvents, queue, hmtxUseStreamGroup,
                 pOwnerStreamGroup>>

\* It owns the mutex of the group for the rest of the call, or the request of
\* a mutex that was deleted fails.
ReturnPosition(n) ==
  /\ report[n] = "position"
  /\ seen[n] \in alive => MutexFree(seen[n])
  /\ report' = [report EXCEPT ![n] = "idle"]
  /\ seen' = [seen EXCEPT ![n] = NoGroup]
  /\ UNCHANGED <<groupVars, streamVars, moveVars, callVars, misnamed,
                 iSubscribedEvents, queue, hmtxUseStreamGroup,
                 pOwnerStreamGroup>>

\* MMIOPsReportEvent() reads the group with that mutex ...
ReportEvent(n) ==
  /\ report[n] = "idle"
  /\ report' = [report EXCEPT ![n] = "event"]
  /\ seen' = [seen EXCEPT ![n] = pOwnerStreamGroup[n]]
  /\ UNCHANGED <<groupVars, streamVars, moveVars, callVars, misnamed,
                 iSubscribedEvents, queue, hmtxUseStreamGroup,
                 pOwnerStreamGroup>>

\* ... and owns it while it reads pMainStream and sends the event.
SendEvent(n) ==
  /\ report[n] = "event"
  /\ IF seen[n] = NoGroup THEN UNCHANGED queue ELSE Post(seen[n], 1)
  /\ report' = [report EXCEPT ![n] = "idle"]
  /\ seen' = [seen EXCEPT ![n] = NoGroup]
  /\ UNCHANGED <<groupVars, streamVars, moveVars, callVars, misnamed,
                 iSubscribedEvents, hmtxUseStreamGroup, pOwnerStreamGroup>>

-----------------------------------------------------------------------------

MainCall ==
  \/ \E g \in Group :
       \/ CreateEmptyStreamGroup(g)
       \/ \E e \in Entry : FindStream(g, e) \/ SetMainStreamOfGroup(g, e)
       \/ \E n \in Node : RemoveStreamFromGroup(g, n)
       \/ \E b \in BOOLEAN : SubscribeEvents(g, b)
       \/ DestroyStreamGroup(g)

\* The rest of a call that takes more than one step.
MainStep ==
  \/ AddStream \/ OwnStream \/ JoinStream
  \/ StopRemoved \/ DisownRemoved \/ UnlinkRemoved
  \/ LockGroup \/ AllStopped \/ DrainQueue \/ FreeGroup
  \/ \E e \in Entry : StopStream(e) \/ ForgetStream(e)

DirectionStep(t) ==
  \/ \E e \in Entry : TurnStream(t, e)
  \/ ReturnSetDirection(t)

Reporter(n) ==
  ReportPosition(n) \/ ReturnPosition(n) \/ ReportEvent(n) \/ SendEvent(n)

Next ==
  \/ MainCall \/ MainStep
  \/ \E t \in Caller :
       \/ \E g \in Group, d \in Direction : SetDirection(t, g, d)
       \/ DirectionStep(t)
  \/ \E g \in Group : GetEvent(g)
  \/ \E n \in Reporting : Reporter(n)

Spec == Init /\ [][Next]_vars

\* Threads go on inside a call, and whoever waits for a mutex that becomes
\* free again and again gets it: the system queues the waiters.
FairSpec ==
  /\ Spec
  /\ SF_vars(MainStep)
  /\ \A t \in Caller : SF_vars(DirectionStep(t))
  /\ \A n \in Reporting : WF_vars(SendEvent(n))

-----------------------------------------------------------------------------
(* Properties.                                                             *)

\* The entries MMIODestroyStreamGroup() has freed.
Freed(g) ==
  IF pc["main"] = "clearing" /\ group["main"] = g
  THEN pStreamList[g] \ todo["main"] ELSE {}

\* The entries of g that can be followed.
Linked(g) == pStreamList[g] \ Freed(g)

\* The main thread is between the two writes by which n joins or leaves g.
InTransit(n, g) ==
  pc["main"] \in {"owning", "unlinking"} /\ group["main"] = g /\ node = n

\* A node is always in the list of the group its field names.  A stream for
\* which no other group than its own was ever named is in no other list and in
\* none twice, in every state of every call but between the two writes of a
\* call that adds or removes just this stream: list and field are changed in
\* different places, under different mutexes.
MembersOwned ==
  \A g \in Group :
    /\ \A n \in Node :
         pOwnerStreamGroup[n] = g => \E e \in Linked(g) : pNode[e] = n
    /\ \A e \in Linked(g) :
         \/ pNode[e] \in misnamed
         \/ /\ pOwnerStreamGroup[pNode[e]] = g \/ InTransit(pNode[e], g)
            /\ \A f \in Linked(g) : pNode[f] = pNode[e] => f = e

\* Whenever the mutex of a group is free, the group has a main stream exactly
\* when it has streams, the main stream is one of them, and unless the
\* application chose it, none is better.
MainIsBest ==
  \A g \in Group :
    MutexFree(g) =>
      /\ pMainStream[g] = NoEntry <=> pStreamList[g] = {}
      /\ pMainStream[g] # NoEntry => pMainStream[g] \in pStreamList[g]
      /\ pStreamList[g] # {} /\ g \notin chosen
           => Best(pStreamList[g], pMainStream[g])

\* Whenever the mutex of a group is free, the group promises a direction
\* exactly when all its streams support it.
CapsCombined ==
  \A g \in Group :
    MutexFree(g) => iTermCapabilities[g] = Combined(Streams(g))

\* While nobody is changing a group, its streams do what the group does,
\* except those that refused and those for which another group was named; a
\* stream in no group does not play.
DirectionsAgree ==
  \A n \in Node \ (stray \cup misnamed) :
    LET g == pOwnerStreamGroup[n] IN
    IF g = NoGroup THEN n \notin playing
    ELSE MutexFree(g) => (n \in playing <=> iDirection[g] = "PLAY")

\* An event is sent to a group that exists: MMIODestroyStreamGroup() waits for
\* every report to its group, and none begins after that.
Targets == INSTANCE EventTargets WITH
  live <- alive,
  attached <- pOwnerStreamGroup,
  sending <- [n \in Node |-> IF report[n] = "event" THEN seen[n] ELSE NoGroup]

TargetSpec == Targets!Spec

\* Whether t waits, inside a call, for a mutex that a thread of C or N owns or
\* that a thread outside its calls has left owned.  It tells its streams in the
\* order of the list: any of those left may be the next.
CallerStuck(t, C, N) ==
  \/ /\ pc[t] \in {"adding", "locking"} /\ ~MutexFree(group[t])
     /\ LET o == hmtxUseStreamGroup[group[t]] IN o \in C \/ pc[o] = "idle"
  \/ /\ pc[t] \in {"joining", "removing", "disowning"} /\ ~FieldFree(node)
     /\ node \in N
  \/ /\ pc[t] \in {"turning", "stopping", "clearing"}
     /\ \E e \in todo[t] : ~FieldFree(pNode[e]) /\ pNode[e] \in N

ReporterStuck(n, C) ==
  /\ report[n] = "position" /\ seen[n] \in alive /\ ~MutexFree(seen[n])
  /\ LET o == hmtxUseStreamGroup[seen[n]] IN o \in C \/ pc[o] = "idle"

\* No callers C and terminators' threads N wait for mutexes that only they
\* would release, although one call may own the mutex of a group while it
\* needs the field of a node, and the thread of that node reports meanwhile.
NobodyStuck ==
  \A C \in SUBSET Caller, N \in SUBSET Node :
    /\ \A t \in C : CallerStuck(t, C, N)
    /\ \A n \in N : ReporterStuck(n, C)
    => C = {} /\ N = {}

\* No call of either thread waits for ever for a mutex, although terminators
\* report events from inside SetDirection, with the mutex of the group owned
\* by the caller.
CallsReturn == \A t \in Caller : pc[t] # "idle" ~> pc[t] = "idle"

\* "This mutex is required here so destroying a stream group will not crash us
\* here" (MMIOCore.c:2355): when MMIOPsReportEvent() reads the entry of the
\* main stream, that entry has not been freed.
EventReadsLiveEntry ==
  \A n \in Node :
    report[n] = "event" /\ seen[n] # NoGroup /\ iSubscribedEvents[seen[n]]
      => pMainStream[seen[n]] \notin Freed(seen[n])
=============================================================================
