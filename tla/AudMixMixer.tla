----------------------------- MODULE AudMixMixer -----------------------------
(***************************************************************************)
(* The mixing rounds of the AudioMixer daemon (AudMixer.c).  DART plays a  *)
(* ring of NumMixBuffers hardware buffers and calls internal_DARTEventFunc *)
(* when the playback of one is complete; the callback mixes every client   *)
(* of the list into the work buffer, converts it into that hardware buffer *)
(* and sends the buffer to the end of the ring.  What is heard is therefore*)
(* NumMixBuffers rounds older than what is mixed, so each client has a     *)
(* delay line of time stamps, pullTimeStampsAtHW.                          *)
(*                                                                         *)
(* The daemon's command thread puts clients into the list and takes them   *)
(* out between the rounds' critical sections, and client threads read      *)
(* their time stamp without a mutex.  Sound is abstracted to the set of    *)
(* clients that are in it ({} is silence), a time stamp to a position in   *)
(* the client's stream.                                                    *)
(***************************************************************************)
EXTENDS Naturals

CONSTANTS
  Client,         \* clients of the daemon
  NumMixBuffers,  \* g_uiNumMixBuffers
  Stamp,          \* time stamps
  Zero,           \* the time stamp 0
  NoClient        \* no client

ASSUME NumMixBuffersAssumption == NumMixBuffers \in Nat /\ NumMixBuffers >= 2
ASSUME StampAssumption == Zero \in Stamp
ASSUME ClientAssumption == NoClient \notin Client

VARIABLES
  clients,             \* the list that starts at pClientListHead
  pullTimeStampsAtHW,  \* the delay line of a client
  ullTimeStamp,        \* the time stamp a client can read ...
  timTimeStampTime,    \* ... and the time at which it was reached
  iNoMixCounter,
  pWorkBuffer,         \* the clients whose sound is in the work buffer
  dart,                \* the same of the hardware buffers, the one playing first
  round,               \* where the callback is
  todo,                \* clients the walk through the list has not reached
  visiting,            \* the client whose hmtxUseClient the callback owns
  reading,             \* the time stamp AudMixGetTimestampInfo() copied first
  reported,            \* what AudMixGetTimestampInfo() returned last
  (* History of what the clients' streams and the hardware did.            *)
  fed,                 \* the clients mixed in this round
  fedAt,               \* the clients mixed when a hardware buffer was filled
  now,                 \* the position of a stream after this round
  end,                 \* its position at the end of each hardware buffer
  last,                \* ... of the hardware buffer that was played last
  heard,               \* all the positions playback has reached
  missed               \* clients a round had to leave out

listVars == <<clients, todo, missed>>
stampVars == <<pullTimeStampsAtHW, ullTimeStamp, timTimeStampTime>>
soundVars == <<iNoMixCounter, pWorkBuffer, dart, fed, fedAt>>
readVars == <<reading, reported>>
playVars == <<now, end, last, heard>>
mixerVars ==
  <<listVars, stampVars, soundVars, readVars, playVars, round, visiting>>

Slot == 1..NumMixBuffers

MixerTypeOK ==
  /\ clients \subseteq Client
  /\ pullTimeStampsAtHW \in [Client -> [Slot -> Stamp]]
  /\ ullTimeStamp \in [Client -> Stamp]
  /\ timTimeStampTime \in [Client -> Stamp]
  /\ iNoMixCounter \in 0..(NumMixBuffers + 1)
  /\ pWorkBuffer \subseteq Client
  /\ dart \in [Slot -> SUBSET Client]
  /\ round \in {"idle", "locking", "walking", "writing"}
  /\ todo \subseteq clients
  /\ visiting \in todo \cup {NoClient}
  /\ reading \in [Client -> SUBSET Stamp]
  /\ reported \in [Client -> Stamp \X Stamp]
  /\ fed \subseteq Client
  /\ fedAt \in [Slot -> SUBSET Client]
  /\ now \in [Client -> Stamp]
  /\ end \in [Client -> [Slot -> Stamp]]
  /\ last \in [Client -> Stamp]
  /\ heard \in [Client -> SUBSET Stamp]
  /\ missed \subseteq clients

\* The first slot leaves, the others move up, and x takes the last slot.
Shift(f, x) ==
  [i \in Slot |-> IF i = NumMixBuffers THEN x ELSE f[i + 1]]

Never == [c \in Client |-> Zero]
Silent == [i \in Slot |-> {}]

\* internal_InitializeDaemonLocals() and internal_OpenDART().  The contents
\* of the work buffer are undefined.
MixerInit ==
  /\ clients = {}
  /\ pullTimeStampsAtHW = [c \in Client |-> [i \in Slot |-> Zero]]
  /\ ullTimeStamp = Never /\ timTimeStampTime = Never
  /\ iNoMixCounter = 0
  /\ pWorkBuffer \in SUBSET Client
  /\ dart = Silent /\ fed = {} /\ fedAt = Silent
  /\ round = "idle" /\ todo = {} /\ visiting = NoClient
  /\ reading = [c \in Client |-> {}]
  /\ reported = [c \in Client |-> <<Zero, Zero>>]
  /\ now = Never /\ last = Never
  /\ end = [c \in Client |-> [i \in Slot |-> Zero]]
  /\ heard = [c \in Client |-> {Zero}] /\ missed = {}

-----------------------------------------------------------------------------
(* A mixing round.                                                         *)

\* Mutation: one silent buffer too few.
OneSilenceLess == iNoMixCounter < NumMixBuffers

\* The memset() of the work buffer and its counter, which must let all the
\* hardware buffers become silent before the work is skipped.
MoreSilence == iNoMixCounter <= NumMixBuffers

\* Mutation: the counter never stops.
CountForEver ==
  /\ round = "idle"
  /\ round' = "locking"
  /\ pWorkBuffer' = {} /\ iNoMixCounter' = iNoMixCounter + 1
  /\ fed' = {}
  /\ UNCHANGED <<listVars, stampVars, dart, fedAt, readVars, playVars, visiting>>

\* DART has played the first buffer of its ring, and calls back.
DARTEventFunc ==
  /\ round = "idle"
  /\ round' = "locking"
  /\ IF MoreSilence
     THEN pWorkBuffer' = {} /\ iNoMixCounter' = iNoMixCounter + 1
     ELSE UNCHANGED <<pWorkBuffer, iNoMixCounter>>
  /\ fed' = {}
  /\ last' = [c \in Client |-> end[c][1]]
  /\ heard' = [c \in Client |-> heard[c] \cup {end[c][1]}]
  /\ now' = [c \in Client |-> end[c][NumMixBuffers]]
  /\ UNCHANGED <<listVars, stampVars, dart, fedAt, readVars, end, visiting>>

\* The callback got hmtxUseClientList.
LockList ==
  /\ round = "locking"
  /\ round' = "walking"
  /\ todo' = clients
  /\ UNCHANGED <<clients, missed, stampVars, soundVars, readVars, playVars,
                 visiting>>

\* It did not get it in five seconds: no client is mixed.
LockListTimeout ==
  /\ round = "locking"
  /\ round' = "writing"
  /\ missed' = clients
  /\ UNCHANGED <<clients, todo, stampVars, soundVars, readVars, playVars,
                 visiting>>

\* Mutation: the time stamp of the buffer that is played next is reported.
ReportStampEarly(c) ==
  /\ round = "walking" /\ visiting = NoClient
  /\ c \in todo
  /\ visiting' = c
  /\ ullTimeStamp' = [ullTimeStamp EXCEPT ![c] = pullTimeStampsAtHW[c][2]]
  /\ UNCHANGED <<listVars, pullTimeStampsAtHW, timTimeStampTime, soundVars,
                 readVars, playVars, round>>

\* The callback got hmtxUseClient of c, and the client's time stamp becomes
\* that of the end of the buffer that was played.
ReportStamp(c) ==
  /\ round = "walking" /\ visiting = NoClient
  /\ c \in todo
  /\ visiting' = c
  /\ ullTimeStamp' = [ullTimeStamp EXCEPT ![c] = pullTimeStampsAtHW[c][1]]
  /\ UNCHANGED <<listVars, pullTimeStampsAtHW, timTimeStampTime, soundVars,
                 readVars, playVars, round>>

\* It did not get it in five seconds: the client is left out.
MissClient(c) ==
  /\ round = "walking" /\ visiting = NoClient
  /\ c \in todo
  /\ todo' = todo \ {c}
  /\ missed' = missed \cup {c}
  /\ UNCHANGED <<clients, stampVars, soundVars, readVars, playVars, round,
                 visiting>>

\* The next statement stores the time at which that stamp was reached (and
\* stands for it here), then the delay line moves by one; `stamp' becomes
\* its last element when something was mixed.
StampClient(c, stamp) ==
  /\ visiting = c /\ c # NoClient
  /\ visiting' = NoClient
  /\ todo' = todo \ {c}
  /\ timTimeStampTime' =
       [timTimeStampTime EXCEPT ![c] = pullTimeStampsAtHW[c][1]]
  /\ pullTimeStampsAtHW' =
       [pullTimeStampsAtHW EXCEPT ![c] = Shift(@, stamp)]
  /\ UNCHANGED <<clients, missed, ullTimeStamp, dart, fedAt, readVars, end,
                 last, heard, round>>

\* Mutation: the delay line of a client that has no full buffer stands still.
MixNothingNoShift(c) ==
  /\ visiting = c /\ c # NoClient
  /\ visiting' = NoClient
  /\ todo' = todo \ {c}
  /\ UNCHANGED <<clients, missed, stampVars, soundVars, readVars, playVars,
                 round>>

\* The client has no full buffer.
MixNothing(c) ==
  /\ StampClient(c, pullTimeStampsAtHW[c][NumMixBuffers])
  /\ UNCHANGED <<iNoMixCounter, pWorkBuffer, fed, now>>

\* The client has one: after internal_MixClient() its stream is at `stamp',
\* anywhere when the client has seeked, and its sound is in the work buffer,
\* unless no mixer could be generated for its buffers.
MixClient(c, stamp, sound) ==
  /\ StampClient(c, stamp)
  /\ now' = [now EXCEPT ![c] = stamp]
  /\ pWorkBuffer' = pWorkBuffer \cup sound
  /\ fed' = fed \cup sound
  /\ iNoMixCounter' = 0

\* The end of the list is reached, and its mutex released.
UnlockList ==
  /\ round = "walking" /\ todo = {}
  /\ round' = "writing"
  /\ UNCHANGED <<listVars, stampVars, soundVars, readVars, playVars, visiting>>

\* The work buffer is converted into the hardware buffer, or the hardware
\* buffer stays as it is, and goes to the end of the ring.
WriteBuffer ==
  /\ round = "writing"
  /\ round' = "idle"
  /\ dart' = Shift(dart, IF MoreSilence THEN pWorkBuffer ELSE dart[1])
  /\ fedAt' = Shift(fedAt, fed)
  /\ end' = [c \in Client |-> Shift(end[c], now[c])]
  /\ UNCHANGED <<listVars, stampVars, iNoMixCounter, pWorkBuffer, fed, readVars,
                 now, last, heard, visiting>>

Round ==
  \/ DARTEventFunc \/ LockList \/ LockListTimeout \/ UnlockList \/ WriteBuffer
  \/ \E c \in Client :
       \/ ReportStamp(c) \/ MissClient(c) \/ MixNothing(c)
       \/ \E stamp \in Stamp, sound \in {{}, {c}} : MixClient(c, stamp, sound)

-----------------------------------------------------------------------------
(* The command thread of the daemon, which needs hmtxUseClientList too.    *)

TakeClient(c) ==
  /\ round # "walking"
  /\ c \notin clients
  /\ clients' = clients \cup {c}
  /\ pullTimeStampsAtHW' =
       [pullTimeStampsAtHW EXCEPT ![c] = [i \in Slot |-> Zero]]
  /\ ullTimeStamp' = [ullTimeStamp EXCEPT ![c] = Zero]
  /\ timTimeStampTime' = [timTimeStampTime EXCEPT ![c] = Zero]
  /\ UNCHANGED <<todo, missed, soundVars, readVars, playVars, round, visiting>>

\* The history of the client ends, too: another one may get its address.
ReleaseClient(c) ==
  /\ round # "walking"
  /\ c \in clients
  /\ reading[c] = {}
  /\ clients' = clients \ {c}
  /\ missed' = missed \ {c}
  /\ now' = [now EXCEPT ![c] = Zero]
  /\ end' = [end EXCEPT ![c] = [i \in Slot |-> Zero]]
  /\ last' = [last EXCEPT ![c] = Zero]
  /\ heard' = [heard EXCEPT ![c] = {Zero}]
  /\ reported' = [reported EXCEPT ![c] = <<Zero, Zero>>]
  /\ UNCHANGED <<todo, stampVars, soundVars, reading, round, visiting>>

-----------------------------------------------------------------------------
(* AudMixGetTimestampInfo() of the client process.                         *)

ReadStamp(c) ==
  /\ c \in clients /\ reading[c] = {}
  /\ reading' = [reading EXCEPT ![c] = {ullTimeStamp[c]}]
  /\ UNCHANGED <<listVars, stampVars, soundVars, reported, playVars, round,
                 visiting>>

ReadTime(c) ==
  /\ \E stamp \in reading[c] :
       reported' = [reported EXCEPT ![c] = <<stamp, timTimeStampTime[c]>>]
  /\ reading' = [reading EXCEPT ![c] = {}]
  /\ UNCHANGED <<listVars, stampVars, soundVars, playVars, round, visiting>>

MixerNext ==
  \/ Round
  \/ \E c \in Client :
       TakeClient(c) \/ ReleaseClient(c) \/ ReadStamp(c) \/ ReadTime(c)

MixerSpec == MixerInit /\ [][MixerNext]_mixerVars

-----------------------------------------------------------------------------
(* Properties.                                                             *)

\* What a hardware buffer plays is what was mixed in the round that filled
\* it: skipping the silence and the conversion when nothing is mixed never
\* leaves an old sound in a buffer, and the work buffer never adds one.
SoundOK == \A i \in Slot : dart[i] = fedAt[i]

\* A time stamp never runs ahead of playback, even when rounds had to leave
\* the client out: it is one that playback has reached.  The same is true of
\* what AudMixGetTimestampInfo() returns, the time stamp and the one that the
\* time belongs to, although it reads them without a mutex and a round may end
\* in between.
StampNotAhead ==
  \A c \in clients :
    /\ ullTimeStamp[c] \in heard[c]
    /\ reported[c] \in heard[c] \X heard[c]

\* After a round, the time stamp of a client that no round left out is the
\* position of its stream at the very end of the hardware buffer that was
\* played last, whichever rounds mixed something of the client.
StampExact ==
  \A c \in clients \ missed :
    round \in {"writing", "idle"} => ullTimeStamp[c] = last[c]
=============================================================================
