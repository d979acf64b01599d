------------------------------- MODULE AviStreams ------------------------------
(***************************************************************************)
(* The demultiplexer MPAVIDem, which reads all streams of a file through   *)
(* one file handle, with the decoder MPMPADec above each of its streams.   *)
(* The thread of each stream's terminator fetches decoded data; the        *)
(* application seeks and changes the speed between two fetches, since the  *)
(* terminator owns hmtxUseRSNode while it calls the decoder.               *)
(*                                                                         *)
(* A frame is an entry of the index table, by its number.  A seek lands on *)
(* some entry: how positions are compared is not modelled.  The libmpg     *)
(* decoder and the media handler are known by how they are called: each of *)
(* their results is a choice.  Reverse playback is not reached, since the  *)
(* decoder does not offer it.                                              *)
(***************************************************************************)
EXTENDS Integers

CONSTANTS
  Stream,
  Last,          \* number of a stream's last index entry
  KeyFrames,     \* a stream's entries flagged as keyframes
  FrameSize,     \* ulFrameSize of an entry: 0 is less than MPADEC_MIN_BUFFER_
                 \* DATA, n fits when the buffer was grown n - 1 times
  MaxBufSize,    \* n - 1 is how often it can be grown at most
  NULL

Frames(s) == 0..Last[s]

\* A stream of one or two frames lets a seek use iMiddlePos without a value.
ASSUME TableAssumption ==
  /\ \A s \in Stream : Last[s] \in Nat /\ Last[s] >= 2
  /\ \A s \in Stream : KeyFrames[s] \subseteq Frames(s) /\ 0 \in KeyFrames[s]
  /\ \A s \in Stream : \A i \in Frames(s) : FrameSize[s][i] \in Nat
  /\ MaxBufSize \in Nat \ {0}
  /\ NULL \notin Stream \cup Nat

VARIABLES
  iDirection,               \* of demultiplexer and decoder: "play" or "double"
  iLastIndexTablePosition,
  bDidSeek,                 \* of the demultiplexer
  hmtxUseSource,            \* the stream whose thread owns the file handle
  filePos,                  \* the frame the file handle was set to, NULL when
                            \* it has been used since
  pc,                       \* where the stream's thread is
  iNextPos,                 \* the entry avidemux_GetOneFrame() has chosen
  bDecoded,                 \* decrc is MP3_OK: there may be more data
  bResync,                  \* bDidSeek of the decoder
  pBuf,                     \* the frame in the decoder's input buffer, NULL
                            \* when it has been used
  llBufSize,
  llPTS,                    \* the frame the decoder's clock was last set by
  first, fed                \* history: first and last frame the mp3 decoder
                            \* was fed since its reset, NULL for none

demuxVars == <<iDirection, iLastIndexTablePosition, bDidSeek>>
fileVars == <<hmtxUseSource, filePos>>
decVars == <<bDecoded, bResync, llPTS, first, fed>>
vars == <<demuxVars, fileVars, pc, iNextPos, pBuf, llBufSize, decVars>>

Frame == [stream : Stream, index : Nat]

TypeOK ==
  /\ iDirection \in [Stream -> {"play", "double"}]
  /\ iLastIndexTablePosition \in [Stream -> Int]
  /\ \A s \in Stream : iLastIndexTablePosition[s] \in -1..Last[s]
  /\ bDidSeek \in [Stream -> BOOLEAN]
  /\ hmtxUseSource \in Stream \cup {NULL}
  /\ filePos \in Frame \cup {NULL}
  /\ pc \in [Stream -> {"idle", "drain", "want", "seek", "read", "decode"}]
  /\ iNextPos \in [Stream -> Nat \cup {NULL}]
  /\ \A s \in Stream :
       pc[s] \in {"seek", "read"} => iNextPos[s] \in Frames(s)
  /\ bDecoded \in [Stream -> BOOLEAN]
  /\ bResync \in [Stream -> BOOLEAN]
  /\ pBuf \in [Stream -> Frame \cup {NULL}]
  /\ llBufSize \in [Stream -> 1..MaxBufSize]
  /\ llPTS \in [Stream -> Nat]
  /\ first \in [Stream -> Nat \cup {NULL}]
  /\ fed \in [Stream -> Nat \cup {NULL}]

Init ==
  /\ iDirection = [s \in Stream |-> "play"]
  /\ iLastIndexTablePosition = [s \in Stream |-> -1]
  /\ bDidSeek = [s \in Stream |-> FALSE]
  /\ hmtxUseSource = NULL
  /\ filePos = NULL
  /\ pc = [s \in Stream |-> "idle"]
  /\ iNextPos = [s \in Stream |-> NULL]
  /\ bDecoded = [s \in Stream |-> FALSE]
  /\ bResync = [s \in Stream |-> FALSE]
  /\ pBuf = [s \in Stream |-> NULL]
  /\ llBufSize = [s \in Stream |-> 1]
  /\ llPTS = [s \in Stream |-> 0]
  /\ first = [s \in Stream |-> NULL]
  /\ fed = [s \in Stream |-> NULL]
-----------------------------------------------------------------------------
(* The demultiplexer.                                                        *)

\* The entries that are played at the current speed, after the last one.
Candidates(s) ==
  {i \in Frames(s) : /\ i > iLastIndexTablePosition[s]
                     /\ iDirection[s] = "double" => i \in KeyFrames[s]}

\* The next entry to be read, when there is one left.
IsNext(s, i) == i \in Candidates(s) /\ \A j \in Candidates(s) : i <= j

\* Mutation: only seeks are marked, not the frames left out at double speed.
DiscontinuityOfSeek(s) == bDidSeek[s]

\* The mark FillDataDescFields() is given.
Discontinuity(s) ==
  iNextPos[s] - iLastIndexTablePosition[s] > 1 \/ bDidSeek[s]

\* Playback goes on with entry i: any, as the keyframe is not looked for.
LandOn(s, i) ==
  /\ iLastIndexTablePosition' = [iLastIndexTablePosition EXCEPT ![s] = i - 1]
  /\ bDidSeek' = [bDidSeek EXCEPT ![s] = TRUE]
-----------------------------------------------------------------------------
(* The application, through the terminator and the decoder.                  *)

SetDirection(s, d) ==
  /\ pc[s] = "idle"
  /\ iDirection' = [iDirection EXCEPT ![s] = d]
  /\ UNCHANGED <<iLastIndexTablePosition, bDidSeek, fileVars, pc, iNextPos,
                 pBuf, llBufSize, decVars>>

SetPosition(s) ==
  /\ pc[s] = "idle"
  /\ \E i \in Frames(s) : LandOn(s, i)
  /\ bResync' = [bResync EXCEPT ![s] = TRUE]
  /\ UNCHANGED <<iDirection, fileVars, pc, iNextPos, bDecoded, pBuf, llBufSize,
                 llPTS, first, fed>>
-----------------------------------------------------------------------------
(* The decoder's GetOneFrame.                                                *)

Goto(s, there) == pc' = [pc EXCEPT ![s] = there]

\* ExitMP3() and InitMP3(): what the mp3 decoder was fed is forgotten.
ResetDecoder(s) ==
  /\ first' = [first EXCEPT ![s] = NULL]
  /\ fed' = [fed EXCEPT ![s] = NULL]

GetOneFrame(s) ==
  /\ pc[s] = "idle"
  /\ \/ /\ bResync[s]
        /\ ResetDecoder(s)
        /\ bDecoded' = [bDecoded EXCEPT ![s] = FALSE]
     \/ ~bResync[s] /\ UNCHANGED <<first, fed, bDecoded>>
  /\ Goto(s, IF bDecoded'[s] THEN "drain" ELSE "want")
  /\ UNCHANGED <<demuxVars, fileVars, iNextPos, bResync, pBuf, llBufSize,
                 llPTS>>

\* Data left of what the mp3 decoder was fed before is returned first.
DecodePrevious(s) ==
  /\ pc[s] = "drain"
  /\ \/ Goto(s, "idle") /\ UNCHANGED bDecoded
     \/ Goto(s, "want") /\ bDecoded' = [bDecoded EXCEPT ![s] = FALSE]
  /\ UNCHANGED <<demuxVars, fileVars, iNextPos, bResync, pBuf, llBufSize,
                 llPTS, first, fed>>

\* avidemux_GetOneFrame() until it asks for the file.  At MMIO_ERROR_BUFFER_
\* TOO_SMALL the decoder grows its buffer, when it can, and asks again.
ChooseFrame(s) ==
  /\ pc[s] = "want"
  /\ \/ /\ Candidates(s) = {}
        /\ Goto(s, "idle")
        /\ UNCHANGED <<iNextPos, llBufSize>>
     \/ \E i \in Candidates(s) :
          /\ IsNext(s, i)
          /\ FrameSize[s][i] <= llBufSize[s]
          /\ iNextPos' = [iNextPos EXCEPT ![s] = i]
          /\ Goto(s, "seek")
          /\ UNCHANGED llBufSize
     \/ \E i \in Candidates(s) :
          /\ IsNext(s, i)
          /\ FrameSize[s][i] > llBufSize[s]
          /\ \/ /\ llBufSize[s] < MaxBufSize
                /\ llBufSize' = [llBufSize EXCEPT ![s] = @ + 1]
                /\ UNCHANGED pc
             \/ Goto(s, "idle") /\ UNCHANGED llBufSize
          /\ UNCHANGED iNextPos
  /\ UNCHANGED <<demuxVars, fileVars, pBuf, decVars>>

\* Mutation: the mutex is not asked for.
SeekSourceAtOnce(s) ==
  /\ pc[s] = "seek"
  /\ filePos' = [stream |-> s, index |-> iNextPos[s]]
  /\ Goto(s, "read")
  /\ UNCHANGED <<demuxVars, hmtxUseSource, iNextPos, pBuf, llBufSize, decVars>>

SeekSource(s) ==
  /\ pc[s] = "seek"
  /\ hmtxUseSource = NULL
  /\ \/ /\ hmtxUseSource' = s
        /\ filePos' = [stream |-> s, index |-> iNextPos[s]]
        /\ Goto(s, "read")
        /\ UNCHANGED iNextPos
     \/ /\ Goto(s, "idle")
        /\ iNextPos' = [iNextPos EXCEPT ![s] = NULL]
        /\ UNCHANGED fileVars
  /\ UNCHANGED <<demuxVars, pBuf, llBufSize, decVars>>

\* Mutation: the mutex is not released when the frame cannot be read.
ReadSourceKeeping(s) ==
  /\ pc[s] = "read"
  /\ filePos' = NULL
  /\ iNextPos' = [iNextPos EXCEPT ![s] = NULL]
  /\ \/ /\ Goto(s, "idle")
        /\ UNCHANGED <<demuxVars, hmtxUseSource, pBuf, bResync, first, fed>>
     \/ /\ hmtxUseSource' = NULL
        /\ pBuf' = [pBuf EXCEPT ![s] = filePos]
        /\ iLastIndexTablePosition' =
             [iLastIndexTablePosition EXCEPT ![s] = iNextPos[s]]
        /\ bDidSeek' = [bDidSeek EXCEPT ![s] = FALSE]
        /\ \/ /\ Discontinuity(s)
              /\ ResetDecoder(s)
              /\ bResync' = [bResync EXCEPT ![s] = TRUE]
           \/ ~Discontinuity(s) /\ UNCHANGED <<bResync, first, fed>>
        /\ Goto(s, IF FrameSize[s][iNextPos[s]] = 0 THEN "want" ELSE "decode")
        /\ UNCHANGED iDirection
  /\ UNCHANGED <<llBufSize, bDecoded, llPTS>>

\* The frame is read and the table position moved.  The decoder then resets
\* itself at a discontinuity, and reads on when the frame is too short.
ReadSource(s) ==
  /\ pc[s] = "read"
  /\ hmtxUseSource' = NULL
  /\ filePos' = NULL
  /\ iNextPos' = [iNextPos EXCEPT ![s] = NULL]
  /\ \/ /\ Goto(s, "idle")
        /\ UNCHANGED <<demuxVars, pBuf, bResync, first, fed>>
     \/ /\ pBuf' = [pBuf EXCEPT ![s] = filePos]
        /\ iLastIndexTablePosition' =
             [iLastIndexTablePosition EXCEPT ![s] = iNextPos[s]]
        /\ bDidSeek' = [bDidSeek EXCEPT ![s] = FALSE]
        /\ \/ /\ Discontinuity(s)
              /\ ResetDecoder(s)
              /\ bResync' = [bResync EXCEPT ![s] = TRUE]
           \/ ~Discontinuity(s) /\ UNCHANGED <<bResync, first, fed>>
        /\ Goto(s, IF FrameSize[s][iNextPos[s]] = 0 THEN "want" ELSE "decode")
        /\ UNCHANGED iDirection
  /\ UNCHANGED <<llBufSize, bDecoded, llPTS>>

\* Mutation: the clock is not set when the first frame gave no data.
DecodeOnce(s) ==
  /\ pc[s] = "decode"
  /\ fed' = [fed EXCEPT ![s] = pBuf[s].index]
  /\ first' = [first EXCEPT ![s] = IF @ = NULL THEN pBuf[s].index ELSE @]
  /\ \E rc \in {"MP3_OK", "MP3_NEED_MORE", "MP3_ERR"} :
       /\ bDecoded' = [bDecoded EXCEPT ![s] = rc = "MP3_OK"]
       /\ Goto(s, IF rc = "MP3_NEED_MORE" THEN "want" ELSE "idle")
       /\ llPTS' = IF rc = "MP3_OK" /\ bResync[s]
                     THEN [llPTS EXCEPT ![s] = pBuf[s].index] ELSE llPTS
       /\ bResync' = [bResync EXCEPT ![s] = FALSE]
  /\ pBuf' = [pBuf EXCEPT ![s] = NULL]
  /\ UNCHANGED <<demuxVars, fileVars, iNextPos, llBufSize>>

\* The first data decoded after a reset set the clock.
Decode(s) ==
  /\ pc[s] = "decode"
  /\ fed' = [fed EXCEPT ![s] = pBuf[s].index]
  /\ first' = [first EXCEPT ![s] = IF @ = NULL THEN pBuf[s].index ELSE @]
  /\ \E rc \in {"MP3_OK", "MP3_NEED_MORE", "MP3_ERR"} :
       /\ bDecoded' = [bDecoded EXCEPT ![s] = rc = "MP3_OK"]
       /\ Goto(s, IF rc = "MP3_NEED_MORE" THEN "want" ELSE "idle")
       /\ llPTS' = IF rc = "MP3_OK" /\ bResync[s]
                     THEN [llPTS EXCEPT ![s] = pBuf[s].index] ELSE llPTS
       /\ bResync' = [bResync EXCEPT ![s] = @ /\ rc # "MP3_OK"]
  /\ pBuf' = [pBuf EXCEPT ![s] = NULL]
  /\ UNCHANGED <<demuxVars, fileVars, iNextPos, llBufSize>>
-----------------------------------------------------------------------------
Advance(s) == DecodePrevious(s) \/ ChooseFrame(s) \/ SeekSource(s)
                \/ ReadSource(s) \/ Decode(s)

Next ==
  \E s \in Stream :
    \/ \E d \in {"play", "double"} : SetDirection(s, d)
    \/ SetPosition(s)
    \/ GetOneFrame(s)
    \/ Advance(s)

Spec == Init /\ [][Next]_vars

(* The threads run on, and OS/2 grants the mutex in the order of requests.   *)
FairSpec ==
  Spec /\ \A s \in Stream : WF_vars(Advance(s)) /\ SF_vars(SeekSource(s))
-----------------------------------------------------------------------------
(* What a thread got from the file handle it shares with the other streams'  *)
(* threads is the frame of its own stream that it chose.                     *)
OwnFrames ==
  \A s \in Stream :
    pc[s] = "decode" =>
      pBuf[s] = [stream |-> s, index |-> iLastIndexTablePosition[s]]

\* No frame of stream s is missing between frames i and j, but short ones.
Follows(s, i, j) == i <= j /\ \A k \in i + 1..j - 1 : FrameSize[s][k] = 0

(* The mp3 decoder never goes on with a frame that does not follow the one   *)
(* it was fed before: whatever jumps there were (seeks, double speed, with   *)
(* failed fetches on the way), it was reset between the two.                 *)
DecoderContinuous ==
  [][\A s \in Stream :
       pc[s] = "decode" /\ pc'[s] # "decode" /\ fed[s] # NULL =>
         fed[s] < fed'[s] /\ Follows(s, fed[s], fed'[s])]_vars

(* When data are handed out, the decoder's clock was set at or since the     *)
(* last jump: by a frame the mp3 decoder was fed since its reset, or by one  *)
(* before from which playback has only gone on.                              *)
ClockOfRun ==
  [][\A s \in Stream :
       pc[s] \in {"drain", "decode"} /\ pc'[s] = "idle"
         /\ bDecoded'[s] =>
       \/ llPTS'[s] \in first'[s]..fed'[s]
       \/ Follows(s, llPTS'[s], first'[s])]_vars

(* A fetch comes to an end, with data or without: the mutex is released on   *)
(* every path, and neither the growing of the buffer nor the search for      *)
(* decodable frames goes on for ever.                                        *)
FetchReturns == \A s \in Stream : pc[s] # "idle" ~> pc[s] = "idle"
=============================================================================
