---------------------------- MODULE AviStreams_proofs --------------------------
(***************************************************************************)
(* Proofs about AviStreams, for every set of streams with index tables of  *)
(* at least three entries.                                                 *)
(***************************************************************************)
EXTENDS AviStreams, TLAPS

\* The thread at the file handle owns it, and it stands where it was set.
MutexOK ==
  \A s \in Stream :
    /\ pc[s] = "read" <=> hmtxUseSource = s
    /\ pc[s] = "read" => filePos = [stream |-> s, index |-> iNextPos[s]]

\* The mp3 decoder is done with the frames up to this one.
Done(s) ==
  IF pc[s] = "decode" THEN iLastIndexTablePosition[s] - 1
                      ELSE iLastIndexTablePosition[s]

ShortSince(s, i) == \A k \in i..Done(s) : FrameSize[s][k] = 0

\* What is known of the flags while the thread is in GetOneFrame.
FlowOK(s) ==
  /\ pc[s] = "drain" => bDecoded[s] /\ ~bResync[s]
  /\ pc[s] \in {"want", "seek", "read", "decode"} => ~bDecoded[s]
  /\ pc[s] \in {"seek", "read"} => iNextPos[s] > iLastIndexTablePosition[s]
  /\ pc[s] = "decode" => ~bDidSeek[s] /\ iLastIndexTablePosition[s] \in Nat
  /\ bDecoded[s] => fed[s] # NULL
  /\ bDidSeek[s] => bResync[s]

\* Without a jump to come, nothing but short frames was left out.
FedOK(s) ==
  /\ fed[s] = NULL <=> first[s] = NULL
  /\ fed[s] # NULL => first[s] <= fed[s]
  /\ ~bDidSeek[s] /\ fed[s] # NULL =>
       fed[s] <= Done(s) /\ ShortSince(s, fed[s] + 1)

\* Unless the clock is to be set, it was set in the run of frames fed.
ClockOK(s) ==
  ~bResync[s] =>
    IF first[s] = NULL THEN llPTS[s] = 0 /\ ShortSince(s, 0)
    ELSE llPTS[s] \in first[s]..fed[s] \/ Follows(s, llPTS[s], first[s])

RunOK == \A s \in Stream : FlowOK(s) /\ FedOK(s) /\ ClockOK(s)

Inv == TypeOK /\ MutexOK /\ OwnFrames /\ RunOK

\* A step of another stream leaves this one's alone.
Same(r) ==
  /\ pc'[r] = pc[r] /\ iNextPos'[r] = iNextPos[r] /\ pBuf'[r] = pBuf[r]
  /\ iLastIndexTablePosition'[r] = iLastIndexTablePosition[r]
  /\ bDidSeek'[r] = bDidSeek[r] /\ bDecoded'[r] = bDecoded[r]
  /\ bResync'[r] = bResync[r] /\ llPTS'[r] = llPTS[r]
  /\ first'[r] = first[r] /\ fed'[r] = fed[r]
-----------------------------------------------------------------------------
(* The initial state satisfies the invariant.                                *)
LEMMA InitInv == Init => Inv
<1> SUFFICES ASSUME Init PROVE Inv
  OBVIOUS
<1>1. TypeOK
  BY TableAssumption DEF Init, TypeOK
<1>2. MutexOK /\ OwnFrames
  BY TableAssumption DEF Init, MutexOK, OwnFrames
<1>3. ASSUME NEW s \in Stream PROVE FlowOK(s) /\ FedOK(s) /\ ClockOK(s)
  <2>1. FlowOK(s)
    BY DEF Init, FlowOK
  <2>2. FedOK(s)
    BY DEF Init, FedOK
  <2>3. ShortSince(s, 0)
    BY DEF Init, ShortSince, Done
  <2> QED BY <2>1, <2>2, <2>3 DEF Init, ClockOK
<1> QED BY <1>1, <1>2, <1>3 DEF Inv, RunOK

(* Every variable keeps its type.                                            *)
LEMMA TypeStep == ASSUME Inv, [Next]_vars PROVE TypeOK'
<1>1. CASE UNCHANGED vars
  BY <1>1 DEF Inv, TypeOK, vars, demuxVars, fileVars, decVars
<1>2. ASSUME NEW s \in Stream, \E d \in {"play", "double"} : SetDirection(s, d)
      PROVE TypeOK'
  BY <1>2 DEF Inv, TypeOK, SetDirection, fileVars, decVars
<1>3. ASSUME NEW s \in Stream, SetPosition(s) PROVE TypeOK'
  BY <1>3, TableAssumption
     DEF Inv, TypeOK, SetPosition, LandOn, Frames, fileVars
<1>4. ASSUME NEW s \in Stream, GetOneFrame(s) PROVE TypeOK'
  BY <1>4 DEF Inv, TypeOK, GetOneFrame, Goto, ResetDecoder, demuxVars, fileVars
<1>5. ASSUME NEW s \in Stream, DecodePrevious(s) PROVE TypeOK'
  BY <1>5 DEF Inv, TypeOK, DecodePrevious, Goto, demuxVars, fileVars
<1>6. ASSUME NEW s \in Stream, ChooseFrame(s) PROVE TypeOK'
  <2> USE DEF Inv, TypeOK, Goto, demuxVars, fileVars, decVars
  <2>1. CASE Goto(s, "idle") /\ UNCHANGED <<iNextPos, llBufSize>>
    BY <1>6, <2>1 DEF ChooseFrame
  <2>2. ASSUME NEW i \in Candidates(s), Goto(s, "seek"), UNCHANGED llBufSize,
               iNextPos' = [iNextPos EXCEPT ![s] = i]
        PROVE  TypeOK'
    <3>1. i \in Frames(s) /\ i \in Nat
      BY TableAssumption DEF Candidates, Frames
    <3> QED BY <1>6, <2>2, <3>1 DEF ChooseFrame
  <2>3. CASE llBufSize[s] < MaxBufSize /\ UNCHANGED <<pc, iNextPos>>
             /\ llBufSize' = [llBufSize EXCEPT ![s] = @ + 1]
    BY <1>6, <2>3, TableAssumption DEF ChooseFrame
  <2> QED BY <1>6, <2>1, <2>2, <2>3 DEF ChooseFrame
<1>7. ASSUME NEW s \in Stream, SeekSource(s) PROVE TypeOK'
  <2>1. iNextPos[s] \in Frames(s) /\ iNextPos[s] \in Nat
    BY <1>7, TableAssumption DEF Inv, TypeOK, SeekSource, Frames
  <2> QED BY <1>7, <2>1
       DEF Inv, TypeOK, SeekSource, Goto, Frame, demuxVars, fileVars, decVars
<1>8. ASSUME NEW s \in Stream, ReadSource(s) PROVE TypeOK'
  <2> USE <1>8 DEF Inv, TypeOK, ReadSource, Goto, ResetDecoder, demuxVars
  <2>1. iNextPos[s] \in 0..Last[s]
    BY DEF Frames
  <2>2. /\ iLastIndexTablePosition' \in [Stream -> Int]
        /\ \A r \in Stream : iLastIndexTablePosition'[r] \in -1..Last[r]
    BY <2>1, TableAssumption
  <2>3. iNextPos' \in [Stream -> Nat \cup {NULL}]
    OBVIOUS
  <2>4. \A r \in Stream :
          pc'[r] \in {"seek", "read"} => iNextPos'[r] \in Frames(r)
    OBVIOUS
  <2>5. hmtxUseSource' \in Stream \cup {NULL} /\ filePos' \in Frame \cup {NULL}
    OBVIOUS
  <2>6. /\ pc' \in [Stream ->
                    {"idle", "drain", "want", "seek", "read", "decode"}]
        /\ pBuf' \in [Stream -> Frame \cup {NULL}]
    OBVIOUS
  <2>7. /\ first' \in [Stream -> Nat \cup {NULL}]
        /\ fed' \in [Stream -> Nat \cup {NULL}]
        /\ bResync' \in [Stream -> BOOLEAN]
        /\ bDidSeek' \in [Stream -> BOOLEAN]
    OBVIOUS
  <2> QED BY <2>2, <2>3, <2>4, <2>5, <2>6, <2>7
<1>9. ASSUME NEW s \in Stream, Decode(s) PROVE TypeOK'
  <2>1. pBuf[s].index \in Nat
    <3>1. pBuf[s] = [stream |-> s, index |-> iLastIndexTablePosition[s]]
      BY <1>9 DEF Inv, OwnFrames, Decode
    <3>2. iLastIndexTablePosition[s] \in Nat
      BY <1>9 DEF Inv, RunOK, FlowOK, Decode
    <3> QED BY <3>1, <3>2
  <2> QED BY <1>9, <2>1 DEF Inv, TypeOK, Decode, Goto, demuxVars, fileVars
<1> QED BY <1>1, <1>2, <1>3, <1>4, <1>5, <1>6, <1>7, <1>8, <1>9
     DEF Next, Advance

(* The file handle is used by the owner of the mutex, and read where it was  *)
(* set to.                                                                   *)
LEMMA MutexStep == ASSUME Inv, [Next]_vars PROVE MutexOK' /\ OwnFrames'
<1> USE DEF Inv, MutexOK, OwnFrames
<1>1. CASE UNCHANGED vars
  BY <1>1 DEF vars, demuxVars, fileVars
<1>2. ASSUME NEW s \in Stream, \E d \in {"play", "double"} : SetDirection(s, d)
      PROVE MutexOK' /\ OwnFrames'
  BY <1>2 DEF SetDirection, fileVars
<1>3. ASSUME NEW s \in Stream, SetPosition(s) PROVE MutexOK' /\ OwnFrames'
  BY <1>3 DEF TypeOK, SetPosition, LandOn, fileVars
<1>4. ASSUME NEW s \in Stream, GetOneFrame(s) PROVE MutexOK' /\ OwnFrames'
  BY <1>4 DEF TypeOK, GetOneFrame, Goto, demuxVars, fileVars
<1>5. ASSUME NEW s \in Stream, DecodePrevious(s) PROVE MutexOK' /\ OwnFrames'
  BY <1>5 DEF TypeOK, DecodePrevious, Goto, demuxVars, fileVars
<1>6. ASSUME NEW s \in Stream, ChooseFrame(s) PROVE MutexOK' /\ OwnFrames'
  BY <1>6 DEF TypeOK, ChooseFrame, Goto, demuxVars, fileVars
<1>7. ASSUME NEW s \in Stream, SeekSource(s) PROVE MutexOK' /\ OwnFrames'
  BY <1>7, TableAssumption DEF TypeOK, SeekSource, Goto, demuxVars, fileVars
<1>8. ASSUME NEW s \in Stream, ReadSource(s) PROVE MutexOK' /\ OwnFrames'
  BY <1>8, TableAssumption DEF TypeOK, ReadSource, Goto, demuxVars
<1>9. ASSUME NEW s \in Stream, Decode(s) PROVE MutexOK' /\ OwnFrames'
  BY <1>9 DEF TypeOK, Decode, Goto, demuxVars, fileVars
<1> QED BY <1>1, <1>2, <1>3, <1>4, <1>5, <1>6, <1>7, <1>8, <1>9
     DEF Next, Advance

(* What is said of a stream is kept by the steps of the others.              *)
LEMMA OtherStreams ==
  ASSUME Inv, NEW s \in Stream, NEW r \in Stream \ {s}, Same(r)
  PROVE  FlowOK(r)' /\ FedOK(r)' /\ ClockOK(r)'
BY DEF Inv, RunOK, FlowOK, FedOK, ClockOK, ShortSince, Done, Same, Follows

(* Every step of a stream keeps what is said of it.                          *)
LEMMA RunStep == ASSUME Inv, [Next]_vars PROVE RunOK'
<1> USE DEF Same
<1>1. CASE UNCHANGED vars
  BY <1>1 DEF Inv, RunOK, FlowOK, FedOK, ClockOK, ShortSince, Done, Follows,
              vars, demuxVars, decVars
<1>o. ASSUME NEW s \in Stream, \A r \in Stream \ {s} : Same(r),
             FlowOK(s)' /\ FedOK(s)' /\ ClockOK(s)'
      PROVE  RunOK'
  <2>1. \A r \in Stream \ {s} : FlowOK(r)' /\ FedOK(r)' /\ ClockOK(r)'
    BY <1>o, OtherStreams
  <2> QED BY <1>o, <2>1 DEF RunOK
<1>2. ASSUME NEW s \in Stream, \E d \in {"play", "double"} : SetDirection(s, d)
      PROVE RunOK'
  BY <1>2 DEF Inv, RunOK, FlowOK, FedOK, ClockOK, ShortSince, Done, Follows,
              SetDirection, decVars
<1>3. ASSUME NEW s \in Stream, SetPosition(s) PROVE RunOK'
  <2> USE <1>3 DEF SetPosition, LandOn, Inv, RunOK, TypeOK
  <2>1. \A r \in Stream \ {s} : Same(r)
    OBVIOUS
  <2>2. FlowOK(s)'
    BY DEF FlowOK
  <2>3. FedOK(s)'
    BY DEF FedOK
  <2>4. ClockOK(s)'
    BY DEF ClockOK
  <2> QED BY <1>o, <2>1, <2>2, <2>3, <2>4
<1>4. ASSUME NEW s \in Stream, GetOneFrame(s) PROVE RunOK'
  <2> USE <1>4 DEF GetOneFrame, Goto, ResetDecoder, demuxVars, Inv, RunOK,
                     TypeOK
  <2>1. \A r \in Stream \ {s} : Same(r)
    OBVIOUS
  <2>2. FlowOK(s)'
    BY DEF FlowOK
  <2>3. Done(s)' = Done(s)
    BY DEF Done
  <2>4. FedOK(s)'
    BY <2>3 DEF FedOK, ShortSince
  <2>5. ClockOK(s)'
    BY <2>3 DEF ClockOK, ShortSince, Follows
  <2> QED BY <1>o, <2>1, <2>2, <2>4, <2>5
<1>5. ASSUME NEW s \in Stream, DecodePrevious(s) PROVE RunOK'
  <2> USE <1>5 DEF DecodePrevious, Goto, demuxVars, Inv, RunOK, TypeOK
  <2>1. \A r \in Stream \ {s} : Same(r)
    OBVIOUS
  <2>2. FlowOK(s)'
    BY DEF FlowOK
  <2>3. Done(s)' = Done(s)
    BY DEF Done
  <2>4. FedOK(s)'
    BY <2>3 DEF FedOK, ShortSince
  <2>5. ClockOK(s)'
    BY <2>3 DEF ClockOK, ShortSince, Follows
  <2> QED BY <1>o, <2>1, <2>2, <2>4, <2>5
<1>6. ASSUME NEW s \in Stream, ChooseFrame(s) PROVE RunOK'
  <2> USE <1>6 DEF ChooseFrame, Goto, demuxVars, decVars, Inv, RunOK, TypeOK
  <2>1. \A r \in Stream \ {s} : Same(r)
    OBVIOUS
  <2>2. FlowOK(s)'
    BY DEF FlowOK, Candidates
  <2>3. Done(s)' = Done(s)
    BY DEF Done
  <2>4. FedOK(s)'
    BY <2>3 DEF FedOK, ShortSince
  <2>5. ClockOK(s)'
    BY <2>3 DEF ClockOK, ShortSince, Follows
  <2> QED BY <1>o, <2>1, <2>2, <2>4, <2>5
<1>7. ASSUME NEW s \in Stream, SeekSource(s) PROVE RunOK'
  <2> USE <1>7 DEF SeekSource, Goto, demuxVars, decVars, Inv, RunOK, TypeOK
  <2>1. \A r \in Stream \ {s} : Same(r)
    OBVIOUS
  <2>2. FlowOK(s)'
    BY DEF FlowOK
  <2>3. Done(s)' = Done(s)
    BY DEF Done
  <2>4. FedOK(s)'
    BY <2>3 DEF FedOK, ShortSince
  <2>5. ClockOK(s)'
    BY <2>3 DEF ClockOK, ShortSince, Follows
  <2> QED BY <1>o, <2>1, <2>2, <2>4, <2>5
<1>8. ASSUME NEW s \in Stream, ReadSource(s) PROVE RunOK'
  <2> USE <1>8 DEF ReadSource, Goto, ResetDecoder, demuxVars, Inv, RunOK,
                     TypeOK
  <2>1. \A r \in Stream \ {s} : Same(r)
    OBVIOUS
  <2>2. iNextPos[s] \in Nat /\ iNextPos[s] > iLastIndexTablePosition[s]
    BY DEF FlowOK, Frames
  <2>3. FlowOK(s)'
    BY <2>2 DEF FlowOK
  <2>4. CASE pc'[s] = "idle"
    <3>1. Done(s)' = Done(s)
      BY <2>4 DEF Done
    <3>2. FedOK(s)' /\ ClockOK(s)'
      BY <2>4, <3>1 DEF FedOK, ClockOK, ShortSince, Follows
    <3> QED BY <1>o, <2>1, <2>3, <3>2
  <2>5. CASE pc'[s] # "idle" /\ Discontinuity(s)
    BY <1>o, <2>1, <2>3, <2>5 DEF FedOK, ClockOK
  <2>6. CASE pc'[s] # "idle" /\ ~Discontinuity(s)
    <3>1. iNextPos[s] = iLastIndexTablePosition[s] + 1 /\ ~bDidSeek[s]
      BY <2>2, <2>6 DEF Discontinuity
    <3>2. UNCHANGED <<first, fed, bResync, llPTS>>
      BY <2>6
    <3>3. \/ Done(s)' = Done(s)
          \/ Done(s)' = Done(s) + 1 /\ FrameSize[s][Done(s) + 1] = 0
      BY <2>6, <3>1 DEF Done
    <3>4. Done(s) \in Int
      BY DEF Done
    <3>5. \A i \in Nat : ShortSince(s, i) => ShortSince(s, i)'
      BY <3>3, <3>4 DEF ShortSince
    <3>6. FedOK(s)'
      BY <3>1, <3>2, <3>3, <3>4, <3>5 DEF FedOK
    <3>7. ClockOK(s)'
      BY <3>2, <3>5 DEF ClockOK, Follows
    <3> QED BY <1>o, <2>1, <2>3, <3>6, <3>7
  <2> QED BY <2>4, <2>5, <2>6
<1>9. ASSUME NEW s \in Stream, Decode(s) PROVE RunOK'
  <2> DEFINE n == iLastIndexTablePosition[s]
  <2> USE <1>9 DEF Decode, Goto, demuxVars, Inv, RunOK, TypeOK
  <2>1. \A r \in Stream \ {s} : Same(r)
    OBVIOUS
  <2>2. n \in Nat /\ pBuf[s].index = n /\ ~bDidSeek[s]
    BY DEF FlowOK, OwnFrames
  <2>3. fed'[s] = n /\ first'[s] = IF first[s] = NULL THEN n ELSE first[s]
    BY <2>2
  <2>4. Done(s) = n - 1 /\ Done(s)' = n
    BY <2>2 DEF Done
  <2>5. FlowOK(s)'
    BY <2>2, <2>3, TableAssumption DEF FlowOK
  <2>6. FedOK(s)'
    BY <2>2, <2>3, <2>4, TableAssumption DEF FedOK, ShortSince
  <2>7. ClockOK(s)'
    <3>1. CASE llPTS'[s] = n
      <4>1. first'[s] \in Nat /\ first'[s] <= n
        BY <2>2, <2>3, <2>4, TableAssumption DEF FedOK
      <4> QED BY <2>2, <2>3, <3>1, <4>1, TableAssumption DEF ClockOK
    <3>2. CASE llPTS'[s] = llPTS[s] /\ ~bResync[s] /\ first[s] = NULL
      <4>1. Follows(s, 0, n)
        BY <2>2, <2>4, <3>2 DEF ClockOK, ShortSince, Follows
      <4> QED BY <2>2, <2>3, <3>2, <4>1, TableAssumption DEF ClockOK, Follows
    <3>3. CASE llPTS'[s] = llPTS[s] /\ ~bResync[s] /\ first[s] # NULL
      BY <2>2, <2>3, <2>4, <3>3, TableAssumption DEF ClockOK, FedOK, Follows
    <3>4. CASE bResync'[s]
      BY <3>4 DEF ClockOK
    <3> QED BY <3>1, <3>2, <3>3, <3>4, <2>2
  <2> QED BY <1>o, <2>1, <2>5, <2>6, <2>7
<1> QED BY <1>1, <1>2, <1>3, <1>4, <1>5, <1>6, <1>7, <1>8, <1>9
     DEF Next, Advance
-----------------------------------------------------------------------------
THEOREM Invariance == Spec => []Inv
<1>1. Inv /\ [Next]_vars => Inv'
  BY TypeStep, MutexStep, RunStep DEF Inv
<1> QED BY InitInv, <1>1, PTL DEF Spec

(* Each variable keeps its type.                                             *)
THEOREM TypeCorrect == Spec => []TypeOK
BY Invariance, PTL DEF Inv

(* A thread gets from the shared file handle the frame it chose: seek and    *)
(* read of avidemux_GetOneFrame() are not torn apart by another stream.      *)
THEOREM OwnFramesCorrect == Spec => []OwnFrames
BY Invariance, PTL DEF Inv

(* Between two frames that do not follow each other the mp3 decoder is       *)
(* reset, however seeks, changes of speed and failed fetches come together.  *)
THEOREM DecoderContinuousCorrect == Spec => DecoderContinuous
<1> DEFINE A(s) == pc[s] = "decode" /\ pc'[s] # "decode" /\ fed[s] # NULL =>
                     fed[s] < fed'[s] /\ Follows(s, fed[s], fed'[s])
<1>1. ASSUME Inv, [Next]_vars, NEW s \in Stream PROVE A(s)
  <2> SUFFICES ASSUME pc[s] = "decode", pc'[s] # "decode", fed[s] # NULL
               PROVE  fed[s] < fed'[s] /\ Follows(s, fed[s], fed'[s])
    OBVIOUS
  <2> DEFINE n == iLastIndexTablePosition[s]
  <2>1. Decode(s)
    BY <1>1 DEF Next, Advance, vars, SetDirection, SetPosition, GetOneFrame,
                DecodePrevious, ChooseFrame, SeekSource, ReadSource, Decode,
                Goto, Inv, TypeOK
  <2>2. n \in Nat /\ pBuf[s].index = n /\ ~bDidSeek[s]
    <3>1. pBuf[s] = [stream |-> s, index |-> n]
      BY <1>1 DEF Inv, OwnFrames
    <3>2. n \in Nat /\ ~bDidSeek[s]
      BY <1>1 DEF Inv, RunOK, FlowOK
    <3> QED BY <3>1, <3>2
  <2>3. fed'[s] = n
    BY <1>1, <2>1, <2>2 DEF Decode, Inv, TypeOK
  <2>4. Done(s) = n - 1
    BY DEF Done
  <2>5. fed[s] <= n - 1 /\ ShortSince(s, fed[s] + 1)
    BY <1>1, <2>2, <2>4 DEF Inv, RunOK, FedOK
  <2>6. fed[s] \in Nat
    BY <1>1 DEF Inv, TypeOK
  <2> QED BY <2>2, <2>3, <2>4, <2>5, <2>6 DEF ShortSince, Follows
<1>2. Inv /\ [Next]_vars => [\A s \in Stream : A(s)]_vars
  BY <1>1
<1> QED BY Invariance, <1>2, PTL DEF Spec, DecoderContinuous

(* The time stamps of the data handed out are counted from a frame in the    *)
(* run of frames they belong to, never from one before a jump.               *)
THEOREM ClockOfRunCorrect == Spec => ClockOfRun
<1> DEFINE A(s) == pc[s] \in {"drain", "decode"} /\ pc'[s] = "idle"
                     /\ bDecoded'[s] =>
                     \/ llPTS'[s] \in first'[s]..fed'[s]
                     \/ Follows(s, llPTS'[s], first'[s])
<1>1. ASSUME Inv, [Next]_vars, NEW s \in Stream PROVE A(s)
  <2> SUFFICES ASSUME pc[s] \in {"drain", "decode"}, pc'[s] = "idle",
                      bDecoded'[s]
               PROVE  \/ llPTS'[s] \in first'[s]..fed'[s]
                      \/ Follows(s, llPTS'[s], first'[s])
    OBVIOUS
  <2>1. DecodePrevious(s) \/ Decode(s)
    BY <1>1 DEF Next, Advance, vars, SetDirection, SetPosition, GetOneFrame,
                DecodePrevious, ChooseFrame, SeekSource, ReadSource, Decode,
                Goto, Inv, TypeOK
  <2>2. ~bResync'[s]
    BY <1>1, <2>1 DEF DecodePrevious, Decode, Inv, TypeOK, RunOK, FlowOK
  <2>3. FlowOK(s)' /\ FedOK(s)' /\ ClockOK(s)'
    BY <1>1, RunStep DEF RunOK
  <2> QED BY <2>2, <2>3 DEF FlowOK, FedOK, ClockOK, Follows
<1>2. Inv /\ [Next]_vars => [\A s \in Stream : A(s)]_vars
  BY <1>1
<1> QED BY Invariance, <1>2, PTL DEF Spec, ClockOfRun
=============================================================================
