---------------------------- MODULE Outputs_proofs ----------------------------
(***************************************************************************)
(* Proofs about Outputs, for every number of buffers, every choice of      *)
(* plugins and whatever the decoder answers: where each buffer is, that    *)
(* nothing outlives the terminator, and that MPAOUT's worker handles its   *)
(* AudioMixer client as AudMixPool demands.                                *)
(***************************************************************************)
EXTENDS Outputs, TLAPS

USE KindAssumption, BufferAssumption, SizeAssumption

-----------------------------------------------------------------------------
(* Types, and where the threads are.                                       *)

\* The buffers the worker remembers are buffers while it uses them.
HandOK ==
  /\ worker \in {"decode", "decoding", "small", "more", "getmore", "unused",
                 "noerror", "putback"} => sent \in Buffer
  /\ worker \in {"unused", "noerror", "frame", "show"} => got \in Buffer

\* What the state of one thread says of the others, of the mutex and of the
\* buffers the decoder has.
ThreadsOK ==
  /\ linked <=> app \notin {"create", "ready", "unlinked"}
  /\ worker = "none" <=> app \in {"create", "ready"}
  /\ app = "unlinked" => worker = "ended" /\ second \in {"none", "ended"}
  /\ worker = "init" => iWorkerState = "starting"
  /\ worker \in {"none", "init"} => second = "none"
  /\ kind # "vout" => painting = NULL /\ iWorkerState # "failed"
  /\ kind = "nullout" => second = "none"
  /\ kind = "vout" /\ worker \in {"release", "free", "ended"} =>
       second \in {"none", "ended"}
  /\ kind = "aout" /\ app \in {"starting", "failWorker", "failReporter"} =>
       second = "none"
  /\ painting # NULL => second \in {"running", "stopping"}
  /\ iWorkerState = "failed" => worker = "ended"
  /\ worker = "show" => kind = "vout"
  /\ worker = "free" => kind # "aout"
  /\ app = "failReporter" => kind = "aout"
  /\ app = "failWorker" => iWorkerState = "failed"
  /\ hmtxUseRSNode = "worker" <=> worker = "decoding"
  /\ hmtxUseRSNode = "app" <=> app = "direction"
  /\ worker \in {"none", "init", "free", "ended"} => kept = {}

TypeInv == TypeOK /\ HandOK /\ ThreadsOK

LEMMA InitType == Init => TypeInv
<1> SUFFICES ASSUME Init PROVE TypeInv
  OBVIOUS
<1>1. <<>> \in Seq(Buffer) /\ size \in [Buffer -> 0..MaxSize]
  BY DEF Init
<1>2. TypeOK
  BY <1>1 DEF Init, TypeOK, App, Worker
<1>3. HandOK /\ ThreadsOK
  BY DEF Init, HandOK, ThreadsOK
<1> QED
  BY <1>2, <1>3 DEF TypeInv

LEMMA StepType == TypeInv /\ [Next]_vars => TypeInv'
<1> SUFFICES ASSUME TypeInv, [Next]_vars PROVE TypeInv'
  OBVIOUS
<1> USE DEF TypeInv, TypeOK, HandOK, ThreadsOK, App, Worker, Pool, Image,
   threadVars, bufferVars,
        AppVars, otherVars, At, AppAt, EndTurn
<1>1. CASE CreateClientBuffer
  BY <1>1 DEF CreateClientBuffer
<1>2. CASE Link
  BY <1>2 DEF Link
<1>3. CASE LinkWorker
  <2>1. CASE app' = "linked"
    BY <1>3, <2>1 DEF LinkWorker
  <2>2. CASE app' = "failReporter"
    BY <1>3, <2>2 DEF LinkWorker
  <2> QED
    BY <1>3, <2>1, <2>2 DEF LinkWorker
<1>4. CASE LinkWorkerFailed
  BY <1>4 DEF LinkWorkerFailed
<1>5. CASE DestroyNode
  BY <1>5 DEF DestroyNode
<1>6. CASE Unlink
  BY <1>6 DEF Unlink
<1>7. CASE UnlinkWait
  BY <1>7 DEF UnlinkWait
<1>8. CASE RequestDirection
  BY <1>8 DEF RequestDirection
<1>9. CASE SetDirection
  BY <1>9 DEF SetDirection
<1>10. CASE EndSecond
  BY <1>10 DEF EndSecond
<1>11. CASE BeginPaint
  BY <1>11 DEF BeginPaint
<1>12. CASE EndPaint
  BY <1>12 DEF EndPaint
<1>13. CASE StartWorker
  BY <1>13 DEF StartWorker
<1>14. CASE TakeTurn
  BY <1>14 DEF TakeTurn
<1>15. CASE Leave
  BY <1>15 DEF Leave
<1>16. CASE GetEmptyBuffer
  BY <1>16 DEF GetEmptyBuffer, Use
<1>17. CASE MissEmptyBuffer
  BY <1>17 DEF MissEmptyBuffer
<1>18. CASE GetSlot
  BY <1>18 DEF GetSlot, Use, FreeSlot
<1>19. CASE FailSlot
  BY <1>19 DEF FailSlot, FreeSlot
<1>20. CASE RequestRSNode
  BY <1>20 DEF RequestRSNode
<1>21. CASE DecodeFrame
  BY <1>21 DEF DecodeFrame, Answer, HasMemory
<1>22. CASE DecodeKept
  BY <1>22 DEF DecodeKept, Answer, HasMemory
<1>23. CASE KeepBuffer
  BY <1>23 DEF KeepBuffer, Answer, HasMemory
<1>24. CASE DecodeTooSmall
  BY <1>24 DEF DecodeTooSmall, Answer, HasMemory
<1>25. CASE DecodeError
  BY <1>25 DEF DecodeError, Answer, HasMemory
<1>26. CASE ResizeBuffer
  BY <1>26 DEF ResizeBuffer, CanGrow
<1>27. CASE FailResizeBuffer
  BY <1>27 DEF FailResizeBuffer
<1>28. CASE ReallocSlot
  BY <1>28 DEF ReallocSlot, CanGrow
<1>29. CASE FailReallocSlot
  BY <1>29 DEF FailReallocSlot, FreeSent
<1>30. CASE AddNewBuffer
  BY <1>30 DEF AddNewBuffer
<1>31. CASE GetNewBuffer
  BY <1>31 DEF GetNewBuffer, Use
<1>32. CASE GetMoreSlot
  BY <1>32 DEF GetMoreSlot, Use, FreeSlot
<1>33. CASE FailMore
  BY <1>33 DEF FailMore
<1>34. CASE DestroyUnused
  BY <1>34 DEF DestroyUnused
<1>35. CASE MissDestroyUnused
  BY <1>35 DEF MissDestroyUnused
<1>36. CASE GotSlot
  BY <1>36 DEF GotSlot
<1>37. CASE PutBack
  BY <1>37 DEF PutBack, FreeSent
<1>38. CASE MissPutBack
  BY <1>38 DEF MissPutBack
<1>39. CASE ReportError
  BY <1>39 DEF ReportError
<1>40. CASE PutFullBuffer
  BY <1>40 DEF PutFullBuffer
<1>41. CASE PutEmptyBuffer
  BY <1>41 DEF PutEmptyBuffer
<1>42. CASE MissPutEmptyBuffer
  BY <1>42 DEF MissPutEmptyBuffer
<1>43. CASE TakeBack
  <2>1. shown' \in Seq(Buffer) /\ bInUse' \subseteq Buffer
    <3>1. bInUse \subseteq Buffer
      OBVIOUS
    <3> HIDE DEF TypeInv, Image
    <3>2. bInUse' \subseteq Buffer
      BY <1>43, <3>1 DEF TakeBack
    <3>3. shown' = <<>>
      BY <1>43 DEF TakeBack
    <3> QED
      BY <3>2, <3>3
  <2> USE <1>43 DEF TakeBack
  <2>2. TypeOK'
    BY <2>1
  <2>3. HandOK'
    OBVIOUS
  <2>4. ThreadsOK'
    OBVIOUS
  <2> QED
    BY <2>2, <2>3, <2>4
<1>44. CASE Show
  BY <1>44 DEF Show
<1>45. CASE ShowNothing
  BY <1>45 DEF ShowNothing
<1>46. CASE PMThreadEnded
  BY <1>46 DEF PMThreadEnded
<1>47. CASE ReleaseForeignBuffers
  BY <1>47 DEF ReleaseForeignBuffers
<1>48. CASE FreePool
  BY <1>48 DEF FreePool
<1>49. CASE MoveFullBufferToEmpty
  <2>1. shown' \in Seq(Buffer) /\ bInUse' \subseteq Buffer
    <3>1. bInUse \subseteq Buffer /\ shown \in Seq(Buffer)
      OBVIOUS
    <3> HIDE DEF TypeInv, Image
    <3>2. bInUse' \subseteq Buffer
      BY <1>49, <3>1 DEF MoveFullBufferToEmpty
    <3>3. shown' = Tail(shown) /\ shown # <<>>
      BY <1>49 DEF MoveFullBufferToEmpty
    <3> QED
      BY <3>1, <3>2, <3>3
  <2> USE <1>49 DEF MoveFullBufferToEmpty
  <2>2. TypeOK'
    BY <2>1
  <2>3. HandOK'
    OBVIOUS
  <2>4. ThreadsOK'
    OBVIOUS
  <2> QED
    BY <2>2, <2>3, <2>4
<1>50. CASE UNCHANGED vars
  BY <1>50 DEF vars
<1> QED
  BY <1>1, <1>2, <1>3, <1>4, <1>5, <1>6, <1>7, <1>8, <1>9, <1>10, <1>11,
     <1>12, <1>13, <1>14, <1>15, <1>16, <1>17, <1>18, <1>19, <1>20, <1>21,
     <1>22, <1>23, <1>24, <1>25, <1>26, <1>27, <1>28, <1>29, <1>30, <1>31,
     <1>32, <1>33, <1>34, <1>35, <1>36, <1>37, <1>38, <1>39, <1>40, <1>41,
     <1>42, <1>43, <1>44, <1>45, <1>46, <1>47, <1>48, <1>49, <1>50
     DEF Next, Application, SecondThread, Decoder, WorkerThread

-----------------------------------------------------------------------------
(* Where the buffers are.                                                  *)

\* No buffer is played twice.
Once == \A j, k \in DOMAIN shown : shown[j] = shown[k] => j = k

\* BuffersAccounted without it, in the parts a step disturbs.
Places ==
  worker \notin {"free", "ended"} =>
    /\ Sending \cap kept = {} /\ (Sending \cup kept) \cap Image = {}
    /\ Got \cap (Sending \cup kept \cup Image) = {}
    /\ lost \cap (Sending \cup Got \cup kept \cup Image) = {}
    /\ bInUse = Sending \cup kept \cup Image \cup lost
                \cup (IF Pool /\ worker \in {"frame", "show"} THEN {} ELSE Got)
    /\ Got \cup kept \cup Image \subseteq allocated
    /\ painting # NULL => painting \in Image

\* Only MPAOUT loses buffers; what it has in use has memory, also when the
\* worker has ended and the AudioMixer goes on playing.
ClientOK ==
  /\ Pool => lost = {}
  /\ ~Pool => bInUse \subseteq allocated /\ Image \subseteq bInUse
  /\ worker = "show" => Image = {}

AccInv == TypeInv /\ Once /\ Places /\ ClientOK

\* The image is that of the frames shown.
LEMMA ImageKept == shown' = shown => Image' = Image /\ (Once => Once')
  BY DEF Image, Once

\* One more frame is to be played, which is not there yet.
LEMMA ImageAppended ==
  ASSUME NEW s \in Seq(Buffer), NEW b \in Buffer
  PROVE  LET t == Append(s, b) IN
    /\ {t[k] : k \in DOMAIN t} = {s[k] : k \in DOMAIN s} \cup {b}
    /\ (\A j, k \in DOMAIN s : s[j] = s[k] => j = k)
       /\ b \notin {s[k] : k \in DOMAIN s}
         => \A j, k \in DOMAIN t : t[j] = t[k] => j = k
<1> DEFINE t == Append(s, b)
<1>1. /\ DOMAIN t = DOMAIN s \cup {Len(s) + 1} /\ Len(s) \in Nat
      /\ DOMAIN s = 1..Len(s)
      /\ t[Len(s) + 1] = b /\ \A k \in DOMAIN s : t[k] = s[k]
  OBVIOUS
<1> HIDE DEF t
<1>2. {t[k] : k \in DOMAIN t} = {s[k] : k \in DOMAIN s} \cup {b}
  BY <1>1
<1>3. ASSUME \A j, k \in DOMAIN s : s[j] = s[k] => j = k,
             b \notin {s[k] : k \in DOMAIN s}
      PROVE  \A j, k \in DOMAIN t : t[j] = t[k] => j = k
  BY <1>1, <1>3
<1> QED
  BY <1>2, <1>3 DEF t

\* The first frame has been played.
LEMMA ImageTail ==
  ASSUME NEW s \in Seq(Buffer), s # <<>>,
         \A j, k \in DOMAIN s : s[j] = s[k] => j = k
  PROVE  LET t == Tail(s) IN
    /\ {t[k] : k \in DOMAIN t} = {s[k] : k \in DOMAIN s} \ {s[1]}
    /\ \A j, k \in DOMAIN t : t[j] = t[k] => j = k
<1> DEFINE t == Tail(s)
<1>1. /\ Len(s) \in Nat \ {0} /\ DOMAIN s = 1..Len(s)
      /\ DOMAIN t = 1..(Len(s) - 1)
      /\ \A k \in DOMAIN t : t[k] = s[k + 1]
  OBVIOUS
<1> HIDE DEF t
<1>2. \A k \in DOMAIN s : k # 1 => k - 1 \in DOMAIN t /\ t[k - 1] = s[k]
  BY <1>1
<1>3. \A k \in DOMAIN t : k + 1 \in DOMAIN s /\ k + 1 # 1 /\ 1 \in DOMAIN s
  BY <1>1
<1>4. {t[k] : k \in DOMAIN t} = {s[k] : k \in DOMAIN s} \ {s[1]}
  <2>1. ASSUME NEW k \in DOMAIN s, s[k] # s[1]
        PROVE  s[k] \in {t[j] : j \in DOMAIN t}
    BY <1>2, <2>1
  <2>2. ASSUME NEW k \in DOMAIN t
        PROVE  t[k] \in {s[j] : j \in DOMAIN s} /\ t[k] # s[1]
    BY <1>1, <1>3
  <2> QED
    BY <2>1, <2>2
<1>5. \A j, k \in DOMAIN t : t[j] = t[k] => j = k
  BY <1>1, <1>3
<1> QED
  BY <1>4, <1>5 DEF t

LEMMA InitAccounted == Init => AccInv
<1> SUFFICES ASSUME Init PROVE AccInv
  OBVIOUS
<1>1. shown = <<>> /\ Image = {}
  BY DEF Init, Image
<1>2. Once
  BY <1>1 DEF Once
<1>3. Places /\ ClientOK
  BY <1>1 DEF Init, Places, ClientOK, Sending, Got, Pool
<1> QED
  BY <1>2, <1>3, InitType DEF AccInv

\* A free buffer goes to the decoder.
LEMMA UseAccounted ==
  ASSUME AccInv, NEW b \in Buffer, Use(b), b \notin bInUse,
         worker \in {"get", "more", "getmore"}, worker' = "decode",
         kind' = kind, painting' = painting, Image' = Image,
         allocated \subseteq allocated', Pool \/ b \in allocated
  PROVE  Places' /\ ClientOK'
<1>1. Sending = {} /\ Got = {} /\ Sending' = {b} /\ Got' = {} /\ Pool' = Pool
  BY DEF Sending, Got, Pool, Use
<1>2. bInUse' = bInUse \cup {b} /\ kept' = kept /\ lost' = lost
  BY DEF Use
<1>3. /\ bInUse = kept \cup Image \cup lost /\ kept \cap Image = {}
      /\ lost \cap (kept \cup Image) = {}
      /\ kept \cup Image \subseteq allocated
      /\ painting # NULL => painting \in Image
  BY <1>1 DEF AccInv, Places
<1>4. Places'
  BY <1>1, <1>2, <1>3 DEF Places
<1>5. ClientOK'
  BY <1>1, <1>2, <1>3 DEF AccInv, ClientOK
<1> QED
  BY <1>4, <1>5

LEMMA StepAccounted == AccInv /\ [Next]_vars => AccInv'
<1> SUFFICES ASSUME AccInv, [Next]_vars PROVE AccInv'
  OBVIOUS
<1>t. TypeInv /\ TypeInv'
  BY StepType DEF AccInv
<1> SUFFICES Once' /\ Places' /\ ClientOK'
  BY <1>t DEF AccInv
<1> USE DEF Sending, Got, Pool, Places, ClientOK,
        threadVars, bufferVars, AppVars, otherVars, At, AppAt, EndTurn,
        TypeInv, TypeOK, HandOK, ThreadsOK, AccInv
<1>1. CASE CreateClientBuffer
  <2>1. shown' = shown
    BY <1>1 DEF CreateClientBuffer
  <2> QED
    BY <1>1, <1>t, <2>1, ImageKept DEF CreateClientBuffer
<1>2. CASE Link
  <2>1. shown' = shown
    BY <1>2 DEF Link
  <2> QED
    BY <1>2, <1>t, <2>1, ImageKept DEF Link
<1>3. CASE LinkWorker
  <2>1. shown' = shown
    BY <1>3 DEF LinkWorker
  <2> QED
    BY <1>3, <1>t, <2>1, ImageKept DEF LinkWorker
<1>4. CASE LinkWorkerFailed
  <2>1. shown' = shown
    BY <1>4 DEF LinkWorkerFailed
  <2> QED
    BY <1>4, <1>t, <2>1, ImageKept DEF LinkWorkerFailed
<1>5. CASE DestroyNode
  <2>1. shown' = shown
    BY <1>5 DEF DestroyNode
  <2> QED
    BY <1>5, <1>t, <2>1, ImageKept DEF DestroyNode
<1>6. CASE Unlink
  <2>1. shown' = shown
    BY <1>6 DEF Unlink
  <2> QED
    BY <1>6, <1>t, <2>1, ImageKept DEF Unlink
<1>7. CASE UnlinkWait
  <2>1. shown' = shown
    BY <1>7 DEF UnlinkWait
  <2> QED
    BY <1>7, <1>t, <2>1, ImageKept DEF UnlinkWait
<1>8. CASE RequestDirection
  <2>1. shown' = shown
    BY <1>8 DEF RequestDirection
  <2> QED
    BY <1>8, <1>t, <2>1, ImageKept DEF RequestDirection
<1>9. CASE SetDirection
  <2>1. shown' = shown
    BY <1>9 DEF SetDirection
  <2> QED
    BY <1>9, <1>t, <2>1, ImageKept DEF SetDirection
<1>10. CASE EndSecond
  <2>1. shown' = shown
    BY <1>10 DEF EndSecond
  <2> QED
    BY <1>10, <1>t, <2>1, ImageKept DEF EndSecond
<1>11. CASE BeginPaint
  <2>0. shown[1] \in Image
    BY <1>11 DEF BeginPaint, Image
  <2>1. shown' = shown
    BY <1>11 DEF BeginPaint
  <2> QED
    BY <1>11, <1>t, <2>0, <2>1, ImageKept DEF BeginPaint
<1>12. CASE EndPaint
  <2>1. shown' = shown
    BY <1>12 DEF EndPaint
  <2> QED
    BY <1>12, <1>t, <2>1, ImageKept DEF EndPaint
<1>13. CASE StartWorker
  <2>1. shown' = shown
    BY <1>13 DEF StartWorker
  <2> QED
    BY <1>13, <1>t, <2>1, ImageKept DEF StartWorker
<1>14. CASE TakeTurn
  <2>1. shown' = shown
    BY <1>14 DEF TakeTurn
  <2> QED
    BY <1>14, <1>t, <2>1, ImageKept DEF TakeTurn
<1>15. CASE Leave
  <2>1. shown' = shown
    BY <1>15 DEF Leave
  <2> QED
    BY <1>15, <1>t, <2>1, ImageKept DEF Leave
<1>16. CASE GetEmptyBuffer
  <2>1. shown' = shown
    BY <1>16 DEF GetEmptyBuffer, Use
  <2>2. PICK b \in Buffer : Use(b) /\ b \notin bInUse /\ b \in allocated
    BY <1>16 DEF GetEmptyBuffer
  <2>3. Once' /\ Image' = Image
    BY <2>1, ImageKept
  <2>4. /\ worker \in {"get", "more", "getmore"} /\ worker' = "decode"
        /\ kind' = kind /\ painting' = painting
        /\ allocated \subseteq allocated'
        /\ Pool \/ b \in allocated
    BY <1>16, <2>2 DEF GetEmptyBuffer
  <2> QED
    <3> HIDE DEF AccInv, Places, ClientOK, Pool, TypeInv, TypeOK, HandOK,
             ThreadsOK, Sending, Got, At, AppAt, AppVars, otherVars
    <3> QED
      BY <2>2, <2>3, <2>4, UseAccounted
<1>17. CASE MissEmptyBuffer
  <2>1. shown' = shown
    BY <1>17 DEF MissEmptyBuffer
  <2> QED
    BY <1>17, <1>t, <2>1, ImageKept DEF MissEmptyBuffer
<1>18. CASE GetSlot
  <2>1. shown' = shown
    BY <1>18 DEF GetSlot, Use
  <2>2. PICK b \in Buffer :
          Use(b) /\ b \notin bInUse /\ allocated' = allocated \cup {b}
    BY <1>18 DEF GetSlot, FreeSlot
  <2>3. Once' /\ Image' = Image
    BY <2>1, ImageKept
  <2>4. /\ worker \in {"get", "more", "getmore"} /\ worker' = "decode"
        /\ kind' = kind /\ painting' = painting
        /\ allocated \subseteq allocated'
        /\ Pool \/ b \in allocated
    BY <1>18, <2>2 DEF GetSlot
  <2> QED
    <3> HIDE DEF AccInv, Places, ClientOK, Pool, TypeInv, TypeOK, HandOK,
             ThreadsOK, Sending, Got, At, AppAt, AppVars, otherVars
    <3> QED
      BY <2>2, <2>3, <2>4, UseAccounted
<1>19. CASE FailSlot
  <2>1. shown' = shown
    BY <1>19 DEF FailSlot, FreeSlot
  <2> QED
    BY <1>19, <1>t, <2>1, ImageKept DEF FailSlot, FreeSlot
<1>20. CASE RequestRSNode
  <2>1. shown' = shown
    BY <1>20 DEF RequestRSNode
  <2> QED
    BY <1>20, <1>t, <2>1, ImageKept DEF RequestRSNode
<1>21. CASE DecodeFrame
  <2>1. shown' = shown
    BY <1>21 DEF DecodeFrame, Answer, HasMemory
  <2> QED
    BY <1>21, <1>t, <2>1, ImageKept DEF DecodeFrame, Answer, HasMemory
<1>22. CASE DecodeKept
  <2>1. shown' = shown
    BY <1>22 DEF DecodeKept, Answer, HasMemory
  <2> QED
    BY <1>22, <1>t, <2>1, ImageKept DEF DecodeKept, Answer, HasMemory
<1>23. CASE KeepBuffer
  <2>1. shown' = shown
    BY <1>23 DEF KeepBuffer, Answer, HasMemory
  <2> QED
    BY <1>23, <1>t, <2>1, ImageKept DEF KeepBuffer, Answer, HasMemory
<1>24. CASE DecodeTooSmall
  <2>1. shown' = shown
    BY <1>24 DEF DecodeTooSmall, Answer, HasMemory
  <2> QED
    BY <1>24, <1>t, <2>1, ImageKept DEF DecodeTooSmall, Answer, HasMemory
<1>25. CASE DecodeError
  <2>1. shown' = shown
    BY <1>25 DEF DecodeError, Answer, HasMemory
  <2> QED
    BY <1>25, <1>t, <2>1, ImageKept DEF DecodeError, Answer, HasMemory
<1>26. CASE ResizeBuffer
  <2>1. shown' = shown
    BY <1>26 DEF ResizeBuffer, CanGrow
  <2> QED
    BY <1>26, <1>t, <2>1, ImageKept DEF ResizeBuffer, CanGrow
<1>27. CASE FailResizeBuffer
  <2>1. shown' = shown
    BY <1>27 DEF FailResizeBuffer
  <2> QED
    BY <1>27, <1>t, <2>1, ImageKept DEF FailResizeBuffer
<1>28. CASE ReallocSlot
  <2>1. shown' = shown
    BY <1>28 DEF ReallocSlot, CanGrow
  <2> QED
    BY <1>28, <1>t, <2>1, ImageKept DEF ReallocSlot, CanGrow
<1>29. CASE FailReallocSlot
  <2>1. shown' = shown
    BY <1>29 DEF FailReallocSlot, FreeSent
  <2> QED
    BY <1>29, <1>t, <2>1, ImageKept DEF FailReallocSlot, FreeSent
<1>30. CASE AddNewBuffer
  <2>1. shown' = shown
    BY <1>30 DEF AddNewBuffer
  <2> QED
    BY <1>30, <1>t, <2>1, ImageKept DEF AddNewBuffer
<1>31. CASE GetNewBuffer
  <2>1. shown' = shown
    BY <1>31 DEF GetNewBuffer, Use
  <2>2. PICK b \in Buffer : Use(b) /\ b \notin bInUse /\ b \in allocated
    BY <1>31 DEF GetNewBuffer
  <2>3. Once' /\ Image' = Image
    BY <2>1, ImageKept
  <2>4. /\ worker \in {"get", "more", "getmore"} /\ worker' = "decode"
        /\ kind' = kind /\ painting' = painting
        /\ allocated \subseteq allocated'
        /\ Pool \/ b \in allocated
    BY <1>31, <2>2 DEF GetNewBuffer
  <2> QED
    <3> HIDE DEF AccInv, Places, ClientOK, Pool, TypeInv, TypeOK, HandOK,
             ThreadsOK, Sending, Got, At, AppAt, AppVars, otherVars
    <3> QED
      BY <2>2, <2>3, <2>4, UseAccounted
<1>32. CASE GetMoreSlot
  <2>1. shown' = shown
    BY <1>32 DEF GetMoreSlot, Use
  <2>2. PICK b \in Buffer : Use(b) /\ b \notin bInUse /\ TRUE
    BY <1>32 DEF GetMoreSlot, FreeSlot
  <2>3. Once' /\ Image' = Image
    BY <2>1, ImageKept
  <2>4. /\ worker \in {"get", "more", "getmore"} /\ worker' = "decode"
        /\ kind' = kind /\ painting' = painting
        /\ allocated \subseteq allocated'
        /\ Pool \/ b \in allocated
    BY <1>32, <2>2 DEF GetMoreSlot
  <2> QED
    <3> HIDE DEF AccInv, Places, ClientOK, Pool, TypeInv, TypeOK, HandOK,
             ThreadsOK, Sending, Got, At, AppAt, AppVars, otherVars
    <3> QED
      BY <2>2, <2>3, <2>4, UseAccounted
<1>33. CASE FailMore
  <2>1. shown' = shown
    BY <1>33 DEF FailMore
  <2> QED
    BY <1>33, <1>t, <2>1, ImageKept DEF FailMore
<1>34. CASE DestroyUnused
  <2>1. shown' = shown
    BY <1>34 DEF DestroyUnused
  <2> QED
    BY <1>34, <1>t, <2>1, ImageKept DEF DestroyUnused
<1>35. CASE MissDestroyUnused
  <2>1. shown' = shown
    BY <1>35 DEF MissDestroyUnused
  <2> QED
    BY <1>35, <1>t, <2>1, ImageKept DEF MissDestroyUnused
<1>36. CASE GotSlot
  <2>1. shown' = shown
    BY <1>36 DEF GotSlot
  <2> QED
    BY <1>36, <1>t, <2>1, ImageKept DEF GotSlot
<1>37. CASE PutBack
  <2>1. shown' = shown
    BY <1>37 DEF PutBack, FreeSent
  <2> QED
    BY <1>37, <1>t, <2>1, ImageKept DEF PutBack, FreeSent
<1>38. CASE MissPutBack
  <2>1. shown' = shown
    BY <1>38 DEF MissPutBack
  <2> QED
    BY <1>38, <1>t, <2>1, ImageKept DEF MissPutBack
<1>39. CASE ReportError
  <2>1. shown' = shown
    BY <1>39 DEF ReportError
  <2> QED
    BY <1>39, <1>t, <2>1, ImageKept DEF ReportError
<1>40. CASE PutFullBuffer
  <2>1. Image' = Image \cup {got} /\ Once'
    <3>1. shown \in Seq(Buffer) /\ got \in Buffer /\ shown' = Append(shown, got)
      BY <1>40 DEF PutFullBuffer
    <3>2. got \notin Image /\ Once
      BY <1>40 DEF PutFullBuffer
    <3> HIDE DEF AccInv
    <3> QED
      BY <3>1, <3>2, ImageAppended DEF Image, Once
  <2> QED
    BY <1>40, <1>t, <2>1 DEF PutFullBuffer
<1>41. CASE PutEmptyBuffer
  <2>1. shown' = shown
    BY <1>41 DEF PutEmptyBuffer
  <2> QED
    BY <1>41, <1>t, <2>1, ImageKept DEF PutEmptyBuffer
<1>42. CASE MissPutEmptyBuffer
  <2>1. shown' = shown
    BY <1>42 DEF MissPutEmptyBuffer
  <2> QED
    BY <1>42, <1>t, <2>1, ImageKept DEF MissPutEmptyBuffer
<1>43. CASE TakeBack
  <2>1. Image' = {} /\ Once'
    BY <1>43 DEF TakeBack, Image, Once
  <2> QED
    BY <1>43, <1>t, <2>1 DEF TakeBack
<1>44. CASE Show
  <2>1. Image' = {got} /\ Once'
    BY <1>44 DEF Show, Image, Once
  <2> QED
    BY <1>44, <1>t, <2>1 DEF Show
<1>45. CASE ShowNothing
  <2>1. shown' = shown
    BY <1>45 DEF ShowNothing
  <2> QED
    BY <1>45, <1>t, <2>1, ImageKept DEF ShowNothing
<1>46. CASE PMThreadEnded
  <2>1. shown' = shown
    BY <1>46 DEF PMThreadEnded
  <2> QED
    BY <1>46, <1>t, <2>1, ImageKept DEF PMThreadEnded
<1>47. CASE ReleaseForeignBuffers
  <2>1. shown' = shown
    BY <1>47 DEF ReleaseForeignBuffers
  <2> QED
    BY <1>47, <1>t, <2>1, ImageKept DEF ReleaseForeignBuffers
<1>48. CASE FreePool
  <2>1. shown' = shown
    BY <1>48 DEF FreePool
  <2> QED
    BY <1>48, <1>t, <2>1, ImageKept DEF FreePool
<1>49. CASE MoveFullBufferToEmpty
  <2>1. Image' = Image \ {shown[1]} /\ Once' /\ shown[1] \in Image
    <3>1. shown \in Seq(Buffer) /\ shown # <<>> /\ shown' = Tail(shown) /\ Once
      BY <1>49 DEF MoveFullBufferToEmpty
    <3> HIDE DEF AccInv
    <3> QED
      BY <3>1, ImageTail DEF Image, Once
  <2> USE <1>49 DEF MoveFullBufferToEmpty
  <2>2. Places'
    BY <1>t, <2>1
  <2>3. ClientOK'
    BY <1>t, <2>1
  <2> QED
    BY <2>1, <2>2, <2>3
<1>50. CASE UNCHANGED vars
  BY <1>50, ImageKept DEF vars
<1> QED
  BY <1>1, <1>2, <1>3, <1>4, <1>5, <1>6, <1>7, <1>8, <1>9, <1>10, <1>11,
     <1>12, <1>13, <1>14, <1>15, <1>16, <1>17, <1>18, <1>19, <1>20, <1>21,
     <1>22, <1>23, <1>24, <1>25, <1>26, <1>27, <1>28, <1>29, <1>30, <1>31,
     <1>32, <1>33, <1>34, <1>35, <1>36, <1>37, <1>38, <1>39, <1>40, <1>41,
     <1>42, <1>43, <1>44, <1>45, <1>46, <1>47, <1>48, <1>49, <1>50
     DEF Next, Application, SecondThread, Decoder, WorkerThread

-----------------------------------------------------------------------------
(* MPAOUT's client implements AudMixPool.                                  *)

Queue == IF Pool THEN <<>> ELSE shown

\* Nothing changes hands.
LEMMA OwnerKept ==
  ASSUME kind' = kind, shown' = shown, allocated' = allocated, bInUse' = bInUse
  PROVE  Owner' = Owner /\ Queue' = Queue
  BY DEF Owner, Queue, Pool, Image

\* The other plugins have no client.
LEMMA NoClient ==
  ASSUME Pool, kind' = kind
  PROVE  Owner' = Owner /\ Queue' = Queue
<1>1. Pool /\ Pool'
  BY DEF Pool
<1> QED
  BY <1>1 DEF Owner, Queue

LEMMA InitOwner == Init => PoolOfClient!Init
  BY DEF Init, PoolOfClient!Init, Owner

LEMMA KindKept == [Next]_vars => kind' = kind
  BY DEF AddNewBuffer, Answer, AppVars, Application, BeginPaint,
     CreateClientBuffer, DecodeError, DecodeFrame, DecodeKept,
     DecodeTooSmall, Decoder, DestroyNode, DestroyUnused, EndPaint,
     EndSecond, FailMore, FailReallocSlot, FailResizeBuffer, FailSlot,
     FreePool, FreeSent, GetEmptyBuffer, GetMoreSlot, GetNewBuffer, GetSlot,
     GotSlot, KeepBuffer, Leave, Link, LinkWorker, LinkWorkerFailed,
     MissDestroyUnused, MissEmptyBuffer, MissPutBack, MissPutEmptyBuffer,
     MoveFullBufferToEmpty, Next, PMThreadEnded, PutBack, PutEmptyBuffer,
     PutFullBuffer, ReallocSlot, ReleaseForeignBuffers, ReportError,
     RequestDirection, RequestRSNode, ResizeBuffer, SecondThread,
     SetDirection, Show, ShowNothing, StartWorker, TakeBack, TakeTurn,
     Unlink, UnlinkWait, Use, WorkerThread, bufferVars, otherVars,
     threadVars, vars

\* Every step is one of the pool's, or changes no owner.
LEMMA StepOwner ==
  AccInv /\ [Next]_vars => [PoolOfClient!Next]_(PoolOfClient!vars)
<1> SUFFICES ASSUME AccInv, [Next]_vars
             PROVE  PoolOfClient!Next \/ (Owner' = Owner /\ Queue' = Queue)
  BY DEF PoolOfClient!vars, Queue
<1>k. kind' = kind
  BY KindKept
<1>a. CASE Pool
  BY <1>a, <1>k, NoClient
<1> SUFFICES ASSUME ~Pool
             PROVE  PoolOfClient!Next \/ (Owner' = Owner /\ Queue' = Queue)
  BY <1>a
<1>b. ~Pool' /\ kind = "aout" /\ worker \notin {"show", "free"}
  BY <1>k DEF Pool, AccInv, TypeInv, TypeOK, ThreadsOK
<1>c. /\ bInUse \subseteq allocated /\ allocated \subseteq Buffer
      /\ Image \subseteq bInUse
  BY DEF AccInv, ClientOK, TypeInv, TypeOK
<1>d. Owner = [b \in Buffer |->
                 IF b \notin allocated THEN "none"
                 ELSE IF b \notin bInUse THEN "pool"
                 ELSE IF b \in Image THEN "queue" ELSE "worker"]
  BY DEF Owner
<1>e. Owner' = [b \in Buffer |->
                  IF b \notin allocated' THEN "none"
                  ELSE IF b \notin bInUse' THEN "pool"
                  ELSE IF b \in Image' THEN "queue" ELSE "worker"]
  BY <1>b DEF Owner
<1>f. (IF Pool THEN <<>> ELSE shown) = shown
      /\ (IF Pool THEN <<>> ELSE shown)' = shown'
  BY <1>b
<1>s. shown' = shown => Image' = Image
  BY ImageKept
<1>1. ASSUME NEW b \in Buffer \ allocated, allocated' = allocated \cup {b},
             bInUse' = bInUse, shown' = shown
      PROVE  PoolOfClient!Create(b)
  <2>1. Owner[b] = "none" /\ Owner' = [Owner EXCEPT ![b] = "pool"]
    BY <1>1, <1>c, <1>d, <1>e, <1>s
  <2> QED
    BY <1>1, <1>f, <2>1 DEF PoolOfClient!Create, PoolOfClient!Pass
<1>2. ASSUME NEW b \in allocated \ bInUse, allocated' = allocated,
             bInUse' = bInUse \cup {b}, shown' = shown
      PROVE  PoolOfClient!Acquire("worker", b)
  <2>1. Owner[b] = "pool" /\ Owner' = [Owner EXCEPT ![b] = "worker"]
    BY <1>2, <1>c, <1>d, <1>e, <1>s
  <2> QED
    BY <1>2, <1>f, <2>1 DEF PoolOfClient!Acquire, PoolOfClient!Pass
<1>3. ASSUME NEW b \in bInUse \ Image, allocated' = allocated,
             bInUse' = bInUse \ {b}, shown' = shown
      PROVE  PoolOfClient!GiveBack("worker", b)
  <2>1. Owner[b] = "worker" /\ Owner' = [Owner EXCEPT ![b] = "pool"]
    BY <1>3, <1>c, <1>d, <1>e, <1>s
  <2> QED
    BY <1>3, <1>f, <2>1 DEF PoolOfClient!GiveBack, PoolOfClient!Pass
<1>4. CASE CreateClientBuffer
  <2>1. PICK b \in Buffer \ allocated : allocated' = allocated \cup {b}
    BY <1>4 DEF CreateClientBuffer
  <2>2. bInUse' = bInUse /\ shown' = shown
    BY <1>4 DEF CreateClientBuffer
  <2> QED
    BY <1>1, <2>1, <2>2 DEF PoolOfClient!Next
<1>5. CASE AddNewBuffer
  <2>1. PICK b \in Buffer \ allocated : allocated' = allocated \cup {b}
    BY <1>5 DEF AddNewBuffer
  <2>2. bInUse' = bInUse /\ shown' = shown
    BY <1>5 DEF AddNewBuffer
  <2> QED
    BY <1>1, <2>1, <2>2 DEF PoolOfClient!Next
<1>6. CASE GetEmptyBuffer \/ GetNewBuffer
  <2>1. PICK b \in allocated \ bInUse : Use(b)
    BY <1>6 DEF GetEmptyBuffer, GetNewBuffer
  <2>2. allocated' = allocated /\ bInUse' = bInUse \cup {b} /\ shown' = shown
    BY <1>6, <2>1 DEF GetEmptyBuffer, GetNewBuffer, Use
  <2> QED
    BY <1>2, <1>c, <2>2 DEF PoolOfClient!Next
<1>7. CASE PutBack
  <2>1. sent \in bInUse \ Image
    BY <1>7 DEF PutBack, At, AccInv, Places, Sending
  <2>2. allocated' = allocated /\ bInUse' = bInUse \ {sent} /\ shown' = shown
    BY <1>7 DEF PutBack, FreeSent
  <2> QED
    BY <1>3, <1>c, <2>1, <2>2 DEF PoolOfClient!Next
<1>8. CASE PutEmptyBuffer
  <2>1. got \in bInUse \ Image
    BY <1>8 DEF PutEmptyBuffer, At, AccInv, Places, Got
  <2>2. allocated' = allocated /\ bInUse' = bInUse \ {got} /\ shown' = shown
    BY <1>8 DEF PutEmptyBuffer
  <2> QED
    BY <1>3, <1>c, <2>1, <2>2 DEF PoolOfClient!Next
<1>9. CASE ResizeBuffer
  <2>1. sent \in bInUse \ Image
    BY <1>9 DEF ResizeBuffer, At, AccInv, Places, Sending
  <2>2. PICK c \in Buffer \ allocated :
          /\ allocated' = (allocated \ {sent}) \cup {c}
          /\ bInUse' = (bInUse \ {sent}) \cup {c}
    BY <1>9 DEF ResizeBuffer
  <2>3. shown' = shown
    BY <1>9 DEF ResizeBuffer
  <2>4. /\ Owner[sent] = "worker" /\ Owner[c] = "none"
        /\ Owner' = [Owner EXCEPT ![sent] = "none", ![c] = "worker"]
    BY <1>c, <1>d, <1>e, <1>s, <2>1, <2>2, <2>3
  <2>5. PoolOfClient!Exchange("worker", sent, c)
    BY <1>f, <2>3, <2>4 DEF PoolOfClient!Exchange
  <2> QED
    BY <1>c, <2>1, <2>5 DEF PoolOfClient!Next
<1>10. CASE DestroyUnused
  <2>1. sent \in bInUse \ Image
    BY <1>10 DEF DestroyUnused, At, AccInv, Places, Sending
  <2>2. /\ allocated' = allocated \ {sent} /\ bInUse' = bInUse \ {sent}
        /\ shown' = shown
    BY <1>10 DEF DestroyUnused
  <2>3. Owner[sent] = "worker" /\ Owner' = [Owner EXCEPT ![sent] = "none"]
    BY <1>c, <1>d, <1>e, <1>s, <2>1, <2>2
  <2>4. PoolOfClient!Destroy("worker", sent)
    BY <1>f, <2>2, <2>3 DEF PoolOfClient!Destroy, PoolOfClient!Pass
  <2> QED
    BY <1>c, <2>1, <2>4 DEF PoolOfClient!Next
<1>11. CASE PutFullBuffer
  <2>1. got \in bInUse \ Image
    BY <1>11 DEF PutFullBuffer, At, AccInv, Places, Got
  <2>2. /\ allocated' = allocated /\ bInUse' = bInUse
        /\ shown' = Append(shown, got) /\ shown \in Seq(Buffer)
    BY <1>11 DEF PutFullBuffer, AccInv, TypeInv, TypeOK
  <2>3. Image' = Image \cup {got}
    BY <1>c, <2>1, <2>2, ImageAppended DEF Image
  <2>4. Owner[got] = "worker" /\ Owner' = [Owner EXCEPT ![got] = "queue"]
    BY <1>c, <1>d, <1>e, <2>1, <2>2, <2>3
  <2>5. PoolOfClient!Submit("worker", got)
    BY <1>f, <2>2, <2>4 DEF PoolOfClient!Submit, PoolOfClient!Pass
  <2> QED
    BY <1>c, <2>1, <2>5 DEF PoolOfClient!Next
<1>12. CASE MoveFullBufferToEmpty
  <2>1. /\ allocated' = allocated /\ bInUse' = bInUse \ {shown[1]}
        /\ shown # <<>> /\ shown' = Tail(shown) /\ shown \in Seq(Buffer)
    BY <1>12 DEF MoveFullBufferToEmpty, AccInv, TypeInv, TypeOK
  <2>2. Image' = Image \ {shown[1]}
    <3>1. \A j, k \in DOMAIN shown : shown[j] = shown[k] => j = k
      BY DEF AccInv, Once
    <3> QED
      BY <2>1, <3>1, ImageTail DEF Image
  <2>3. shown[1] \in Image /\ Head(shown) = shown[1]
    BY <2>1 DEF Image
  <2>4. /\ Owner[shown[1]] = "queue"
        /\ Owner' = [Owner EXCEPT ![shown[1]] = "pool"]
    BY <1>c, <1>d, <1>e, <2>1, <2>2, <2>3
  <2>5. PoolOfClient!Finish
    BY <1>f, <2>1, <2>3, <2>4 DEF PoolOfClient!Finish, PoolOfClient!Pass
  <2> QED
    BY <2>5 DEF PoolOfClient!Next
<1>13. CASE allocated' = allocated /\ bInUse' = bInUse /\ shown' = shown
  BY <1>13, <1>k, OwnerKept
<1>14. \/ allocated' = allocated /\ bInUse' = bInUse /\ shown' = shown
       \/ CreateClientBuffer \/ AddNewBuffer \/ GetEmptyBuffer \/ GetNewBuffer
       \/ PutBack \/ PutEmptyBuffer \/ ResizeBuffer \/ DestroyUnused
       \/ PutFullBuffer \/ MoveFullBufferToEmpty
  BY <1>b DEF Answer, Application, At, BeginPaint, DecodeError, DecodeFrame,
     DecodeKept, DecodeTooSmall, Decoder, DestroyNode, EndPaint, EndSecond,
     FailMore, FailReallocSlot, FailResizeBuffer, FailSlot, FreePool,
     FreeSent, GetMoreSlot, GetSlot, GotSlot, KeepBuffer, Leave, Link,
     LinkWorker, LinkWorkerFailed, MissDestroyUnused, MissEmptyBuffer,
     MissPutBack, MissPutEmptyBuffer, Next, PMThreadEnded, Pool, ReallocSlot,
     ReleaseForeignBuffers, ReportError, RequestDirection, RequestRSNode,
     SecondThread, SetDirection, Show, ShowNothing, StartWorker, TakeBack,
     TakeTurn, Unlink, UnlinkWait, Use, WorkerThread, bufferVars, vars
<1> QED
  BY <1>4, <1>5, <1>6, <1>7, <1>8, <1>9, <1>10, <1>11, <1>12, <1>13, <1>14

-----------------------------------------------------------------------------
(* Theorems.                                                               *)

LEMMA TypeInvariant == Spec => []TypeInv
  BY InitType, StepType, PTL DEF Spec

LEMMA AccountInvariant == Spec => []AccInv
  BY InitAccounted, StepAccounted, PTL DEF Spec

\* The variables keep their types; in particular no buffer grows beyond its
\* limit, since the worker checks it before every step.
THEOREM TypeCorrect == Spec => []TypeOK
<1>1. TypeInv => TypeOK
  BY DEF TypeInv
<1> QED
  BY <1>1, TypeInvariant, PTL

\* When Link has failed or Unlink has returned, no thread, painting, mutex or
\* buffer in the decoder is left of the terminator.
THEOREM NothingOutlivesCorrect == Spec => []NothingOutlives
<1>1. TypeInv => NothingOutlives
  BY DEF TypeInv, TypeOK, ThreadsOK, NothingOutlives
<1> QED
  BY <1>1, TypeInvariant, PTL

\* Every buffer in use is in exactly one place, whatever the decoder keeps and
\* returns.
THEOREM BuffersAccountedCorrect == Spec => []BuffersAccounted
<1>1. AccInv => BuffersAccounted
  BY DEF AccInv, Once, Places, BuffersAccounted
<1> QED
  BY <1>1, AccountInvariant, PTL

\* The worker of MPAOUT acquires, resizes, destroys, gives back and submits
\* buffers only as their owner: it implements the pool's specification.
THEOREM ClientOwnerCorrect == Spec => ClientOwnerSpec
  BY InitOwner, StepOwner, AccountInvariant, PTL
     DEF Spec, ClientOwnerSpec, PoolOfClient!OwnerSpec
=============================================================================
