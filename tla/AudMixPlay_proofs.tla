------------------------- MODULE AudMixPlay_proofs -------------------------
(***************************************************************************)
(* Proofs about how the mixer plays the clients' sound, for all values of  *)
(* the constants.                                                          *)
(*                                                                         *)
(* AudMixBuffers: the three lists of a client are well linked and hold     *)
(* what the status of the buffers says, what a thread has in hand is its   *)
(* own, the source pointer of the mixer points into the first full         *)
(* buffer, and the pointers implement the ownership and the order that     *)
(* AudMixPool promises.                                                    *)
(*                                                                         *)
(* AudMixMixer: what the hardware plays and what time stamp the clients    *)
(* read are right in every interleaving of rounds, commands and reads.     *)
(***************************************************************************)
EXTENDS AudMixBuffers, AudMixMixer, PointerLists_proofs, SequenceTheorems

-----------------------------------------------------------------------------
(* AudMixBuffers. *)

\* A full buffer has data, and no offset is left without a source pointer.
DataOK ==
  /\ \A b \in WithStatus("FULL") : uiDataInside[b] > 0
  /\ pSource = NULL => sourceOffset = 0

\* The inductive invariant.
Inv == TypeOK /\ ListsOK /\ HandsOK /\ SourceOK /\ DataOK

\* The three parts of ListsOK.
AllocatedOK == IsChain(Allocated, pAllocatedBufListHead, pNextAllocated)
EmptyOK == IsDeque(WithStatus("EMPTY"), pEmptyBufListHead, pEmptyBufListLast,
                   pNextEmpty, pPrevEmpty)
FullOK == IsQueue(WithStatus("FULL"), pFullBufListHead, pFullBufListLast,
                  pNextFull)

LEMMA ListParts == ListsOK <=> AllocatedOK /\ EmptyOK /\ FullOK
BY DEF ListsOK, AllocatedOK, EmptyOK, FullOK

LEMMA StatusSets ==
  /\ \A st : /\ IsFiniteSet(WithStatus(st)) /\ NULL \notin WithStatus(st)
             /\ WithStatus(st) \subseteq Buffer
  /\ IsFiniteSet(Allocated) /\ NULL \notin Allocated
  /\ Allocated \subseteq Buffer
BY BufferAssumption, FS_Subset DEF WithStatus, Allocated

\* What the invariant says of the ends of the lists.
LEMMA FullEnds ==
  ASSUME FullOK
  PROVE  /\ pFullBufListHead = NULL <=> WithStatus("FULL") = {}
         /\ pFullBufListLast = NULL <=> WithStatus("FULL") = {}
         /\ pFullBufListHead # NULL =>
              /\ pFullBufListHead \in WithStatus("FULL")
              /\ pFullBufListHead \in Buffer
BY StatusSets, QueueEnds DEF FullOK

LEMMA EmptyEnds ==
  ASSUME EmptyOK
  PROVE  /\ pEmptyBufListHead = NULL <=> pEmptyBufListLast = NULL
         /\ pEmptyBufListLast # NULL =>
              /\ pEmptyBufListLast \in WithStatus("EMPTY")
              /\ pEmptyBufListLast \in Buffer
BY StatusSets, DequeOrder DEF EmptyOK

-----------------------------------------------------------------------------
(* What the pointer surgery does to the lists.                             *)

LEMMA PushKeeps ==
  ASSUME EmptyOK, NEW b \in Buffer, b \notin WithStatus("EMPTY"),
         PushEmptyHead(b), pNextEmpty \in [Buffer -> Pointer],
         WithStatus("EMPTY")' = WithStatus("EMPTY") \cup {b}
  PROVE  EmptyOK'
<1> DEFINE S == WithStatus("EMPTY")
           head == pEmptyBufListHead
           lastP == IF head = NULL THEN b ELSE pEmptyBufListLast
           nextP == pNextEmpty'
           prevP == pPrevEmpty'
<1>1. IsFiniteSet(S) /\ NULL \notin S /\ S \subseteq Buffer /\ b \notin S
  BY StatusSets
<1>2. /\ nextP[b] = head /\ prevP[b] = NULL
      /\ \A y \in S : /\ nextP[y] = pNextEmpty[y]
                      /\ prevP[y] = IF y = head THEN b ELSE pPrevEmpty[y]
  BY <1>1 DEF PushEmptyHead
<1>3. IsDeque(S, head, pEmptyBufListLast, pNextEmpty, pPrevEmpty)
  BY DEF EmptyOK
<1>4. pEmptyBufListHead' = b /\ pEmptyBufListLast' = lastP
  BY DEF PushEmptyHead
<1> HIDE DEF S, head, nextP, prevP
<1>5. IsDeque(S \cup {b}, b, lastP, nextP, prevP)
  BY <1>1, <1>2, <1>3, DequePush
<1> QED BY <1>4, <1>5 DEF EmptyOK, S, nextP, prevP

LEMMA AppendKeeps ==
  ASSUME EmptyOK, NEW b \in Buffer, b \notin WithStatus("EMPTY"),
         AppendEmpty(b), pPrevEmpty \in [Buffer -> Pointer],
         WithStatus("EMPTY")' = WithStatus("EMPTY") \cup {b}
  PROVE  EmptyOK'
<1> DEFINE S == WithStatus("EMPTY")
           nextP == pNextEmpty'
           prevP == pPrevEmpty'
<1>1. IsFiniteSet(S) /\ NULL \notin S /\ S \subseteq Buffer /\ b \notin S
  BY StatusSets
<1>2. /\ nextP[b] = NULL /\ prevP[b] = pEmptyBufListLast
      /\ \A y \in S : /\ nextP[y] = IF y = pEmptyBufListLast THEN b
                                    ELSE pNextEmpty[y]
                      /\ prevP[y] = pPrevEmpty[y]
  BY <1>1 DEF AppendEmpty
<1>3. IsDeque(S, pEmptyBufListHead, pEmptyBufListLast, pNextEmpty, pPrevEmpty)
  BY DEF EmptyOK
<1> HIDE DEF S, nextP, prevP
<1>4. IsDeque(S \cup {b},
              IF pEmptyBufListLast = NULL THEN b ELSE pEmptyBufListHead,
              b, nextP, prevP)
  BY <1>1, <1>2, <1>3, DequeAppend
<1>5. /\ pEmptyBufListLast' = b
      /\ pEmptyBufListHead' =
           IF pEmptyBufListLast = NULL THEN b ELSE pEmptyBufListHead
  BY DEF AppendEmpty
<1> QED BY <1>4, <1>5 DEF EmptyOK, S, nextP, prevP

LEMMA DropKeeps ==
  ASSUME EmptyOK, pEmptyBufListLast # NULL, UnlinkEmptyLast,
         WithStatus("EMPTY")' = WithStatus("EMPTY") \ {pEmptyBufListLast}
  PROVE  EmptyOK'
<1> DEFINE S == WithStatus("EMPTY")
           tail == pEmptyBufListLast
           nextP == pNextEmpty'
<1>1. IsFiniteSet(S) /\ NULL \notin S /\ S \subseteq Buffer
  BY StatusSets
<1>2. \A y \in S : nextP[y] = IF y = pPrevEmpty[tail] THEN NULL
                              ELSE pNextEmpty[y]
  BY <1>1 DEF UnlinkEmptyLast
<1>3. IsDeque(S, pEmptyBufListHead, tail, pNextEmpty, pPrevEmpty)
  BY DEF EmptyOK
<1>4. tail # NULL
  OBVIOUS
<1>5. /\ pEmptyBufListLast' = pPrevEmpty[tail] /\ pPrevEmpty' = pPrevEmpty
      /\ pEmptyBufListHead' =
           IF pPrevEmpty[tail] = NULL THEN NULL ELSE pEmptyBufListHead
      /\ WithStatus("EMPTY")' = S \ {tail}
  BY DEF UnlinkEmptyLast
<1> HIDE DEF S, tail, nextP
<1>6. IsDeque(S \ {tail},
              IF pPrevEmpty[tail] = NULL THEN NULL ELSE pEmptyBufListHead,
              pPrevEmpty[tail], nextP, pPrevEmpty)
  BY <1>1, <1>2, <1>3, <1>4, DequeDropLast
<1> QED BY <1>5, <1>6 DEF EmptyOK, nextP

LEMMA SameEmpty ==
  ASSUME EmptyOK, UNCHANGED <<pEmptyBufListHead, pEmptyBufListLast>>,
         WithStatus("EMPTY")' = WithStatus("EMPTY"),
         \A y \in WithStatus("EMPTY") : /\ pNextEmpty'[y] = pNextEmpty[y]
                                        /\ pPrevEmpty'[y] = pPrevEmpty[y]
  PROVE  EmptyOK'
<1> DEFINE S == WithStatus("EMPTY")
           nextP == pNextEmpty'
           prevP == pPrevEmpty'
<1>1. IsFiniteSet(S) /\ NULL \notin S
  BY StatusSets
<1>2. \A y \in S : nextP[y] = pNextEmpty[y] /\ prevP[y] = pPrevEmpty[y]
  OBVIOUS
<1>3. IsDeque(S, pEmptyBufListHead, pEmptyBufListLast, pNextEmpty, pPrevEmpty)
  BY DEF EmptyOK
<1> HIDE DEF S, nextP, prevP
<1>4. IsDeque(S, pEmptyBufListHead, pEmptyBufListLast, nextP, prevP)
  BY <1>1, <1>2, <1>3, DequeSame
<1> QED BY <1>4 DEF EmptyOK, S, nextP, prevP

\* What becomes of the order of the full buffers is for the refinement.
LEMMA SameFull ==
  ASSUME FullOK, UNCHANGED <<pFullBufListHead, pFullBufListLast>>,
         WithStatus("FULL")' = WithStatus("FULL"),
         \A y \in WithStatus("FULL") : pNextFull'[y] = pNextFull[y]
  PROVE  FullOK' /\ FullQueue' = FullQueue
<1> DEFINE S == WithStatus("FULL")
           nextP == pNextFull'
<1>1. IsFiniteSet(S)
  BY StatusSets
<1>2. \A y \in S : nextP[y] = pNextFull[y]
  OBVIOUS
<1>3. IsQueue(S, pFullBufListHead, pFullBufListLast, pNextFull)
  BY DEF FullOK
<1> HIDE DEF S, nextP
<1>4. IsQueue(S, pFullBufListHead, pFullBufListLast, nextP)
  BY <1>1, <1>2, <1>3, QueueSame
<1>5. /\ Cardinality(S) \in Nat
      /\ Order(ListOrder(S, pFullBufListHead, pNextFull), Cardinality(S), S,
               pFullBufListHead, pNextFull)
  BY <1>1, <1>3, QueueOrder
<1>6. Order(ListOrder(S, pFullBufListHead, pNextFull), Cardinality(S), S,
            pFullBufListHead, nextP)
  BY <1>2, <1>5, OrderSame
<1>7. ListOrder(S, pFullBufListHead, nextP)
        = ListOrder(S, pFullBufListHead, pNextFull)
  BY <1>1, <1>6, ListOrderIs
<1> QED BY <1>4, <1>7 DEF FullOK, FullQueue, S, nextP

LEMMA LinkFull ==
  ASSUME FullOK, NEW b \in Buffer, b \notin WithStatus("FULL"), AppendFull(b),
         WithStatus("FULL")' = WithStatus("FULL") \cup {b}
  PROVE  /\ FullOK'
         /\ FullQueue' = Behind(FullQueue, Cardinality(WithStatus("FULL")), b)
<1> DEFINE S == WithStatus("FULL")
           nextP == pNextFull'
           headP == IF pFullBufListLast = NULL THEN b ELSE pFullBufListHead
<1>1. IsFiniteSet(S) /\ NULL \notin S /\ S \subseteq Buffer /\ b \notin S
  BY StatusSets
<1>2. /\ nextP[b] = NULL
      /\ \A y \in S : nextP[y] = IF y = pFullBufListLast THEN b
                                 ELSE pNextFull[y]
  BY <1>1 DEF AppendFull
<1>3. IsQueue(S, pFullBufListHead, pFullBufListLast, pNextFull)
  BY DEF FullOK
<1>4. pFullBufListHead' = headP /\ pFullBufListLast' = b
  BY DEF AppendFull
<1> HIDE DEF S, nextP
<1>5. /\ IsQueue(S \cup {b}, headP, b, nextP)
      /\ ListOrder(S \cup {b}, headP, nextP)
           = Behind(ListOrder(S, pFullBufListHead, pNextFull),
                    Cardinality(S), b)
  BY <1>1, <1>2, <1>3, QueueLinkLast
<1> QED BY <1>4, <1>5 DEF FullOK, FullQueue, S, nextP

LEMMA UnlinkFull ==
  ASSUME FullOK, pFullBufListHead # NULL, MoveFullBufferToEmpty,
         pNextFull \in [Buffer -> Pointer],
         WithStatus("FULL")' = WithStatus("FULL") \ {pFullBufListHead}
  PROVE  /\ FullOK'
         /\ Cardinality(WithStatus("FULL")) >= 1
         /\ FullQueue' = Rest(FullQueue, Cardinality(WithStatus("FULL")))
         /\ FullQueue[1] = pFullBufListHead
<1> DEFINE S == WithStatus("FULL")
           head == pFullBufListHead
           nextP == pNextFull'
           lastP == IF pNextFull[head] = NULL THEN NULL ELSE pFullBufListLast
<1>1. IsFiniteSet(S) /\ NULL \notin S /\ S \subseteq Buffer /\ head # NULL
  BY StatusSets
<1>2. \A y \in S : y # head => nextP[y] = pNextFull[y]
  BY <1>1 DEF MoveFullBufferToEmpty
<1>3. IsQueue(S, head, pFullBufListLast, pNextFull)
  BY DEF FullOK
<1>4. /\ pFullBufListHead' = pNextFull[head] /\ pFullBufListLast' = lastP
      /\ WithStatus("FULL")' = S \ {head}
  BY DEF MoveFullBufferToEmpty
<1> HIDE DEF S, nextP, head
<1>5. /\ IsQueue(S \ {head}, pNextFull[head], lastP, nextP)
      /\ Cardinality(S) >= 1
      /\ ListOrder(S \ {head}, pNextFull[head], nextP)
           = Rest(ListOrder(S, head, pNextFull), Cardinality(S))
      /\ ListOrder(S, head, pNextFull)[1] = head
  BY <1>1, <1>2, <1>3, QueueUnlinkFirst
<1> QED BY <1>4, <1>5 DEF FullOK, FullQueue, S, nextP, head

LEMMA SameAllocated ==
  ASSUME AllocatedOK, UNCHANGED allocVars, Allocated' = Allocated
  PROVE  AllocatedOK'
BY DEF AllocatedOK, allocVars

\* A buffer that leaves the hands of a thread.
LEMMA HandsDrop ==
  ASSUME HandsOK, held \in [Thread -> SUBSET Buffer],
         NEW t \in Thread, NEW b \in held[t],
         held' = [held EXCEPT ![t] = @ \ {b}],
         WithStatus("FILLING")' = WithStatus("FILLING") \ {b}
  PROVE  HandsOK'
<1>1. /\ WithStatus("FILLING") = UNION {held[u] : u \in Thread}
      /\ \A u, v \in Thread : u # v => held[u] \cap held[v] = {}
  BY DEF HandsOK
<1>2. \A u \in Thread : u # t => b \notin held[u]
  BY <1>1
<1>3. WithStatus("FILLING")' = UNION {held'[u] : u \in Thread}
  BY <1>1, <1>2
<1>4. \A u, v \in Thread : u # v => held'[u] \cap held'[v] = {}
  BY <1>1
<1> QED BY <1>3, <1>4 DEF HandsOK

\* A buffer nobody has that gets into the hands of a thread.
LEMMA HandsTake ==
  ASSUME HandsOK, held \in [Thread -> SUBSET Buffer],
         NEW t \in Thread, NEW b, b \notin WithStatus("FILLING"),
         held' = [held EXCEPT ![t] = @ \cup {b}],
         WithStatus("FILLING")' = WithStatus("FILLING") \cup {b}
  PROVE  HandsOK'
<1>1. /\ WithStatus("FILLING") = UNION {held[u] : u \in Thread}
      /\ \A u, v \in Thread : u # v => held[u] \cap held[v] = {}
  BY DEF HandsOK
<1>2. \A u \in Thread : b \notin held[u]
  BY <1>1
<1>3. WithStatus("FILLING")' = UNION {held'[u] : u \in Thread}
  BY <1>1, <1>2
<1>4. \A u, v \in Thread : u # v => held'[u] \cap held'[v] = {}
  BY <1>1, <1>2
<1> QED BY <1>3, <1>4 DEF HandsOK

\* What changes the lists besides: AudMixDestroyBuffer() and
\* AudMixResizeBuffer() search the list of allocated buffers.
LEMMA PushAllocated ==
  ASSUME AllocatedOK, NEW b \in Buffer, b \notin Allocated, LinkAllocated(b),
         pNextAllocated \in [Buffer -> Pointer],
         Allocated' = Allocated \cup {b}
  PROVE  AllocatedOK'
<1> DEFINE S == Allocated
           nextP == pNextAllocated'
<1>1. IsFiniteSet(S) /\ S \subseteq Buffer /\ b \notin S
  BY StatusSets
<1>2. /\ nextP[b] = pAllocatedBufListHead
      /\ \A y \in S : nextP[y] = pNextAllocated[y]
  BY <1>1 DEF LinkAllocated
<1>3. IsChain(S, pAllocatedBufListHead, pNextAllocated)
  BY DEF AllocatedOK
<1> HIDE DEF S, nextP
<1>4. IsChain(S \cup {b}, b, nextP)
  BY <1>1, <1>2, <1>3, ChainPush
<1>5. pAllocatedBufListHead' = b
  BY DEF LinkAllocated
<1> QED BY <1>4, <1>5 DEF AllocatedOK, S, nextP

LEMMA ReplaceAllocated ==
  ASSUME AllocatedOK, NEW b \in Allocated, NEW c \in Buffer,
         c \notin Allocated,
         pNextAllocated \in [Buffer -> Pointer],
         RelinkAllocated(b, c,
         [pNextAllocated EXCEPT ![c] = pNextAllocated[b]]),
         Allocated' = (Allocated \ {b}) \cup {c}
  PROVE  AllocatedOK'
<1> DEFINE S == Allocated
           head == pAllocatedBufListHead
           nextP == pNextAllocated'
<1>1. /\ IsFiniteSet(S) /\ NULL \notin S /\ S \subseteq Buffer
      /\ b \in S /\ c \notin S
  BY StatusSets
<1>2. \A x \in S : uiBufferStatus[x] # "FREE"
  BY DEF Allocated
<1>3. nextP[c] = pNextAllocated[b]
  BY DEF RelinkAllocated, Allocated
<1>4. \A y \in S \ {b} : nextP[y] = IF pNextAllocated[y] = b THEN c
                                    ELSE pNextAllocated[y]
  BY <1>1, <1>2 DEF RelinkAllocated
<1>5. IsChain(S, head, pNextAllocated)
  BY DEF AllocatedOK
<1>6. pAllocatedBufListHead' = IF head = b THEN c ELSE head
  BY DEF RelinkAllocated
<1> HIDE DEF S, nextP, head
<1>7. IsChain((S \ {b}) \cup {c}, IF head = b THEN c ELSE head, nextP)
  BY <1>1, <1>3, <1>4, <1>5, ChainReplace
<1> QED BY <1>6, <1>7 DEF AllocatedOK, S, nextP, head

LEMMA RemoveAllocated ==
  ASSUME AllocatedOK, NEW b \in Allocated,
         pNextAllocated \in [Buffer -> Pointer],
         RelinkAllocated(b, pNextAllocated[b], pNextAllocated),
         Allocated' = Allocated \ {b}
  PROVE  AllocatedOK'
<1> DEFINE S == Allocated
           head == pAllocatedBufListHead
           nextP == pNextAllocated'
<1>1. IsFiniteSet(S) /\ NULL \notin S /\ S \subseteq Buffer /\ b \in S
  BY StatusSets
<1>2. \A x \in S : uiBufferStatus[x] # "FREE"
  BY DEF Allocated
<1>3. \A y \in S \ {b} : nextP[y] = IF pNextAllocated[y] = b
                                    THEN pNextAllocated[b]
                                    ELSE pNextAllocated[y]
  BY <1>1, <1>2 DEF RelinkAllocated
<1>4. IsChain(S, head, pNextAllocated)
  BY DEF AllocatedOK
<1>5. pAllocatedBufListHead' = IF head = b THEN pNextAllocated[b] ELSE head
  BY DEF RelinkAllocated
<1> HIDE DEF S, nextP, head
<1>6. IsChain(S \ {b}, IF head = b THEN pNextAllocated[b] ELSE head, nextP)
  BY <1>1, <1>3, <1>4, ChainRemove
<1> QED BY <1>5, <1>6 DEF AllocatedOK, S, nextP, head

-----------------------------------------------------------------------------
(* The invariant holds initially, and every action keeps it.               *)

LEMMA InvInit == Init => Inv
<1> SUFFICES ASSUME Init PROVE Inv
  OBVIOUS
<1>1. \A b \in Buffer : uiBufferStatus[b] = "FREE"
  BY DEF Init
<1>2. /\ Allocated = {} /\ WithStatus("EMPTY") = {} /\ WithStatus("FULL") = {}
      /\ WithStatus("FILLING") = {}
  BY <1>1 DEF Allocated, WithStatus
<1>3. TypeOK
  <2>1. 0 \in 0..MaxData /\ 0 \in 0..DestSize
    BY SizeAssumption
  <2>2. /\ mixable \in [Buffer -> BOOLEAN] /\ mixing \in BOOLEAN
        /\ hevMoved \in BOOLEAN
    BY DEF Init
  <2>3. /\ uiBufferStatus \in [Buffer -> Status]
        /\ getting \in [Thread -> Getting]
        /\ held \in [Thread -> SUBSET Buffer]
    BY DEF Init, Status, Getting
  <2> QED BY <2>1, <2>2, <2>3 DEF Init, TypeOK, Pointer
<1>4. IsChain({}, NULL, pNextAllocated)
  BY FS_EmptySet, EmptyQueue DEF IsChain, Order, Orders
<1>5. ListsOK
  BY <1>2, <1>4, EmptyQueue, DequeEmpty DEF Init, ListsOK
<1>6. HandsOK
  BY <1>2 DEF Init, HandsOK
<1>7. SourceOK /\ DataOK
  BY <1>2 DEF Init, SourceOK, DataOK
<1> QED BY <1>3, <1>5, <1>6, <1>7 DEF Inv

\* The parts of the invariant, as the lemmas about the lists need them.
LEMMA InvParts ==
  ASSUME Inv
  PROVE  /\ TypeOK /\ HandsOK /\ SourceOK /\ DataOK
         /\ AllocatedOK /\ EmptyOK /\ FullOK
BY ListParts DEF Inv

\* The parts of the next state's invariant put together.
LEMMA InvJoin ==
  ASSUME TypeOK', HandsOK', SourceOK', DataOK', AllocatedOK', EmptyOK', FullOK'
  PROVE  Inv'
BY DEF Inv, ListsOK, AllocatedOK, EmptyOK, FullOK

LEMMA AddNewBufferKeeps ==
  ASSUME Inv, NEW b \in Buffer, AddNewBuffer(b)
  PROVE  Inv'
<1> USE InvParts
<1>1. uiBufferStatus[b] = "FREE" /\ b \notin Allocated /\ ~mixing
  BY DEF AddNewBuffer, Allocatable, Allocated
<1>2. uiBufferStatus' = [uiBufferStatus EXCEPT ![b] = "EMPTY"]
  BY DEF AddNewBuffer
<1>3. /\ Allocated' = Allocated \cup {b}
      /\ WithStatus("EMPTY")' = WithStatus("EMPTY") \cup {b}
      /\ WithStatus("FULL")' = WithStatus("FULL")
      /\ WithStatus("FILLING")' = WithStatus("FILLING")
      /\ b \notin WithStatus("EMPTY") /\ b \notin WithStatus("FULL")
  BY <1>1, <1>2 DEF WithStatus, Allocated, TypeOK
<1>4. TypeOK'
  <2>1. /\ pEmptyBufListHead' \in Pointer /\ pEmptyBufListLast' \in Pointer
        /\ pNextEmpty' \in [Buffer -> Pointer]
        /\ pPrevEmpty' \in [Buffer -> Pointer]
    BY DEF AddNewBuffer, PushEmptyHead, TypeOK, Pointer
  <2> QED BY <2>1, SizeAssumption DEF TypeOK, AddNewBuffer, Pointer, Status,
                                      LinkAllocated, mixVars, threadVars
<1>5. AllocatedOK'
  BY <1>1, <1>3, PushAllocated DEF AddNewBuffer, TypeOK
<1>6. EmptyOK'
  BY <1>3, PushKeeps DEF AddNewBuffer, TypeOK
<1>7. FullOK'
  BY <1>3, SameFull, StatusSets DEF AddNewBuffer, TypeOK
<1>8. HandsOK'
  BY <1>3 DEF HandsOK, AddNewBuffer, threadVars
<1>9. SourceOK' /\ DataOK'
  BY <1>1, <1>3, FullEnds
     DEF SourceOK, DataOK, AddNewBuffer, mixVars, WithStatus, TypeOK
<1> QED BY <1>4, <1>5, <1>6, <1>7, <1>8, <1>9, InvJoin

LEMMA ResizeBufferKeeps ==
  ASSUME Inv, NEW t \in Thread, NEW b \in Buffer, NEW c \in Buffer,
         ResizeBuffer(t, b, c)
  PROVE  Inv'
<1> USE InvParts
<1>1. /\ uiBufferStatus[b] = "FILLING" /\ b \in held[t] /\ b \in Allocated
      /\ uiBufferStatus[c] = "FREE" /\ c \notin Allocated /\ c # b /\ ~mixing
  BY DEF ResizeBuffer, Allocatable, Allocated
<1>2. uiBufferStatus' =
        [uiBufferStatus EXCEPT ![b] = "FREE", ![c] = "FILLING"]
  BY DEF ResizeBuffer
<1>3. /\ Allocated' = (Allocated \ {b}) \cup {c}
      /\ WithStatus("EMPTY")' = WithStatus("EMPTY")
      /\ WithStatus("FULL")' = WithStatus("FULL")
      /\ WithStatus("FILLING")' = (WithStatus("FILLING") \ {b}) \cup {c}
      /\ c \notin WithStatus("EMPTY") /\ c \notin WithStatus("FULL")
      /\ c \notin WithStatus("FILLING")
  BY <1>1, <1>2 DEF WithStatus, Allocated, TypeOK
<1>4. TypeOK'
  BY <1>1 DEF TypeOK, ResizeBuffer, Pointer, Status, RelinkAllocated, mixVars
<1>5. AllocatedOK'
  BY <1>1, <1>3, ReplaceAllocated DEF ResizeBuffer, TypeOK
<1>6. EmptyOK'
  BY <1>3, SameEmpty, StatusSets DEF ResizeBuffer, TypeOK
<1>7. FullOK'
  BY <1>3, SameFull, StatusSets DEF ResizeBuffer, TypeOK
<1>8. HandsOK'
  <2>1. /\ held \in [Thread -> SUBSET Buffer]
        /\ held' = [held EXCEPT ![t] = (@ \ {b}) \cup {c}]
    BY DEF ResizeBuffer, TypeOK
  <2>2. /\ WithStatus("FILLING") = UNION {held[u] : u \in Thread}
        /\ \A u, v \in Thread : u # v => held[u] \cap held[v] = {}
    BY DEF HandsOK
  <2>3. \A u \in Thread : c \notin held[u] /\ (u # t => b \notin held[u])
    BY <1>1, <1>3, <2>2
  <2>4. WithStatus("FILLING")' = UNION {held'[u] : u \in Thread}
    BY <1>1, <1>3, <2>1, <2>2, <2>3
  <2>5. \A u, v \in Thread : u # v => held'[u] \cap held'[v] = {}
    BY <2>1, <2>2, <2>3
  <2> QED BY <2>4, <2>5 DEF HandsOK
<1>9. SourceOK' /\ DataOK'
  BY <1>1, <1>3, FullEnds
     DEF SourceOK, DataOK, ResizeBuffer, mixVars, WithStatus, TypeOK
<1> QED BY <1>4, <1>5, <1>6, <1>7, <1>8, <1>9, InvJoin

LEMMA DestroyBufferKeeps ==
  ASSUME Inv, NEW t \in Thread, NEW b \in Buffer, DestroyBuffer(t, b)
  PROVE  Inv'
<1> USE InvParts
<1>1. /\ uiBufferStatus[b] = "FILLING" /\ b \in held[t] /\ b \in Allocated
      /\ ~mixing
  BY DEF DestroyBuffer, Allocated
<1>2. uiBufferStatus' = [uiBufferStatus EXCEPT ![b] = "FREE"]
  BY DEF DestroyBuffer
<1>3. /\ Allocated' = Allocated \ {b}
      /\ WithStatus("EMPTY")' = WithStatus("EMPTY")
      /\ WithStatus("FULL")' = WithStatus("FULL")
      /\ WithStatus("FILLING")' = WithStatus("FILLING") \ {b}
  BY <1>1, <1>2 DEF WithStatus, Allocated, TypeOK
<1>4. TypeOK'
  BY DEF TypeOK, DestroyBuffer, Pointer, Status, RelinkAllocated, emptyVars,
         fullVars, dataVars, mixVars
<1>5. AllocatedOK'
  BY <1>1, <1>3, RemoveAllocated DEF DestroyBuffer, TypeOK
<1>6. EmptyOK'
  BY <1>3, SameEmpty DEF DestroyBuffer, emptyVars
<1>7. FullOK'
  BY <1>3, SameFull DEF DestroyBuffer, fullVars
<1>8. HandsOK'
  BY <1>1, <1>3, HandsDrop DEF DestroyBuffer, TypeOK
<1>9. SourceOK' /\ DataOK'
  BY <1>1, <1>3 DEF SourceOK, DataOK, DestroyBuffer, mixVars, dataVars,
     fullVars
<1> QED BY <1>4, <1>5, <1>6, <1>7, <1>8, <1>9, InvJoin

LEMMA TakeEmptyKeeps ==
  ASSUME Inv, NEW t \in Thread, TakeEmpty(t)
  PROVE  Inv'
<1> USE InvParts
<1> DEFINE b == pEmptyBufListLast
<1>1. /\ b # NULL /\ b \in Buffer /\ uiBufferStatus[b] = "EMPTY" /\ ~mixing
      /\ b \notin WithStatus("FILLING")
  BY EmptyEnds DEF TakeEmpty, WithStatus
<1>2. /\ uiBufferStatus' = [uiBufferStatus EXCEPT ![b] = "FILLING"]
      /\ held' = [held EXCEPT ![t] = @ \cup {b}]
  BY DEF TakeEmpty
<1>3. /\ Allocated' = Allocated
      /\ WithStatus("EMPTY")' = WithStatus("EMPTY") \ {b}
      /\ WithStatus("FULL")' = WithStatus("FULL")
      /\ WithStatus("FILLING")' = WithStatus("FILLING") \cup {b}
  BY <1>1, <1>2 DEF WithStatus, Allocated, TypeOK
<1>4. TypeOK'
  <2>1. /\ pEmptyBufListHead' \in Pointer /\ pEmptyBufListLast' \in Pointer
        /\ pNextEmpty' \in [Buffer -> Pointer]
        /\ pPrevEmpty' \in [Buffer -> Pointer]
    BY <1>1 DEF TakeEmpty, UnlinkEmptyLast, TypeOK, Pointer
  <2>2. /\ uiBufferStatus' \in [Buffer -> Status]
        /\ held' \in [Thread -> SUBSET Buffer]
        /\ getting' \in [Thread -> Getting]
    BY <1>1, <1>2 DEF TakeEmpty, TypeOK, Status, Getting
  <2> QED BY <2>1, <2>2 DEF TypeOK, TakeEmpty, allocVars, fullVars, dataVars,
                            mixVars
<1>5. AllocatedOK'
  BY <1>3, SameAllocated DEF TakeEmpty
<1>6. EmptyOK'
  BY <1>1, <1>3, DropKeeps DEF TakeEmpty
<1>7. FullOK'
  BY <1>3, SameFull DEF TakeEmpty, fullVars
<1>8. HandsOK'
  BY <1>1, <1>2, <1>3, HandsTake DEF TypeOK
<1>9. SourceOK' /\ DataOK'
  BY <1>1, <1>3 DEF SourceOK, DataOK, TakeEmpty, mixVars, dataVars, fullVars
<1> QED BY <1>4, <1>5, <1>6, <1>7, <1>8, <1>9, InvJoin

\* The steps of AudMixGetEmptyBuffer() that touch no buffer.
LEMMA WaitingKeeps ==
  ASSUME Inv, TypeOK',
         UNCHANGED <<allocVars, emptyVars, fullVars, uiBufferStatus, dataVars,
                     mixVars, held>>
  PROVE  Inv'
<1> USE InvParts
<1>1. /\ Allocated' = Allocated
      /\ \A st : WithStatus(st)' = WithStatus(st)
  BY DEF Allocated, WithStatus
<1>2. AllocatedOK' /\ EmptyOK' /\ FullOK'
  BY <1>1 DEF AllocatedOK, EmptyOK, FullOK, allocVars, emptyVars, fullVars
<1>3. HandsOK'
  BY <1>1 DEF HandsOK
<1>4. SourceOK' /\ DataOK'
  BY <1>1 DEF SourceOK, DataOK, mixVars, dataVars, fullVars
<1> QED BY <1>2, <1>3, <1>4, InvJoin

LEMMA MissEmptyKeeps ==
  ASSUME Inv, NEW t \in Thread, NEW to \in {"no", "missed"}, MissEmpty(t, to)
  PROVE  Inv'
<1>1. TypeOK'
  BY InvParts DEF TypeOK, MissEmpty, Getting, allocVars, emptyVars, fullVars,
                  dataVars, mixVars
<1> QED BY <1>1, WaitingKeeps DEF MissEmpty

LEMMA GetEmptyBufferKeeps ==
  ASSUME Inv, NEW t \in Thread, GetEmptyBuffer(t) \/ RetryEmpty(t)
  PROVE  Inv'
BY TakeEmptyKeeps, MissEmptyKeeps DEF GetEmptyBuffer, RetryEmpty

LEMMA WaitForEmptyKeeps ==
  ASSUME Inv, NEW t \in Thread, WaitForEmpty(t) \/ WaitTimeout(t)
  PROVE  Inv'
<1>1. TypeOK'
  BY InvParts DEF TypeOK, WaitForEmpty, WaitTimeout, Getting, allocVars,
                  emptyVars, fullVars, dataVars, mixVars
<1> QED BY <1>1, WaitingKeeps DEF WaitForEmpty, WaitTimeout

\* A thread returns one buffer at a time, and only one it has.
LEMMA HandsStatus ==
  ASSUME Inv, NEW t \in Thread, NEW b \in held[t]
  PROVE  /\ b \in Buffer /\ uiBufferStatus[b] = "FILLING"
         /\ b \in WithStatus("FILLING")
BY InvParts DEF HandsOK, WithStatus, TypeOK

LEMMA PutEmptyBufferKeeps ==
  ASSUME Inv, NEW t \in Thread, NEW b \in Buffer, PutEmptyBuffer(t, b)
  PROVE  Inv'
<1> USE InvParts
<1>1. /\ b \in held[t] /\ uiBufferStatus[b] = "FILLING" /\ ~mixing
  BY HandsStatus DEF PutEmptyBuffer
<1>2. uiBufferStatus' = [uiBufferStatus EXCEPT ![b] = "EMPTY"]
  BY DEF PutEmptyBuffer
<1>3. /\ Allocated' = Allocated
      /\ WithStatus("EMPTY")' = WithStatus("EMPTY") \cup {b}
      /\ WithStatus("FULL")' = WithStatus("FULL")
      /\ WithStatus("FILLING")' = WithStatus("FILLING") \ {b}
      /\ b \notin WithStatus("EMPTY") /\ b \notin WithStatus("FULL")
  BY <1>1, <1>2 DEF WithStatus, Allocated, TypeOK
<1>4. TypeOK'
  <2>1. /\ pEmptyBufListHead' \in Pointer /\ pEmptyBufListLast' \in Pointer
        /\ pNextEmpty' \in [Buffer -> Pointer]
        /\ pPrevEmpty' \in [Buffer -> Pointer]
    BY DEF PutEmptyBuffer, AppendEmpty, TypeOK, Pointer
  <2> QED BY <2>1, SizeAssumption DEF TypeOK, PutEmptyBuffer, Pointer, Status,
                                      allocVars, mixVars
<1>5. AllocatedOK'
  BY <1>3, SameAllocated DEF PutEmptyBuffer
<1>6. EmptyOK'
  BY <1>3, AppendKeeps DEF PutEmptyBuffer, TypeOK
<1>7. FullOK'
  BY <1>3, SameFull, StatusSets DEF PutEmptyBuffer, TypeOK
<1>8. HandsOK'
  BY <1>1, <1>3, HandsDrop DEF PutEmptyBuffer, TypeOK
<1>9. SourceOK' /\ DataOK'
  BY <1>1, <1>3, FullEnds
     DEF SourceOK, DataOK, PutEmptyBuffer, mixVars, WithStatus, TypeOK
<1> QED BY <1>4, <1>5, <1>6, <1>7, <1>8, <1>9, InvJoin

LEMMA PutFullBufferKeeps ==
  ASSUME Inv, NEW t \in Thread, NEW b \in Buffer,
         NEW n \in 1..MaxData, NEW m \in BOOLEAN, PutFullBuffer(t, b, n, m)
  PROVE  Inv'
<1> USE InvParts
<1>1. /\ b \in held[t] /\ uiBufferStatus[b] = "FILLING" /\ ~mixing
  BY HandsStatus DEF PutFullBuffer
<1>2. /\ uiBufferStatus' = [uiBufferStatus EXCEPT ![b] = "FULL"]
      /\ uiDataInside' = [uiDataInside EXCEPT ![b] = n]
  BY DEF PutFullBuffer
<1>3. /\ Allocated' = Allocated
      /\ WithStatus("EMPTY")' = WithStatus("EMPTY")
      /\ WithStatus("FULL")' = WithStatus("FULL") \cup {b}
      /\ WithStatus("FILLING")' = WithStatus("FILLING") \ {b}
      /\ b \notin WithStatus("EMPTY") /\ b \notin WithStatus("FULL")
  BY <1>1, <1>2 DEF WithStatus, Allocated, TypeOK
<1>4. TypeOK'
  <2>1. /\ pFullBufListHead' \in Pointer /\ pFullBufListLast' \in Pointer
        /\ pNextFull' \in [Buffer -> Pointer]
    BY DEF PutFullBuffer, AppendFull, TypeOK, Pointer
  <2>2. uiDataInside' \in [Buffer -> 0..MaxData]
    BY <1>2, SizeAssumption DEF TypeOK
  <2>3. mixable' \in [Buffer -> BOOLEAN]
    BY DEF PutFullBuffer, TypeOK
  <2> QED BY <2>1, <2>2, <2>3 DEF TypeOK, PutFullBuffer, Pointer, Status,
                                  allocVars, mixVars
<1>5. AllocatedOK'
  BY <1>3, SameAllocated DEF PutFullBuffer
<1>6. EmptyOK'
  BY <1>3, SameEmpty, StatusSets DEF PutFullBuffer, TypeOK
<1>7. FullOK'
  BY <1>3, LinkFull DEF PutFullBuffer
<1>8. HandsOK'
  BY <1>1, <1>3, HandsDrop DEF PutFullBuffer, TypeOK
<1>9. SourceOK'
  <2>1. pSource # NULL =>
          /\ pSource \in WithStatus("FULL") /\ pSource = pFullBufListHead
          /\ pFullBufListLast # NULL /\ sourceOffset < uiDataInside[pSource]
    BY FullEnds DEF SourceOK
  <2>2. pSource # NULL => /\ pFullBufListHead' = pFullBufListHead
                          /\ uiDataInside'[pSource] = uiDataInside[pSource]
    BY <1>2, <1>3, <2>1 DEF PutFullBuffer, AppendFull, WithStatus, TypeOK
  <2> QED BY <1>1, <2>1, <2>2 DEF SourceOK, PutFullBuffer, mixVars
<1>10. DataOK'
  BY <1>2, <1>3, SizeAssumption, StatusSets
     DEF DataOK, PutFullBuffer, mixVars, TypeOK
<1> QED BY <1>4, <1>5, <1>6, <1>7, <1>8, <1>9, <1>10, InvJoin

-----------------------------------------------------------------------------
(* The mixer.                                                              *)

LEMMA MixStartKeeps ==
  ASSUME Inv, MixStart
  PROVE  Inv'
<1> USE InvParts
<1>1. /\ Allocated' = Allocated
      /\ \A st : WithStatus(st)' = WithStatus(st)
  BY DEF Allocated, WithStatus, MixStart
<1>2. /\ pFullBufListHead \in WithStatus("FULL") /\ pFullBufListHead \in Buffer
      /\ pFullBufListHead # NULL
      /\ uiDataInside[pFullBufListHead] > 0
  BY FullEnds DEF MixStart, DataOK
<1>3. TypeOK'
  BY <1>2, SizeAssumption DEF TypeOK, MixStart, Pointer, allocVars, emptyVars,
                              fullVars, dataVars, threadVars
<1>4. AllocatedOK' /\ EmptyOK' /\ FullOK'
  BY <1>1 DEF AllocatedOK, EmptyOK, FullOK, MixStart, allocVars, emptyVars,
              fullVars
<1>5. HandsOK'
  BY <1>1 DEF HandsOK, MixStart, threadVars
<1>6. SourceOK'
  BY <1>2, SizeAssumption DEF SourceOK, MixStart, dataVars, fullVars
<1>7. DataOK'
  BY <1>1, <1>2 DEF DataOK, MixStart, dataVars
<1> QED BY <1>3, <1>4, <1>5, <1>6, <1>7, InvJoin

\* FullEnds, of the next state.
HeadFull == pFullBufListHead # NULL => pFullBufListHead \in WithStatus("FULL")

LEMMA NextFullHead == FullOK' => HeadFull'
<1>1. FullOK => HeadFull
  BY FullEnds DEF HeadFull
<1> QED BY <1>1, PTL

\* A full buffer was consumed, and the mixer goes on or not.
LEMMA ConsumeKeeps ==
  ASSUME Inv, mixing, MoveFullBufferToEmpty, NextSource,
         NEW left \in 0..DestSize, MixContinue(left),
         UNCHANGED <<allocVars, dataVars, held>>
  PROVE  Inv'
<1> USE InvParts
<1> DEFINE b == pFullBufListHead
<1>1. /\ b # NULL /\ b \in Buffer /\ b \in WithStatus("FULL")
      /\ uiBufferStatus[b] = "FULL"
  BY FullEnds DEF SourceOK, WithStatus
<1>2. uiBufferStatus' = [uiBufferStatus EXCEPT ![b] = "EMPTY"]
  BY DEF MoveFullBufferToEmpty
<1>3. /\ Allocated' = Allocated
      /\ WithStatus("EMPTY")' = WithStatus("EMPTY") \cup {b}
      /\ WithStatus("FULL")' = WithStatus("FULL") \ {b}
      /\ WithStatus("FILLING")' = WithStatus("FILLING")
      /\ b \notin WithStatus("EMPTY")
  BY <1>1, <1>2 DEF WithStatus, Allocated, TypeOK
<1>4. /\ pNextFull[b] \in Pointer
      /\ pFullBufListHead' = pNextFull[b]
      /\ pSource' = pNextFull[b] /\ sourceOffset' = 0
  BY <1>1 DEF MoveFullBufferToEmpty, NextSource, TypeOK
<1>5. TypeOK'
  <2>1. /\ pEmptyBufListHead' \in Pointer /\ pEmptyBufListLast' \in Pointer
        /\ pNextEmpty' \in [Buffer -> Pointer]
        /\ pPrevEmpty' \in [Buffer -> Pointer]
    BY <1>1 DEF MoveFullBufferToEmpty, PushEmptyHead, TypeOK, Pointer
  <2>2. /\ pFullBufListHead' \in Pointer /\ pFullBufListLast' \in Pointer
        /\ pNextFull' \in [Buffer -> Pointer]
    BY <1>4 DEF MoveFullBufferToEmpty, TypeOK, Pointer
  <2>3. /\ uiBufferStatus' \in [Buffer -> Status]
        /\ hevMoved' \in BOOLEAN
        /\ getting' \in [Thread -> Getting]
    BY <1>2 DEF MoveFullBufferToEmpty, PostMoved, TypeOK, Status, Getting
  <2>4. pSource' \in Pointer /\ sourceOffset' \in 0..MaxData
    BY <1>4, SizeAssumption
  <2>5. mixing' \in BOOLEAN /\ room' \in 0..DestSize
    <3>1. mixing' \in BOOLEAN
      BY DEF MixContinue, TypeOK
    <3>2. room' \in 0..DestSize
      <4>1. room' = 0 \/ room' = left
        BY DEF MixContinue
      <4> QED BY <4>1, SizeAssumption
    <3> QED BY <3>1, <3>2
  <2> QED BY <2>1, <2>2, <2>3, <2>4, <2>5 DEF TypeOK, allocVars, dataVars
<1>6. AllocatedOK'
  BY <1>3, SameAllocated
<1>7. EmptyOK'
  BY <1>1, <1>3, PushKeeps DEF MoveFullBufferToEmpty, TypeOK
<1>8. FullOK'
  BY <1>1, <1>3, UnlinkFull DEF TypeOK
<1>9. HandsOK'
  BY <1>3 DEF HandsOK
<1>10. DataOK'
  BY <1>3, <1>4 DEF DataOK, dataVars
<1>11. SourceOK'
  <2>1. pFullBufListHead' # NULL => uiDataInside'[pFullBufListHead'] > 0
    BY <1>8, <1>10, NextFullHead DEF DataOK, HeadFull
  <2>2. mixing' => pFullBufListHead' # NULL /\ room' > 0
    BY DEF MixContinue
  <2> QED BY <1>4, <2>1, <2>2 DEF SourceOK
<1> QED BY <1>5, <1>6, <1>7, <1>8, <1>9, <1>10, <1>11, InvJoin

LEMMA MixSkipKeeps ==
  ASSUME Inv, MixSkip
  PROVE  Inv'
BY InvParts, ConsumeKeeps DEF MixSkip, TypeOK

LEMMA MixToSourceEndKeeps ==
  ASSUME Inv, MixToSourceEnd
  PROVE  Inv'
<1>1. PICK out \in 1..room : MixContinue(room - out)
  BY DEF MixToSourceEnd
<1>2. room - out \in 0..DestSize
  BY <1>1, InvParts, SizeAssumption DEF TypeOK
<1> QED BY <1>1, <1>2, ConsumeKeeps DEF MixToSourceEnd

LEMMA MixToDestEndKeeps ==
  ASSUME Inv, MixToDestEnd
  PROVE  Inv'
<1> USE InvParts
<1>1. PICK read \in (IF room = DestSize THEN 1 ELSE 0)..MaxData :
        /\ sourceOffset + read < uiDataInside[pFullBufListHead]
        /\ sourceOffset' = sourceOffset + read
  BY DEF MixToDestEnd
<1>2. /\ Allocated' = Allocated
      /\ \A st : WithStatus(st)' = WithStatus(st)
  BY DEF Allocated, WithStatus, MixToDestEnd
<1>3. /\ pSource = pFullBufListHead /\ pSource # NULL
      /\ pFullBufListHead \in Buffer
  BY FullEnds DEF MixToDestEnd, SourceOK
<1>4. sourceOffset' \in 0..MaxData /\ room' \in 0..DestSize
  BY <1>1, <1>3, SizeAssumption DEF MixToDestEnd, TypeOK
<1>5. TypeOK'
  BY <1>4 DEF TypeOK, MixToDestEnd, allocVars, emptyVars, fullVars, dataVars,
              threadVars
<1>6. AllocatedOK' /\ EmptyOK' /\ FullOK'
  BY <1>2 DEF AllocatedOK, EmptyOK, FullOK, MixToDestEnd, allocVars,
              emptyVars, fullVars
<1>7. HandsOK'
  BY <1>2 DEF HandsOK, MixToDestEnd, threadVars
<1>8. SourceOK' /\ DataOK'
  BY <1>1, <1>2, <1>3 DEF SourceOK, DataOK, MixToDestEnd, dataVars, fullVars
<1> QED BY <1>5, <1>6, <1>7, <1>8, InvJoin

LEMMA InvNext ==
  ASSUME Inv, [Next]_vars
  PROVE  Inv'
<1>1. CASE Mix
  BY <1>1, MixStartKeeps, MixSkipKeeps, MixToSourceEndKeeps, MixToDestEndKeeps
     DEF Mix
<1>2. ASSUME NEW t \in Thread, ThreadNext(t) PROVE Inv'
  BY <1>2, GetEmptyBufferKeeps, WaitForEmptyKeeps, AddNewBufferKeeps,
     DestroyBufferKeeps, PutEmptyBufferKeeps, ResizeBufferKeeps,
     PutFullBufferKeeps DEF ThreadNext
<1>3. CASE UNCHANGED vars
  <2>1. TypeOK'
    BY <1>3, InvParts DEF TypeOK, vars, allocVars, emptyVars, fullVars,
                          dataVars, mixVars, threadVars
  <2> QED BY <1>3, <2>1, WaitingKeeps DEF vars, threadVars
<1> QED BY <1>1, <1>2, <1>3 DEF Next

-----------------------------------------------------------------------------
LEMMA InvCorrect == Spec => []Inv
<1>1. Inv /\ [Next]_vars => Inv'
  BY InvNext
<1> QED BY InvInit, <1>1, PTL DEF Spec

\* Every field of the client and its buffers keeps its type: the counters
\* stay in their ranges, the pointers are NULL or point at a descriptor.
THEOREM TypeCorrect == Spec => []TypeOK
<1>1. Inv => TypeOK
  BY DEF Inv
<1> QED BY InvCorrect, <1>1, PTL

\* The three lists of a client hold exactly the buffers whose status says
\* so, whatever the threads and the mixer do with them.
THEOREM ListsCorrect == Spec => []ListsOK
<1>1. Inv => ListsOK
  BY DEF Inv
<1> QED BY InvCorrect, <1>1, PTL

\* A buffer that is being filled belongs to one thread.
THEOREM HandsCorrect == Spec => []HandsOK
<1>1. Inv => HandsOK
  BY DEF Inv
<1> QED BY InvCorrect, <1>1, PTL

\* The source pointer of the mixer never points behind the data, nor into a
\* buffer that is not the first full one.
THEOREM SourceCorrect == Spec => []SourceOK
<1>1. Inv => SourceOK
  BY DEF Inv
<1> QED BY InvCorrect, <1>1, PTL

-----------------------------------------------------------------------------
(* AudMixPool is implemented.                                              *)

LEMMA BehindAppends ==
  ASSUME NEW n \in Nat, NEW S, NEW s \in [1..n -> S], NEW x \in S
  PROVE  Behind(s, n, x) = Append(s, x)
<1> DEFINE t == Behind(s, n, x)
<1>1. s \in Seq(S) /\ Len(s) = n
  OBVIOUS
<1>2. t \in [1..(n + 1) -> S]
  BY DEF Behind
<1>3. t \in Seq(S) /\ Len(t) = n + 1
  BY <1>2
<1>4. \A i \in 1..(n + 1) : t[i] = IF i = n + 1 THEN x ELSE s[i]
  BY DEF Behind
<1> HIDE DEF t
<1>5. /\ Append(s, x) \in Seq(S) /\ Len(Append(s, x)) = n + 1
      /\ \A i \in 1..n : Append(s, x)[i] = s[i]
      /\ Append(s, x)[n + 1] = x
  BY <1>1
<1>6. \A i \in 1..Len(t) : t[i] = Append(s, x)[i]
  <2> SUFFICES ASSUME NEW i \in 1..(n + 1) PROVE t[i] = Append(s, x)[i]
    BY <1>3
  <2>1. i \in 1..n \/ i = n + 1
    OBVIOUS
  <2>2. i \in 1..n => i # n + 1
    OBVIOUS
  <2> QED BY <2>1, <2>2, <1>4, <1>5
<1>7. t = Append(s, x)
  BY <1>3, <1>5, <1>6, SeqEqual
<1> QED BY <1>7 DEF t

LEMMA RestIsTail ==
  ASSUME NEW n \in Nat, n >= 1, NEW S, NEW s \in [1..n -> S]
  PROVE  s # <<>> /\ Head(s) = s[1] /\ Rest(s, n) = Tail(s)
<1> DEFINE t == Rest(s, n)
<1>1. s \in Seq(S) /\ Len(s) = n /\ s # <<>>
  OBVIOUS
<1>2. t \in [1..(n - 1) -> S]
  BY DEF Rest
<1>3. t \in Seq(S) /\ Len(t) = n - 1
  BY <1>2
<1>4. \A i \in 1..(n - 1) : t[i] = s[i + 1]
  BY DEF Rest
<1> HIDE DEF t
<1>5. /\ Tail(s) \in Seq(S) /\ Len(Tail(s)) = Len(s) - 1
      /\ \A i \in 1..Len(Tail(s)) : Tail(s)[i] = s[i + 1]
  BY <1>1, HeadTailProperties
<1>6. t = Tail(s)
  BY <1>1, <1>3, <1>4, <1>5, SeqEqual
<1> QED BY <1>1, <1>6 DEF t

\* Who owns a buffer follows from its status and from who holds it.
OwnersOK ==
  \A b \in Buffer :
    /\ uiBufferStatus[b] = "FREE" => Owner[b] = "none"
    /\ uiBufferStatus[b] = "EMPTY" => Owner[b] = "pool"
    /\ uiBufferStatus[b] = "FULL" => Owner[b] = "queue"
    /\ uiBufferStatus[b] = "FILLING" =>
         \E t \in Thread : b \in held[t] /\ Owner[b] = t
    /\ \A t \in Thread : b \in held[t] => Owner[b] = t

LEMMA OwnersFollow == Inv => OwnersOK
<1> SUFFICES ASSUME Inv, NEW b \in Buffer
             PROVE  OwnersOK!(b)
  BY DEF OwnersOK
<1> USE InvParts
<1>1. \A t \in Thread : b \in held[t] =>
        /\ uiBufferStatus[b] = "FILLING"
        /\ \A u \in Thread : b \in held[u] => u = t
  BY DEF HandsOK, WithStatus
<1>2. uiBufferStatus[b] = "FILLING" => \E t \in Thread : b \in held[t]
  BY DEF HandsOK, WithStatus
<1>3. uiBufferStatus[b] = "FILLING" =>
        Owner[b] = CHOOSE t \in Thread : b \in held[t]
  BY DEF Owner
<1>4. \A t \in Thread : b \in held[t] =>
        (CHOOSE u \in Thread : b \in held[u]) = t
  BY <1>1
<1>5. /\ uiBufferStatus[b] = "FREE" => Owner[b] = "none"
      /\ uiBufferStatus[b] = "EMPTY" => Owner[b] = "pool"
      /\ uiBufferStatus[b] = "FULL" => Owner[b] = "queue"
  BY DEF Owner
<1> QED BY <1>1, <1>2, <1>3, <1>4, <1>5

LEMMA NextOwners == Inv' => OwnersOK'
BY OwnersFollow, PTL

\* A buffer that keeps its status and its holder keeps its owner.
LEMMA SameOwner ==
  ASSUME Inv, Inv', NEW b \in Buffer, uiBufferStatus'[b] = uiBufferStatus[b],
         \A t \in Thread : b \in held[t] => b \in held'[t]
  PROVE  Owner'[b] = Owner[b]
<1>1. OwnersOK /\ OwnersOK'
  BY OwnersFollow, NextOwners
<1>2. uiBufferStatus[b] \in Status
  BY InvParts DEF TypeOK
<1> QED BY <1>1, <1>2 DEF OwnersOK, Status

\* One buffer changes hands.
LEMMA OwnerPasses ==
  ASSUME Inv, Inv', NEW b \in Buffer, NEW o, Owner'[b] = o,
         \A x \in Buffer \ {b} :
           /\ uiBufferStatus'[x] = uiBufferStatus[x]
           /\ \A t \in Thread : x \in held[t] => x \in held'[t]
  PROVE  Owner' = [Owner EXCEPT ![b] = o]
<1>1. \A x \in Buffer \ {b} : Owner'[x] = Owner[x]
  BY SameOwner
<1>2. /\ Owner = [x \in Buffer |-> Owner[x]]
      /\ Owner' = [x \in Buffer |-> Owner'[x]]
  BY DEF Owner
<1> QED BY <1>1, <1>2

LEMMA SameOwners ==
  ASSUME Inv, UNCHANGED <<uiBufferStatus, held>>
  PROVE  Owner' = Owner
BY DEF Owner

\* The order of the full buffers, as an enumeration.
LEMMA FullQueueOrder ==
  ASSUME FullOK
  PROVE  /\ Cardinality(WithStatus("FULL")) \in Nat
         /\ FullQueue \in [1..Cardinality(WithStatus("FULL"))
                             -> WithStatus("FULL")]
BY StatusSets, QueueOrder DEF FullOK, FullQueue, Order, Orders

\* The steps that leave the full buffers alone.
LEMMA SameQueue ==
  ASSUME Inv, UNCHANGED <<pFullBufListHead, pFullBufListLast>>,
         WithStatus("FULL")' = WithStatus("FULL"),
         \A y \in WithStatus("FULL") : pNextFull'[y] = pNextFull[y]
  PROVE  FullQueue' = FullQueue
BY SameFull, InvParts

LEMMA AddNewBufferCreates ==
  ASSUME Inv, Inv', NEW b \in Buffer, AddNewBuffer(b)
  PROVE  Pool!Create(b)
<1> USE InvParts
<1>1. /\ uiBufferStatus[b] = "FREE"
      /\ uiBufferStatus' = [uiBufferStatus EXCEPT ![b] = "EMPTY"]
      /\ held' = held /\ sourceOffset' = sourceOffset
      /\ pNextFull' = [pNextFull EXCEPT ![b] = NULL]
      /\ UNCHANGED <<pFullBufListHead, pFullBufListLast>>
  BY DEF AddNewBuffer, Allocatable, threadVars, mixVars
<1>2. /\ WithStatus("FULL")' = WithStatus("FULL")
      /\ uiBufferStatus'[b] = "EMPTY"
  BY <1>1 DEF WithStatus, TypeOK
<1>3. Owner[b] = "none" /\ Owner'[b] = "pool"
  BY <1>1, <1>2, OwnersFollow, NextOwners DEF OwnersOK
<1>4. \A x \in Buffer \ {b} : uiBufferStatus'[x] = uiBufferStatus[x]
  BY <1>1 DEF TypeOK
<1>5. Owner' = [Owner EXCEPT ![b] = "pool"]
  BY <1>1, <1>3, <1>4, OwnerPasses
<1>6. FullQueue' = FullQueue
  BY <1>1, <1>2, SameQueue, StatusSets DEF TypeOK, WithStatus
<1> QED BY <1>1, <1>3, <1>5, <1>6 DEF Pool!Create, Pool!Pass

LEMMA ResizeBufferExchanges ==
  ASSUME Inv, Inv', NEW t \in Thread, NEW b \in Buffer, NEW c \in Buffer,
         ResizeBuffer(t, b, c)
  PROVE  Pool!Exchange(t, b, c)
<1> USE InvParts
<1>1. /\ uiBufferStatus[b] = "FILLING" /\ b \in held[t]
      /\ uiBufferStatus[c] = "FREE" /\ b # c
      /\ uiBufferStatus' =
           [uiBufferStatus EXCEPT ![b] = "FREE", ![c] = "FILLING"]
      /\ held' = [held EXCEPT ![t] = (@ \ {b}) \cup {c}]
      /\ sourceOffset' = sourceOffset
      /\ pNextFull' = [pNextFull EXCEPT ![c] = pNextFull[b]]
      /\ UNCHANGED <<pFullBufListHead, pFullBufListLast>>
  BY DEF ResizeBuffer, Allocatable, mixVars
<1>2. /\ WithStatus("FULL")' = WithStatus("FULL")
      /\ uiBufferStatus'[b] = "FREE" /\ c \in held'[t]
  BY <1>1 DEF WithStatus, TypeOK
<1>3. /\ Owner[b] = t /\ Owner[c] = "none"
      /\ Owner'[b] = "none" /\ Owner'[c] = t
  BY <1>1, <1>2, OwnersFollow, NextOwners DEF OwnersOK
<1>4. \A x \in Buffer \ {b, c} :
        /\ uiBufferStatus'[x] = uiBufferStatus[x]
        /\ \A u \in Thread : x \in held[u] => x \in held'[u]
  BY <1>1 DEF TypeOK
<1>5. \A x \in Buffer \ {b, c} : Owner'[x] = Owner[x]
  BY <1>4, SameOwner
<1>6. /\ Owner = [x \in Buffer |-> Owner[x]]
      /\ Owner' = [x \in Buffer |-> Owner'[x]]
  BY DEF Owner
<1>7. Owner' = [Owner EXCEPT ![b] = "none", ![c] = t]
  BY <1>1, <1>3, <1>5, <1>6
<1>8. FullQueue' = FullQueue
  BY <1>1, <1>2, SameQueue, StatusSets DEF TypeOK, WithStatus
<1> QED BY <1>1, <1>3, <1>7, <1>8 DEF Pool!Exchange

LEMMA DestroyBufferDestroys ==
  ASSUME Inv, Inv', NEW t \in Thread, NEW b \in Buffer, DestroyBuffer(t, b)
  PROVE  Pool!Destroy(t, b)
<1> USE InvParts
<1>1. /\ uiBufferStatus[b] = "FILLING" /\ b \in held[t]
      /\ uiBufferStatus' = [uiBufferStatus EXCEPT ![b] = "FREE"]
      /\ held' = [held EXCEPT ![t] = @ \ {b}]
      /\ sourceOffset' = sourceOffset
      /\ UNCHANGED <<pFullBufListHead, pFullBufListLast, pNextFull>>
  BY DEF DestroyBuffer, mixVars, fullVars
<1>2. /\ WithStatus("FULL")' = WithStatus("FULL")
      /\ uiBufferStatus'[b] = "FREE"
  BY <1>1 DEF WithStatus, TypeOK
<1>3. Owner[b] = t /\ Owner'[b] = "none"
  BY <1>1, <1>2, OwnersFollow, NextOwners DEF OwnersOK
<1>4. \A x \in Buffer \ {b} :
        /\ uiBufferStatus'[x] = uiBufferStatus[x]
        /\ \A u \in Thread : x \in held[u] => x \in held'[u]
  BY <1>1 DEF TypeOK
<1>5. Owner' = [Owner EXCEPT ![b] = "none"]
  BY <1>3, <1>4, OwnerPasses
<1>6. FullQueue' = FullQueue
  BY <1>1, <1>2, SameQueue
<1> QED BY <1>1, <1>3, <1>5, <1>6 DEF Pool!Destroy, Pool!Pass

LEMMA TakeEmptyAcquires ==
  ASSUME Inv, Inv', NEW t \in Thread, TakeEmpty(t)
  PROVE  \E b \in Buffer : Pool!Acquire(t, b)
<1> USE InvParts
<1> DEFINE b == pEmptyBufListLast
<1>1. /\ b \in Buffer /\ uiBufferStatus[b] = "EMPTY"
      /\ uiBufferStatus' = [uiBufferStatus EXCEPT ![b] = "FILLING"]
      /\ held' = [held EXCEPT ![t] = @ \cup {b}]
      /\ sourceOffset' = sourceOffset
      /\ UNCHANGED <<pFullBufListHead, pFullBufListLast, pNextFull>>
  BY EmptyEnds DEF TakeEmpty, mixVars, fullVars, WithStatus
<1> HIDE DEF b
<1>2. /\ WithStatus("FULL")' = WithStatus("FULL") /\ b \in held'[t]
  BY <1>1 DEF WithStatus, TypeOK
<1>3. Owner[b] = "pool" /\ Owner'[b] = t
  BY <1>1, <1>2, OwnersFollow, NextOwners DEF OwnersOK
<1>4. \A x \in Buffer \ {b} :
        /\ uiBufferStatus'[x] = uiBufferStatus[x]
        /\ \A u \in Thread : x \in held[u] => x \in held'[u]
  BY <1>1 DEF TypeOK
<1>5. Owner' = [Owner EXCEPT ![b] = t]
  BY <1>1, <1>3, <1>4, OwnerPasses
<1>6. FullQueue' = FullQueue
  BY <1>1, <1>2, SameQueue
<1> QED BY <1>1, <1>3, <1>5, <1>6 DEF Pool!Acquire, Pool!Pass

LEMMA PutEmptyBufferGivesBack ==
  ASSUME Inv, Inv', NEW t \in Thread, NEW b \in Buffer, PutEmptyBuffer(t, b)
  PROVE  Pool!GiveBack(t, b)
<1> USE InvParts
<1>1. /\ uiBufferStatus[b] = "FILLING" /\ b \in held[t]
      /\ uiBufferStatus' = [uiBufferStatus EXCEPT ![b] = "EMPTY"]
      /\ held' = [held EXCEPT ![t] = @ \ {b}]
      /\ sourceOffset' = sourceOffset
      /\ pNextFull' = [pNextFull EXCEPT ![b] = NULL]
      /\ UNCHANGED <<pFullBufListHead, pFullBufListLast>>
  BY HandsStatus DEF PutEmptyBuffer, mixVars
<1>2. /\ WithStatus("FULL")' = WithStatus("FULL")
      /\ uiBufferStatus'[b] = "EMPTY"
  BY <1>1 DEF WithStatus, TypeOK
<1>3. Owner[b] = t /\ Owner'[b] = "pool"
  BY <1>1, <1>2, OwnersFollow, NextOwners DEF OwnersOK
<1>4. \A x \in Buffer \ {b} :
        /\ uiBufferStatus'[x] = uiBufferStatus[x]
        /\ \A u \in Thread : x \in held[u] => x \in held'[u]
  BY <1>1 DEF TypeOK
<1>5. Owner' = [Owner EXCEPT ![b] = "pool"]
  BY <1>3, <1>4, OwnerPasses
<1>6. FullQueue' = FullQueue
  BY <1>1, <1>2, SameQueue, StatusSets DEF TypeOK, WithStatus
<1> QED BY <1>1, <1>3, <1>5, <1>6 DEF Pool!GiveBack, Pool!Pass

LEMMA PutFullBufferSubmits ==
  ASSUME Inv, Inv', NEW t \in Thread, NEW b \in Buffer,
         NEW n \in 1..MaxData, NEW m \in BOOLEAN, PutFullBuffer(t, b, n, m)
  PROVE  Pool!Submit(t, b)
<1> USE InvParts
<1>1. /\ uiBufferStatus[b] = "FILLING" /\ b \in held[t]
      /\ uiBufferStatus' = [uiBufferStatus EXCEPT ![b] = "FULL"]
      /\ held' = [held EXCEPT ![t] = @ \ {b}]
      /\ sourceOffset' = sourceOffset
      /\ AppendFull(b)
  BY HandsStatus DEF PutFullBuffer, mixVars
<1>2. /\ WithStatus("FULL")' = WithStatus("FULL") \cup {b}
      /\ b \notin WithStatus("FULL")
      /\ uiBufferStatus'[b] = "FULL"
  BY <1>1 DEF WithStatus, TypeOK
<1>3. Owner[b] = t /\ Owner'[b] = "queue"
  BY <1>1, <1>2, OwnersFollow, NextOwners DEF OwnersOK
<1>4. \A x \in Buffer \ {b} :
        /\ uiBufferStatus'[x] = uiBufferStatus[x]
        /\ \A u \in Thread : x \in held[u] => x \in held'[u]
  BY <1>1 DEF TypeOK
<1>5. Owner' = [Owner EXCEPT ![b] = "queue"]
  BY <1>3, <1>4, OwnerPasses
<1>6. FullQueue' = Behind(FullQueue, Cardinality(WithStatus("FULL")), b)
  BY <1>1, <1>2, LinkFull
<1>7. FullQueue' = Append(FullQueue, b)
  <2>1. FullQueue \in [1..Cardinality(WithStatus("FULL")) -> Buffer]
    BY FullQueueOrder, StatusSets
  <2> QED BY <1>6, <2>1, FullQueueOrder, BehindAppends
<1> QED BY <1>1, <1>3, <1>5, <1>7 DEF Pool!Submit, Pool!Pass

LEMMA ConsumeFinishes ==
  ASSUME Inv, Inv', mixing, MoveFullBufferToEmpty, NextSource, held' = held
  PROVE  Pool!Finish
<1> USE InvParts
<1> DEFINE b == pFullBufListHead
           n == Cardinality(WithStatus("FULL"))
<1>1. /\ b # NULL /\ b \in Buffer /\ uiBufferStatus[b] = "FULL"
      /\ uiBufferStatus' = [uiBufferStatus EXCEPT ![b] = "EMPTY"]
      /\ sourceOffset' = 0
  BY FullEnds DEF SourceOK, WithStatus, MoveFullBufferToEmpty, NextSource
<1>2. /\ WithStatus("FULL")' = WithStatus("FULL") \ {b}
      /\ uiBufferStatus'[b] = "EMPTY"
  BY <1>1 DEF WithStatus, TypeOK
<1>3. Owner[b] = "queue" /\ Owner'[b] = "pool"
  BY <1>1, <1>2, OwnersFollow, NextOwners DEF OwnersOK
<1>4. \A x \in Buffer \ {b} : uiBufferStatus'[x] = uiBufferStatus[x]
  BY <1>1 DEF TypeOK
<1>5. Owner' = [Owner EXCEPT ![b] = "pool"]
  BY <1>1, <1>3, <1>4, OwnerPasses
<1>6. /\ n >= 1 /\ FullQueue' = Rest(FullQueue, n)
      /\ FullQueue[1] = b
  BY <1>1, <1>2, UnlinkFull DEF TypeOK
<1>7. /\ FullQueue # <<>> /\ Head(FullQueue) = b
      /\ FullQueue' = Tail(FullQueue)
  BY <1>6, FullQueueOrder, RestIsTail
<1> QED BY <1>1, <1>3, <1>5, <1>7 DEF Pool!Finish, Pool!Pass

\* The steps that are none of AudMixPool's.
LEMMA SamePool ==
  ASSUME UNCHANGED <<uiBufferStatus, held, fullVars, sourceOffset>>
  PROVE  UNCHANGED Pool!vars
BY DEF Pool!vars, Owner, FullQueue, WithStatus, fullVars

LEMMA MixToDestEndReads ==
  ASSUME Inv, MixToDestEnd
  PROVE  [Pool!Next]_(Pool!vars)
<1> USE InvParts
<1>1. PICK read \in (IF room = DestSize THEN 1 ELSE 0)..MaxData :
        sourceOffset' = sourceOffset + read
  BY DEF MixToDestEnd
<1>2. UNCHANGED <<Owner, FullQueue>>
  BY DEF MixToDestEnd, Owner, FullQueue, WithStatus, fullVars, threadVars
<1>3. CASE read = 0
  <2>1. sourceOffset' = sourceOffset
    BY <1>1, <1>3 DEF TypeOK
  <2> QED BY <2>1, <1>2 DEF Pool!vars
<1>4. CASE read > 0
  <2>1. sourceOffset' > sourceOffset
    BY <1>1, <1>4 DEF TypeOK
  <2>2. FullQueue # <<>>
    <3>1. WithStatus("FULL") # {} /\ IsFiniteSet(WithStatus("FULL"))
      BY FullEnds, StatusSets DEF MixToDestEnd, SourceOK
    <3>2. Cardinality(WithStatus("FULL")) >= 1
      BY <3>1, FullQueueOrder, FS_EmptySet
    <3> QED BY <3>2, FullQueueOrder, RestIsTail
  <2> QED BY <2>1, <2>2, <1>2 DEF Pool!Read, Pool!Next
<1> QED BY <1>1, <1>3, <1>4

LEMMA PoolInit == Init => Pool!Init
<1> SUFFICES ASSUME Init PROVE Pool!Init
  OBVIOUS
<1>1. Owner = [b \in Buffer |-> "none"]
  BY DEF Init, Owner
<1>2. WithStatus("FULL") = {}
  BY DEF Init, WithStatus
<1>3. FullQueue = <<>>
  <2>1. Cardinality(WithStatus("FULL")) = 0 /\ FullOK
    BY <1>2, FS_EmptySet, EmptyQueue DEF Init, FullOK
  <2>2. FullQueue \in [1..0 -> WithStatus("FULL")]
    BY <2>1, FullQueueOrder
  <2> QED BY <2>2
<1> QED BY <1>1, <1>3 DEF Init, Pool!Init

LEMMA PoolNext ==
  ASSUME Inv, Inv', [Next]_vars
  PROVE  [Pool!Next]_(Pool!vars)
<1>1. ASSUME MixStart PROVE UNCHANGED Pool!vars
  <2>1. sourceOffset' = sourceOffset
    BY <1>1, InvParts DEF MixStart, DataOK
  <2> QED BY <1>1, <2>1, SamePool DEF MixStart, threadVars
<1>2. ASSUME MixSkip \/ MixToSourceEnd PROVE Pool!Next
  <2>1. Pool!Finish
    BY <1>2, ConsumeFinishes DEF MixSkip, MixToSourceEnd
  <2> QED BY <2>1 DEF Pool!Next
<1>3. ASSUME NEW t \in Thread, TakeEmpty(t) PROVE Pool!Next
  BY <1>3, TakeEmptyAcquires DEF Pool!Next
<1>4. ASSUME NEW t \in Thread, NEW to, MissEmpty(t, to)
      PROVE  UNCHANGED Pool!vars
  BY <1>4, SamePool DEF MissEmpty, mixVars
<1>5. ASSUME NEW t \in Thread, GetEmptyBuffer(t) \/ RetryEmpty(t)
      PROVE  [Pool!Next]_(Pool!vars)
  BY <1>3, <1>4, <1>5 DEF GetEmptyBuffer, RetryEmpty
<1>6. ASSUME NEW t \in Thread, WaitForEmpty(t) \/ WaitTimeout(t)
      PROVE  UNCHANGED Pool!vars
  BY <1>6, SamePool DEF WaitForEmpty, WaitTimeout, mixVars
<1>7. ASSUME NEW t \in Thread, NEW b \in Buffer,
             \/ AddNewBuffer(b) \/ DestroyBuffer(t, b) \/ PutEmptyBuffer(t, b)
             \/ \E c \in Buffer : ResizeBuffer(t, b, c)
             \/ \E n \in 1..MaxData, m \in BOOLEAN : PutFullBuffer(t, b, n, m)
      PROVE  Pool!Next
  BY <1>7, AddNewBufferCreates, DestroyBufferDestroys, PutEmptyBufferGivesBack,
     ResizeBufferExchanges, PutFullBufferSubmits DEF Pool!Next
<1>8. CASE UNCHANGED vars
  BY <1>8, SamePool DEF vars, mixVars, threadVars
<1>9. CASE Mix
  BY <1>9, <1>1, <1>2, MixToDestEndReads DEF Mix
<1>10. ASSUME NEW t \in Thread, ThreadNext(t) PROVE [Pool!Next]_(Pool!vars)
  BY <1>10, <1>5, <1>6, <1>7 DEF ThreadNext
<1> QED BY <1>8, <1>9, <1>10 DEF Next

\* What PoolSpec promises, except that every full buffer comes back: each
\* buffer has one owner, the full ones are read in the order in which they
\* were put, and none is given back before it was read to its end.
THEOREM PoolCorrect == Spec => Pool!OwnerSpec
<1>1. Inv /\ Inv' /\ [Next]_vars => [Pool!Next]_(Pool!vars)
  BY PoolNext
<1> QED BY PoolInit, InvCorrect, <1>1, PTL DEF Spec, Pool!OwnerSpec

-----------------------------------------------------------------------------
(* AudMixMixer. *)

USE NumMixBuffersAssumption, StampAssumption, ClientAssumption

-----------------------------------------------------------------------------
(* Type correctness, with what the walk through the list needs.            *)

\* Outside the walk there is nothing left to visit.
WalkOK == round # "walking" => todo = {} /\ visiting = NoClient

TypeInv == MixerTypeOK /\ WalkOK

\* A slot moves up in a function on the slots.
LEMMA ShiftType ==
  ASSUME NEW T, NEW f \in [Slot -> T], NEW x \in T
  PROVE  Shift(f, x) \in [Slot -> T]
  BY DEF Shift, Slot

LEMMA InitType == MixerInit => TypeInv
  BY DEF MixerInit, TypeInv, MixerTypeOK, WalkOK, Never, Silent, Slot

LEMMA StepType == TypeInv /\ [MixerNext]_mixerVars => TypeInv'
<1> USE DEF listVars, stampVars, soundVars, readVars, playVars
<1> SUFFICES ASSUME TypeInv, [MixerNext]_mixerVars PROVE TypeInv'
  OBVIOUS
<1>1. CASE DARTEventFunc
  BY <1>1 DEF TypeInv, MixerTypeOK, WalkOK, DARTEventFunc, MoreSilence, Slot
<1>2. CASE LockList
  BY <1>2 DEF TypeInv, MixerTypeOK, WalkOK, LockList
<1>3. CASE LockListTimeout
  BY <1>3 DEF TypeInv, MixerTypeOK, WalkOK, LockListTimeout
<1>4. CASE UnlockList
  BY <1>4 DEF TypeInv, MixerTypeOK, WalkOK, UnlockList
<1>5. CASE WriteBuffer
  <2>1. dart[1] \in SUBSET Client /\ fed \in SUBSET Client
        /\ pWorkBuffer \in SUBSET Client
    BY DEF TypeInv, MixerTypeOK, Slot
  <2>2. dart' \in [Slot -> SUBSET Client]
    BY <1>5, <2>1, ShiftType DEF TypeInv, MixerTypeOK, WriteBuffer
  <2>3. fedAt' \in [Slot -> SUBSET Client]
    BY <1>5, <2>1, ShiftType DEF TypeInv, MixerTypeOK, WriteBuffer
  <2>4. \A c \in Client : Shift(end[c], now[c]) \in [Slot -> Stamp]
    BY ShiftType DEF TypeInv, MixerTypeOK
  <2>5. end' \in [Client -> [Slot -> Stamp]]
    BY <1>5, <2>4 DEF WriteBuffer
  <2> QED
    BY <1>5, <2>2, <2>3, <2>5 DEF TypeInv, MixerTypeOK, WalkOK, WriteBuffer
<1>6. ASSUME NEW c \in Client, ReportStamp(c) PROVE TypeInv'
  BY <1>6 DEF TypeInv, MixerTypeOK, WalkOK, ReportStamp, Slot
<1>7. ASSUME NEW c \in Client, MissClient(c) PROVE TypeInv'
  BY <1>7 DEF TypeInv, MixerTypeOK, WalkOK, MissClient
<1>8. ASSUME NEW c \in Client, NEW stamp \in Stamp, StampClient(c, stamp)
      PROVE  /\ pullTimeStampsAtHW' \in [Client -> [Slot -> Stamp]]
             /\ timTimeStampTime' \in [Client -> Stamp]
             /\ todo' \subseteq clients /\ visiting' = NoClient
             /\ round = "walking"
  <2>1. Shift(pullTimeStampsAtHW[c], stamp) \in [Slot -> Stamp]
    BY ShiftType DEF TypeInv, MixerTypeOK
  <2> QED
    BY <1>8, <2>1 DEF TypeInv, MixerTypeOK, WalkOK, StampClient, Slot
<1>9. ASSUME NEW c \in Client, MixNothing(c) PROVE TypeInv'
  <2>1. pullTimeStampsAtHW[c][NumMixBuffers] \in Stamp
    BY DEF TypeInv, MixerTypeOK, Slot
  <2> QED
    BY <1>8, <1>9, <2>1 DEF TypeInv, MixerTypeOK, WalkOK, MixNothing,
       StampClient
<1>10. ASSUME NEW c \in Client, NEW stamp \in Stamp, NEW sound \in {{}, {c}},
              MixClient(c, stamp, sound)
       PROVE  TypeInv'
  <2>1. StampClient(c, stamp)
    BY <1>10 DEF MixClient
  <2>2. /\ pullTimeStampsAtHW' \in [Client -> [Slot -> Stamp]]
        /\ timTimeStampTime' \in [Client -> Stamp]
        /\ todo' \subseteq clients /\ visiting' = NoClient
        /\ round = "walking"
    BY <1>8, <2>1
  <2>3. pWorkBuffer' \subseteq Client /\ fed' \subseteq Client
    BY <1>10 DEF TypeInv, MixerTypeOK, MixClient
  <2>4. now' \in [Client -> Stamp] /\ iNoMixCounter' \in 0..(NumMixBuffers + 1)
    BY <1>10 DEF TypeInv, MixerTypeOK, MixClient
  <2> QED
    BY <2>1, <2>2, <2>3, <2>4 DEF TypeInv, MixerTypeOK, WalkOK, StampClient
<1>11. ASSUME NEW c \in Client, TakeClient(c) PROVE TypeInv'
  BY <1>11 DEF TypeInv, MixerTypeOK, WalkOK, TakeClient
<1>12. ASSUME NEW c \in Client, ReleaseClient(c) PROVE TypeInv'
  BY <1>12 DEF TypeInv, MixerTypeOK, WalkOK, ReleaseClient
<1>13. ASSUME NEW c \in Client, ReadStamp(c) PROVE TypeInv'
  BY <1>13 DEF TypeInv, MixerTypeOK, WalkOK, ReadStamp
<1>14. ASSUME NEW c \in Client, ReadTime(c) PROVE TypeInv'
  BY <1>14 DEF TypeInv, MixerTypeOK, WalkOK, ReadTime
<1>15. CASE UNCHANGED mixerVars
  BY <1>15 DEF TypeInv, MixerTypeOK, WalkOK, mixerVars
<1> QED
  BY <1>1, <1>2, <1>3, <1>4, <1>5, <1>6, <1>7, <1>9, <1>10, <1>11, <1>12,
     <1>13, <1>14, <1>15 DEF MixerNext, Round

LEMMA TypeInvariant == MixerSpec => []TypeInv
  BY InitType, StepType, PTL DEF MixerSpec

\* The variables keep their types; in particular the counter of silent rounds
\* stops at one more than the number of hardware buffers.
THEOREM MixerTypeCorrect == MixerSpec => []MixerTypeOK
<1>1. TypeInv => MixerTypeOK
  BY DEF TypeInv
<1> QED
  BY <1>1, TypeInvariant, PTL

-----------------------------------------------------------------------------
(* The sound.                                                              *)

\* The sound of the work buffer is that of this round, and there is none when
\* the counter is not 0.  The counter also counts the silent buffers at the
\* end of the ring; within a round it is one ahead of them.
SoundInv ==
  /\ SoundOK
  /\ iNoMixCounter > 0 => pWorkBuffer = {}
  /\ round # "idle" => pWorkBuffer = fed
  /\ \A i \in Slot :
       i + iNoMixCounter > NumMixBuffers + (IF round = "idle" THEN 0 ELSE 1)
         => dart[i] = {}

LEMMA InitSound == MixerInit => SoundInv
  BY DEF MixerInit, SoundInv, SoundOK, Silent, Slot

LEMMA StepSound == TypeInv /\ SoundInv /\ [MixerNext]_mixerVars => SoundInv'
<1> USE DEF listVars, stampVars, soundVars, readVars, playVars, Slot
<1> SUFFICES ASSUME TypeInv, SoundInv, [MixerNext]_mixerVars PROVE SoundInv'
  OBVIOUS
<1> iNoMixCounter \in 0..(NumMixBuffers + 1)
  BY DEF TypeInv, MixerTypeOK
<1>1. CASE DARTEventFunc
  BY <1>1 DEF SoundInv, SoundOK, DARTEventFunc, MoreSilence
<1>2. CASE WriteBuffer
  <2>1. dart \in [Slot -> SUBSET Client] /\ fedAt \in [Slot -> SUBSET Client]
    BY DEF TypeInv, MixerTypeOK
  <2>2. pWorkBuffer = fed /\ round # "idle" /\ round' = "idle"
    BY <1>2 DEF SoundInv, WriteBuffer
  <2>3. ~MoreSilence => iNoMixCounter = NumMixBuffers + 1
    BY DEF MoreSilence
  <2>4. ~MoreSilence => dart[1] = {} /\ pWorkBuffer = {}
    BY <2>2, <2>3 DEF SoundInv
  <2>5. \A i \in Slot :
          /\ dart'[i] = IF i = NumMixBuffers THEN pWorkBuffer ELSE dart[i + 1]
          /\ fedAt'[i] = IF i = NumMixBuffers THEN fed ELSE fedAt[i + 1]
    BY <1>2, <2>1, <2>4 DEF WriteBuffer, Shift
  <2>6. SoundOK'
    BY <2>2, <2>5 DEF SoundInv, SoundOK
  <2>7. \A i \in Slot : i + iNoMixCounter > NumMixBuffers => dart'[i] = {}
    BY <2>2, <2>5 DEF SoundInv
  <2> QED
    BY <1>2, <2>2, <2>6, <2>7 DEF SoundInv, WriteBuffer
<1>3. ASSUME NEW c \in Client, NEW stamp \in Stamp, NEW sound \in {{}, {c}},
             MixClient(c, stamp, sound)
      PROVE  SoundInv'
  <2>1. round # "idle" /\ UNCHANGED <<dart, fedAt, round>>
    BY <1>3 DEF TypeInv, MixerTypeOK, WalkOK, MixClient, StampClient
  <2> QED
    BY <1>3, <2>1 DEF SoundInv, SoundOK, MixClient
<1>4. ASSUME NEW c \in Client, MixNothing(c) PROVE SoundInv'
  BY <1>4 DEF SoundInv, SoundOK, MixNothing, StampClient
<1>5. CASE LockList \/ LockListTimeout \/ UnlockList
  BY <1>5 DEF SoundInv, SoundOK, LockList, LockListTimeout, UnlockList
<1>6. ASSUME NEW c \in Client, ReportStamp(c) \/ MissClient(c) PROVE SoundInv'
  BY <1>6 DEF SoundInv, SoundOK, ReportStamp, MissClient
<1>7. ASSUME NEW c \in Client, \/ TakeClient(c) \/ ReleaseClient(c)
                               \/ ReadStamp(c) \/ ReadTime(c)
      PROVE  SoundInv'
  BY <1>7 DEF SoundInv, SoundOK, TakeClient, ReleaseClient, ReadStamp, ReadTime
<1>8. CASE UNCHANGED mixerVars
  BY <1>8 DEF SoundInv, SoundOK, mixerVars
<1> QED
  BY <1>1, <1>2, <1>3, <1>4, <1>5, <1>6, <1>7, <1>8 DEF MixerNext, Round

\* Every hardware buffer always holds exactly the sound of the round that
\* filled it, however the rounds with and without something to mix alternate.
THEOREM SoundCorrect == MixerSpec => []SoundOK
<1>1. SoundInv => SoundOK
  BY DEF SoundInv
<1> QED
  BY <1>1, TypeInvariant, InitSound, StepSound, PTL DEF MixerSpec

-----------------------------------------------------------------------------
(* The time stamps.                                                        *)

\* A client that is not in the list has no history.
UnbornInv ==
  \A c \in Client \ clients :
    /\ end[c] = [i \in Slot |-> Zero]
    /\ now[c] = Zero /\ last[c] = Zero /\ heard[c] = {Zero}

LEMMA InitUnborn == MixerInit => UnbornInv
  BY DEF MixerInit, UnbornInv, Never

LEMMA StepUnborn == TypeInv /\ UnbornInv /\ [MixerNext]_mixerVars => UnbornInv'
<1> USE DEF listVars, stampVars, soundVars, readVars, playVars
<1> SUFFICES ASSUME TypeInv, UnbornInv, [MixerNext]_mixerVars PROVE UnbornInv'
  OBVIOUS
<1>1. CASE DARTEventFunc
  BY <1>1 DEF UnbornInv, DARTEventFunc, Slot
<1>2. CASE WriteBuffer
  BY <1>2 DEF UnbornInv, WriteBuffer, Shift, Slot
<1>3. ASSUME NEW c \in Client, NEW stamp \in Stamp, NEW sound \in {{}, {c}},
             MixClient(c, stamp, sound)
      PROVE  UnbornInv'
  BY <1>3 DEF UnbornInv, MixClient, StampClient, TypeInv, MixerTypeOK
<1>4. ASSUME NEW c \in Client, TakeClient(c) PROVE UnbornInv'
  BY <1>4 DEF UnbornInv, TakeClient
<1>5. ASSUME NEW c \in Client, ReleaseClient(c) PROVE UnbornInv'
  BY <1>5 DEF UnbornInv, ReleaseClient, TypeInv, MixerTypeOK
<1>6. CASE LockList \/ LockListTimeout \/ UnlockList
  BY <1>6 DEF UnbornInv, LockList, LockListTimeout, UnlockList
<1>7. ASSUME NEW c \in Client, \/ ReportStamp(c) \/ MissClient(c)
                               \/ MixNothing(c) \/ ReadStamp(c) \/ ReadTime(c)
      PROVE  UnbornInv'
  BY <1>7 DEF UnbornInv, ReportStamp, MissClient, MixNothing, StampClient,
              ReadStamp, ReadTime
<1>8. CASE UNCHANGED mixerVars
  BY <1>8 DEF UnbornInv, mixerVars
<1> QED
  BY <1>1, <1>2, <1>3, <1>4, <1>5, <1>6, <1>7, <1>8 DEF MixerNext, Round

LEMMA UnbornInvariant == MixerSpec => [](TypeInv /\ UnbornInv)
  BY InitType, StepType, InitUnborn, StepUnborn, PTL DEF MixerSpec

\* The delay line of c has moved in this round, or will not.
Visited(c) == round = "writing" \/ (round = "walking" /\ c \notin todo)

\* The position of c at the end of the j-th hardware buffer, where the one
\* that this round fills comes after those of the ring.
After(c, j) == IF j = NumMixBuffers + 1 THEN now[c] ELSE end[c][j]

\* The number of the hardware buffer that entry i of a delay line belongs to.
Entry(c, i) == IF Visited(c) THEN i + 1 ELSE i

\* The time stamp a client can read is one that playback has reached.
StampHeard == \A c \in clients : ullTimeStamp[c] \in heard[c]

\* A delay line never is ahead of its hardware buffer.
AheadInv ==
  /\ round # "idle" => \A c \in Client : end[c][1] \in heard[c]
  /\ StampHeard
  /\ \A c \in clients : \A i \in Slot :
       \/ pullTimeStampsAtHW[c][i] \in heard[c]
       \/ \E j \in 1..Entry(c, i) : pullTimeStampsAtHW[c][i] = After(c, j)

LEMMA InitAhead == MixerInit => AheadInv
  BY DEF MixerInit, AheadInv, StampHeard

LEMMA StepAhead ==
  TypeInv /\ UnbornInv /\ AheadInv /\ [MixerNext]_mixerVars => AheadInv'
<1> USE DEF listVars, stampVars, soundVars, readVars, playVars, Slot
<1> SUFFICES ASSUME TypeInv, UnbornInv, AheadInv, [MixerNext]_mixerVars
             PROVE  AheadInv'
  OBVIOUS
<1> DEFINE Late(c, i) ==
      \/ pullTimeStampsAtHW[c][i] \in heard[c]
      \/ \E j \in 1..Entry(c, i) : pullTimeStampsAtHW[c][i] = After(c, j)
<1> \A c \in clients : c \in Client
  BY DEF TypeInv, MixerTypeOK
<1>1. CASE DARTEventFunc
  BY <1>1 DEF AheadInv, StampHeard, DARTEventFunc, TypeInv, WalkOK,
              Entry, Visited, After
<1>2. CASE WriteBuffer
  <2>1. ASSUME NEW c \in clients, NEW i \in Slot
        PROVE  end'[c][i] = After(c, i + 1)
    <3>1. end'[c] = Shift(end[c], now[c])
      BY <1>2 DEF WriteBuffer
    <3> QED
      BY <3>1 DEF Shift, After
  <2>2. ASSUME NEW c \in clients, NEW i \in Slot PROVE Late(c, i)'
    <3>1. CASE pullTimeStampsAtHW[c][i] \in heard[c]
      BY <1>2, <3>1 DEF WriteBuffer
    <3>2. ASSUME NEW j \in 1..(i + 1), pullTimeStampsAtHW[c][i] = After(c, j)
          PROVE  Late(c, i)'
      <4>1. CASE j = 1
        BY <1>2, <3>2, <4>1 DEF WriteBuffer, AheadInv, After
      <4>2. CASE j # 1
        <5>1. j - 1 \in 1..i /\ j - 1 \in Slot /\ end'[c][j - 1] = After(c, j)
          BY <2>1, <4>2
        <5>2. Entry(c, i)' = i /\ After(c, j - 1)' = end'[c][j - 1]
          BY <1>2, <5>1 DEF WriteBuffer, Entry, Visited, After
        <5> QED
          BY <1>2, <3>2, <5>1, <5>2 DEF WriteBuffer
      <4> QED
        BY <4>1, <4>2
    <3> QED
      BY <1>2, <3>1, <3>2 DEF AheadInv, WriteBuffer, Entry, Visited
  <2> QED
    BY <1>2, <2>2 DEF AheadInv, StampHeard, WriteBuffer
<1>3. ASSUME NEW c \in Client, ReportStamp(c) PROVE AheadInv'
  <2>1. Entry(c, 1) = 1 /\ After(c, 1) = end[c][1]
    BY <1>3 DEF ReportStamp, Entry, Visited, After
  <2>2. pullTimeStampsAtHW[c][1] \in heard[c]
    <3>1. c \in clients /\ 1 \in Slot /\ end[c][1] \in heard[c]
      BY <1>3 DEF AheadInv, ReportStamp, TypeInv, MixerTypeOK
    <3>2. \A j \in 1..Entry(c, 1) : After(c, j) = end[c][1]
      BY <2>1
    <3> QED
      BY <3>1, <3>2 DEF AheadInv
  <2>3. StampHeard'
    BY <1>3, <2>2 DEF AheadInv, StampHeard, ReportStamp, TypeInv,
       MixerTypeOK
  <2> QED
    BY <1>3, <2>3 DEF AheadInv, ReportStamp, Entry, Visited, After
<1>4. ASSUME NEW c \in Client, MissClient(c) PROVE AheadInv'
  BY <1>4 DEF AheadInv, StampHeard, MissClient, Entry, Visited, After
<1>5. ASSUME NEW c \in Client, NEW stamp \in Stamp, StampClient(c, stamp),
             \A d \in Client : d # c => now'[d] = now[d],
             \/ now'[c] = stamp
             \/ /\ stamp = pullTimeStampsAtHW[c][NumMixBuffers]
                /\ now' = now
      PROVE  AheadInv'
  <2>1. c \in todo /\ round = "walking"
    BY <1>5 DEF StampClient, TypeInv, MixerTypeOK, WalkOK
  <2>2. ASSUME NEW d \in clients, NEW i \in Slot, d # c PROVE Late(d, i)'
    <3>1. /\ pullTimeStampsAtHW'[d] = pullTimeStampsAtHW[d]
          /\ Entry(d, i)' = Entry(d, i)
          /\ \A j \in 1..Entry(d, i) : After(d, j)' = After(d, j)
      BY <1>5, <2>2, <2>1
      DEF StampClient, Entry, Visited, After, TypeInv, MixerTypeOK
    <3> QED
      BY <1>5, <3>1 DEF AheadInv, StampClient
  <2>3. \A j \in 1..NumMixBuffers : After(c, j)' = After(c, j)
    BY <1>5 DEF After, StampClient
  <2>4. \A i \in Slot : Entry(c, i) = i /\ Entry(c, i)' = i + 1
    BY <1>5, <2>1 DEF Entry, Visited, StampClient
  <2>5. \A i \in Slot : pullTimeStampsAtHW'[c][i] =
          IF i = NumMixBuffers THEN stamp ELSE pullTimeStampsAtHW[c][i + 1]
    BY <1>5 DEF StampClient, Shift, TypeInv, MixerTypeOK
  <2>6. ASSUME NEW i \in Slot, c \in clients PROVE Late(c, i)'
    <3>1. CASE i # NumMixBuffers
      <4>1. i + 1 \in Slot /\ pullTimeStampsAtHW'[c][i] = pullTimeStampsAtHW[c][i + 1]
        BY <2>5, <3>1
      <4> QED
        BY <1>5, <2>3, <2>4, <2>6, <4>1 DEF AheadInv, StampClient
    <3>2. CASE i = NumMixBuffers /\ now'[c] = stamp
      <4>1. i + 1 \in 1..Entry(c, i)' /\ After(c, i + 1)' = stamp
        BY <2>4, <3>2 DEF After
      <4> QED
        BY <2>5, <3>2, <4>1
    <3>3. CASE /\ i = NumMixBuffers
               /\ stamp = pullTimeStampsAtHW[c][NumMixBuffers]
      <4>1. pullTimeStampsAtHW'[c][i] = pullTimeStampsAtHW[c][i]
        BY <2>5, <3>3
      <4> QED
        BY <1>5, <2>3, <2>4, <2>6, <3>3, <4>1 DEF AheadInv, StampClient
    <3> QED
      BY <1>5, <3>1, <3>2, <3>3
  <2>7. \A d \in clients : \A i \in Slot : Late(d, i)'
    BY <2>2, <2>6
  <2> HIDE DEF Late
  <2>8. clients' = clients
    BY <1>5 DEF StampClient
  <2>9. StampHeard'
    BY <1>5 DEF AheadInv, StampHeard, StampClient
  <2>10. \A d \in Client : end'[d][1] \in heard'[d]
    BY <1>5, <2>1 DEF AheadInv, StampClient
  <2> QED
    BY <2>7, <2>8, <2>9, <2>10 DEF AheadInv, Late
<1>6. ASSUME NEW c \in Client, TakeClient(c) PROVE AheadInv'
  <2>1. heard[c] = {Zero} /\ UNCHANGED <<heard, now, end, round, todo>>
    BY <1>6 DEF TakeClient, UnbornInv
  <2>2. /\ ullTimeStamp'[c] = Zero
        /\ \A i \in Slot : pullTimeStampsAtHW'[c][i] = Zero
    BY <1>6 DEF TakeClient, TypeInv, MixerTypeOK
  <2>3. \A d \in clients : /\ d # c
                          /\ ullTimeStamp'[d] = ullTimeStamp[d]
                          /\ pullTimeStampsAtHW'[d] = pullTimeStampsAtHW[d]
    BY <1>6 DEF TakeClient, TypeInv, MixerTypeOK
  <2>4. StampHeard'
    BY <1>6, <2>1, <2>2, <2>3 DEF AheadInv, StampHeard, TakeClient
  <2>5. \A d \in clients : \A i \in Slot : Late(d, i)'
    BY <2>1, <2>3 DEF AheadInv, Entry, Visited, After
  <2>6. \A i \in Slot : Late(c, i)'
    BY <2>1, <2>2
  <2> QED
    BY <1>6, <2>1, <2>4, <2>5, <2>6 DEF AheadInv, TakeClient
<1>7. ASSUME NEW c \in Client, ReleaseClient(c) PROVE AheadInv'
  <2>1. clients' = clients \ {c} /\ UNCHANGED <<stampVars, round, todo>>
    BY <1>7 DEF ReleaseClient
  <2>2. \A d \in clients' :
          /\ heard'[d] = heard[d] /\ end'[d] = end[d] /\ now'[d] = now[d]
    BY <1>7, <2>1 DEF ReleaseClient, TypeInv, MixerTypeOK
  <2>3. StampHeard'
    BY <2>1, <2>2 DEF AheadInv, StampHeard
  <2>4. \A d \in clients' : \A i \in Slot : Late(d, i)'
    BY <2>1, <2>2 DEF AheadInv, Entry, Visited, After
  <2>5. round # "idle" => \A d \in Client : end'[d][1] \in heard'[d]
    BY <1>7 DEF AheadInv, ReleaseClient, TypeInv, MixerTypeOK
  <2> QED
    BY <2>1, <2>3, <2>4, <2>5 DEF AheadInv
<1>8. CASE LockList \/ LockListTimeout \/ UnlockList
  BY <1>8 DEF AheadInv, StampHeard, LockList, LockListTimeout, UnlockList,
              TypeInv, WalkOK, Entry, Visited, After
<1>9. ASSUME NEW c \in Client, ReadStamp(c) \/ ReadTime(c) PROVE AheadInv'
  BY <1>9 DEF AheadInv, StampHeard, ReadStamp, ReadTime, Entry, Visited,
              After
<1>10. CASE UNCHANGED mixerVars
  BY <1>10 DEF AheadInv, StampHeard, mixerVars, Entry, Visited, After
<1>11. ASSUME NEW c \in Client, MixNothing(c) PROVE AheadInv'
  <2>1. pullTimeStampsAtHW[c][NumMixBuffers] \in Stamp
    BY DEF TypeInv, MixerTypeOK
  <2> QED
    BY <1>5, <1>11, <2>1 DEF MixNothing
<1>12. ASSUME NEW c \in Client, NEW stamp \in Stamp, NEW sound \in {{}, {c}},
              MixClient(c, stamp, sound)
       PROVE  AheadInv'
  <2>1. now'[c] = stamp /\ \A d \in Client : d # c => now'[d] = now[d]
    BY <1>12 DEF MixClient, TypeInv, MixerTypeOK
  <2> QED
    BY <1>5, <1>12, <2>1 DEF MixClient
<1> QED
  BY <1>1, <1>2, <1>3, <1>4, <1>6, <1>7, <1>8, <1>9, <1>10, <1>11, <1>12
  DEF MixerNext, Round

\* What a client reads, and has read, is of rounds that playback has reached;
\* the time stamp is written first, so the time that follows belongs to it.
ReadInv ==
  /\ \A c \in clients : timTimeStampTime[c] \in heard[c]
  /\ \A c \in Client : /\ reading[c] # {} => c \in clients
                       /\ reading[c] \subseteq heard[c]
                       /\ reported[c] \in heard[c] \X heard[c]
  /\ \A c \in Client :
       visiting = c => pullTimeStampsAtHW[c][1] = ullTimeStamp[c]

LEMMA InitRead == MixerInit => ReadInv
  BY ClientAssumption DEF MixerInit, ReadInv, Never

LEMMA StepRead ==
  TypeInv /\ UnbornInv /\ AheadInv /\ ReadInv /\ [MixerNext]_mixerVars
    => ReadInv'
<1> USE DEF listVars, stampVars, soundVars, readVars, playVars
<1> SUFFICES ASSUME TypeInv, UnbornInv, AheadInv, ReadInv,
                    [MixerNext]_mixerVars
             PROVE  ReadInv'
  OBVIOUS
<1> /\ clients \subseteq Client /\ NoClient \notin Client
    /\ StampHeard
  BY ClientAssumption DEF TypeInv, MixerTypeOK, AheadInv
<1>1. CASE DARTEventFunc
  BY <1>1 DEF ReadInv, DARTEventFunc
<1>2. CASE WriteBuffer
  BY <1>2 DEF ReadInv, WriteBuffer
<1>3. ASSUME NEW c \in Client, ReportStamp(c) PROVE ReadInv'
  BY <1>3 DEF ReadInv, ReportStamp, TypeInv, MixerTypeOK
<1>4. ASSUME NEW c \in Client, NEW stamp \in Stamp, StampClient(c, stamp)
      PROVE  ReadInv'
  <2>1. c \in clients /\ timTimeStampTime'[c] = ullTimeStamp[c]
    BY <1>4 DEF ReadInv, StampClient, TypeInv, MixerTypeOK, WalkOK
  <2> QED
    BY <1>4, <2>1 DEF ReadInv, StampHeard, StampClient, TypeInv, MixerTypeOK
<1>5. ASSUME NEW c \in Client, TakeClient(c) PROVE ReadInv'
  BY <1>5 DEF ReadInv, TakeClient, UnbornInv, TypeInv, MixerTypeOK, WalkOK
<1>6. ASSUME NEW c \in Client, ReleaseClient(c) PROVE ReadInv'
  BY <1>6 DEF ReadInv, ReleaseClient, TypeInv, MixerTypeOK
<1>7. ASSUME NEW c \in Client, ReadStamp(c) PROVE ReadInv'
  BY <1>7 DEF ReadInv, ReadStamp, StampHeard, TypeInv, MixerTypeOK
<1>8. ASSUME NEW c \in Client, ReadTime(c) PROVE ReadInv'
  <2>1. PICK stamp \in reading[c] :
          reported' = [reported EXCEPT ![c] = <<stamp, timTimeStampTime[c]>>]
    BY <1>8 DEF ReadTime
  <2>2. c \in clients
    BY <2>1 DEF ReadInv
  <2> QED
    BY <1>8, <2>1, <2>2 DEF ReadInv, ReadTime, TypeInv, MixerTypeOK
<1>9. ASSUME NEW c \in Client, MissClient(c) PROVE ReadInv'
  BY <1>9 DEF ReadInv, MissClient
<1>10. CASE LockList \/ LockListTimeout \/ UnlockList
  BY <1>10 DEF ReadInv, LockList, LockListTimeout, UnlockList
<1>11. CASE UNCHANGED mixerVars
  BY <1>11 DEF ReadInv, mixerVars
<1>12. ASSUME NEW c \in Client, MixNothing(c) PROVE ReadInv'
  <2>1. pullTimeStampsAtHW[c][NumMixBuffers] \in Stamp
    BY NumMixBuffersAssumption DEF TypeInv, MixerTypeOK, Slot
  <2> QED
    BY <1>4, <1>12, <2>1 DEF MixNothing
<1>13. ASSUME NEW c \in Client, NEW stamp \in Stamp, NEW sound \in {{}, {c}},
              MixClient(c, stamp, sound)
       PROVE  ReadInv'
  BY <1>4, <1>13 DEF MixClient
<1> QED
  BY <1>1, <1>2, <1>3, <1>5, <1>6, <1>7, <1>8, <1>9, <1>10, <1>11, <1>12, <1>13
  DEF MixerNext, Round

\* A client never gets a time stamp that playback has not reached, even when
\* rounds had to leave it out because a mutex was busy for too long, nor the
\* time of one when a round ends while it reads the two.
THEOREM StampNotAheadCorrect == MixerSpec => []StampNotAhead
<1>1. TypeInv /\ AheadInv /\ ReadInv => StampNotAhead
  BY DEF AheadInv, ReadInv, StampHeard, StampNotAhead, TypeInv, MixerTypeOK
<1> QED
  BY <1>1, UnbornInvariant, InitAhead, StepAhead, InitRead, StepRead, PTL
  DEF MixerSpec

\* The delay line of a client that no round left out is in step with the ring
\* of hardware buffers.
InStep(c) ==
  /\ \A i \in Slot : pullTimeStampsAtHW[c][i] = After(c, Entry(c, i))
  /\ round # "idle" => last[c] = end[c][1]
  /\ round # "idle" /\ ~Visited(c) => now[c] = end[c][NumMixBuffers]
  /\ round = "idle" \/ Visited(c) \/ visiting = c => ullTimeStamp[c] = last[c]

ExactInv == \A c \in clients \ missed : InStep(c)

LEMMA InitExact == MixerInit => ExactInv
  BY DEF MixerInit, ExactInv

LEMMA StepExact ==
  TypeInv /\ UnbornInv /\ ExactInv /\ [MixerNext]_mixerVars => ExactInv'
<1> USE DEF listVars, stampVars, soundVars, readVars, playVars, Slot
<1> SUFFICES ASSUME TypeInv, UnbornInv, ExactInv, [MixerNext]_mixerVars
             PROVE  ExactInv'
  OBVIOUS
<1> \A c \in clients : c \in Client
  BY DEF TypeInv, MixerTypeOK
<1>1. CASE DARTEventFunc
  <2>1. clients' = clients /\ missed' = missed
    BY <1>1 DEF DARTEventFunc
  <2>2. ASSUME NEW c \in clients \ missed PROVE InStep(c)'
    <3>1. InStep(c) /\ round = "idle" /\ round' = "locking" /\ visiting = NoClient
      BY <1>1 DEF ExactInv, DARTEventFunc, TypeInv, WalkOK
    <3>2. /\ UNCHANGED <<pullTimeStampsAtHW, ullTimeStamp, end, visiting>>
          /\ last'[c] = end[c][1] /\ now'[c] = end[c][NumMixBuffers]
      BY <1>1 DEF DARTEventFunc
    <3>3. \A i \in Slot : Entry(c, i) = i /\ Entry(c, i)' = i
      BY <3>1 DEF Entry, Visited
    <3>4. \A i \in Slot : After(c, i) = end[c][i] /\ After(c, i)' = end[c][i]
      BY <3>2 DEF After
    <3> QED
      BY <3>1, <3>2, <3>3, <3>4 DEF InStep, Visited
  <2> QED
    BY <2>1, <2>2 DEF ExactInv
<1>2. CASE WriteBuffer
  <2>1. clients' = clients /\ missed' = missed
    BY <1>2 DEF WriteBuffer
  <2>2. ASSUME NEW c \in clients \ missed PROVE InStep(c)'
    <3>1. InStep(c) /\ round = "writing" /\ round' = "idle"
      BY <1>2 DEF ExactInv, WriteBuffer
    <3>2. UNCHANGED <<pullTimeStampsAtHW, ullTimeStamp, last, now, visiting>>
      BY <1>2 DEF WriteBuffer
    <3>3. end'[c] = Shift(end[c], now[c])
      BY <1>2 DEF WriteBuffer
    <3>4. Visited(c) /\ ~Visited(c)'
      BY <3>1 DEF Visited
    <3>5. \A i \in Slot : Entry(c, i) = i + 1 /\ Entry(c, i)' = i
      BY <3>4 DEF Entry
    <3>6. \A i \in Slot : After(c, i)' = After(c, i + 1)
      BY <3>3 DEF After, Shift
    <3>7. \A i \in Slot : pullTimeStampsAtHW'[c][i] = After(c, Entry(c, i))'
      BY <3>1, <3>2, <3>5, <3>6 DEF InStep
    <3>8. ullTimeStamp'[c] = last'[c]
      BY <3>1, <3>2, <3>4 DEF InStep
    <3> QED
      BY <3>1, <3>7, <3>8 DEF InStep
  <2> QED
    BY <2>1, <2>2 DEF ExactInv
<1>3. ASSUME NEW c \in Client, ReportStamp(c) PROVE ExactInv'
  <2>1. /\ clients' = clients /\ missed' = missed /\ c \in todo
        /\ round = "walking" /\ round' = round /\ visiting' = c
        /\ todo' = todo /\ visiting = NoClient
        /\ UNCHANGED <<pullTimeStampsAtHW, end, now, last>>
    BY <1>3 DEF ReportStamp
  <2>2. ASSUME NEW d \in clients \ missed PROVE InStep(d)'
    <3>1. InStep(d)
      BY DEF ExactInv
    <3>2. /\ Visited(d)' = Visited(d)
          /\ \A i \in Slot : Entry(d, i)' = Entry(d, i)
          /\ \A i : After(d, i)' = After(d, i)
      BY <2>1 DEF Visited, Entry, After
    <3>3. CASE d = c
      <4>1. After(c, Entry(c, 1)) = end[c][1] /\ 1 \in Slot
        BY <2>1 DEF Entry, Visited, After
      <4>2. ullTimeStamp'[c] = last[c]
        BY <1>3, <2>1, <3>1, <3>3, <4>1 DEF InStep, ReportStamp, TypeInv,
           MixerTypeOK
      <4> QED
        BY <2>1, <3>1, <3>2, <3>3, <4>2 DEF InStep
    <3>4. CASE d # c
      <4>1. ullTimeStamp'[d] = ullTimeStamp[d]
        BY <1>3, <3>4 DEF ReportStamp, TypeInv, MixerTypeOK
      <4> QED
        BY <2>1, <3>1, <3>2, <3>4, <4>1 DEF InStep
    <3> QED
      BY <3>3, <3>4
  <2> QED
    BY <2>1, <2>2 DEF ExactInv
<1>4. ASSUME NEW c \in Client, MissClient(c) PROVE ExactInv'
  BY <1>4 DEF ExactInv, InStep, MissClient, Entry, Visited, After
<1>5. ASSUME NEW c \in Client, NEW stamp \in Stamp, StampClient(c, stamp),
             \A d \in Client : d # c => now'[d] = now[d],
             \/ now'[c] = stamp
             \/ /\ stamp = pullTimeStampsAtHW[c][NumMixBuffers]
                /\ now' = now
      PROVE  ExactInv'
  <2>1. /\ clients' = clients /\ missed' = missed /\ todo' = todo \ {c}
        /\ round = "walking" /\ round' = round
        /\ visiting = c /\ visiting' = NoClient /\ c \in todo
        /\ UNCHANGED <<ullTimeStamp, end, last>>
    BY <1>5 DEF StampClient, TypeInv, MixerTypeOK, WalkOK
  <2>2. ASSUME NEW d \in clients \ missed, d # c PROVE InStep(d)'
    <3>1. InStep(d)
      BY DEF ExactInv
    <3>2. /\ pullTimeStampsAtHW'[d] = pullTimeStampsAtHW[d] /\ now'[d] = now[d]
          /\ Visited(d)' = Visited(d)
          /\ \A i \in Slot : Entry(d, i)' = Entry(d, i)
          /\ \A i : After(d, i)' = After(d, i)
      BY <1>5, <2>1, <2>2
      DEF StampClient, Visited, Entry, After, TypeInv, MixerTypeOK
    <3> QED
      BY <2>1, <2>2, <3>1, <3>2 DEF InStep
  <2>3. ASSUME c \in clients \ missed PROVE InStep(c)'
    <3>1. InStep(c)
      BY <2>3 DEF ExactInv
    <3>2. ~Visited(c) /\ Visited(c)'
      BY <2>1 DEF Visited
    <3>3. \A i \in Slot : Entry(c, i) = i /\ Entry(c, i)' = i + 1
      BY <3>2 DEF Entry
    <3>4. \A i \in Slot : After(c, i) = end[c][i] /\ After(c, i)' = end[c][i]
      BY <2>1 DEF After
    <3>5. After(c, NumMixBuffers + 1)' = now'[c]
      BY DEF After
    <3>6. now'[c] = stamp
      BY <1>5, <2>1, <3>1, <3>2, <3>3, <3>4 DEF InStep
    <3>7. \A i \in Slot : pullTimeStampsAtHW'[c][i] =
            IF i = NumMixBuffers THEN stamp ELSE pullTimeStampsAtHW[c][i + 1]
      BY <1>5 DEF StampClient, Shift, TypeInv, MixerTypeOK
    <3>8. \A i \in Slot : pullTimeStampsAtHW'[c][i] = After(c, i + 1)'
      BY <3>1, <3>3, <3>4, <3>5, <3>6, <3>7 DEF InStep
    <3> QED
      BY <2>1, <3>1, <3>2, <3>3, <3>8 DEF InStep
  <2> QED
    BY <2>1, <2>2, <2>3 DEF ExactInv
<1>6. ASSUME NEW c \in Client, TakeClient(c) PROVE ExactInv'
  <2>1. /\ clients' = clients \cup {c} /\ missed' = missed /\ c \notin clients
        /\ round # "walking" /\ c # NoClient
        /\ UNCHANGED <<round, todo, visiting, now, end, last>>
    BY <1>6 DEF TakeClient
  <2>2. ASSUME NEW d \in clients \ missed PROVE InStep(d)'
    <3>1. InStep(d) /\ d # c
      BY <2>1 DEF ExactInv
    <3>2. /\ pullTimeStampsAtHW'[d] = pullTimeStampsAtHW[d]
          /\ ullTimeStamp'[d] = ullTimeStamp[d]
      BY <1>6, <3>1 DEF TakeClient, TypeInv, MixerTypeOK
    <3> QED
      BY <2>1, <3>1, <3>2 DEF InStep, Entry, Visited, After
  <2>3. /\ ullTimeStamp'[c] = Zero /\ last[c] = Zero /\ now[c] = Zero
        /\ \A i \in Slot : pullTimeStampsAtHW'[c][i] = Zero /\ end[c][i] = Zero
    BY <1>6, <2>1 DEF TakeClient, UnbornInv, TypeInv, MixerTypeOK
  <2>4. InStep(c)'
    BY <2>1, <2>3 DEF InStep, Entry, Visited, After
  <2> QED
    BY <2>1, <2>2, <2>4 DEF ExactInv
<1>7. ASSUME NEW c \in Client, ReleaseClient(c) PROVE ExactInv'
  <2>1. /\ clients' = clients \ {c} /\ missed' = missed \ {c}
        /\ UNCHANGED <<stampVars, round, todo, visiting>>
    BY <1>7 DEF ReleaseClient
  <2>2. \A d \in clients' : /\ last'[d] = last[d] /\ end'[d] = end[d]
                            /\ now'[d] = now[d]
    BY <1>7, <2>1 DEF ReleaseClient, TypeInv, MixerTypeOK
  <2> QED
    BY <2>1, <2>2 DEF ExactInv, InStep, Entry, Visited, After
<1>8. CASE LockList
  <2>1. todo' = clients /\ round = "locking" /\ round' = "walking"
        /\ UNCHANGED <<clients, missed, stampVars, playVars, visiting>>
    BY <1>8 DEF LockList
  <2> QED
    BY <2>1 DEF ExactInv, InStep, Entry, Visited, After
<1>9. CASE LockListTimeout
  BY <1>9 DEF ExactInv, LockListTimeout
<1>10. CASE UnlockList
  BY <1>10 DEF ExactInv, InStep, UnlockList, Entry, Visited, After
<1>11. ASSUME NEW c \in Client, ReadStamp(c) \/ ReadTime(c) PROVE ExactInv'
  BY <1>11 DEF ExactInv, InStep, ReadStamp, ReadTime, Entry, Visited, After
<1>12. CASE UNCHANGED mixerVars
  BY <1>12 DEF ExactInv, InStep, mixerVars, Entry, Visited, After
<1>13. ASSUME NEW c \in Client, MixNothing(c) PROVE ExactInv'
  <2>1. pullTimeStampsAtHW[c][NumMixBuffers] \in Stamp
    BY DEF TypeInv, MixerTypeOK
  <2> QED
    BY <1>5, <1>13, <2>1 DEF MixNothing
<1>14. ASSUME NEW c \in Client, NEW stamp \in Stamp, NEW sound \in {{}, {c}},
              MixClient(c, stamp, sound)
       PROVE  ExactInv'
  <2>1. now'[c] = stamp /\ \A d \in Client : d # c => now'[d] = now[d]
    BY <1>14 DEF MixClient, TypeInv, MixerTypeOK
  <2> QED
    BY <1>5, <1>14, <2>1 DEF MixClient
<1> QED
  BY <1>1, <1>2, <1>3, <1>4, <1>6, <1>7, <1>8, <1>9, <1>10, <1>11, <1>12,
     <1>13, <1>14 DEF MixerNext, Round

\* The delay line is exactly as long as the ring of hardware buffers: after a
\* round, a client reads the position at which the playback of the last
\* hardware buffer ended, for every number of hardware buffers.
THEOREM StampExactCorrect == MixerSpec => []StampExact
<1>1. ExactInv => StampExact
  <2> SUFFICES ASSUME ExactInv, NEW c \in clients \ missed,
                      round \in {"writing", "idle"}
               PROVE  ullTimeStamp[c] = last[c]
    BY DEF StampExact
  <2>1. round = "idle" \/ Visited(c)
    BY DEF Visited
  <2> QED
    BY <2>1 DEF ExactInv, InStep
<1> QED
  BY <1>1, UnbornInvariant, InitExact, StepExact, PTL DEF MixerSpec
=============================================================================
