---------------------------- MODULE TplMsgQ_proofs ----------------------------
(***************************************************************************)
(* Proofs about TplMsgQ for any number of receivers, elements and messages *)
(* and any capacity: the list and its counter are right (QueueCorrect),    *)
(* the queue implements MsgFifo (FifoCorrect), and the post count never    *)
(* falls behind the messages (NoneUnannouncedCorrect).                     *)
(***************************************************************************)
EXTENDS TplMsgQ, PointerLists_proofs, SequenceTheorems

\* What one step needs of the state before it.
Inv == TypeOK /\ QueueOK

\* The range of the unsigned counter of posts to be done.
LEMMA ModType ==
  ASSUME NEW p \in 0..MaxPosts
  PROVE  (p + Wrap - 1) % Wrap \in 0..(Wrap - 1)
BY CountAssumption

LEMMA ModExact ==
  ASSUME NEW p \in 0..MaxPosts, p > 0
  PROVE  (p + Wrap - 1) % Wrap = p - 1
BY CountAssumption

-----------------------------------------------------------------------------
(* The list.                                                               *)

LEMMA ElementsFinite ==
  ASSUME TypeOK
  PROVE  /\ IsFiniteSet(elements) /\ NULL \notin elements
         /\ Cardinality(elements) \in Nat
BY NodeAssumption, FS_Subset, FS_CardinalityType DEF TypeOK

\* What the invariant says of the ends of the list.
LEMMA Ends ==
  ASSUME Inv
  PROVE  /\ pHead = NULL => iNumOfElementsInQueue = 0
         /\ pHead # NULL => /\ pHead \in elements /\ pHead \in Node
                            /\ iNumOfElementsInQueue >= 1
         /\ \A x \in elements : pNext[x] \in Pointer
<1>1. /\ IsFiniteSet(elements) /\ NULL \notin elements
      /\ elements \subseteq Node
      /\ IsQueue(elements, pHead, pTail, pNext)
      /\ iNumOfElementsInQueue = Cardinality(elements)
  BY ElementsFinite DEF Inv, TypeOK, QueueOK
<1>2. /\ pHead = NULL <=> elements = {}
      /\ elements # {} => pHead \in elements /\ Cardinality(elements) >= 1
  BY <1>1, QueueEnds
<1>3. \A x \in elements : pNext[x] \in Pointer
  BY DEF Inv, TypeOK
<1> QED BY <1>1, <1>2, <1>3, FS_EmptySet

\* The list after an element was linked to its end.
LEMMA Linked ==
  ASSUME Inv, NEW n \in Node, n \notin elements,
         elements' = elements \cup {n}, LinkLast(n)
  PROVE  /\ IsQueue(elements', pHead', pTail', pNext')
         /\ Cardinality(elements') = Cardinality(elements) + 1
         /\ ListOrder(elements', pHead', pNext')
              = Behind(ListOrder(elements, pHead, pNext),
                       Cardinality(elements), n)
<1>1. /\ IsFiniteSet(elements) /\ NULL \notin elements
      /\ elements \subseteq Node
      /\ IsQueue(elements, pHead, pTail, pNext)
  BY ElementsFinite DEF Inv, TypeOK, QueueOK
<1>2. /\ pNext'[n] = NULL
      /\ \A y \in elements : pNext'[y] = IF y = pTail THEN n ELSE pNext[y]
  BY <1>1 DEF LinkLast
<1>3. pTail' = n /\ pHead' = IF pTail = NULL THEN n ELSE pHead
  BY DEF LinkLast
<1>4. /\ IsQueue(elements \cup {n}, pHead', n, pNext')
      /\ ListOrder(elements \cup {n}, pHead', pNext')
           = Behind(ListOrder(elements, pHead, pNext),
                    Cardinality(elements), n)
  <2> DEFINE h == IF pTail = NULL THEN n ELSE pHead
             nextP == pNext'
  <2>1. nextP[n] = NULL
    BY <1>2
  <2>2. \A y \in elements : nextP[y] = IF y = pTail THEN n ELSE pNext[y]
    BY <1>2
  <2> HIDE DEF nextP
  <2>3. /\ IsQueue(elements \cup {n}, h, n, nextP)
        /\ ListOrder(elements \cup {n}, h, nextP)
             = Behind(ListOrder(elements, pHead, pNext),
                      Cardinality(elements), n)
    BY <1>1, <2>1, <2>2, QueueLinkLast
  <2> QED BY <2>3, <1>3 DEF nextP
<1>5. Cardinality(elements \cup {n}) = Cardinality(elements) + 1
  BY <1>1, FS_AddElement
<1> QED BY <1>3, <1>4, <1>5

\* The list after its first element was taken.
LEMMA Unlinked ==
  ASSUME Inv, NEW r \in Receiver, TakeFirst(r)
  PROVE  /\ IsQueue(elements', pHead', pTail', pNext')
         /\ Cardinality(elements) >= 1
         /\ Cardinality(elements') = Cardinality(elements) - 1
         /\ ListOrder(elements', pHead', pNext')
              = Rest(ListOrder(elements, pHead, pNext), Cardinality(elements))
         /\ ListOrder(elements, pHead, pNext)[1] = pHead
<1>1. /\ IsFiniteSet(elements) /\ NULL \notin elements
      /\ elements \subseteq Node /\ pNext \in [Node -> Pointer]
      /\ IsQueue(elements, pHead, pTail, pNext)
  BY ElementsFinite DEF Inv, TypeOK, QueueOK
<1>2. /\ pHead # NULL /\ pHead' = pNext[pHead]
      /\ elements' = elements \ {pHead}
      /\ pTail' = IF pNext[pHead] = NULL THEN NULL ELSE pTail
      /\ pNext' = [pNext EXCEPT ![pHead] = NULL]
  BY DEF TakeFirst
<1>3. \A y \in elements : y # pHead => pNext'[y] = pNext[y]
  BY <1>1, <1>2
<1> DEFINE nextP == pNext'
           lastP == IF pNext[pHead] = NULL THEN NULL ELSE pTail
<1>4. \A y \in elements : y # pHead => nextP[y] = pNext[y]
  BY <1>3
<1> HIDE DEF nextP
<1>5. /\ IsQueue(elements \ {pHead}, pNext[pHead], lastP, nextP)
      /\ Cardinality(elements) >= 1
      /\ Cardinality(elements \ {pHead}) = Cardinality(elements) - 1
      /\ ListOrder(elements \ {pHead}, pNext[pHead], nextP)
           = Rest(ListOrder(elements, pHead, pNext), Cardinality(elements))
      /\ ListOrder(elements, pHead, pNext)[1] = pHead
  BY <1>1, <1>2, <1>4, QueueUnlinkFirst
<1> QED BY <1>2, <1>5 DEF nextP

-----------------------------------------------------------------------------
(* The inductive invariant.                                                *)

LEMMA InvInit == Init => Inv
<1> SUFFICES ASSUME Init PROVE Inv
  OBVIOUS
<1>1. TypeOK
  BY CountAssumption DEF Init, TypeOK, Pointer
<1>2. IsQueue(elements, pHead, pTail, pNext)
  BY EmptyQueue DEF Init
<1> QED BY <1>1, <1>2, FS_EmptySet DEF Inv, QueueOK, Init

\* A step that leaves the list alone keeps it.
LEMMA SameList ==
  ASSUME QueueOK, UNCHANGED listVars
  PROVE  QueueOK'
BY DEF QueueOK, listVars

LEMMA InvNext == Inv /\ [Next]_vars => Inv'
<1> SUFFICES ASSUME Inv, [Next]_vars PROVE Inv'
  OBVIOUS
<1> USE CountAssumption, NodeAssumption
<1> USE DEF Goto, Post, Return, Fail, listVars, callVars, Pointer
<1>1. ASSUME NEW n \in Node, NEW d \in Data, Send(n, d) PROVE Inv'
  <2>1. TypeOK'
    BY <1>1 DEF Inv, TypeOK, Send, LinkLast
  <2>2. n \notin elements /\ elements' = elements \cup {n} /\ LinkLast(n)
    BY <1>1 DEF Send
  <2>3. /\ IsQueue(elements', pHead', pTail', pNext')
        /\ Cardinality(elements') = Cardinality(elements) + 1
    BY <2>2, Linked
  <2>4. iNumOfElementsInQueue' = Cardinality(elements')
    BY <1>1, <2>3 DEF Inv, QueueOK, Send
  <2> QED BY <2>1, <2>3, <2>4 DEF Inv, QueueOK
<1>2. ASSUME NEW r \in Receiver, Receive(r) PROVE Inv'
  <2>1. TypeOK'
    BY <1>2 DEF Inv, TypeOK, Receive
  <2> QED BY <1>2, <2>1, SameList DEF Inv, Receive
<1>3. ASSUME NEW r \in Receiver, TimeOut(r) PROVE Inv'
  <2>1. TypeOK'
    BY <1>3 DEF Inv, TypeOK, TimeOut
  <2> QED BY <1>3, <2>1, SameList DEF Inv, TimeOut
<1>4. ASSUME NEW r \in Receiver, Wake(r) PROVE Inv'
  <2>1. TypeOK'
    BY <1>4 DEF Inv, TypeOK, Wake
  <2> QED BY <1>4, <2>1, SameList DEF Inv, Wake
<1>5. ASSUME NEW r \in Receiver, Reset(r) PROVE Inv'
  <2>1. (posts + Wrap - 1) % Wrap \in 0..(Wrap - 1)
    BY ModType DEF Inv, TypeOK
  <2>2. TypeOK'
    BY <1>5, <2>1 DEF Inv, TypeOK, Reset
  <2> QED BY <1>5, <2>2, SameList DEF Inv, Reset
<1>6. ASSUME NEW r \in Receiver, Repost(r) PROVE Inv'
  <2>1. TypeOK'
    BY <1>6 DEF Inv, TypeOK, Repost
  <2> QED BY <1>6, <2>1, SameList DEF Inv, Repost
<1>7. ASSUME NEW r \in Receiver, Reposted(r) PROVE Inv'
  <2>1. TypeOK'
    BY <1>7 DEF Inv, TypeOK, Reposted
  <2> QED BY <1>7, <2>1, SameList DEF Inv, Reposted
<1>8. ASSUME NEW r \in Receiver, TakeNothing(r) PROVE Inv'
  <2>1. TypeOK'
    BY <1>8 DEF Inv, TypeOK, TakeNothing
  <2> QED BY <1>8, <2>1, SameList DEF Inv, TakeNothing
<1>9. ASSUME NEW r \in Receiver, LeaveTooBig(r) PROVE Inv'
  <2>1. TypeOK'
    BY <1>9 DEF Inv, TypeOK, LeaveTooBig
  <2> QED BY <1>9, <2>1, SameList DEF Inv, LeaveTooBig
<1>10. ASSUME NEW r \in Receiver, TakeFirst(r) PROVE Inv'
  <2>1. pHead \in elements /\ pHead \in Node /\ iNumOfElementsInQueue >= 1
    BY <1>10, Ends DEF TakeFirst
  <2>2. TypeOK'
    BY <1>10, <2>1 DEF Inv, TypeOK, TakeFirst
  <2>3. /\ IsQueue(elements', pHead', pTail', pNext')
        /\ Cardinality(elements') = Cardinality(elements) - 1
    BY <1>10, Unlinked
  <2>4. iNumOfElementsInQueue' = Cardinality(elements')
    BY <1>10, <2>3 DEF Inv, QueueOK, TakeFirst
  <2> QED BY <2>2, <2>3, <2>4 DEF Inv, QueueOK
<1>11. CASE UNCHANGED vars
  <2>1. TypeOK'
    BY <1>11 DEF Inv, TypeOK, vars
  <2> QED BY <1>11, <2>1, SameList DEF Inv, vars
<1> QED BY <1>1, <1>2, <1>3, <1>4, <1>5, <1>6, <1>7, <1>8, <1>9, <1>10, <1>11
        DEF Next, Running

LEMMA InvCorrect == Spec => []Inv
BY InvInit, InvNext, PTL DEF Spec

\* The queue's variables stay within their types: the counter never leaves
\* 0..iMsgQSize, and a receiver's loop counter never the range of the
\* unsigned ulPostCount (tpl_msgqSend(), tpl_msgqReceive()).
THEOREM TypeCorrect == Spec => []TypeOK
BY InvCorrect, PTL DEF Inv

\* The elements always form a list from pHead to pTail that nothing is lost
\* from, and the counter that limits the queue is their number
\* (tpl_msgqSend(), tpl_msgqReceive()).
THEOREM QueueCorrect == Spec => []QueueOK
BY InvCorrect, PTL DEF Inv

-----------------------------------------------------------------------------
(* The queue implements MsgFifo.                                           *)

\* The messages, written with the order of the list.
MessagesListed ==
  LET n == Cardinality(elements)
      s == ListOrder(elements, pHead, pNext)
  IN  /\ n \in Nat /\ n = iNumOfElementsInQueue
      /\ s \in [1..n -> elements]
      /\ Messages = [i \in 1..n |-> pData[s[i]]]
      /\ Messages \in Seq(Data \cup {NoData}) /\ Len(Messages) = n

LEMMA MessagesIs == Inv => MessagesListed
<1> SUFFICES ASSUME Inv PROVE MessagesListed
  OBVIOUS
<1> DEFINE n == Cardinality(elements)
           s == ListOrder(elements, pHead, pNext)
<1>1. /\ n \in Nat /\ n = iNumOfElementsInQueue
      /\ s \in [1..n -> elements]
  BY ElementsFinite, QueueOrder DEF Inv, QueueOK, Order, Orders
<1>2. Messages = [i \in 1..n |-> pData[s[i]]]
  BY <1>1 DEF Messages
<1>3. \A i \in 1..n : pData[s[i]] \in Data \cup {NoData}
  BY <1>1 DEF Inv, TypeOK
<1> HIDE DEF n, s
<1>4. Messages \in [1..n -> Data \cup {NoData}]
  BY <1>2, <1>3
<1>5. Messages \in Seq(Data \cup {NoData}) /\ Len(Messages) = n
  BY <1>1, <1>4
<1> QED BY <1>1, <1>2, <1>5 DEF n, s, MessagesListed

LEMMA SendAppends ==
  ASSUME Inv, Inv', NEW n \in Node, NEW d \in Data, Send(n, d)
  PROVE  Fifo!Send(d)
<1> DEFINE k == Cardinality(elements)
           s == ListOrder(elements, pHead, pNext)
           kP == Cardinality(elements')
           sP == ListOrder(elements', pHead', pNext')
<1>1. /\ k \in Nat /\ k = iNumOfElementsInQueue
      /\ s \in [1..k -> elements]
      /\ Messages = [i \in 1..k |-> pData[s[i]]]
      /\ Messages \in Seq(Data \cup {NoData}) /\ Len(Messages) = k
  BY MessagesIs DEF MessagesListed
<1>2. /\ Messages' = [i \in 1..kP |-> pData'[sP[i]]]
      /\ Messages' \in Seq(Data \cup {NoData}) /\ Len(Messages') = kP
      /\ sP \in [1..kP -> elements']
  <2>1. MessagesListed'
    BY MessagesIs, PTL
  <2> QED BY <2>1 DEF MessagesListed
<1>3. kP = k + 1 /\ sP = Behind(s, k, n)
  BY Linked DEF Send
<1>4. /\ \A i \in 1..k : sP[i] = s[i]
      /\ sP[k + 1] = n
  BY <1>1, <1>3 DEF Behind
<1>5. /\ n \notin elements /\ elements \subseteq Node
      /\ pData' = [pData EXCEPT ![n] = d]
      /\ pData \in [Node -> Data \cup {NoData}]
  BY DEF Send, Inv, TypeOK
<1> HIDE DEF k, s, kP, sP
<1>6. Len(Messages) < iMsgQSize
  BY <1>1 DEF Send
<1>7. Messages' = Append(Messages, d)
  <2>1. /\ Append(Messages, d) \in Seq(Data \cup {NoData})
        /\ Len(Append(Messages, d)) = k + 1
        /\ \A i \in 1..k : Append(Messages, d)[i] = Messages[i]
        /\ Append(Messages, d)[k + 1] = d
    BY <1>1
  <2>2. \A i \in 1..k : Messages'[i] = Messages[i]
    <3> SUFFICES ASSUME NEW i \in 1..k PROVE Messages'[i] = Messages[i]
      OBVIOUS
    <3>1. s[i] \in elements /\ s[i] # n /\ s[i] \in Node
      BY <1>1, <1>5
    <3>2. Messages'[i] = pData'[s[i]]
      BY <1>1, <1>2, <1>3, <1>4
    <3> QED BY <3>1, <3>2, <1>1, <1>5
  <2>3. Messages'[k + 1] = d
    BY <1>1, <1>2, <1>3, <1>4, <1>5
  <2>4. \A i \in 1..(k + 1) : Messages'[i] = Append(Messages, d)[i]
    <3> SUFFICES ASSUME NEW i \in 1..(k + 1)
                 PROVE  Messages'[i] = Append(Messages, d)[i]
      OBVIOUS
    <3>1. i \in 1..k \/ i = k + 1
      BY <1>1
    <3> QED BY <3>1, <2>1, <2>2, <2>3
  <2>5. Len(Messages') = k + 1
    BY <1>2, <1>3
  <2> QED BY <1>2, <2>1, <2>4, <2>5, SeqEqual
<1>8. result' = result
  BY DEF Send
<1> QED BY <1>6, <1>7, <1>8 DEF Fifo!Send

LEMMA TakeReceives ==
  ASSUME Inv, Inv', NEW r \in Receiver, TakeFirst(r)
  PROVE  Fifo!Receive(r)
<1> DEFINE k == Cardinality(elements)
           s == ListOrder(elements, pHead, pNext)
           kP == Cardinality(elements')
           sP == ListOrder(elements', pHead', pNext')
<1>1. /\ k \in Nat /\ k = iNumOfElementsInQueue
      /\ s \in [1..k -> elements]
      /\ Messages = [i \in 1..k |-> pData[s[i]]]
      /\ Messages \in Seq(Data \cup {NoData}) /\ Len(Messages) = k
  BY MessagesIs DEF MessagesListed
<1>2. /\ Messages' = [i \in 1..kP |-> pData'[sP[i]]]
      /\ Messages' \in Seq(Data \cup {NoData}) /\ Len(Messages') = kP
      /\ sP \in [1..kP -> elements']
  <2>1. MessagesListed'
    BY MessagesIs, PTL
  <2> QED BY <2>1 DEF MessagesListed
<1>3. k >= 1 /\ kP = k - 1 /\ sP = Rest(s, k) /\ s[1] = pHead
  BY Unlinked
<1>4. /\ sP \in [1..kP -> elements \ {pHead}]
      /\ elements \subseteq Node
  BY <1>2 DEF TakeFirst, Inv, TypeOK
<1>5. /\ pData' = [pData EXCEPT ![pHead] = NoData]
      /\ pData \in [Node -> Data \cup {NoData}]
      /\ result' = [result EXCEPT ![r] = pData[pHead]]
  BY DEF TakeFirst, Return, Inv, TypeOK
<1> HIDE DEF k, s, kP, sP
<1>6. \A i \in 1..(k - 1) : sP[i] = s[i + 1]
  BY <1>3 DEF Rest
<1>7. Messages # <<>> /\ Head(Messages) = pData[pHead]
  <2>1. Messages # <<>>
    BY <1>1, <1>3
  <2>2. Head(Messages) = Messages[1] /\ 1 \in 1..k
    BY <1>1, <1>3, <2>1
  <2> QED BY <2>1, <2>2, <1>1, <1>3
<1>8. Messages' = Tail(Messages)
  <2>1. /\ Tail(Messages) \in Seq(Data \cup {NoData})
        /\ Len(Tail(Messages)) = k - 1
        /\ \A i \in 1..(k - 1) : Tail(Messages)[i] = Messages[i + 1]
    <3>1. /\ Tail(Messages) \in Seq(Data \cup {NoData})
          /\ Len(Tail(Messages)) = Len(Messages) - 1
          /\ \A i \in 1..Len(Tail(Messages)) :
               Tail(Messages)[i] = Messages[i + 1]
      BY <1>1, <1>7, HeadTailProperties
    <3> QED BY <3>1, <1>1
  <2>2. \A i \in 1..(k - 1) : Messages'[i] = Tail(Messages)[i]
    <3> SUFFICES ASSUME NEW i \in 1..(k - 1)
                 PROVE  Messages'[i] = Tail(Messages)[i]
      OBVIOUS
    <3>1. sP[i] = s[i + 1] /\ sP[i] \in Node /\ sP[i] # pHead
      BY <1>3, <1>4, <1>6
    <3>2. Messages'[i] = pData'[sP[i]]
      BY <1>2, <1>3
    <3>3. pData'[sP[i]] = pData[s[i + 1]]
      BY <3>1, <1>5
    <3>4. i + 1 \in 1..k
      BY <1>1
    <3>5. Messages[i + 1] = pData[s[i + 1]]
      BY <3>4, <1>1
    <3> QED BY <3>2, <3>3, <3>5, <2>1
  <2>3. Len(Messages') = k - 1
    BY <1>2, <1>3
  <2> QED BY <1>2, <2>1, <2>2, <2>3, SeqEqual
<1> QED BY <1>5, <1>7, <1>8 DEF Fifo!Receive

\* Every step of the queue is one of MsgFifo, or leaves its variables alone.
LEMMA FifoStep == Inv /\ Inv' /\ [Next]_vars => [Fifo!Next]_(Fifo!vars)
<1> SUFFICES ASSUME Inv, Inv', [Next]_vars PROVE [Fifo!Next]_(Fifo!vars)
  OBVIOUS
<1> USE DEF Fifo!Next, Fifo!vars
<1>1. UNCHANGED listVars => UNCHANGED Messages
  BY DEF listVars, Messages
<1>2. ASSUME NEW n \in Node, NEW d \in Data, Send(n, d)
      PROVE  [Fifo!Next]_(Fifo!vars)
  BY <1>2, SendAppends
<1>3. ASSUME NEW r \in Receiver, TakeFirst(r)
      PROVE  [Fifo!Next]_(Fifo!vars)
  BY <1>3, TakeReceives
<1>4. ASSUME NEW r \in Receiver, TimeOut(r) \/ TakeNothing(r) \/ LeaveTooBig(r)
      PROVE  [Fifo!Next]_(Fifo!vars)
  BY <1>1, <1>4 DEF TimeOut, TakeNothing, LeaveTooBig, Fail, Return, Fifo!Fail
<1>5. ASSUME NEW r \in Receiver,
             Receive(r) \/ Wake(r) \/ Reset(r) \/ Repost(r) \/ Reposted(r)
      PROVE  [Fifo!Next]_(Fifo!vars)
  BY <1>1, <1>5 DEF Receive, Wake, Reset, Repost, Reposted
<1>6. CASE UNCHANGED vars
  BY <1>1, <1>6 DEF vars, listVars
<1> QED BY <1>2, <1>3, <1>4, <1>5, <1>6 DEF Next, Running

LEMMA FifoInit == Init => Fifo!Init
<1> SUFFICES ASSUME Init PROVE Messages = <<>>
  BY DEF Init, Fifo!Init
<1>1. Inv /\ Cardinality(elements) = 0
  BY InvInit, FS_EmptySet DEF Init
<1> QED BY <1>1, MessagesIs DEF MessagesListed

\* The queue implements a bounded first-in, first-out queue: no message is
\* lost, received twice or overtaken, through any interleaving of senders and
\* receivers (tpl_msgqSend(), tpl_msgqReceive()).
THEOREM FifoCorrect == Spec => FifoSpec
BY InvCorrect, FifoInit, FifoStep, PTL DEF Spec, FifoSpec, Fifo!Spec

-----------------------------------------------------------------------------
(* The count.  Every post of the semaphore, and every post a receiver has  *)
(* taken away, is a token of its own; the tokens never get fewer than the  *)
(* messages.                                                               *)

Tokens(p, t) ==
  {<<k, {}>> : k \in 1..p} \cup
  UNION {{<<k, {r}>> : k \in 1..t[r]} : r \in Receiver}

LEMMA TokenIs ==
  ASSUME NEW p, NEW t, NEW x
  PROVE  x \in Tokens(p, t) <=>
           \/ \E k \in 1..p : x = <<k, {}>>
           \/ \E r \in Receiver : \E k \in 1..t[r] : x = <<k, {r}>>
BY DEF Tokens

\* Tokens differ when their numbers or their receivers do.
LEMMA TokensDiffer ==
  ASSUME NEW j, NEW k, NEW q, NEW r
  PROVE  /\ <<k, {}>> # <<j, {r}>>
         /\ <<j, {q}>> = <<k, {r}>> => j = k /\ q = r
         /\ <<j, {}>> = <<k, {}>> => j = k
<1>1. {} # {r}
  OBVIOUS
<1>2. {q} = {r} => q = r
  OBVIOUS
<1> QED BY <1>1, <1>2

LEMMA TokensFinite ==
  ASSUME NEW p \in Nat, NEW t \in [Receiver -> Nat]
  PROVE  IsFiniteSet(Tokens(p, t)) /\ Cardinality(Tokens(p, t)) \in Nat
<1> DEFINE A == {<<k, {}>> : k \in 1..p}
           B(r) == {<<k, {r}>> : k \in 1..t[r]}
           BB == {B(r) : r \in Receiver}
<1>1. IsFiniteSet(A)
  <2> DEFINE f == [k \in 1..p |-> <<k, {}>>]
  <2>1. f \in Surjection(1..p, A)
    BY DEF Surjection
  <2> QED BY <2>1, FS_Interval, FS_Surjection
<1>2. ASSUME NEW r \in Receiver PROVE IsFiniteSet(B(r))
  <2> DEFINE f == [k \in 1..t[r] |-> <<k, {r}>>]
  <2>1. f \in Surjection(1..t[r], B(r))
    BY DEF Surjection
  <2>2. IsFiniteSet(1..t[r])
    BY FS_Interval
  <2> HIDE DEF f, B
  <2> QED BY <2>1, <2>2, FS_Surjection
<1>3. IsFiniteSet(BB)
  <2> DEFINE f == [r \in Receiver |-> B(r)]
  <2> HIDE DEF B
  <2>1. f \in Surjection(Receiver, BB)
    BY DEF Surjection
  <2> HIDE DEF f, BB
  <2> QED BY <2>1, ReceiverAssumption, FS_Surjection
<1>4. IsFiniteSet(UNION BB)
  <2> HIDE DEF B
  <2>1. \A T \in BB : IsFiniteSet(T)
    BY <1>2
  <2> HIDE DEF BB
  <2> QED BY <1>3, <2>1, FS_UNION
<1>5. Tokens(p, t) \subseteq A \cup UNION BB
  BY DEF Tokens
<1>6. IsFiniteSet(A \cup UNION BB)
  <2> HIDE DEF A, BB
  <2> QED BY <1>1, <1>4, FS_Union
<1> HIDE DEF A, BB
<1>7. IsFiniteSet(Tokens(p, t))
  BY <1>5, <1>6, FS_Subset
<1> QED BY <1>7, FS_CardinalityType

\* A post is one more token.
LEMMA TokensPost ==
  ASSUME NEW p \in Nat, NEW t \in [Receiver -> Nat]
  PROVE  Cardinality(Tokens(p + 1, t)) = Cardinality(Tokens(p, t)) + 1
<1>1. Tokens(p + 1, t) = Tokens(p, t) \cup {<<p + 1, {}>>}
  <2>1. 1..(p + 1) = (1..p) \cup {p + 1}
    OBVIOUS
  <2> QED BY <2>1 DEF Tokens
<1>2. <<p + 1, {}>> \notin Tokens(p, t)
  BY DEF Tokens
<1> QED BY <1>1, <1>2, TokensFinite, FS_AddElement

\* A post taken away is one more token.
LEMMA TokensTake ==
  ASSUME NEW p \in Nat, NEW t \in [Receiver -> Nat], NEW r \in Receiver
  PROVE  Cardinality(Tokens(p, [t EXCEPT ![r] = @ + 1]))
           = Cardinality(Tokens(p, t)) + 1
<1> DEFINE u == [t EXCEPT ![r] = @ + 1]
<1>1. Tokens(p, u) = Tokens(p, t) \cup {<<t[r] + 1, {r}>>}
  <2>1. 1..u[r] = (1..t[r]) \cup {t[r] + 1} /\ t[r] + 1 \in Nat
    OBVIOUS
  <2>2. \A q \in Receiver : q # r => u[q] = t[q]
    OBVIOUS
  <2> HIDE DEF u
  <2>3. ASSUME NEW x \in Tokens(p, u)
        PROVE  x \in Tokens(p, t) \cup {<<t[r] + 1, {r}>>}
    BY <2>1, <2>2, TokenIs
  <2>4. ASSUME NEW x \in Tokens(p, t) PROVE x \in Tokens(p, u)
    BY <2>1, <2>2, TokenIs
  <2>5. <<t[r] + 1, {r}>> \in Tokens(p, u)
    BY <2>1, TokenIs
  <2> QED BY <2>3, <2>4, <2>5
<1>2. <<t[r] + 1, {r}>> \notin Tokens(p, t)
  <2> SUFFICES ASSUME <<t[r] + 1, {r}>> \in Tokens(p, t) PROVE FALSE
    OBVIOUS
  <2>1. \/ \E k \in 1..p : <<t[r] + 1, {r}>> = <<k, {}>>
        \/ \E q \in Receiver : \E k \in 1..t[q] :
             <<t[r] + 1, {r}>> = <<k, {q}>>
    BY TokenIs
  <2>2. PICK q \in Receiver : \E k \in 1..t[q] : <<t[r] + 1, {r}>> = <<k, {q}>>
    BY <2>1, TokensDiffer
  <2>3. PICK k \in 1..t[q] : <<t[r] + 1, {r}>> = <<k, {q}>>
    BY <2>2
  <2>4. t[r] + 1 = k /\ r = q
    BY <2>3, TokensDiffer
  <2> QED BY <2>4
<1> QED BY <1>1, <1>2, TokensFinite, FS_AddElement

\* More taken, no fewer tokens.
LEMMA TokensMore ==
  ASSUME NEW p \in Nat, NEW t \in [Receiver -> Nat],
         NEW u \in [Receiver -> Nat],
         \A r \in Receiver : t[r] <= u[r]
  PROVE  Cardinality(Tokens(p, t)) <= Cardinality(Tokens(p, u))
<1>1. Tokens(p, t) \subseteq Tokens(p, u)
  BY DEF Tokens
<1> QED BY <1>1, TokensFinite, FS_Subset

\* A receiver that has taken nothing takes all posts.
LEMMA TokensReset ==
  ASSUME NEW p \in Nat, NEW t \in [Receiver -> Nat], NEW r \in Receiver,
         t[r] = 0
  PROVE  Cardinality(Tokens(p, t))
           <= Cardinality(Tokens(0, [t EXCEPT ![r] = p]))
<1> DEFINE u == [t EXCEPT ![r] = p]
           S == Tokens(p, t)
           T == Tokens(0, u)
           f == [x \in S |-> IF x[2] = {} THEN <<x[1], {r}>> ELSE x]
<1>1. u[r] = p /\ (\A q \in Receiver : q # r => u[q] = t[q])
      /\ u \in [Receiver -> Nat]
  OBVIOUS
<1>2. ASSUME NEW x \in S
      PROVE  \/ \E k \in 1..p : x = <<k, {}>> /\ f[x] = <<k, {r}>>
             \/ \E q \in Receiver : \E k \in 1..t[q] :
                  q # r /\ x = <<k, {q}>> /\ f[x] = x
  <2>1. CASE \E k \in 1..p : x = <<k, {}>>
    BY <2>1
  <2>2. CASE \E q \in Receiver : \E k \in 1..t[q] : x = <<k, {q}>>
    <3>1. PICK q \in Receiver : \E k \in 1..t[q] : x = <<k, {q}>>
      BY <2>2
    <3>2. q # r
      BY <3>1
    <3>3. x[2] # {}
      BY <3>1
    <3>4. f[x] = x
      BY <3>3
    <3> HIDE DEF f, S
    <3> QED BY <3>1, <3>2, <3>4
  <2> QED BY <2>1, <2>2, TokenIs
<1>3. f = [x \in S |-> f[x]]
  OBVIOUS
<1> HIDE DEF u, f, S, T
<1>4. ASSUME NEW x \in S PROVE f[x] \in T
  <2>1. CASE \E k \in 1..p : x = <<k, {}>> /\ f[x] = <<k, {r}>>
    BY <1>1, <2>1, TokenIs DEF T
  <2>2. CASE \E q \in Receiver : \E k \in 1..t[q] :
               q # r /\ x = <<k, {q}>> /\ f[x] = x
    BY <1>1, <2>2, TokenIs DEF T
  <2> QED BY <1>2, <2>1, <2>2
<1>5. \A x, y \in S : f[x] = f[y] => x = y
  <2> SUFFICES ASSUME NEW x \in S, NEW y \in S, f[x] = f[y] PROVE x = y
    OBVIOUS
  <2>1. CASE /\ \E k \in 1..p : x = <<k, {}>> /\ f[x] = <<k, {r}>>
             /\ \E k \in 1..p : y = <<k, {}>> /\ f[y] = <<k, {r}>>
    BY <2>1, TokensDiffer
  <2>2. CASE /\ \E k \in 1..p : x = <<k, {}>> /\ f[x] = <<k, {r}>>
             /\ \E q \in Receiver : \E k \in 1..t[q] :
                  q # r /\ y = <<k, {q}>> /\ f[y] = y
    <3>1. PICK k \in 1..p : f[x] = <<k, {r}>>
      BY <2>2
    <3>2. PICK q \in Receiver : \E j \in 1..t[q] : q # r /\ f[y] = <<j, {q}>>
      BY <2>2
    <3>3. PICK j \in 1..t[q] : q # r /\ f[y] = <<j, {q}>>
      BY <3>2
    <3>4. <<k, {r}>> = <<j, {q}>>
      BY <3>1, <3>3
    <3>5. r = q
      BY <3>4, TokensDiffer
    <3> QED BY <3>3, <3>5
  <2>3. CASE /\ \E k \in 1..p : y = <<k, {}>> /\ f[y] = <<k, {r}>>
             /\ \E q \in Receiver : \E k \in 1..t[q] :
                  q # r /\ x = <<k, {q}>> /\ f[x] = x
    BY <2>3, TokensDiffer
  <2> QED BY <1>2, <2>1, <2>2, <2>3
<1>5a. f \in Injection(S, T)
  <2>1. f \in [S -> T]
    BY <1>3, <1>4
  <2> QED BY <2>1, <1>5 DEF Injection, IsInjective
<1>6. IsFiniteSet(T)
  BY <1>1, TokensFinite DEF T
<1>7. Cardinality(S) <= Cardinality(T)
  BY <1>5a, <1>6, FS_Injection
<1> QED BY <1>7 DEF S, T, u

\* There are tokens for all posts, and no others when nothing is taken.
LEMMA TokensPosts ==
  ASSUME NEW p \in Nat, NEW t \in [Receiver -> Nat]
  PROVE  /\ Cardinality(Tokens(p, t)) >= p
         /\ (\A r \in Receiver : t[r] = 0) => Cardinality(Tokens(p, t)) = p
<1> DEFINE A == {<<k, {}>> : k \in 1..p}
           f == [k \in 1..p |-> <<k, {}>>]
<1>1. f \in Bijection(1..p, A)
  <2>1. \A j, k \in 1..p : f[j] = f[k] => j = k
    BY TokensDiffer
  <2>2. f \in [1..p -> A]
    OBVIOUS
  <2>3. \A x \in A : \E k \in 1..p : f[k] = x
    OBVIOUS
  <2> HIDE DEF f, A
  <2> QED BY <2>1, <2>2, <2>3 DEF Bijection, Injection,
           IsInjective, Surjection
<1>2. IsFiniteSet(1..p) /\ Cardinality(1..p) = p
  BY FS_Interval
<1> HIDE DEF f
<1>3. Cardinality(A) = p
  BY <1>1, <1>2, FS_Bijection DEF ExistsBijection
<1>4. A \subseteq Tokens(p, t)
  BY DEF Tokens
<1>5. (\A r \in Receiver : t[r] = 0) => Tokens(p, t) \subseteq A
  BY DEF Tokens
<1> HIDE DEF A
<1> QED BY <1>3, <1>4, <1>5, TokensFinite, FS_Subset

TakenBy == [r \in Receiver |-> Taken(r)]

\* There is a token for every message.
Counted == iNumOfElementsInQueue <= Cardinality(Tokens(posts, TakenBy))

CountTyped == posts \in Nat /\ TakenBy \in [Receiver -> Nat]

LEMMA TakenType == Inv => CountTyped
<1> SUFFICES ASSUME Inv PROVE CountTyped
  OBVIOUS
<1>1. \A r \in Receiver : left[r] \in Nat
  BY CountAssumption DEF Inv, TypeOK
<1> QED BY <1>1 DEF Inv, TypeOK, TakenBy, Taken, CountTyped

\* A step of r changes what r has taken only.
LEMMA TakenStep ==
  ASSUME NEW r \in Receiver, NEW v,
         \A q \in Receiver : q # r => pc'[q] = pc[q] /\ left'[q] = left[q],
         Taken(r)' = v
  PROVE  TakenBy' = [TakenBy EXCEPT ![r] = v]
<1>1. \A q \in Receiver : q # r => Taken(q)' = Taken(q)
  BY DEF Taken
<1> QED BY <1>1 DEF TakenBy

\* Saturated, the semaphore has more posts than the queue can hold messages.
LEMMA Saturated ==
  ASSUME Inv', posts' = MaxPosts
  PROVE  Counted'
<1>1. posts' \in Nat /\ TakenBy' \in [Receiver -> Nat]
  <2>1. CountTyped'
    BY TakenType, PTL
  <2> QED BY <2>1 DEF CountTyped
<1>2. posts' <= Cardinality(Tokens(posts', TakenBy'))
  BY <1>1, TokensPosts
<1>3. iNumOfElementsInQueue' <= MaxPosts /\ iNumOfElementsInQueue' \in Nat
  BY CountAssumption DEF Inv, TypeOK
<1>4. Cardinality(Tokens(posts', TakenBy')) \in Nat
  BY <1>1, TokensFinite
<1> QED BY <1>1, <1>2, <1>3, <1>4, CountAssumption DEF Counted

LEMMA CountedInit == Init => Counted
<1> SUFFICES ASSUME Init PROVE Counted
  OBVIOUS
<1>1. posts \in Nat /\ TakenBy \in [Receiver -> Nat]
  BY InvInit, TakenType DEF CountTyped
<1>2. Cardinality(Tokens(posts, TakenBy)) \in Nat
  BY <1>1, TokensFinite
<1> QED BY <1>2 DEF Counted, Init

LEMMA CountedNext == Inv /\ Inv' /\ Counted /\ [Next]_vars => Counted'
<1> SUFFICES ASSUME Inv, Inv', Counted, [Next]_vars PROVE Counted'
  OBVIOUS
<1> DEFINE C == Cardinality(Tokens(posts, TakenBy))
           num == iNumOfElementsInQueue
<1>a. /\ posts \in Nat /\ TakenBy \in [Receiver -> Nat]
      /\ posts' \in Nat /\ TakenBy' \in [Receiver -> Nat]
      /\ num \in Nat /\ num' \in Nat
  <2>1. CountTyped'
    BY TakenType, PTL
  <2> QED BY <2>1, TakenType DEF Inv, TypeOK, CountTyped
<1>b. C \in Nat /\ Cardinality(Tokens(posts', TakenBy')) \in Nat
  BY <1>a, TokensFinite
<1>c. num <= C
  BY DEF Counted
<1>d. /\ pc \in [Receiver ->
             {"idle", "waiting", "resetting", "posting", "locking"}]
      /\ left \in [Receiver -> 0..(Wrap - 1)]
      /\ posts <= MaxPosts /\ MaxPosts \in Nat
  BY CountAssumption DEF Inv, TypeOK
<1> USE DEF Goto, Return, Fail, listVars, callVars
<1>1. ASSUME NEW n \in Node, NEW d \in Data, Send(n, d) PROVE Counted'
  <2>1. CASE posts < MaxPosts
    <3>1. posts' = posts + 1 /\ TakenBy' = TakenBy /\ num' = num + 1
      BY <1>1, <2>1 DEF Send, Post, TakenBy, Taken
    <3>2. Cardinality(Tokens(posts + 1, TakenBy)) = C + 1
      BY <1>a, TokensPost
    <3> QED BY <3>1, <3>2, <1>a, <1>b, <1>c DEF Counted
  <2>2. CASE ~ (posts < MaxPosts)
    <3>1. posts' = MaxPosts
      BY <1>1, <2>2, <1>a, <1>d DEF Send, Post
    <3> QED BY <3>1, Saturated
  <2> QED BY <2>1, <2>2
<1>2. ASSUME NEW r \in Receiver, Receive(r) \/ TimeOut(r) \/ Wake(r)
      PROVE  Counted'
  <2>1. TakenBy' = TakenBy
    <3>1. \A q \in Receiver : Taken(q)' = Taken(q)
      BY <1>2, <1>d DEF Receive, TimeOut, Wake, Taken
    <3> QED BY <3>1 DEF TakenBy
  <2>2. posts' = posts /\ num' = num
    BY <1>2 DEF Receive, TimeOut, Wake
  <2> QED BY <2>1, <2>2 DEF Counted
<1>3. ASSUME NEW r \in Receiver, Reset(r) PROVE Counted'
  <2>1. /\ posts' = 0 /\ num' = num /\ pc[r] = "resetting"
        /\ pc' = [pc EXCEPT ![r] = "posting"]
        /\ left' = [left EXCEPT ![r] = (posts + Wrap - 1) % Wrap]
    BY <1>3 DEF Reset
  <2> DEFINE v == 1 + left'[r]
  <2>2. Taken(r)' = v /\ TakenBy[r] = 0
    BY <2>1, <1>d DEF Taken, TakenBy
  <2>3. v \in Nat /\ posts <= v
    <3>1. left'[r] = (posts + Wrap - 1) % Wrap
      BY <2>1, <1>d
    <3>2. posts \in 0..MaxPosts
      BY <1>a, <1>d
    <3>3. left'[r] \in Nat
      BY <3>1, <3>2, ModType, CountAssumption
    <3>4. CASE posts = 0
      BY <3>3, <3>4
    <3>5. CASE posts > 0
      BY <3>1, <3>2, <3>5, ModExact
    <3> QED BY <3>3, <3>4, <3>5, <1>a
  <2>4. \A q \in Receiver : q # r => pc'[q] = pc[q] /\ left'[q] = left[q]
    BY <2>1, <1>d
  <2>5. TakenBy' = [TakenBy EXCEPT ![r] = v]
    BY <2>2, <2>4, TakenStep
  <2> HIDE DEF v
  <2>6. C <= Cardinality(Tokens(0, [TakenBy EXCEPT ![r] = posts]))
    BY <1>a, <2>2, TokensReset
  <2> DEFINE t == [TakenBy EXCEPT ![r] = posts]
             u == [TakenBy EXCEPT ![r] = v]
  <2>7. /\ t \in [Receiver -> Nat] /\ u \in [Receiver -> Nat]
        /\ \A q \in Receiver : t[q] <= u[q]
    BY <1>a, <2>3
  <2> HIDE DEF t, u
  <2>8. /\ Cardinality(Tokens(0, t)) <= Cardinality(Tokens(0, u))
        /\ Cardinality(Tokens(0, t)) \in Nat
    BY <2>7, TokensMore, TokensFinite
  <2> QED BY <2>1, <2>5, <2>6, <2>8, <1>a, <1>b, <1>c DEF Counted, t, u
<1>4. ASSUME NEW r \in Receiver, Repost(r) PROVE Counted'
  <2>1. /\ num' = num /\ pc[r] = "posting" /\ pc' = pc /\ left[r] > 0
        /\ left' = [left EXCEPT ![r] = @ - 1] /\ Post
    BY <1>4 DEF Repost
  <2>2. CASE posts < MaxPosts
    <3>1. posts' = posts + 1
      BY <2>1, <2>2 DEF Post
    <3>2. /\ Taken(r) = 1 + left[r] /\ Taken(r)' = left[r]
          /\ left[r] \in Nat
      BY <2>1, <1>d, CountAssumption DEF Taken
    <3>3. \A q \in Receiver : q # r => pc'[q] = pc[q] /\ left'[q] = left[q]
      BY <2>1, <1>d
    <3>4. TakenBy' = [TakenBy EXCEPT ![r] = left[r]]
      BY <3>2, <3>3, TakenStep
    <3> DEFINE t == TakenBy'
    <3>5. TakenBy = [t EXCEPT ![r] = @ + 1]
      <4>1. TakenBy[r] = left[r] + 1
        BY <3>2 DEF TakenBy
      <4> QED BY <4>1, <3>4, <1>a
    <3>6. t \in [Receiver -> Nat]
      BY <1>a
    <3> HIDE DEF t
    <3>7. C = Cardinality(Tokens(posts, t)) + 1
      BY <3>5, <3>6, <1>a, TokensTake
    <3>8. Cardinality(Tokens(posts + 1, t)) = Cardinality(Tokens(posts, t)) + 1
      BY <3>6, <1>a, TokensPost
    <3> QED BY <3>1, <3>7, <3>8, <2>1, <1>c DEF t, Counted
  <2>3. CASE ~ (posts < MaxPosts)
    <3>1. posts' = MaxPosts
      BY <2>1, <2>3, <1>a, <1>d DEF Post
    <3> QED BY <3>1, Saturated
  <2> QED BY <2>2, <2>3
<1>5. ASSUME NEW r \in Receiver, Reposted(r) PROVE Counted'
  <2>1. posts' = posts /\ num' = num
    BY <1>5 DEF Reposted
  <2>2. \A q \in Receiver : Taken(q)' = Taken(q)
    BY <1>5, <1>d DEF Reposted, Taken
  <2> QED BY <2>1, <2>2 DEF Counted, TakenBy
<1>6. ASSUME NEW r \in Receiver, TakeNothing(r) PROVE Counted'
  <2>1. num' = 0
    BY <1>6, Ends DEF TakeNothing
  <2> QED BY <2>1, <1>b DEF Counted
\* The post in r's hand is gone, as TakenBy' says.
<1>e. ASSUME NEW r \in Receiver, pc[r] = "locking",
             pc' = [pc EXCEPT ![r] = "idle"], left' = left
      PROVE  C = Cardinality(Tokens(posts, TakenBy')) + 1
  <2>1. Taken(r) = 1 /\ Taken(r)' = 0
    BY <1>e, <1>d DEF Taken
  <2>2. \A q \in Receiver : q # r => pc'[q] = pc[q] /\ left'[q] = left[q]
    BY <1>e, <1>d
  <2>3. TakenBy' = [TakenBy EXCEPT ![r] = 0]
    BY <2>1, <2>2, TakenStep
  <2> DEFINE t == TakenBy'
  <2>4. t \in [Receiver -> Nat] /\ TakenBy = [t EXCEPT ![r] = @ + 1]
    <3>1. TakenBy[r] = 0 + 1
      BY <2>1 DEF TakenBy
    <3>2. t[r] = 0
      BY <2>3, <1>a
    <3>3. [t EXCEPT ![r] = @ + 1] = [t EXCEPT ![r] = 0 + 1]
      BY <3>2
    <3>4. TakenBy = [t EXCEPT ![r] = 0 + 1]
      BY <3>1, <2>3, <1>a
    <3> QED BY <3>3, <3>4, <1>a
  <2> HIDE DEF t
  <2>5. C = Cardinality(Tokens(posts, t)) + 1
    BY <2>4, <1>a, TokensTake
  <2> QED BY <2>5 DEF t
<1>f. Cardinality(Tokens(posts, TakenBy')) \in Nat
  BY <1>a, TokensFinite
<1>7. ASSUME NEW r \in Receiver, LeaveTooBig(r) PROVE Counted'
  <2>1. /\ num' = num /\ Post
        /\ C = Cardinality(Tokens(posts, TakenBy')) + 1
    BY <1>7, <1>e DEF LeaveTooBig
  <2>2. CASE posts < MaxPosts
    <3>1. posts' = posts + 1
      BY <2>1, <2>2 DEF Post
    <3>2. Cardinality(Tokens(posts + 1, TakenBy'))
            = Cardinality(Tokens(posts, TakenBy')) + 1
      BY <1>a, TokensPost
    <3> QED BY <3>1, <3>2, <2>1, <1>c DEF Counted
  <2>3. CASE ~ (posts < MaxPosts)
    <3>1. posts' = MaxPosts
      BY <2>1, <2>3, <1>a, <1>d DEF Post
    <3> QED BY <3>1, Saturated
  <2> QED BY <2>2, <2>3
<1>8. ASSUME NEW r \in Receiver, TakeFirst(r) PROVE Counted'
  <2>1. /\ num' = num - 1 /\ posts' = posts
        /\ C = Cardinality(Tokens(posts, TakenBy')) + 1
    BY <1>8, <1>e DEF TakeFirst
  <2> QED BY <2>1, <1>a, <1>c, <1>f DEF Counted
<1>9. CASE UNCHANGED vars
  BY <1>9 DEF vars, Counted, TakenBy, Taken
<1> QED BY <1>1, <1>2, <1>3, <1>4, <1>5, <1>6, <1>7, <1>8, <1>9
        DEF Next, Running

LEMMA CountedRest == Inv /\ Counted => NoneUnannounced
<1> SUFFICES ASSUME Inv, Counted,
                    \A r \in Receiver : pc[r] \in {"idle", "waiting"}
             PROVE  posts >= iNumOfElementsInQueue
  BY DEF NoneUnannounced
<1>1. \A r \in Receiver : TakenBy[r] = 0
  BY DEF TakenBy, Taken
<1>2. Cardinality(Tokens(posts, TakenBy)) = posts
  BY <1>1, TakenType, TokensPosts DEF CountTyped
<1> QED BY <1>2, TakenType DEF Counted, CountTyped, Inv, TypeOK

\* With any number of receivers that reset and repost the semaphore under each
\* other's hands, no message stays behind unannounced (tpl_cevsemWaitFor()).
THEOREM NoneUnannouncedCorrect == Spec => []NoneUnannounced
BY InvCorrect, CountedInit, CountedNext, CountedRest, PTL DEF Spec

-----------------------------------------------------------------------------
(* One receiver.                                                           *)

\* The only receiver resets the semaphore when it has seen a post only.
CountedAlone ==
  \A r \in Receiver :
    Receiver = {r} => /\ posts + Taken(r) = iNumOfElementsInQueue
                      /\ pc[r] = "resetting" => posts > 0

LEMMA AloneInit == Init => CountedAlone
BY DEF Init, CountedAlone, Taken

LEMMA AloneNext == Inv /\ Inv' /\ CountedAlone /\ [Next]_vars => CountedAlone'
<1> SUFFICES ASSUME Inv, Inv', CountedAlone, [Next]_vars,
                    NEW r \in Receiver, Receiver = {r}
             PROVE  /\ posts' + Taken(r)' = iNumOfElementsInQueue'
                    /\ pc'[r] = "resetting" => posts' > 0
  BY DEF CountedAlone
<1>a. /\ posts + Taken(r) = iNumOfElementsInQueue
      /\ pc[r] = "resetting" => posts > 0
  BY DEF CountedAlone
<1>b. /\ posts \in Nat /\ posts <= MaxPosts
      /\ iNumOfElementsInQueue \in Nat /\ iNumOfElementsInQueue <= MaxPosts
      /\ iNumOfElementsInQueue' \in Nat /\ iNumOfElementsInQueue' <= MaxPosts
      /\ left[r] \in Nat /\ MaxPosts \in Nat
      /\ left \in [Receiver -> 0..(Wrap - 1)]
      /\ pc \in [Receiver ->
             {"idle", "waiting", "resetting", "posting", "locking"}]
  BY CountAssumption DEF Inv, TypeOK
<1> USE <1>a, <1>b
<1> USE DEF Taken, Goto, Return, Fail, Post, listVars, callVars
<1>1. ASSUME NEW n \in Node, NEW d \in Data, Send(n, d)
      PROVE  /\ posts' + Taken(r)' = iNumOfElementsInQueue'
             /\ pc'[r] = "resetting" => posts' > 0
  BY <1>1 DEF Send
<1>2. CASE Receive(r)
  BY <1>2 DEF Receive
<1>3. CASE TimeOut(r)
  BY <1>3 DEF TimeOut
<1>4. CASE Wake(r)
  BY <1>4 DEF Wake
<1>5. CASE Reset(r)
  <2>1. (posts + Wrap - 1) % Wrap = posts - 1
    BY <1>5, ModExact DEF Reset
  <2> QED BY <1>5, <2>1 DEF Reset
<1>6. CASE Repost(r)
  BY <1>6 DEF Repost
<1>7. CASE Reposted(r)
  BY <1>7 DEF Reposted
<1>8. CASE TakeNothing(r)
  BY <1>8, Ends DEF TakeNothing
<1>9. CASE LeaveTooBig(r)
  BY <1>9 DEF LeaveTooBig
<1>10. CASE TakeFirst(r)
  BY <1>10 DEF TakeFirst
<1>11. CASE UNCHANGED vars
  BY <1>11 DEF vars
<1> QED BY <1>1, <1>2, <1>3, <1>4, <1>5, <1>6, <1>7, <1>8, <1>9, <1>10, <1>11
        DEF Next, Running

\* With one receiver the event semaphore is the counting semaphore it stands
\* for, in the window between its reset and the last post too
\* (tpl_cevsem_os2.c).
THEOREM CountExactCorrect == Spec => []CountExact
<1>1. CountedAlone => CountExact
  BY DEF CountedAlone, CountExact
<1> QED BY <1>1, InvCorrect, AloneInit, AloneNext, PTL DEF Spec
=============================================================================
