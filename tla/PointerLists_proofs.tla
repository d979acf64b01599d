------------------------- MODULE PointerLists_proofs -------------------------
(***************************************************************************)
(* Facts about the linked lists of PointerLists, for lists of any length:  *)
(* a list has one order only, and linking an element behind the last one   *)
(* or unlinking the first one gives a list again.                          *)
(***************************************************************************)
EXTENDS PointerLists, FiniteSetTheorems, WellFoundedInduction, TLAPS

\* s is the order of the nodes of S in a list of n nodes.
Order(s, n, S, head, next) ==
  /\ s \in Orders(S, n)
  /\ Enumerates(s, n, S)
  /\ Follows(s, n, head, next)

\* Every non-empty set of positions of a list has a first one.
LEMMA FirstPosition ==
  ASSUME NEW n \in Nat, NEW T \in SUBSET (1..n), T # {}
  PROVE  \E i \in T : \A j \in T : i <= j
<1> DEFINE R == StrictSubsetOrdering(1..n)
           U == {1..i : i \in T}
<1>1. IsWellFoundedOn(R, FiniteSubsetsOf(1..n))
  BY FS_StrictSubsetOrderingWellFounded
<1>2. IsFiniteSet(1..n)
  BY FS_Interval
<1>3. FiniteSubsetsOf(1..n) = SUBSET (1..n)
  BY <1>2, FS_FiniteSubsetsOfFinite
<1>4. U \subseteq SUBSET (1..n)
  OBVIOUS
<1>5. U # {}
  OBVIOUS
<1>6. PICK x \in U : \A y \in U : ~ (<<y, x>> \in R)
  <2> HIDE DEF R, U
  <2> QED BY <1>1, <1>3, <1>4, <1>5, WFMin
<1>7. PICK i \in T : x = 1..i
  OBVIOUS
<1>8. ASSUME NEW j \in T, ~ (i <= j) PROVE FALSE
  <2>1. 1..j \in SUBSET (1..n) /\ 1..i \in SUBSET (1..n)
    OBVIOUS
  <2>2. 1..j \subseteq 1..i
    BY <1>8
  <2>3. i \in 1..i /\ i \notin 1..j
    BY <1>8
  <2>4. <<1..j, 1..i>> \in R
    BY <2>1, <2>2, <2>3 DEF StrictSubsetOrdering
  <2> QED BY <2>4, <1>6, <1>7
<1> QED BY <1>8

\* A list has one order.
LEMMA OrderUnique ==
  ASSUME NEW n \in Nat, NEW S, NEW head, NEW next, NEW s, NEW t,
         Order(s, n, S, head, next), Order(t, n, S, head, next)
  PROVE  s = t
<1> DEFINE T == {i \in 1..n : s[i] # t[i]}
<1>1. SUFFICES T = {}
  BY DEF Order, Orders
<1>2. SUFFICES ASSUME T # {} PROVE FALSE
  OBVIOUS
<1>3. PICK i \in T : \A j \in T : i <= j
  <2>1. T \in SUBSET (1..n)
    OBVIOUS
  <2> HIDE DEF T
  <2> QED BY <1>2, <2>1, FirstPosition
<1>4. CASE i = 1
  BY <1>3, <1>4 DEF Order, Follows
<1>5. CASE i # 1
  <2>1. i - 1 \in 1..n /\ i - 1 # n /\ i - 1 + 1 = i /\ i \in 1..n
    BY <1>5
  <2>2. s[i - 1] = t[i - 1]
    BY <2>1, <1>3
  <2>3. next[s[i - 1]] = s[i] /\ next[t[i - 1]] = t[i]
    BY <2>1 DEF Order, Follows
  <2> QED BY <2>2, <2>3
<1> QED BY <1>4, <1>5

\* ListOrder() is the order of a list.
LEMMA ListOrderIs ==
  ASSUME NEW S, IsFiniteSet(S), NEW head, NEW next, NEW s,
         Order(s, Cardinality(S), S, head, next)
  PROVE  ListOrder(S, head, next) = s
<1>1. Cardinality(S) \in Nat
  BY FS_CardinalityType
<1>2. Order(ListOrder(S, head, next), Cardinality(S), S, head, next)
  BY DEF ListOrder, Order
<1> QED BY <1>1, <1>2, OrderUnique

\* The empty queue, and the ends of one that is not empty.
LEMMA QueueEnds ==
  ASSUME NEW S, IsFiniteSet(S), NULL \notin S, NEW head, NEW last, NEW next,
         IsQueue(S, head, last, next)
  PROVE  /\ head = NULL <=> S = {}
         /\ last = NULL <=> S = {}
         /\ S # {} => head \in S /\ last \in S /\ Cardinality(S) >= 1
         /\ \A x \in S : next[x] \in S \cup {NULL}
<1> DEFINE n == Cardinality(S)
<1>1. n \in Nat /\ (n = 0 <=> S = {})
  BY FS_CardinalityType, FS_EmptySet
<1>2. PICK s \in [1..n -> S] :
        /\ Enumerates(s, n, S)
        /\ Follows(s, n, head, next)
        /\ last = IF n = 0 THEN NULL ELSE s[n]
  BY DEF IsQueue, Orders
<1> HIDE DEF n
<1>3. \A x \in S : next[x] \in S \cup {NULL}
  <2> SUFFICES ASSUME NEW x \in S PROVE next[x] \in S \cup {NULL}
    OBVIOUS
  <2>1. PICK i \in 1..n : x = s[i]
    BY <1>2 DEF Enumerates
  <2>2. i # n => i + 1 \in 1..n
    BY <1>1
  <2> QED BY <1>2, <2>1, <2>2 DEF Follows
<1>4. n # 0 => s[1] \in S /\ s[n] \in S /\ n >= 1
  BY <1>1, <1>2
<1> QED BY <1>1, <1>2, <1>3, <1>4 DEF Follows, n

LEMMA EmptyQueue ==
  ASSUME NEW next
  PROVE  /\ IsQueue({}, NULL, NULL, next)
         /\ \E s : Order(s, 0, {}, NULL, next)
<1>1. Cardinality({}) = 0
  BY FS_EmptySet
<1> DEFINE s == [i \in 1..0 |-> i]
<1>2. 1..0 = {}
  OBVIOUS
<1>3. s \in [1..0 -> {}]
  BY <1>2
<1>4. Enumerates(s, 0, {})
  BY <1>2 DEF Enumerates
<1>5. Follows(s, 0, NULL, next)
  BY <1>2 DEF Follows
<1> QED BY <1>1, <1>3, <1>4, <1>5 DEF IsQueue, Orders, Order

-----------------------------------------------------------------------------
\* An order that x is put behind.
Behind(s, n, x) == [i \in 1..(n + 1) |-> IF i = n + 1 THEN x ELSE s[i]]

\* x is linked behind the last node.
LEMMA LinkBehind ==
  ASSUME NEW n \in Nat, NEW S, NEW x, x \notin S, NEW head, NEW last,
         NEW next, NEW nextP, NEW s,
         Order(s, n, S, head, next),
         last = IF n = 0 THEN NULL ELSE s[n],
         nextP[x] = NULL,
         \A y \in S : nextP[y] = IF y = last THEN x ELSE next[y]
  PROVE  Order(Behind(s, n, x), n + 1, S \cup {x},
               IF n = 0 THEN x ELSE head, nextP)
<1> DEFINE t == Behind(s, n, x)
<1>1. /\ \A i \in 1..n : t[i] = s[i] /\ s[i] \in S
      /\ t[n + 1] = x
      /\ 1..(n + 1) = (1..n) \cup {n + 1}
  BY DEF Behind, Order, Orders
<1>2. t \in Orders(S \cup {x}, n + 1)
  BY DEF Behind, Order, Orders
<1> HIDE DEF t
<1>3. Enumerates(t, n + 1, S \cup {x})
  <2>1. ASSUME NEW i \in 1..(n + 1), NEW j \in 1..(n + 1), t[i] = t[j]
        PROVE  i = j
    <3>1. CASE i \in 1..n /\ j \in 1..n
      BY <2>1, <3>1, <1>1 DEF Order, Enumerates
    <3>2. CASE i = n + 1 /\ j \in 1..n
      BY <2>1, <3>2, <1>1
    <3>3. CASE i \in 1..n /\ j = n + 1
      BY <2>1, <3>3, <1>1
    <3> QED BY <3>1, <3>2, <3>3, <1>1
  <2>2. S = {s[i] : i \in 1..n}
    BY DEF Order, Enumerates
  <2>3. {t[i] : i \in 1..(n + 1)} = {t[i] : i \in 1..n} \cup {x}
    BY <1>1
  <2>4. {t[i] : i \in 1..n} = {s[i] : i \in 1..n}
    BY <1>1
  <2> QED BY <2>1, <2>2, <2>3, <2>4 DEF Enumerates
<1>4. Follows(t, n + 1, IF n = 0 THEN x ELSE head, nextP)
  <2>1. (IF n = 0 THEN x ELSE head) = t[1]
    BY <1>1 DEF Order, Follows
  <2>2. ASSUME NEW i \in 1..(n + 1)
        PROVE  nextP[t[i]] = IF i = n + 1 THEN NULL ELSE t[i + 1]
    <3>1. CASE i = n + 1
      BY <3>1, <1>1
    <3>2. CASE i = n /\ i # n + 1
      <4>1. i \in 1..n /\ t[i] = s[n] /\ last = s[n] /\ s[n] \in S
        BY <3>2, <1>1
      <4> QED BY <4>1, <3>2, <1>1
    <3>3. CASE i # n /\ i # n + 1
      <4>1. i \in 1..n /\ i + 1 \in 1..n /\ n \in 1..n /\ n # 0
        BY <3>3
      <4>2. s[i] # s[n]
        BY <4>1, <3>3 DEF Order, Enumerates
      <4>3. nextP[s[i]] = next[s[i]]
        BY <4>1, <4>2, <1>1
      <4>4. next[s[i]] = s[i + 1]
        BY <4>1, <3>3 DEF Order, Follows
      <4> QED BY <4>1, <4>3, <4>4, <3>3, <1>1
    <3> QED BY <3>1, <3>2, <3>3
  <2>3. n + 1 # 0
    OBVIOUS
  <2> QED BY <2>1, <2>2, <2>3 DEF Follows
<1> QED BY <1>2, <1>3, <1>4 DEF Order, t

\* An order without its first node.
Rest(s, n) == [i \in 1..(n - 1) |-> s[i + 1]]

\* The first node is unlinked.
LEMMA UnlinkFirst ==
  ASSUME NEW n \in Nat, n # 0, NEW S, NEW head, NEW next, NEW nextP, NEW s,
         Order(s, n, S, head, next),
         \A y \in S : y # head => nextP[y] = next[y]
  PROVE  Order(Rest(s, n), n - 1, S \ {head}, next[head], nextP)
<1> DEFINE t == Rest(s, n)
<1>1. /\ \A i \in 1..(n - 1) : t[i] = s[i + 1] /\ i + 1 \in 1..n
      /\ \A i \in 1..n : s[i] \in S
      /\ 1 \in 1..n /\ n - 1 \in Nat
      /\ head = s[1]
  BY DEF Rest, Order, Orders, Follows
<1>2. \A i, j \in 1..n : s[i] = s[j] => i = j
  BY DEF Order, Enumerates
<1>3. \A i \in 1..(n - 1) : t[i] \in S \ {head}
  <2> SUFFICES ASSUME NEW i \in 1..(n - 1) PROVE t[i] \in S \ {head}
    OBVIOUS
  <2>1. i + 1 # 1 /\ i + 1 \in 1..n
    OBVIOUS
  <2> HIDE DEF t
  <2> QED BY <2>1, <1>1, <1>2
<1>4. t \in Orders(S \ {head}, n - 1)
  BY <1>3 DEF Rest, Orders
<1> HIDE DEF t
<1>5. Enumerates(t, n - 1, S \ {head})
  <2>1. ASSUME NEW i \in 1..(n - 1), NEW j \in 1..(n - 1), t[i] = t[j]
        PROVE  i = j
    <3>1. s[i + 1] = s[j + 1] /\ i + 1 \in 1..n /\ j + 1 \in 1..n
      BY <2>1, <1>1
    <3>2. i + 1 = j + 1
      BY <3>1, <1>2
    <3> QED BY <3>2
  <2>2. ASSUME NEW x \in S \ {head}
        PROVE  \E i \in 1..(n - 1) : x = t[i]
    <3>1. PICK j \in 1..n : x = s[j]
      BY DEF Order, Enumerates
    <3>2. j # 1
      BY <3>1, <1>1
    <3>3. j - 1 \in 1..(n - 1) /\ j - 1 + 1 = j
      BY <3>2
    <3>4. x = t[j - 1]
      BY <3>1, <3>3, <1>1
    <3> QED BY <3>3, <3>4
  <2> QED BY <2>1, <2>2, <1>3 DEF Enumerates
<1>6. next[head] = IF n = 1 THEN NULL ELSE s[2]
  BY <1>1 DEF Order, Follows
<1>7. Follows(t, n - 1, next[head], nextP)
  <2>1. next[head] = IF n - 1 = 0 THEN NULL ELSE t[1]
    BY <1>1, <1>6
  <2>2. ASSUME NEW i \in 1..(n - 1)
        PROVE  nextP[t[i]] = IF i = n - 1 THEN NULL ELSE t[i + 1]
    <3>1. nextP[t[i]] = next[s[i + 1]] /\ i + 1 \in 1..n
      BY <1>1, <1>3
    <3>2. next[s[i + 1]] = IF i + 1 = n THEN NULL ELSE s[i + 2]
      <4>1. i + 1 + 1 = i + 2
        OBVIOUS
      <4> QED BY <3>1, <4>1 DEF Order, Follows
    <3>3. CASE i = n - 1
      BY <3>1, <3>2, <3>3
    <3>4. CASE i # n - 1
      <4>1. i + 1 \in 1..(n - 1) /\ i + 1 + 1 = i + 2 /\ i + 1 # n
        BY <3>4
      <4> QED BY <4>1, <3>1, <3>2, <3>4, <1>1
    <3> QED BY <3>3, <3>4
  <2> QED BY <2>1, <2>2 DEF Follows
<1> QED BY <1>4, <1>5, <1>6, <1>7 DEF Order, t

-----------------------------------------------------------------------------
\* A queue has an order.
LEMMA QueueOrder ==
  ASSUME NEW S, IsFiniteSet(S), NEW head, NEW last, NEW next,
         IsQueue(S, head, last, next)
  PROVE  /\ Cardinality(S) \in Nat
         /\ Order(ListOrder(S, head, next), Cardinality(S), S, head, next)
         /\ last = IF Cardinality(S) = 0 THEN NULL
                   ELSE ListOrder(S, head, next)[Cardinality(S)]
<1>1. PICK s : /\ Order(s, Cardinality(S), S, head, next)
               /\ last = IF Cardinality(S) = 0 THEN NULL
                         ELSE s[Cardinality(S)]
  BY DEF IsQueue, Order
<1>2. ListOrder(S, head, next) = s
  BY <1>1, ListOrderIs
<1> QED BY <1>1, <1>2, FS_CardinalityType

\* A queue that x is linked to the end of.
LEMMA QueueLinkLast ==
  ASSUME NEW S, IsFiniteSet(S), NULL \notin S, NEW x, x \notin S,
         NEW head, NEW last, NEW next, NEW nextP,
         IsQueue(S, head, last, next),
         nextP[x] = NULL,
         \A y \in S : nextP[y] = IF y = last THEN x ELSE next[y]
  PROVE  LET headP == IF last = NULL THEN x ELSE head IN
         /\ IsQueue(S \cup {x}, headP, x, nextP)
         /\ ListOrder(S \cup {x}, headP, nextP)
              = Behind(ListOrder(S, head, next), Cardinality(S), x)
<1> DEFINE n == Cardinality(S)
           s == ListOrder(S, head, next)
           headP == IF last = NULL THEN x ELSE head
<1>1. n \in Nat /\ Order(s, n, S, head, next)
               /\ last = IF n = 0 THEN NULL ELSE s[n]
  BY QueueOrder
<1>2. IsFiniteSet(S \cup {x}) /\ Cardinality(S \cup {x}) = n + 1
  BY FS_AddElement
<1>3. headP = IF n = 0 THEN x ELSE head
  BY QueueEnds, FS_EmptySet
<1>4. Behind(s, n, x)[n + 1] = x
  BY <1>1 DEF Behind
<1> HIDE DEF n, s
<1>5. Order(Behind(s, n, x), n + 1, S \cup {x}, headP, nextP)
  BY <1>1, <1>3, LinkBehind
<1>6. ListOrder(S \cup {x}, headP, nextP) = Behind(s, n, x)
  BY <1>2, <1>5, ListOrderIs
<1>7. n + 1 # 0
  BY <1>1
<1> QED BY <1>2, <1>4, <1>5, <1>6, <1>7 DEF IsQueue, Order, n, s

\* A queue whose first node is unlinked.
LEMMA QueueUnlinkFirst ==
  ASSUME NEW S, IsFiniteSet(S), NULL \notin S,
         NEW head, NEW last, NEW next, NEW nextP,
         IsQueue(S, head, last, next), head # NULL,
         \A y \in S : y # head => nextP[y] = next[y]
  PROVE  LET lastP == IF next[head] = NULL THEN NULL ELSE last
             n == Cardinality(S)
         IN
         /\ IsQueue(S \ {head}, next[head], lastP, nextP)
         /\ n >= 1 /\ Cardinality(S \ {head}) = n - 1
         /\ ListOrder(S \ {head}, next[head], nextP)
              = Rest(ListOrder(S, head, next), n)
         /\ ListOrder(S, head, next)[1] = head
<1> DEFINE n == Cardinality(S)
           s == ListOrder(S, head, next)
           lastP == IF next[head] = NULL THEN NULL ELSE last
<1>1. n \in Nat /\ Order(s, n, S, head, next)
               /\ last = IF n = 0 THEN NULL ELSE s[n]
  BY QueueOrder
<1>2. head \in S /\ n >= 1
  BY QueueEnds
<1>3. IsFiniteSet(S \ {head}) /\ Cardinality(S \ {head}) = n - 1
  BY <1>2, FS_RemoveElement
<1> HIDE DEF n, s
<1>4. /\ Order(Rest(s, n), n - 1, S \ {head}, next[head], nextP)
      /\ next[head] = NULL \/ n > 1
      /\ n > 1 => next[head] = s[2]
  <2>1. n \in Nat /\ n # 0 /\ Order(s, n, S, head, next)
    BY <1>1, <1>2
  <2>2. \A y \in S : y # head => nextP[y] = next[y]
    OBVIOUS
  <2>3. Order(Rest(s, n), n - 1, S \ {head}, next[head], nextP)
    BY <2>1, <2>2, UnlinkFirst
  <2>4. next[head] = IF 1 = n THEN NULL ELSE s[1 + 1]
    BY <2>1 DEF Order, Follows
  <2> QED BY <2>1, <2>3, <2>4
<1>5. ListOrder(S \ {head}, next[head], nextP) = Rest(s, n)
  BY <1>3, <1>4, ListOrderIs
<1>6. n > 1 => next[head] # NULL
  <2> SUFFICES ASSUME n > 1 PROVE next[head] # NULL
    OBVIOUS
  <2>1. s[2] \in S
    BY <1>1 DEF Order, Orders
  <2> QED BY <2>1, <1>4
<1>7. lastP = IF n - 1 = 0 THEN NULL ELSE Rest(s, n)[n - 1]
  <2>1. CASE n = 1
    BY <2>1, <1>4
  <2>2. CASE n > 1
    <3>1. n - 1 \in 1..(n - 1) /\ n - 1 + 1 = n /\ n - 1 # 0 /\ n # 0
      BY <2>2, <1>1
    <3>2. Rest(s, n)[n - 1] = s[n]
      BY <3>1 DEF Rest
    <3> QED BY <3>1, <3>2, <1>1, <1>6, <2>2
  <2> QED BY <2>1, <2>2, <1>1, <1>2
<1>8. s[1] = head
  BY <1>1, <1>2 DEF Order, Follows
<1> QED BY <1>2, <1>3, <1>4, <1>5, <1>7, <1>8 DEF IsQueue, Order, n, s

-----------------------------------------------------------------------------
(* Chains.                                                                 *)

LEMMA ChainOrder ==
  ASSUME NEW S, IsFiniteSet(S), NEW head, NEW next, IsChain(S, head, next)
  PROVE  /\ Cardinality(S) \in Nat
         /\ \E s : Order(s, Cardinality(S), S, head, next)
BY FS_CardinalityType DEF IsChain, Order

\* Only the pointers of the nodes in the list matter.
LEMMA OrderSame ==
  ASSUME NEW n \in Nat, NEW S, NEW head, NEW next, NEW nextP, NEW s,
         Order(s, n, S, head, next), \A y \in S : nextP[y] = next[y]
  PROVE  Order(s, n, S, head, nextP)
<1>1. \A i \in 1..n : s[i] \in S
  BY DEF Order, Orders
<1> QED BY <1>1 DEF Order, Follows

LEMMA ChainSame ==
  ASSUME NEW S, IsFiniteSet(S), NEW head, NEW next, NEW nextP,
         IsChain(S, head, next), \A y \in S : nextP[y] = next[y]
  PROVE  IsChain(S, head, nextP)
BY ChainOrder, OrderSame DEF IsChain, Order

LEMMA QueueSame ==
  ASSUME NEW S, IsFiniteSet(S), NEW head, NEW last, NEW next, NEW nextP,
         IsQueue(S, head, last, next), \A y \in S : nextP[y] = next[y]
  PROVE  IsQueue(S, head, last, nextP)
<1>1. PICK s : /\ Order(s, Cardinality(S), S, head, next)
               /\ last = IF Cardinality(S) = 0 THEN NULL
                         ELSE s[Cardinality(S)]
  BY DEF IsQueue, Order
<1>2. Order(s, Cardinality(S), S, head, nextP)
  BY <1>1, FS_CardinalityType, OrderSame
<1> QED BY <1>1, <1>2 DEF IsQueue, Order

\* An order that x is put before.
Ahead(s, n, x) == [i \in 1..(n + 1) |-> IF i = 1 THEN x ELSE s[i - 1]]

\* x is linked before the first node.
LEMMA LinkAhead ==
  ASSUME NEW n \in Nat, NEW S, NEW x, x \notin S, NEW head, NEW next,
         NEW nextP, NEW s, Order(s, n, S, head, next),
         nextP[x] = head, \A y \in S : nextP[y] = next[y]
  PROVE  Order(Ahead(s, n, x), n + 1, S \cup {x}, x, nextP)
<1> DEFINE t == Ahead(s, n, x)
<1>1. /\ t[1] = x
      /\ \A i \in 1..(n + 1) : i # 1 => /\ i - 1 \in 1..n
                                        /\ t[i] = s[i - 1] /\ t[i] \in S
      /\ \A i \in 1..n : s[i] \in S
  BY DEF Ahead, Order, Orders
<1>2. t \in Orders(S \cup {x}, n + 1)
  BY <1>1 DEF Ahead, Orders
<1> HIDE DEF t
<1>3. Enumerates(t, n + 1, S \cup {x})
  <2>1. ASSUME NEW i \in 1..(n + 1), NEW j \in 1..(n + 1), t[i] = t[j]
        PROVE  i = j
    <3>1. CASE i # 1 /\ j # 1
      <4>1. i - 1 = j - 1
        BY <2>1, <3>1, <1>1 DEF Order, Enumerates
      <4> QED BY <4>1
    <3>2. CASE i = 1 \/ j = 1
      BY <2>1, <3>2, <1>1
    <3> QED BY <3>1, <3>2
  <2>2. ASSUME NEW y \in S PROVE \E i \in 1..(n + 1) : y = t[i]
    <3>1. PICK j \in 1..n : y = s[j]
      BY DEF Order, Enumerates
    <3>2. j + 1 \in 1..(n + 1) /\ j + 1 # 1 /\ j + 1 - 1 = j
      OBVIOUS
    <3>3. t[j + 1] = s[j]
      BY <3>2, <1>1
    <3> QED BY <3>1, <3>2, <3>3
  <2>3. 1 \in 1..(n + 1)
    OBVIOUS
  <2>4. \A i \in 1..(n + 1) : t[i] \in S \cup {x}
    BY <1>1
  <2>5. S \cup {x} = {t[i] : i \in 1..(n + 1)}
    BY <2>2, <2>3, <2>4, <1>1
  <2> QED BY <2>1, <2>5 DEF Enumerates
<1>4. Follows(t, n + 1, x, nextP)
  <2>1. ASSUME NEW i \in 1..(n + 1)
        PROVE  nextP[t[i]] = IF i = n + 1 THEN NULL ELSE t[i + 1]
    <3>1. CASE i = 1
      <4>1. nextP[t[i]] = head
        BY <3>1, <1>1
      <4>2. head = IF n = 0 THEN NULL ELSE s[1]
        BY DEF Order, Follows
      <4>3. n # 0 => 2 \in 1..(n + 1) /\ t[2] = s[1] /\ i + 1 = 2
        BY <3>1, <1>1
      <4> QED BY <3>1, <4>1, <4>2, <4>3
    <3>2. CASE i # 1
      <4>1. i - 1 \in 1..n /\ t[i] = s[i - 1] /\ t[i] \in S
        BY <3>2, <1>1
      <4>2. next[s[i - 1]] = IF i - 1 = n THEN NULL ELSE s[i - 1 + 1]
        BY <4>1 DEF Order, Follows
      <4>3. i # n + 1 => /\ i + 1 \in 1..(n + 1) /\ i + 1 # 1
                         /\ i + 1 - 1 = i - 1 + 1 /\ i - 1 # n
        BY <3>2
      <4>4. i # n + 1 => t[i + 1] = s[i - 1 + 1]
        BY <4>3, <1>1
      <4>5. nextP[t[i]] = next[s[i - 1]]
        BY <4>1
      <4>6. i = n + 1 => i - 1 = n
        OBVIOUS
      <4> QED BY <4>2, <4>3, <4>4, <4>5, <4>6
    <3> QED BY <3>1, <3>2
  <2>2. x = t[1] /\ n + 1 # 0
    BY <1>1
  <2> QED BY <2>1, <2>2 DEF Follows
<1> QED BY <1>2, <1>3, <1>4 DEF Order, t

LEMMA ChainPush ==
  ASSUME NEW S, IsFiniteSet(S), NEW x, x \notin S,
         NEW head, NEW next, NEW nextP,
         IsChain(S, head, next),
         nextP[x] = head, \A y \in S : nextP[y] = next[y]
  PROVE  IsChain(S \cup {x}, x, nextP)
<1>1. PICK s : Order(s, Cardinality(S), S, head, next)
  BY ChainOrder
<1>2. Cardinality(S) \in Nat /\ Cardinality(S \cup {x}) = Cardinality(S) + 1
  BY FS_CardinalityType, FS_AddElement
<1>3. Order(Ahead(s, Cardinality(S), x), Cardinality(S) + 1, S \cup {x}, x,
            nextP)
  BY <1>1, <1>2, LinkAhead
<1> QED BY <1>2, <1>3 DEF IsChain, Order

\* An order with c in the place of b.
Replaced(s, n, b, c) == [i \in 1..n |-> IF s[i] = b THEN c ELSE s[i]]

\* c takes the place of b.
LEMMA ChainReplace ==
  ASSUME NEW S, IsFiniteSet(S), NULL \notin S, NEW b \in S, NEW c, c \notin S,
         NEW head, NEW next, NEW nextP,
         IsChain(S, head, next),
         nextP[c] = next[b],
         \A y \in S \ {b} : nextP[y] = IF next[y] = b THEN c ELSE next[y]
  PROVE  IsChain((S \ {b}) \cup {c}, IF head = b THEN c ELSE head, nextP)
<1> DEFINE n == Cardinality(S)
           T == (S \ {b}) \cup {c}
<1>1. PICK s : Order(s, n, S, head, next)
  BY ChainOrder
<1>2. n \in Nat /\ Cardinality(T) = n
  <2>1. IsFiniteSet(S \ {b}) /\ Cardinality(S \ {b}) = n - 1 /\ n \in Nat
    BY FS_RemoveElement, FS_CardinalityType
  <2>2. c \notin S \ {b}
    OBVIOUS
  <2>3. Cardinality(T) = n - 1 + 1
    BY <2>1, <2>2, FS_AddElement
  <2> HIDE DEF n, T
  <2> QED BY <2>1, <2>3
<1> HIDE DEF n
<1> DEFINE t == Replaced(s, n, b, c)
<1>3. /\ \A i \in 1..n : s[i] \in S /\ t[i] = IF s[i] = b THEN c ELSE s[i]
      /\ \A i, j \in 1..n : s[i] = s[j] => i = j
      /\ \A y \in S : \E i \in 1..n : y = s[i]
  BY <1>1, <1>2 DEF Replaced, Order, Orders, Enumerates
<1>4. t \in Orders(T, n)
  BY <1>3 DEF Replaced, Orders
<1> HIDE DEF t
<1>5. Enumerates(t, n, T)
  <2>1. \A i, j \in 1..n : t[i] = t[j] => i = j
    BY <1>3
  <2>2. \A y \in T : \E i \in 1..n : y = t[i]
    BY <1>3
  <2>3. \A i \in 1..n : t[i] \in T
    BY <1>3
  <2> QED BY <2>1, <2>2, <2>3 DEF Enumerates
<1>6. Follows(t, n, IF head = b THEN c ELSE head, nextP)
  <2>1. ASSUME NEW i \in 1..n
        PROVE  nextP[t[i]] = IF i = n THEN NULL ELSE t[i + 1]
    <3>1. next[s[i]] = IF i = n THEN NULL ELSE s[i + 1]
      BY <1>1 DEF Order, Follows
    <3>2. nextP[t[i]] = IF next[s[i]] = b THEN c ELSE next[s[i]]
      <4>1. CASE s[i] = b
        <5>1. next[b] # b
          <6>1. i # n => i + 1 \in 1..n /\ i + 1 # i
            BY <1>2
          <6> QED BY <6>1, <3>1, <4>1, <1>3
        <5> QED BY <4>1, <5>1, <1>3
      <4>2. CASE s[i] # b
        BY <4>2, <1>3
      <4> QED BY <4>1, <4>2
    <3>3. CASE i = n
      BY <3>1, <3>2, <3>3
    <3>4. CASE i # n
      <4>1. i + 1 \in 1..n
        BY <3>4, <1>2
      <4> QED BY <4>1, <3>1, <3>2, <3>4, <1>3
    <3> QED BY <3>3, <3>4
  <2>2. (IF head = b THEN c ELSE head) = IF n = 0 THEN NULL ELSE t[1]
    <3>1. head = IF n = 0 THEN NULL ELSE s[1]
      BY <1>1 DEF Order, Follows
    <3>2. n # 0 => 1 \in 1..n
      BY <1>2
    <3>3. NULL # b
      OBVIOUS
    <3> QED BY <3>1, <3>2, <3>3, <1>3
  <2> QED BY <2>1, <2>2 DEF Follows
<1> QED BY <1>2, <1>4, <1>5, <1>6 DEF IsChain

\* An order without its k-th node.
Without(s, n, k) == [i \in 1..(n - 1) |-> IF i < k THEN s[i] ELSE s[i + 1]]

\* b is unlinked, wherever it is.
LEMMA ChainRemove ==
  ASSUME NEW S, IsFiniteSet(S), NULL \notin S, NEW b \in S,
         NEW head, NEW next, NEW nextP,
         IsChain(S, head, next),
         \A y \in S \ {b} : nextP[y] = IF next[y] = b THEN next[b] ELSE next[y]
  PROVE  IsChain(S \ {b}, IF head = b THEN next[b] ELSE head, nextP)
<1> DEFINE n == Cardinality(S)
           T == S \ {b}
<1>1. PICK s : Order(s, n, S, head, next)
  BY ChainOrder
<1>2. n \in Nat /\ Cardinality(T) = n - 1
  BY FS_RemoveElement, FS_CardinalityType
<1> HIDE DEF n
<1>3. /\ \A i \in 1..n : s[i] \in S
      /\ \A i, j \in 1..n : s[i] = s[j] => i = j
      /\ \A y \in S : \E i \in 1..n : y = s[i]
  BY <1>1 DEF Order, Orders, Enumerates
<1>4. PICK k \in 1..n : b = s[k]
  BY <1>3
<1> DEFINE t == Without(s, n, k)
<1>5. /\ \A i \in 1..(n - 1) : i < k => t[i] = s[i] /\ i \in 1..n /\ i # k
      /\ \A i \in 1..(n - 1) : ~ (i < k) => /\ t[i] = s[i + 1]
                                            /\ i + 1 \in 1..n /\ i + 1 # k
  BY <1>2 DEF Without
<1>6. \A i \in 1..(n - 1) : t[i] \in T
  <2> HIDE DEF t
  <2> QED BY <1>3, <1>4, <1>5
<1>7. t \in Orders(T, n - 1)
  BY <1>6 DEF Without, Orders
<1> HIDE DEF t
<1>8. Enumerates(t, n - 1, T)
  <2>1. ASSUME NEW i \in 1..(n - 1), NEW j \in 1..(n - 1), t[i] = t[j]
        PROVE  i = j
    <3>1. CASE i < k /\ j < k
      BY <2>1, <3>1, <1>3, <1>5
    <3>2. CASE ~ (i < k) /\ ~ (j < k)
      <4>1. i + 1 = j + 1
        BY <2>1, <3>2, <1>3, <1>5
      <4> QED BY <4>1
    <3>3. CASE i < k /\ ~ (j < k)
      <4>1. i = j + 1
        BY <2>1, <3>3, <1>3, <1>5
      <4> QED BY <4>1, <3>3
    <3>4. CASE ~ (i < k) /\ j < k
      <4>1. i + 1 = j
        BY <2>1, <3>4, <1>3, <1>5
      <4> QED BY <4>1, <3>4
    <3> QED BY <3>1, <3>2, <3>3, <3>4
  <2>2. ASSUME NEW y \in T PROVE \E i \in 1..(n - 1) : y = t[i]
    <3>1. PICK j \in 1..n : y = s[j]
      BY <1>3
    <3>2. j # k
      BY <3>1, <1>4
    <3>3. CASE j < k
      <4>1. j \in 1..(n - 1)
        BY <3>3, <1>2
      <4> QED BY <4>1, <3>1, <3>3, <1>5
    <3>4. CASE j > k
      <4>1. j - 1 \in 1..(n - 1) /\ ~ (j - 1 < k) /\ j - 1 + 1 = j
        BY <3>4, <1>2
      <4> QED BY <4>1, <3>1, <1>5
    <3> QED BY <3>2, <3>3, <3>4
  <2> QED BY <2>1, <2>2, <1>6 DEF Enumerates
<1>9. \A i \in 1..n : next[s[i]] = IF i = n THEN NULL ELSE s[i + 1]
  BY <1>1 DEF Order, Follows
<1>10. \A i \in 1..n : next[s[i]] = b => i + 1 = k
  <2> SUFFICES ASSUME NEW i \in 1..n, next[s[i]] = b PROVE i + 1 = k
    OBVIOUS
  <2>1. i # n
    BY <1>9
  <2>2. i + 1 \in 1..n /\ s[i + 1] = b
    BY <2>1, <1>2, <1>9
  <2> QED BY <2>2, <1>3, <1>4
<1>11. next[b] = IF k = n THEN NULL ELSE s[k + 1]
  BY <1>4, <1>9
<1>12. ASSUME NEW i \in 1..(n - 1)
       PROVE  nextP[t[i]] = IF i = n - 1 THEN NULL ELSE t[i + 1]
  <2>1. nextP[t[i]] = IF next[t[i]] = b THEN next[b] ELSE next[t[i]]
    BY <1>6
  <2>2. CASE i < k /\ i + 1 = k
    <3>1. /\ i # n /\ i \in 1..n /\ t[i] = s[i]
      BY <2>2, <1>2, <1>5
    <3>2. next[t[i]] = b
      BY <3>1, <2>2, <1>4, <1>9
    <3>3. nextP[t[i]] = next[b]
      BY <3>2, <2>1
    <3>4. k = n <=> i = n - 1
      BY <2>2, <1>2
    <3>5. k # n => i + 1 \in 1..(n - 1) /\ ~ (i + 1 < k)
      BY <2>2, <1>2
    <3>6. k # n => t[i + 1] = s[k + 1]
      BY <3>5, <2>2, <1>5
    <3> QED BY <3>3, <3>4, <3>6, <1>11
  <2>3. CASE i < k /\ i + 1 # k
    <3>1. /\ i # n /\ i \in 1..n /\ t[i] = s[i] /\ i # n - 1
          /\ i + 1 < k /\ i + 1 \in 1..(n - 1)
      BY <2>3, <1>2, <1>5
    <3>2. next[t[i]] = s[i + 1] /\ next[t[i]] # b
      BY <3>1, <2>3, <1>9, <1>10
    <3>3. t[i + 1] = s[i + 1]
      BY <3>1, <1>5
    <3> QED BY <3>1, <3>2, <3>3, <2>1
  <2>4. CASE ~ (i < k)
    <3>1. i + 1 \in 1..n /\ t[i] = s[i + 1] /\ i + 1 + 1 # k
      BY <2>4, <1>5
    <3>2. /\ next[t[i]] = IF i + 1 = n THEN NULL ELSE s[i + 1 + 1]
          /\ next[t[i]] # b
      BY <3>1, <1>9, <1>10
    <3>3. i # n - 1 => i + 1 \in 1..(n - 1) /\ ~ (i + 1 < k)
      BY <2>4, <1>2
    <3>4. i # n - 1 => t[i + 1] = s[i + 1 + 1]
      BY <3>3, <1>5
    <3>5. i = n - 1 <=> i + 1 = n
      BY <1>2
    <3> QED BY <3>2, <3>4, <3>5, <2>1
  <2> QED BY <2>2, <2>3, <2>4
<1>13. (IF head = b THEN next[b] ELSE head)
         = IF n - 1 = 0 THEN NULL ELSE t[1]
  <2>1. head = s[1] /\ 1 \in 1..n /\ n # 0
    BY <1>1, <1>2, <1>4 DEF Order, Follows
  <2>2. CASE k = 1
    <3>1. head = b
      BY <2>1, <2>2, <1>4
    <3>2. n # 1 => 1 \in 1..(n - 1) /\ ~ (1 < k) /\ k + 1 = 1 + 1
      BY <2>2, <1>2
    <3>3. n # 1 => t[1] = s[k + 1]
      BY <3>2, <1>5
    <3> QED BY <3>1, <3>3, <2>2, <1>2, <1>11
  <2>3. CASE k # 1
    <3>1. head # b
      BY <2>1, <2>3, <1>3, <1>4
    <3>2. 1 < k /\ 1 \in 1..(n - 1) /\ n - 1 # 0
      BY <2>3, <1>2
    <3> QED BY <3>1, <3>2, <2>1, <1>5
  <2> QED BY <2>2, <2>3
<1>14. Follows(t, n - 1, IF head = b THEN next[b] ELSE head, nextP)
  BY <1>12, <1>13 DEF Follows
<1> QED BY <1>2, <1>7, <1>8, <1>14 DEF IsChain

\* The ends of a list.  No two of its nodes have the same next one, so that
\* only one node is the last; and none comes before the head.
LEMMA ChainEnds ==
  ASSUME NEW S, IsFiniteSet(S), NULL \notin S, NEW head, NEW next,
         IsChain(S, head, next)
  PROVE  /\ head = NULL <=> S = {}
         /\ S # {} => head \in S /\ \E x \in S : next[x] = NULL
         /\ \A x \in S : next[x] \in S \cup {NULL} /\ next[x] # head
         /\ \A x, y \in S : next[x] = next[y] => x = y
<1> DEFINE n == Cardinality(S)
<1>1. n \in Nat /\ (n = 0 <=> S = {})
  BY FS_CardinalityType, FS_EmptySet
<1>2. PICK s : Order(s, n, S, head, next)
  BY ChainOrder
<1> HIDE DEF n
<1>3. /\ s \in [1..n -> S]
      /\ \A i, j \in 1..n : s[i] = s[j] => i = j
      /\ \A x \in S : \E i \in 1..n : x = s[i]
      /\ head = IF n = 0 THEN NULL ELSE s[1]
      /\ \A i \in 1..n : next[s[i]] = IF i = n THEN NULL ELSE s[i + 1]
  BY <1>2 DEF Order, Orders, Enumerates, Follows
<1>4. n # 0 => 1 \in 1..n /\ n \in 1..n
  BY <1>1
<1>5. \A i \in 1..n : i # n => i + 1 \in 1..n /\ i + 1 # 1
  BY <1>1
<1>6. \A x \in S : next[x] \in S \cup {NULL} /\ next[x] # head
  <2> SUFFICES ASSUME NEW i \in 1..n
               PROVE  next[s[i]] \in S \cup {NULL} /\ next[s[i]] # head
    BY <1>3
  <2>1. n # 0 /\ head = s[1] /\ s[1] \in S
    BY <1>1, <1>3, <1>4
  <2>2. CASE i = n
    BY <2>1, <2>2, <1>3
  <2>3. CASE i # n
    <3>1. next[s[i]] = s[i + 1] /\ i + 1 \in 1..n /\ i + 1 # 1
      BY <2>3, <1>3, <1>5
    <3>2. s[i + 1] # s[1]
      BY <3>1, <2>1, <1>3, <1>4
    <3> QED BY <3>1, <3>2, <2>1, <1>3
  <2> QED BY <2>2, <2>3
<1>7. \A x, y \in S : next[x] = next[y] => x = y
  <2> SUFFICES ASSUME NEW i \in 1..n, NEW j \in 1..n, next[s[i]] = next[s[j]]
               PROVE  i = j
    BY <1>3
  <2>1. CASE i = n
    <3>1. next[s[j]] = NULL
      BY <2>1, <1>3
    <3>2. j # n => s[j + 1] \in S /\ next[s[j]] = s[j + 1]
      BY <1>3, <1>5
    <3> QED BY <2>1, <3>1, <3>2
  <2>2. CASE j = n
    <3>1. next[s[i]] = NULL
      BY <2>2, <1>3
    <3>2. i # n => s[i + 1] \in S /\ next[s[i]] = s[i + 1]
      BY <1>3, <1>5
    <3> QED BY <2>2, <3>1, <3>2
  <2>3. CASE i # n /\ j # n
    <3>1. s[i + 1] = s[j + 1] /\ i + 1 \in 1..n /\ j + 1 \in 1..n
      BY <2>3, <1>3, <1>5
    <3>2. i + 1 = j + 1
      BY <3>1, <1>3
    <3> QED BY <3>2
  <2> QED BY <2>1, <2>2, <2>3
<1>8. S # {} => head \in S /\ \E x \in S : next[x] = NULL
  BY <1>1, <1>3, <1>4
<1>9. head = NULL <=> S = {}
  BY <1>1, <1>3, <1>4
<1> QED BY <1>6, <1>7, <1>8, <1>9

\* Nodes of a list that begin with its head and are closed under next are all.
LEMMA ChainAll ==
  ASSUME NEW S, IsFiniteSet(S), NULL \notin S, NEW head, NEW next,
         IsChain(S, head, next),
         NEW T \in SUBSET S, head \in T \cup {NULL},
         \A x \in T : next[x] \in T \cup {NULL}
  PROVE  T = S
<1> DEFINE n == Cardinality(S)
<1>1. n \in Nat /\ (n = 0 <=> S = {})
  BY FS_CardinalityType, FS_EmptySet
<1>2. PICK s : Order(s, n, S, head, next)
  BY ChainOrder
<1> HIDE DEF n
<1>3. /\ s \in [1..n -> S]
      /\ \A x \in S : \E i \in 1..n : x = s[i]
      /\ head = IF n = 0 THEN NULL ELSE s[1]
      /\ \A i \in 1..n : next[s[i]] = IF i = n THEN NULL ELSE s[i + 1]
  BY <1>2 DEF Order, Orders, Enumerates, Follows
<1> DEFINE Out == {i \in 1..n : s[i] \notin T}
<1>4. SUFFICES ASSUME Out # {} PROVE FALSE
  BY <1>3
<1>5. PICK i \in Out : \A j \in Out : i <= j
  <2>1. Out \in SUBSET (1..n)
    OBVIOUS
  <2> HIDE DEF Out
  <2> QED BY <1>1, <1>4, <2>1, FirstPosition
<1>6. CASE i = 1
  BY <1>1, <1>3, <1>5, <1>6
<1>7. CASE i # 1
  <2>1. i - 1 \in 1..n /\ i - 1 # n /\ i - 1 + 1 = i /\ i - 1 < i
    BY <1>1, <1>7
  <2>2. s[i - 1] \in T
    BY <2>1, <1>5
  <2>3. next[s[i - 1]] = s[i] /\ s[i] \in S
    BY <2>1, <1>3
  <2> QED BY <2>2, <2>3, <1>5
<1> QED BY <1>6, <1>7

LEMMA ChainEmpty ==
  ASSUME NEW next PROVE IsChain({}, NULL, next)
BY EmptyQueue DEF IsQueue, IsChain

LEMMA ChainSingle ==
  ASSUME NEW x, NEW next, next[x] = NULL
  PROVE  IsChain({x}, x, next)
<1>1. IsChain({} \cup {x}, x, next)
  BY ChainEmpty, ChainPush, FS_EmptySet
<1>2. {} \cup {x} = {x}
  OBVIOUS
<1> QED BY <1>1, <1>2

LEMMA SingleChain ==
  ASSUME NEW x, x # NULL, NEW head, NEW next, IsChain({x}, head, next)
  PROVE  head = x /\ next[x] = NULL
BY FS_Singleton, ChainEnds

\* x is linked behind the last node.
LEMMA ChainAppend ==
  ASSUME NEW S, IsFiniteSet(S), NULL \notin S, NEW x, x \notin S,
         NEW head, NEW next, NEW nextP, NEW last \in S, next[last] = NULL,
         IsChain(S, head, next),
         nextP[x] = NULL,
         \A y \in S : nextP[y] = IF y = last THEN x ELSE next[y]
  PROVE  IsChain(S \cup {x}, head, nextP)
<1> DEFINE n == Cardinality(S)
<1>1. n \in Nat /\ n # 0
  BY FS_CardinalityType, FS_EmptySet
<1>2. PICK s : Order(s, n, S, head, next)
  BY ChainOrder
<1>3. s[n] \in S /\ next[s[n]] = NULL
  BY <1>1, <1>2 DEF Order, Orders, Follows
<1>4. last = s[n]
  BY <1>3, ChainEnds
<1>5. IsQueue(S, head, last, next)
  BY <1>1, <1>2, <1>4 DEF IsQueue, Order
<1>6. last # NULL
  OBVIOUS
<1>7. IsQueue(S \cup {x}, head, x, nextP)
  BY <1>5, <1>6, QueueLinkLast
<1> QED BY <1>7 DEF IsQueue, IsChain

\* What is linked in an order is a list.
LEMMA ChainOfOrder ==
  ASSUME NEW n \in Nat, NEW S, NEW head, NEW next, NEW s,
         Order(s, n, S, head, next)
  PROVE  IsFiniteSet(S) /\ IsChain(S, head, next)
<1>1. s \in Bijection(1..n, S)
  <2>1. /\ s \in [1..n -> S]
        /\ \A i, j \in 1..n : s[i] = s[j] => i = j
        /\ \A x \in S : \E i \in 1..n : s[i] = x
    BY DEF Order, Orders, Enumerates
  <2>2. s \in Injection(1..n, S)
    BY <2>1 DEF Injection, IsInjective
  <2>3. s \in Surjection(1..n, S)
    BY <2>1 DEF Surjection
  <2> QED BY <2>2, <2>3 DEF Bijection
<1>2. ExistsBijection(1..n, S)
  BY <1>1 DEF ExistsBijection
<1>3. IsFiniteSet(1..n) /\ Cardinality(1..n) = n
  BY FS_Interval
<1>4. IsFiniteSet(S) /\ Cardinality(S) = n
  BY <1>2, <1>3, FS_Bijection
<1> QED BY <1>4 DEF IsChain, Order

-----------------------------------------------------------------------------
(* Doubly linked lists.                                                    *)

\* The pointers back to the predecessors.
Backs(s, n, prev) ==
  \A i \in 1..n : prev[s[i]] = IF i = 1 THEN NULL ELSE s[i - 1]

LEMMA DequeOrder ==
  ASSUME NEW S, IsFiniteSet(S), NULL \notin S,
         NEW head, NEW last, NEW next, NEW prev,
         IsDeque(S, head, last, next, prev)
  PROVE  LET n == Cardinality(S) IN
         /\ n \in Nat /\ (n = 0 <=> S = {})
         /\ head = NULL <=> n = 0
         /\ last = NULL <=> n = 0
         /\ n # 0 => head \in S /\ last \in S
         /\ \E s : /\ Order(s, n, S, head, next) /\ Backs(s, n, prev)
                   /\ last = IF n = 0 THEN NULL ELSE s[n]
<1> DEFINE n == Cardinality(S)
<1>1. n \in Nat /\ (n = 0 <=> S = {})
  BY FS_CardinalityType, FS_EmptySet
<1>2. PICK s : /\ Order(s, n, S, head, next) /\ Backs(s, n, prev)
               /\ last = IF n = 0 THEN NULL ELSE s[n]
  BY DEF IsDeque, Order, Backs
<1> HIDE DEF n
<1>3. n # 0 => s[1] \in S /\ s[n] \in S
  BY <1>1, <1>2 DEF Order, Orders
<1> QED BY <1>1, <1>2, <1>3 DEF Order, Follows, n

LEMMA DequeEmpty ==
  ASSUME NEW next, NEW prev
  PROVE  IsDeque({}, NULL, NULL, next, prev)
<1>1. PICK s : Order(s, 0, {}, NULL, next)
  BY EmptyQueue
<1>2. Cardinality({}) = 0 /\ 1..0 = {}
  BY FS_EmptySet
<1> QED BY <1>1, <1>2 DEF IsDeque, Order

LEMMA DequeSame ==
  ASSUME NEW S, IsFiniteSet(S), NULL \notin S,
         NEW head, NEW last, NEW next, NEW prev, NEW nextP, NEW prevP,
         IsDeque(S, head, last, next, prev),
         \A y \in S : nextP[y] = next[y] /\ prevP[y] = prev[y]
  PROVE  IsDeque(S, head, last, nextP, prevP)
<1> DEFINE n == Cardinality(S)
<1>1. PICK s : /\ Order(s, n, S, head, next) /\ Backs(s, n, prev)
               /\ last = IF n = 0 THEN NULL ELSE s[n]
  BY DequeOrder
<1>2. n \in Nat
  BY DequeOrder
<1> HIDE DEF n
<1>3. \A i \in 1..n : s[i] \in S
  BY <1>1 DEF Order, Orders
<1>4. Order(s, n, S, head, nextP)
  BY <1>1, <1>2, OrderSame
<1>5. Backs(s, n, prevP)
  BY <1>1, <1>3 DEF Backs
<1> QED BY <1>1, <1>4, <1>5 DEF IsDeque, Order, Backs, n

LEMMA DequePush ==
  ASSUME NEW S, IsFiniteSet(S), NULL \notin S, NEW x, x \notin S,
         NEW head, NEW last, NEW next, NEW prev, NEW nextP, NEW prevP,
         IsDeque(S, head, last, next, prev),
         nextP[x] = head, prevP[x] = NULL,
         \A y \in S : /\ nextP[y] = next[y]
                      /\ prevP[y] = IF y = head THEN x ELSE prev[y]
  PROVE  IsDeque(S \cup {x}, x, IF head = NULL THEN x ELSE last, nextP, prevP)
<1> DEFINE n == Cardinality(S)
           lastP == IF head = NULL THEN x ELSE last
<1>1. PICK s : /\ Order(s, n, S, head, next) /\ Backs(s, n, prev)
               /\ last = IF n = 0 THEN NULL ELSE s[n]
  BY DequeOrder
<1>2. n \in Nat /\ (head = NULL <=> n = 0) /\ Cardinality(S \cup {x}) = n + 1
  BY DequeOrder, FS_AddElement
<1> HIDE DEF n
<1> DEFINE t == Ahead(s, n, x)
<1>3. Order(t, n + 1, S \cup {x}, x, nextP)
  <2>1. \A y \in S : nextP[y] = next[y]
    OBVIOUS
  <2> QED BY <1>1, <1>2, <2>1, LinkAhead
<1>4. /\ t[1] = x
      /\ \A i \in 1..(n + 1) : i # 1 => /\ i - 1 \in 1..n
                                        /\ t[i] = s[i - 1]
      /\ \A i \in 1..n : s[i] \in S
      /\ \A i, j \in 1..n : s[i] = s[j] => i = j
      /\ n # 0 => head = s[1]
  BY <1>1, <1>2 DEF Ahead, Order, Orders, Enumerates, Follows
<1> HIDE DEF t
<1>5. Backs(t, n + 1, prevP)
  <2>1. ASSUME NEW i \in 1..(n + 1)
        PROVE  prevP[t[i]] = IF i = 1 THEN NULL ELSE t[i - 1]
    <3>1. CASE i = 1
      BY <3>1, <1>4
    <3>2. CASE i = 2
      <4>1. i - 1 = 1 /\ 1 \in 1..n /\ n # 0
        BY <3>2, <1>2
      <4>2. t[i] = s[1] /\ s[1] = head /\ head \in S /\ t[i - 1] = x
        BY <3>2, <4>1, <1>4
      <4> QED BY <3>2, <4>2
    <3>3. CASE i # 1 /\ i # 2
      <4>1. /\ i - 1 \in 1..n /\ i - 1 # 1 /\ i - 1 \in 1..(n + 1)
            /\ 1 \in 1..n /\ n # 0
        BY <3>3, <1>2
      <4>2. t[i] = s[i - 1] /\ t[i] \in S /\ t[i] # head
        BY <3>3, <4>1, <1>4
      <4>3. prevP[t[i]] = prev[s[i - 1]]
        BY <4>2
      <4>4. prev[s[i - 1]] = s[i - 1 - 1]
        BY <4>1, <1>1 DEF Backs
      <4>5. t[i - 1] = s[i - 1 - 1]
        BY <4>1, <1>4
      <4> QED BY <3>3, <4>3, <4>4, <4>5
    <3> QED BY <3>1, <3>2, <3>3
  <2> QED BY <2>1 DEF Backs
<1>6. lastP = IF n + 1 = 0 THEN NULL ELSE t[n + 1]
  <2>1. CASE n = 0
    BY <2>1, <1>2, <1>4
  <2>2. CASE n # 0
    <3>1. n + 1 # 1 /\ n + 1 \in 1..(n + 1) /\ n + 1 - 1 = n /\ n + 1 # 0
      BY <2>2, <1>2
    <3>2. PICK k \in 1..(n + 1) : k = n + 1
      BY <3>1
    <3>3. k # 1 /\ k - 1 = n
      BY <3>1, <3>2, <1>2
    <3>4. t[k] = s[k - 1]
      BY <3>3, <1>4
    <3>5. t[k] = s[n]
      BY <3>3, <3>4
    <3>6. t[n + 1] = s[n]
      BY <3>2, <3>5
    <3> QED BY <3>1, <3>6, <2>2, <1>1, <1>2
  <2> QED BY <2>1, <2>2
<1> QED BY <1>2, <1>3, <1>5, <1>6 DEF IsDeque, Order, Backs

LEMMA DequeAppend ==
  ASSUME NEW S, IsFiniteSet(S), NULL \notin S, NEW x, x \notin S,
         NEW head, NEW last, NEW next, NEW prev, NEW nextP, NEW prevP,
         IsDeque(S, head, last, next, prev),
         nextP[x] = NULL, prevP[x] = last,
         \A y \in S : /\ nextP[y] = IF y = last THEN x ELSE next[y]
                      /\ prevP[y] = prev[y]
  PROVE  IsDeque(S \cup {x}, IF last = NULL THEN x ELSE head, x, nextP, prevP)
<1> DEFINE n == Cardinality(S)
<1>1. PICK s : /\ Order(s, n, S, head, next) /\ Backs(s, n, prev)
               /\ last = IF n = 0 THEN NULL ELSE s[n]
  BY DequeOrder
<1>2. n \in Nat /\ (last = NULL <=> n = 0) /\ Cardinality(S \cup {x}) = n + 1
  BY DequeOrder, FS_AddElement
<1> HIDE DEF n
<1> DEFINE t == Behind(s, n, x)
<1>3. Order(t, n + 1, S \cup {x}, IF n = 0 THEN x ELSE head, nextP)
  <2>1. \A y \in S : nextP[y] = IF y = last THEN x ELSE next[y]
    OBVIOUS
  <2>2. nextP[x] = NULL /\ Order(s, n, S, head, next)
        /\ last = IF n = 0 THEN NULL ELSE s[n]
    BY <1>1
  <2>3. Order(Behind(s, n, x), n + 1, S \cup {x}, IF n = 0 THEN x ELSE head,
              nextP)
    BY <1>2, <2>1, <2>2, LinkBehind
  <2> QED BY <2>3
<1>4. /\ \A i \in 1..n : t[i] = s[i] /\ s[i] \in S
      /\ t[n + 1] = x
  BY <1>1, <1>2 DEF Behind, Order, Orders
<1> HIDE DEF t
<1>5. Backs(t, n + 1, prevP)
  <2>1. ASSUME NEW i \in 1..(n + 1)
        PROVE  prevP[t[i]] = IF i = 1 THEN NULL ELSE t[i - 1]
    <3>1. CASE i = n + 1
      <4>1. n # 0 => n \in 1..n /\ i - 1 = n /\ i # 1
        BY <3>1, <1>2
      <4>2. prevP[t[i]] = last
        BY <3>1, <1>4
      <4>3. n = 0 => i = 1
        BY <3>1
      <4> QED BY <4>1, <4>2, <4>3, <1>1, <1>4
    <3>2. CASE i # n + 1
      <4>1. i \in 1..n /\ (i # 1 => i - 1 \in 1..n)
        BY <3>2, <1>2
      <4>2. prevP[t[i]] = prev[s[i]]
        BY <4>1, <1>4
      <4> QED BY <4>1, <4>2, <1>1, <1>4 DEF Backs
    <3> QED BY <3>1, <3>2
  <2> QED BY <2>1 DEF Backs
<1>6. n + 1 # 0
  BY <1>2
<1>7. /\ t \in Orders(S \cup {x}, n + 1) /\ Enumerates(t, n + 1, S \cup {x})
      /\ Follows(t, n + 1, IF last = NULL THEN x ELSE head, nextP)
  BY <1>2, <1>3 DEF Order
<1>8. \A i \in 1..(n + 1) : prevP[t[i]] = IF i = 1 THEN NULL ELSE t[i - 1]
  BY <1>5 DEF Backs
<1>9. x = IF n + 1 = 0 THEN NULL ELSE t[n + 1]
  BY <1>4, <1>6
<1> HIDE DEF t
<1> QED BY <1>2, <1>7, <1>8, <1>9 DEF IsDeque

\* The last node is unlinked.
LEMMA DequeDropLast ==
  ASSUME NEW S, IsFiniteSet(S), NULL \notin S,
         NEW head, NEW last, NEW next, NEW prev, NEW nextP,
         IsDeque(S, head, last, next, prev), last # NULL,
         \A y \in S : nextP[y] = IF y = prev[last] THEN NULL ELSE next[y]
  PROVE  IsDeque(S \ {last}, IF prev[last] = NULL THEN NULL ELSE head,
                 prev[last], nextP, prev)
<1> DEFINE n == Cardinality(S)
           T == S \ {last}
<1>1. PICK s : /\ Order(s, n, S, head, next) /\ Backs(s, n, prev)
               /\ last = IF n = 0 THEN NULL ELSE s[n]
  BY DequeOrder
<1>2. n \in Nat /\ n # 0 /\ last \in S
  BY DequeOrder
<1>3. Cardinality(T) = n - 1
  BY <1>2, FS_RemoveElement
<1> HIDE DEF n
<1> DEFINE t == [i \in 1..(n - 1) |-> s[i]]
<1>4. /\ \A i \in 1..n : s[i] \in S
      /\ \A i, j \in 1..n : s[i] = s[j] => i = j
      /\ \A y \in S : \E i \in 1..n : y = s[i]
      /\ \A i \in 1..(n - 1) : t[i] = s[i] /\ i \in 1..n /\ i # n
      /\ n \in 1..n /\ last = s[n] /\ 1 \in 1..n
  BY <1>1, <1>2 DEF Order, Orders, Enumerates
<1>5. \A i \in 1..(n - 1) : t[i] \in T
  <2> HIDE DEF t
  <2> QED BY <1>4
<1>6. t \in Orders(T, n - 1)
  BY <1>5 DEF Orders
<1> HIDE DEF t
<1>7. Enumerates(t, n - 1, T)
  <2>1. \A i, j \in 1..(n - 1) : t[i] = t[j] => i = j
    BY <1>4
  <2>2. ASSUME NEW y \in T PROVE \E i \in 1..(n - 1) : y = t[i]
    <3>1. PICK i \in 1..n : y = s[i]
      BY <1>4
    <3>2. i \in 1..(n - 1)
      BY <3>1, <1>2, <1>4
    <3> QED BY <3>1, <3>2, <1>4
  <2> QED BY <2>1, <2>2, <1>5 DEF Enumerates
<1>8. prev[last] = IF n = 1 THEN NULL ELSE s[n - 1]
  BY <1>1, <1>4 DEF Backs
<1>9. n # 1 => n - 1 \in 1..(n - 1) /\ n - 1 \in 1..n /\ 1 \in 1..(n - 1)
               /\ n - 1 # 0
  BY <1>2
<1>10. prev[last] = NULL <=> n = 1
  BY <1>4, <1>8, <1>9
<1>11. ASSUME NEW i \in 1..(n - 1)
       PROVE  nextP[t[i]] = IF i = n - 1 THEN NULL ELSE t[i + 1]
  <2>1. /\ t[i] = s[i] /\ i \in 1..n /\ i # n /\ s[i] \in S /\ n # 1
        /\ i # n - 1 => i + 1 \in 1..(n - 1)
    BY <1>2, <1>4
  <2>2. s[i] = prev[last] <=> i = n - 1
    BY <2>1, <1>4, <1>8, <1>9
  <2>3. next[s[i]] = s[i + 1]
    BY <2>1, <1>1 DEF Order, Follows
  <2> QED BY <2>1, <2>2, <2>3, <1>4
<1>12. (IF prev[last] = NULL THEN NULL ELSE head)
         = IF n - 1 = 0 THEN NULL ELSE t[1]
  <2>1. head = s[1]
    BY <1>1, <1>2 DEF Order, Follows
  <2> QED BY <2>1, <1>2, <1>4, <1>9, <1>10
<1>13. Follows(t, n - 1, IF prev[last] = NULL THEN NULL ELSE head, nextP)
  BY <1>11, <1>12 DEF Follows
<1>14. \A i \in 1..(n - 1) : prev[t[i]] = IF i = 1 THEN NULL ELSE t[i - 1]
  <2> SUFFICES ASSUME NEW i \in 1..(n - 1)
               PROVE  prev[t[i]] = IF i = 1 THEN NULL ELSE t[i - 1]
    OBVIOUS
  <2>1. i # 1 => i - 1 \in 1..(n - 1)
    BY <1>2
  <2> QED BY <2>1, <1>1, <1>4 DEF Backs
<1>15. prev[last] = IF n - 1 = 0 THEN NULL ELSE t[n - 1]
  BY <1>2, <1>4, <1>8, <1>9
<1> QED BY <1>3, <1>6, <1>7, <1>13, <1>14, <1>15 DEF IsDeque
=============================================================================
