----------------------------- MODULE PointerLists -----------------------------
(***************************************************************************)
(* What it means that the pointers of a C structure form the linked list   *)
(* they are meant to form: s enumerates the set S of the nodes in list     *)
(* order, so that every node is reached once, from the head, and nothing   *)
(* else is.                                                                *)
(***************************************************************************)
EXTENDS Naturals, FiniteSets

CONSTANT NULL  \* the null pointer

\* The ways to enumerate a set of n nodes.
Orders(S, n) == [1..n -> S]

\* Following `next' from `head' visits s[1], ..., s[n] and ends.
Follows(s, n, head, next) ==
  /\ head = IF n = 0 THEN NULL ELSE s[1]
  /\ \A i \in 1..n : next[s[i]] = IF i = n THEN NULL ELSE s[i + 1]

\* s names every node of S once.
Enumerates(s, n, S) ==
  /\ \A i, j \in 1..n : s[i] = s[j] => i = j
  /\ S = {s[i] : i \in 1..n}

\* A list that is entered at its head only.
IsChain(S, head, next) ==
  LET n == Cardinality(S) IN
  \E s \in Orders(S, n) :
    /\ Enumerates(s, n, S)
    /\ Follows(s, n, head, next)

\* A list with a pointer to its last node too.
IsQueue(S, head, last, next) ==
  LET n == Cardinality(S) IN
  \E s \in Orders(S, n) :
    /\ Enumerates(s, n, S)
    /\ Follows(s, n, head, next)
    /\ last = IF n = 0 THEN NULL ELSE s[n]

\* A list that is doubly linked.
IsDeque(S, head, last, next, prev) ==
  LET n == Cardinality(S) IN
  \E s \in Orders(S, n) :
    /\ Enumerates(s, n, S)
    /\ Follows(s, n, head, next)
    /\ last = IF n = 0 THEN NULL ELSE s[n]
    /\ \A i \in 1..n : prev[s[i]] = IF i = 1 THEN NULL ELSE s[i - 1]

\* The nodes of S in list order (when IsChain holds).
ListOrder(S, head, next) ==
  LET n == Cardinality(S) IN
  CHOOSE s \in Orders(S, n) : Enumerates(s, n, S) /\ Follows(s, n, head, next)
=============================================================================
