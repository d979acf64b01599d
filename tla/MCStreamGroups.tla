---------------------------- MODULE MCStreamGroups ----------------------------
(* Model checking of StreamGroups.  An entry is a node and a number: one per *)
(* node for one group whose address is used again, and two per audio node    *)
(* for two groups, where a stream may be removed from a group it is not in.  *)
EXTENDS StreamGroups, TLC

OneEach == Node \X {1}
TwoAudio == OneEach \cup Audio \X {2}
NodeOf == [e \in Entry |-> e[1]]

Symmetry == Permutations(Group)
=============================================================================
