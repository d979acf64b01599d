---------------------------- MODULE MCAudMixDaemon ----------------------------
(* Model checking of AudMixDaemon: the client processes are alike, and so    *)
(* are the addresses of client structures.                                  *)
EXTENDS AudMixDaemon, TLC

Symmetry == Permutations(Process) \cup Permutations(Client)
=============================================================================
