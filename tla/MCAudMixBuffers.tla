--------------------------- MODULE MCAudMixBuffers ---------------------------
(* Model checking of AudMixBuffers, with the addresses of two buffers that   *)
(* the threads of a client create, destroy and create again.                 *)
EXTENDS AudMixBuffers
=============================================================================
