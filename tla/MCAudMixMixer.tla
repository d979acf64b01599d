---------------------------- MODULE MCAudMixMixer ----------------------------
(* Model checking of AudMixMixer: one client, and one hardware buffer more   *)
(* than the daemon program uses.                                            *)
EXTENDS AudMixMixer
=============================================================================
