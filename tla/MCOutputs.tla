------------------------------- MODULE MCOutputs -------------------------------
(* Model checking of Outputs with all three plugins.                         *)
EXTENDS Outputs

AllKinds == {"aout", "vout", "nullout"}
=============================================================================
