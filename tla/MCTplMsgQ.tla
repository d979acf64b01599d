------------------------------ MODULE MCTplMsgQ ------------------------------
(* Model checking of TplMsgQ: two receivers.  The addresses malloc() returns  *)
(* are not made symmetric, since the run checks liveness.                    *)
EXTENDS TplMsgQ
=============================================================================
