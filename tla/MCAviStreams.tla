------------------------------ MODULE MCAviStreams -----------------------------
(* Model checking of AviStreams: a stream of keyframes with a short frame,   *)
(* and one with another frame between, which is too big at first.            *)
EXTENDS AviStreams, TLC

CONSTANTS a, v

LastEntry == a :> 2 @@ v :> 2
Keys == a :> 0..2 @@ v :> {0, 2}
Sizes == a :> (0 :> 1 @@ 1 :> 0 @@ 2 :> 1)
      @@ v :> (0 :> 1 @@ 1 :> 2 @@ 2 :> 1)
=============================================================================
