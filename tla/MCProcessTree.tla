----------------------------- MODULE MCProcessTree -----------------------------
(* Model checking of ProcessTree: a media handler, an image reader that      *)
(* makes a channel with two streams, and two outputs for its streams.        *)
EXTENDS ProcessTree

CONSTANTS file, gbm, vout, nullout

PluginShapes ==
  [p \in {file, gbm, vout, nullout} |->
     CASE p = file -> [top |-> 2, leaves |-> 0, leaf |-> 2]
       [] p = gbm -> [top |-> 3, leaves |-> 2, leaf |-> 5]
       [] OTHER -> [top |-> 6, leaves |-> 0, leaf |-> 6]]

PluginsFor ==
  [t \in NodeType |-> CASE t = 1 -> <<file>>
                        [] t = 2 -> <<gbm>>
                        [] t = 5 -> <<vout, nullout>>
                        [] OTHER -> <<>>]
=============================================================================
