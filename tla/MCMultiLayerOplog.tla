-------------------------- MODULE MCMultiLayerOplog --------------------------
(* Instances of MultiLayerOplog for TLC.                                   *)
EXTENDS MultiLayerOplog

(* Reads of more than there is and from the middle.                        *)
SomeReads == {<<1, 4>>, <<2, 3>>}
=============================================================================
