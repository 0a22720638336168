---------------------------- MODULE MCShardManager ----------------------------
(* The fault budget of the run of ShardManager.                            *)
EXTENDS ShardManager

(* Every kind of fault, once each.                                         *)
AllFaults == [k \in FaultKinds |-> 1]
=============================================================================
