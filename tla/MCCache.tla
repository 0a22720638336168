------------------------------ MODULE MCCache -------------------------------
(* Instances of Cache for TLC.                                             *)
EXTENDS Cache, TLC

CONSTANTS f1, f2, f3, k1, k2

(* Two fibers for the first key, one for the second.                       *)
SharedFirst == f1 :> k1 @@ f2 :> k1 @@ f3 :> k2
=============================================================================
