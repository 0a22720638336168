------------------------------ MODULE MCWorker ------------------------------
(* Instances of Worker for TLC.                                            *)
EXTENDS Worker

CONSTANTS c1, c2

(* Every client has a key of its own, or all share one.                    *)
OwnKeys == [c \in Clients |-> c]
OneKey == [c \in Clients |-> c1]

(* Only c2 has a key of its own.                                           *)
TwoKeys == [c \in Clients |-> IF c = c2 THEN c2 ELSE c1]
=============================================================================
