------------------------------ MODULE Selection ------------------------------
(***************************************************************************)
(* The entries of a sequence that belong to a set, in their order: what    *)
(* retain on a queue or a map in the order of its accesses leaves.  It is  *)
(* SelectSeq with membership as its test, as a recursive function that     *)
(* proofs can unfold.                                                      *)
(***************************************************************************)
EXTENDS Integers, Sequences

Only(s, S) ==
  LET kept[i \in 0..Len(s)] ==
        IF i = 0 THEN <<>>
        ELSE IF s[i] \in S THEN Append(kept[i - 1], s[i]) ELSE kept[i - 1]
  IN  kept[Len(s)]
=============================================================================
