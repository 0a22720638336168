---------------------------- MODULE AppendOnlyLog ----------------------------
(***************************************************************************)
(* What the oplog of one worker promises: entries that have been added are *)
(* written in order, one after the other; what is written is never lost,   *)
(* changed or reordered; what is not yet written is lost when the oplog is *)
(* closed or the executor stops.  The promise is given up for good when    *)
(* the storage is damaged.                                                 *)
(***************************************************************************)
EXTENDS Sequences

CONSTANT Entries

VARIABLES log,       \* the entries that have been written
          pending,   \* the entries that have been added only
          intact     \* the storage has not been damaged

Init == log = <<>> /\ pending = <<>> /\ intact = TRUE

(* The initial entry is written when the oplog is created.                 *)
Create ==
  /\ log = <<>> /\ pending = <<>>
  /\ \E e \in Entries : log' = <<e>>
  /\ UNCHANGED pending

Add ==
  /\ \E e \in Entries : pending' = Append(pending, e)
  /\ UNCHANGED log

Write ==
  /\ pending # <<>>
  /\ log' = Append(log, Head(pending))
  /\ pending' = Tail(pending)

Lose ==
  /\ pending' = <<>>
  /\ UNCHANGED log

Next ==
  \/ intact /\ intact' = TRUE /\ (Create \/ Add \/ Write \/ Lose)
  \/ intact' = FALSE

Spec == Init /\ [][Next]_<<log, pending, intact>>
=============================================================================
