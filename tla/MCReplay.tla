------------------------------ MODULE MCReplay ------------------------------
(* Instances of Replay for TLC.                                            *)
EXTENDS Replay

(* Plain calls and writes; regions with jumps inside, over, around and     *)
(* back into them; batches; a write inside a region; an empty region;      *)
(* a batch inside a region, and one that ends after it; a write inside a   *)
(* batch.                                                                  *)
SomePrograms ==
  { <<"call", "begin", "call", "call", "end", "call">>,
    <<"save", "call", "back", "once", "call">>,
    <<"begin", "save", "call", "back", "call", "end">>,
    <<"save", "begin", "call", "end", "call", "back", "call">>,
    <<"once", "open", "part", "part", "close", "call">>,
    <<"begin", "once", "call", "end">>,
    <<"open", "part", "call", "close", "once">>,
    <<"begin", "end", "call">>,
    <<"begin", "call", "save", "call", "end", "back">>,
    <<"begin", "call", "open", "part", "close", "call", "end">>,
    <<"begin", "call", "open", "part", "end", "close">>,
    <<"open", "part", "once", "close", "call">> }

(* A write after a region, and one after a batch with a write inside.      *)
WriteAfterRegion == {<<"begin", "call", "end", "once">>}
WriteAfterMixedBatch == {<<"open", "part", "once", "close", "once">>}
=============================================================================
