------------------------------- MODULE Replay -------------------------------
(***************************************************************************)
(* Durable execution of one invocation of a worker: what the guest asks of *)
(* its host is recorded in the oplog, and a worker that was restarted runs *)
(* the guest again and answers it from the oplog until that is exhausted   *)
(* (golem-worker-executor-base/src/durable_host: replay_state.rs,          *)
(* durability.rs, mod.rs, golem/mod.rs; invocation.rs).                    *)
(*                                                                         *)
(* The guest is deterministic: a program is a sequence of host calls, and  *)
(* all the guest knows is what they returned, seen.  The operations:       *)
(*   call        a read: ImportedFunctionInvoked                           *)
(*   once        a remote write that is not assumed to be idempotent       *)
(*   begin, end  mark_begin_operation, mark_end_operation                  *)
(*   open, part, close  a batched remote write (an HTTP request)           *)
(*   save        get_oplog_index                                           *)
(*   back        set_oplog_index to the saved index if the last call said  *)
(*               so, and nothing otherwise                                 *)
(* The result of a call is an answer and the boot that made it, so that a  *)
(* replayed result can be told from a new one.                             *)
(***************************************************************************)
EXTENDS Integers, Sequences, SequencesExt, FiniteSets

CONSTANTS
  Programs,     \* the programs of guests
  MaxCrashes,   \* bound: crashes of the executor
  MaxJumps,     \* bound: answers that make the guest jump back
  MaxRequests   \* bound: invocations requested meanwhile

Ops == {"call", "once", "begin", "end", "open", "part", "close", "save", "back"}

(* A guest ends what it has begun, and jumps to an index it has saved if a *)
(* call has said so.                                                       *)
Needs == {<<"end", "begin">>, <<"close", "open">>, <<"back", "save">>,
          <<"back", "call">>}

ASSUME ProgramsAssumption ==
  \A p \in Programs :
    /\ p \in Seq(Ops)
    /\ \A i \in DOMAIN p, n \in Needs :
         p[i] = n[1] => \E j \in 1..(i - 1) : p[j] = n[2]

(* A region is ended and has no other of its kind inside.                  *)
Brackets == {<<"begin", "end">>, <<"open", "close">>}

ASSUME RegionsAssumption ==
  \A p \in Programs, b \in Brackets :
    \A i \in {k \in DOMAIN p : p[k] = b[1]} :
      \E j \in (i + 1)..Len(p) :
        /\ p[j] = b[2]
        /\ \A k \in (i + 1)..(j - 1) : p[k] \notin {b[1], b[2]}

VARIABLES
  program,
  durable,      \* committed entries of the oplog
  buffer,       \* entries added and not committed
  mode,         \* "down", "loading", "guest", or how the invocation ended
  boots,        \* instances of the worker so far
  last,         \* last_replayed_index
  target,       \* replay_target
  regions,      \* indexes of the deleted regions
  seen,         \* what the host calls returned to this instance
  step,         \* inside a host call: what it does next
  source,       \* jump_source, or begin_index of the write
  crashes, jumps, requests,
  timeline,     \* ghost: seen of the last instance that was live
  kept,         \* ghost: calls a restarted guest must get back
  effects,      \* ghost: positions of the writes performed, one by one
  misread       \* ghost: a host call took another entry for its own

oplogVars == <<durable, buffer>>
replayVars == <<last, target, regions>>
guestVars == <<mode, boots, seen, step, source>>
budgets == <<crashes, jumps, requests>>
ghosts == <<timeline, kept, effects, misread>>
vars == <<program, oplogVars, replayVars, guestVars, budgets, ghosts>>

-----------------------------------------------------------------------------
oplog == durable \o buffer
pc == Len(seen) + 1
Op == program[pc]
Ended == {"done", "stuck", "refused"}

(* OplogEntry::is_hint *)
IsHint(e) == e.kind = "Pending"

(* ReplayState::is_live *)
IsLive == last = target

(* DeletedRegionsBuilder: overlapping and adjacent regions are merged.     *)
RegionEnd(deleted, i) ==
  CHOOSE j \in deleted : /\ j >= i /\ i..j \subseteq deleted
                         /\ j + 1 \notin deleted

(* A slip: a region right after the begin of an atomic region is entered.  *)
MoveIntoRegion(i) ==
  IF i # target /\ i + 1 \in regions /\ i \notin regions
     /\ oplog[i].kind # "BeginAtomic"
  THEN RegionEnd(regions, i + 1) ELSE i

(* move_replay_idx with get_out_of_deleted_region: a region that starts    *)
(* right after the index is left behind.                                   *)
MoveTo(i) ==
  IF i # target /\ i + 1 \in regions /\ i \notin regions
  THEN RegionEnd(regions, i + 1) ELSE i

(* The hints after an entry are skipped with it.                           *)
SkipHints(i) ==
  LET skip[j \in 1..target] ==
        IF j = target \/ ~IsHint(oplog[j + 1]) THEN j
        ELSE skip[MoveTo(j + 1)]
  IN  skip[i]

(* get_oplog_entry after last_replayed_index i: the index of the entry,    *)
(* and the new last_replayed_index.                                        *)
EntryAfter(i) == SkipHints(i) + 1
IndexAfter(i) == SkipHints(MoveTo(EntryAfter(i)))

(* A slip: the last entry of the oplog is not looked at.                   *)
HasEntryBeforeLast(i, kind, begin) ==
  \E j \in (i + 1)..(target - 1) :
    durable[j].kind = kind /\ durable[j].begin = begin

(* A slip: a retried region counts as ended.                               *)
HasEntryOrRetry(i, kind, begin) ==
  \E j \in (i + 1)..Len(durable) :
    \/ durable[j].kind = kind /\ durable[j].begin = begin
    \/ durable[j].kind = "call"

(* lookup_oplog_entry, also in regions that are deleted.                   *)
HasEntry(i, kind, begin) ==
  /\ i + 1 < target
  /\ \E j \in (i + 1)..Len(durable) :
       durable[j].kind = kind /\ durable[j].begin = begin

(* lookup_oplog_entry_with_condition and no_concurrent_side_effect.        *)
HasBatchEnd(i, begin) ==
  /\ i + 1 < target
  /\ \E j \in (i + 1)..Len(durable) :
       /\ durable[j].kind = "EndWrite" /\ durable[j].begin = begin
       /\ \A k \in (i + 1)..(j - 1) :
            durable[k].kind \notin {"Write", "Completed"}

(* calculate_deleted_regions *)
DeletedRegions ==
  UNION {durable[j].start..durable[j].end :
           j \in {k \in DOMAIN durable : durable[k].kind = "Jump"}}

-----------------------------------------------------------------------------
(* What the guest keeps of a host call.                                    *)
Answer(v, b) == [value |-> v, boot |-> b]
Nothing == Answer(0, 0)

(* The last position of an operation before the current one.               *)
LastOf(op) == Max({j \in 1..(pc - 1) : program[j] = op})

(* A position is in a region when it comes after its begin and not after   *)
(* its end.                                                                *)
OpensBefore(opener, closer, n) ==
  \E i \in 1..(n - 1) : /\ program[i] = opener
                        /\ \A j \in i..(n - 1) : program[j] # closer
InRegion(n) == OpensBefore("begin", "end", n) \/ OpensBefore("open", "close", n)

(* What n calls returned is committed: it must come back, unless they end  *)
(* inside a region.                                                        *)
Keep(n) == kept' = IF InRegion(n + 1) THEN kept ELSE n

(* The call returns to the guest; what a live guest saw is remembered.     *)
Returns(answer, live) ==
  /\ seen' = Append(seen, answer)
  /\ timeline' = IF live THEN seen' ELSE timeline

AddEntry(e) == buffer' = Append(buffer, e) /\ UNCHANGED durable
AddAndCommit(entries) == durable' = oplog \o entries /\ buffer' = <<>>

(* Ghost: whether the index a host call uses is that of its own entry.     *)
Takes(own) == misread' = (misread \/ ~own)

Fails(outcome) ==
  /\ mode' = outcome
  /\ UNCHANGED <<oplogVars, replayVars, boots, seen, step, source, ghosts>>

Init ==
  /\ program \in Programs
  /\ durable = <<[kind |-> "Create"]>> /\ buffer = <<>>
  /\ mode = "down" /\ boots = 0 /\ last = 0 /\ target = 0 /\ regions = {}
  /\ seen = <<>> /\ step = "none" /\ source = 0
  /\ crashes = 0 /\ jumps = 0 /\ requests = 0
  /\ timeline = <<>> /\ kept = 0 /\ effects = <<>> /\ misread = FALSE

-----------------------------------------------------------------------------
(* ReplayState::new: everything that is committed is replayed, from the    *)
(* first entry after Create that is not deleted.                           *)
CreateInstance ==
  /\ mode = "down"
  /\ boots' = boots + 1 /\ mode' = "loading"
  /\ target' = Len(durable) /\ regions' = DeletedRegions
  /\ last' = IF 2 \in DeletedRegions THEN RegionEnd(DeletedRegions, 2) ELSE 1
  /\ seen' = <<>> /\ step' = "none" /\ source' = 0
  /\ UNCHANGED <<program, oplogVars, budgets, ghosts>>

(* A slip: trailing hints are not consumed.                                *)
ResumeReplayHints ==
  /\ mode = "loading" /\ ~IsLive
  /\ UNCHANGED <<program, target, regions, boots, seen, step, source, budgets,
                 ghosts>>
  /\ LET at == EntryAfter(last)
     IN  IF SkipHints(last) = target
         THEN UNCHANGED <<last, mode, oplogVars>>
         ELSE IF oplog[at].kind = "Invoked"
         THEN /\ last' = IndexAfter(last) /\ mode' = "guest"
              /\ IF last' = target THEN AddAndCommit(<<[kind |-> "Invoked"]>>)
                 ELSE UNCHANGED oplogVars
         ELSE mode' = "stuck" /\ UNCHANGED <<last, oplogVars>>

(* resume_replay: the next invocation of the oplog, or nothing is left.    *)
(* invoke_or_fail records the invocation when the instance is live.        *)
ResumeReplay ==
  /\ mode = "loading" /\ ~IsLive
  /\ UNCHANGED <<program, target, regions, boots, seen, step, source, budgets,
                 ghosts>>
  /\ LET at == EntryAfter(last)
     IN  IF SkipHints(last) = target
         THEN last' = target /\ UNCHANGED <<mode, oplogVars>>
         ELSE IF oplog[at].kind = "Invoked"
         THEN /\ last' = IndexAfter(last) /\ mode' = "guest"
              /\ IF last' = target THEN AddAndCommit(<<[kind |-> "Invoked"]>>)
                 ELSE UNCHANGED oplogVars
         ELSE mode' = "stuck" /\ UNCHANGED <<last, oplogVars>>

(* The invocation is taken from the queue.                                 *)
Invoke ==
  /\ mode = "loading" /\ IsLive
  /\ mode' = "guest"
  /\ AddAndCommit(<<[kind |-> "Invoked"]>>)
  /\ UNCHANGED <<program, replayVars, boots, seen, step, source, budgets, ghosts>>

(* The function returns: on_invocation_success.                            *)
Complete ==
  /\ mode = "guest" /\ pc > Len(program)
  /\ UNCHANGED <<program, target, regions, boots, seen, step, source, budgets,
                 timeline, effects, misread>>
  /\ IF IsLive
     THEN /\ AddAndCommit(<<[kind |-> "Completed"]>>)
          /\ mode' = "done" /\ kept' = pc - 1
          /\ UNCHANGED last
     ELSE /\ mode' = IF oplog[EntryAfter(last)].kind = "Completed"
                     THEN "done" ELSE "stuck"
          /\ last' = IndexAfter(last)
          /\ UNCHANGED <<oplogVars, kept>>

-----------------------------------------------------------------------------
(* Host calls of a live guest.                                             *)

InCall(op, s) == mode = "guest" /\ pc <= Len(program) /\ Op = op /\ step = s

(* A read: added, and committed some time later; with a batch it is a      *)
(* write and committed at once.                                            *)
CallLive(op) ==
  /\ InCall(op, "none") /\ IsLive
  /\ \E again \in {0, 1} :
       /\ again = 1 => op = "call" /\ jumps < MaxJumps
       /\ LET e == [kind |-> op, value |-> again, boot |-> boots]
          IN  IF op = "part" THEN AddAndCommit(<<e>>) /\ Keep(pc)
              ELSE AddEntry(e) /\ UNCHANGED kept
       /\ Returns(Answer(again, boots), TRUE)
       /\ jumps' = jumps + again
  /\ UNCHANGED <<program, replayVars, mode, boots, step, source, crashes,
                 requests, effects, misread>>

(* get_oplog_index, mark_begin_operation and begin_function of a batch:    *)
(* the entry is added, then the index of the oplog is read.                *)
EntryOf == [save |-> "NoOp", begin |-> "BeginAtomic", open |-> "BeginWrite"]

AddMarker(op) ==
  /\ InCall(op, "none") /\ IsLive
  /\ IF op = "open" THEN AddAndCommit(<<[kind |-> EntryOf[op]]>>) /\ Keep(pc - 1)
     ELSE AddEntry([kind |-> EntryOf[op]]) /\ UNCHANGED kept
  /\ step' = "index"
  /\ UNCHANGED <<program, replayVars, mode, boots, seen, source, budgets,
                 timeline, effects, misread>>

ReadIndex(op) ==
  /\ InCall(op, "index")
  /\ Returns(Answer(Len(oplog), 0), TRUE)
  /\ step' = "none"
  /\ UNCHANGED <<program, oplogVars, replayVars, mode, boots, source, budgets,
                 kept, effects>>
  /\ Takes(~IsHint(oplog[Len(oplog)]))

(* mark_end_operation, and end_durable_function of a batch, which commits. *)
EndLive(op) ==
  /\ InCall(op, "none") /\ IsLive
  /\ LET begin == seen[LastOf(IF op = "end" THEN "begin" ELSE "open")].value
     IN  IF op = "end"
         THEN AddEntry([kind |-> "EndAtomic", begin |-> begin]) /\ UNCHANGED kept
         ELSE AddAndCommit(<<[kind |-> "EndWrite", begin |-> begin]>>) /\ Keep(pc)
  /\ Returns(Nothing, IsLive)
  /\ UNCHANGED <<program, replayVars, mode, boots, step, source, budgets, effects, misread>>

(* A slip: the begin of the write is added and not committed.              *)
BeginOnceBuffered ==
  /\ InCall("once", "none") /\ IsLive
  /\ AddEntry([kind |-> "BeginWrite"])
  /\ step' = "index"
  /\ UNCHANGED <<program, replayVars, mode, boots, seen, source, budgets, ghosts>>

(* A write that must not be repeated: its begin is committed before it is  *)
(* performed, its result and end after.                                    *)
BeginOnce ==
  /\ InCall("once", "none") /\ IsLive
  /\ AddAndCommit(<<[kind |-> "BeginWrite"]>>) /\ Keep(pc - 1)
  /\ step' = "index"
  /\ UNCHANGED <<program, replayVars, mode, boots, seen, source, budgets,
                 timeline, effects, misread>>

PerformOnce ==
  /\ InCall("once", "index")
  /\ source' = Len(oplog)
  /\ effects' = Append(effects, pc)
  /\ step' = "record"
  /\ UNCHANGED <<program, oplogVars, replayVars, mode, boots, seen, budgets,
                 timeline, kept, misread>>

RecordOnce ==
  /\ InCall("once", "record")
  /\ AddAndCommit(<<[kind |-> "Write", value |-> 0, boot |-> boots],
                    [kind |-> "EndWrite", begin |-> source]>>) /\ Keep(pc)
  /\ Returns(Answer(0, boots), TRUE)
  /\ step' = "none"
  /\ UNCHANGED <<program, replayVars, mode, boots, source, budgets, effects, misread>>

(* set_oplog_index, if the guest wants to jump: the index of the Jump      *)
(* entry is computed, then the entry is committed and the worker restarts. *)
(* The test for a deleted target is left out: OplogRegion::contains never  *)
(* holds for a region whose start is not after its end.                    *)
WantsBack == seen[LastOf("call")].value = 1

StartJump ==
  /\ InCall("back", "none") /\ IsLive /\ WantsBack
  /\ source' = Len(oplog) + 1 /\ step' = "jump"
  /\ UNCHANGED <<program, oplogVars, replayVars, mode, boots, seen, budgets, ghosts>>

(* A slip: the region ends before the Jump entry.                          *)
JumpKept ==
  /\ InCall("back", "jump")
  /\ AddAndCommit(<<[kind |-> "Jump", start |-> seen[LastOf("save")].value + 1,
                     end |-> source - 1]>>)
  /\ kept' = Min({kept, LastOf("save")})
  /\ mode' = "down"
  /\ UNCHANGED <<program, replayVars, boots, seen, step, source, budgets,
                 timeline, effects>>
  /\ Takes(source = Len(oplog) + 1)

Jump ==
  /\ InCall("back", "jump")
  /\ AddAndCommit(<<[kind |-> "Jump", start |-> seen[LastOf("save")].value + 1,
                     end |-> source]>>)
  /\ kept' = Min({kept, LastOf("save")})
  /\ mode' = "down"
  /\ UNCHANGED <<program, replayVars, boots, seen, step, source, budgets,
                 timeline, effects>>
  /\ Takes(source = Len(oplog) + 1)

NoJump ==
  /\ InCall("back", "none")
  /\ ~WantsBack \/ ~IsLive
  /\ Returns(Nothing, IsLive)
  /\ UNCHANGED <<program, oplogVars, replayVars, mode, boots, step, source,
                 budgets, kept, effects, misread>>

-----------------------------------------------------------------------------
(* Host calls of a guest that is replayed.                                 *)

Found(kind) == oplog[EntryAfter(last)].kind = kind

(* Durability::replay; a marker returns its own index.                     *)
KindRead == [call |-> "call", part |-> "part", save |-> "NoOp",
             end |-> "EndAtomic", close |-> "EndWrite"]

ReplayCall(op) ==
  /\ InCall(op, "none") /\ ~IsLive
  /\ LET at == EntryAfter(last)
         answer == CASE op \in {"call", "part"} ->
                          Answer(oplog[at].value, oplog[at].boot)
                     [] op = "save" -> Answer(at, 0)
                     [] OTHER -> Nothing
     IN  IF Found(KindRead[op])
         THEN /\ last' = IndexAfter(last)
              /\ Returns(answer, last' = target)
              /\ UNCHANGED <<oplogVars, target, regions, mode, boots, step,
                             source, kept, effects, misread>>
         ELSE Fails("stuck")
  /\ UNCHANGED <<program, budgets>>

(* mark_begin_operation and begin_function of a batch: a region that was   *)
(* not ended is deleted, up to the Jump entry that says so, and done again *)
(* by the live guest.                                                      *)
ReplayBegin(op) ==
  /\ InCall(op, "none") /\ ~IsLive
  /\ LET at == EntryAfter(last)
         ended == IF op = "begin" THEN HasEntry(IndexAfter(last), "EndAtomic", at)
                  ELSE HasBatchEnd(IndexAfter(last), at)
         attempt == [kind |-> "Jump", start |-> at + 1, end |-> target + 1]
     IN  IF ~Found(EntryOf[op]) THEN Fails("stuck")
         ELSE /\ Returns(Answer(at, 0), ~ended)
              /\ IF ended
                 THEN /\ last' = IndexAfter(last)
                      /\ UNCHANGED <<regions, oplogVars, misread>>
                 ELSE /\ last' = target
                      /\ regions' = regions \cup attempt.start..attempt.end
                      /\ AddAndCommit(<<attempt>>)
                      /\ Takes(attempt.end = Len(oplog) + 1)
              /\ UNCHANGED <<target, mode, boots, step, source, kept, effects>>
  /\ UNCHANGED <<program, budgets>>

(* begin_function of a write that must not be repeated: without its end    *)
(* the invocation fails.                                                   *)
ReplayOnce ==
  /\ InCall("once", "none") /\ ~IsLive
  /\ LET at == EntryAfter(last)
         first == IndexAfter(last)
         write == EntryAfter(first)
     IN  IF ~Found("BeginWrite") THEN Fails("stuck")
         ELSE IF ~HasEntry(first, "EndWrite", at) THEN Fails("refused")
         ELSE IF oplog[write].kind # "Write" THEN Fails("stuck")
         ELSE /\ last' = IndexAfter(IndexAfter(first))
              /\ Returns(Answer(oplog[write].value, oplog[write].boot),
                         last' = target)
              /\ UNCHANGED <<oplogVars, target, regions, mode, boots, step,
                             source, kept, effects, misread>>
  /\ UNCHANGED <<program, budgets>>

-----------------------------------------------------------------------------
(* The buffer reached its limit, or the guest asked for a commit.          *)
Commit ==
  /\ mode = "guest" /\ buffer # <<>>
  /\ AddAndCommit(<<>>) /\ Keep(pc - 1)
  /\ UNCHANGED <<program, replayVars, guestVars, budgets, timeline, effects, misread>>

(* Another invocation of the worker is requested and recorded.             *)
Request ==
  /\ requests < MaxRequests /\ mode \notin Ended
  /\ AddAndCommit(<<[kind |-> "Pending"]>>)
  /\ IF mode = "guest" /\ IsLive THEN Keep(pc - 1) ELSE UNCHANGED kept
  /\ requests' = requests + 1
  /\ UNCHANGED <<program, replayVars, guestVars, crashes, jumps, timeline, effects, misread>>

(* The executor stops, or the instance is dropped by a restart.            *)
Crash ==
  /\ crashes < MaxCrashes /\ mode \in {"loading", "guest", "done"}
  /\ crashes' = crashes + 1
  /\ mode' = "down" /\ buffer' = <<>>
  /\ UNCHANGED <<program, durable, replayVars, boots, seen, step, source, jumps,
                 requests, ghosts>>

HostCall ==
  \/ \E op \in {"call", "part"} : CallLive(op)
  \/ \E op \in {"save", "begin", "open"} : AddMarker(op) \/ ReadIndex(op)
  \/ \E op \in {"end", "close"} : EndLive(op)
  \/ BeginOnce \/ PerformOnce \/ RecordOnce
  \/ StartJump \/ Jump \/ NoJump
  \/ \E op \in {"call", "part", "save", "end", "close"} : ReplayCall(op)
  \/ \E op \in {"begin", "open"} : ReplayBegin(op)
  \/ ReplayOnce

Worker == CreateInstance \/ ResumeReplay \/ Invoke \/ Complete \/ HostCall

Next == Worker \/ Commit \/ Request \/ Crash

Spec == Init /\ [][Next]_vars

(* The executor runs a worker as long as it has something to do.           *)
FairSpec == Spec /\ WF_vars(Worker)

-----------------------------------------------------------------------------
(* Properties.  Another process writes to the oplog while the worker runs: *)
(* a request that is recorded between two steps of a host call, or while   *)
(* the worker replays, takes the index the call counts on.  Unless that    *)
(* has happened (misread), and but for batches of which the end is never   *)
(* found:                                                                  *)

(* A batch with another side effect inside it (no_concurrent_side_effect). *)
MixedBatch ==
  \E n \in DOMAIN program : program[n] = "once" /\ OpensBefore("open", "close", n)

(* A guest that is replayed sees what the guest before it saw: every host  *)
(* call returns the recorded result of that call and no other, whatever    *)
(* was deleted by jumps and retried regions, and recorded by others.       *)
ReplaySeesThePast ==
  ~misread /\ mode = "guest" /\ ~IsLive => IsPrefix(seen, timeline)

(* No call whose result was committed is made again: a guest turns live    *)
(* only behind them, unfinished regions and jumps excepted.                *)
Calls(n) == {i \in 1..n : program[i] \in {"call", "part", "once"}}

NothingForgotten ==
  ~misread /\ ~MixedBatch /\ mode \in {"loading", "guest"} /\ IsLive
    => Calls(kept) \subseteq Calls(Len(seen))

(* A region is executed as a whole: all the results a guest has from one   *)
(* atomic region, or one batch, come from the same instance; a half that   *)
(* was interrupted is never combined with another ("the whole region will  *)
(* be reexecuted on retry").  Except for a region the guest may take up in *)
(* its middle: it jumps back into it from behind its end, or begins inside *)
(* it another one that ends later and is retried.                          *)
MayResume(o, c) ==
  \E k \in (o + 1)..(c - 1) :
    \/ program[k] = "save" /\ \E j \in (c + 1)..Len(program) : program[j] = "back"
    \/ \E b \in Brackets : program[k] = b[1] /\ \A j \in k..c : program[j] # b[2]

SameRegion(i, j) ==
  \E b \in Brackets, o \in 1..i, c \in j..Len(program) :
    /\ program[o] = b[1] /\ program[c] = b[2] /\ ~MayResume(o, c)
    /\ \A k \in (o + 1)..(c - 1) : program[k] \notin {b[1], b[2]}

RegionsWhole ==
  ~misread /\ ~MixedBatch =>
    \A i, j \in DOMAIN seen :
      i < j /\ {i, j} \subseteq Calls(j) /\ SameRegion(i, j)
        => seen[i].boot = seen[j].boot

(* A remote write that is not idempotent is performed once, unless it is   *)
(* in a region or the guest jumps back over it: never again after a crash, *)
(* and an invocation does not complete without it.                         *)
MayRepeat(n) ==
  \/ InRegion(n)
  \/ \E i \in 1..(n - 1), j \in (n + 1)..Len(program) :
        program[i] = "save" /\ program[j] = "back"

Times(n) == Cardinality({k \in DOMAIN effects : effects[k] = n})
OnceOnly == {n \in DOMAIN program : program[n] = "once" /\ ~MayRepeat(n)}

WrittenOnce ==
  ~misread /\ ~MixedBatch =>
    \A n \in OnceOnly : Times(n) <= 1 /\ (mode = "done" => Times(n) = 1)

(* What set_idempotence_mode(false) promises of the executor, without the  *)
(* two exceptions: "at-most-once semantics, failing the worker in case it  *)
(* is not known if the side effect was already executed".  The code does   *)
(* not keep it: a region of which the end is not found is begun again, and *)
(* everything behind it with it.                                           *)
AtMostOnce == \A n \in OnceOnly : Times(n) <= 1

(* A worker is lost, its replay meeting an entry it does not expect, in    *)
(* two ways: a host call was misled by a request; or the worker stopped    *)
(* before anything but its invocation was recorded, recorded that a second *)
(* time, and was restarted.                                                *)
InvokedTwice ==
  \E i, j \in DOMAIN durable :
    /\ i < j /\ durable[i].kind = "Invoked" /\ durable[j].kind = "Invoked"
    /\ \A k \in (i + 1)..(j - 1) : IsHint(durable[k])

StuckInTwoWays == mode = "stuck" => misread \/ InvokedTwice

(* Every invocation comes to an end, however often its worker is stopped:  *)
(* replay does not go round in circles.                                    *)
InvocationEnds == <>[](mode \in Ended)
=============================================================================
