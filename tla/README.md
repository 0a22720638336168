# A TLA+ verification project for Golem

Golem runs WebAssembly components as durable workers: what a worker does is
recorded in an oplog, so that it can be moved to another machine, or restarted,
and go on where it was. This directory holds TLA+ models of the parts of Golem
that carry this promise, translated from the Rust source, with the TLC runs
that check them on small instances and TLAPS proofs of their main properties
for every value of their parameters.

## 1. The system

| component | source | state it keeps | operations |
|---|---|---|---|
| Shard manager | `golem-shard-manager/src` | routing table (pod to shards), pending changes, persisted table | register, health check, rebalance (plan, revoke, assign, apply, persist) |
| Executor's shards | `golem-worker-executor-base/src/services/shard.rs`, `grpc.rs` | the registered shards | assign, revoke, check |
| Worker | `.../src/worker.rs` | the instance (unloaded, waiting for permit, running), the queue of pending invocations and updates, the invocation results, the last known status | start, stop, invoke, interrupt, restart on failure, update |
| Active workers | `.../services/active_workers.rs` | cached workers, the memory semaphore | get or create, acquire memory by stopping idle workers |
| Oplog | `.../services/oplog/*` | the primary log of a worker with its uncommitted buffer, compressed and blob archive layers | add, commit, read, transfer to the next layer, archive, drop prefix |
| Replay | `.../durable_host/{replay_state,durability,mod}.rs` | position in the oplog, replay target, deleted and overridden regions | replay or record a host call, jump, atomic regions |
| Promises | `.../services/promise.rs` | promise records and their completion | create, wait, poll, complete, delete |
| Scheduler | `.../services/scheduler.rs` | actions by hour and due time in the key-value storage | schedule, cancel, process |
| Cache | `golem-common/src/cache.rs` | pending and cached items, a count | get or insert, get, remove, evict |
| Worker proxy and RPC | `.../services/{rpc,worker_proxy}.rs` | none | call a local or remote worker |
| Worker service | `golem-worker-service(-base)/src` | a cached routing table, API definitions and deployments | route a request to the executor of its shard, retry with a fresh table |
| Component service | `golem-component-service(-base)/src` | component versions, plugins, initial files | create, update, install plugin |
| Component compilation service | `golem-component-compilation-service/src` | a queue of compilations | enqueue, compile, upload |
| Rib | `golem-rib/src` | none (a language) | parse, infer types, compile, interpret |
| Value and code formats | `wasm-ast`, `wasm-rpc`, `wasm-rpc-stubgen` | none | parse, encode, generate |
| Front ends | `golem`, `golem-cli`, `golem-client`, `crates/app`, `crates/webapp` | user configuration | commands and pages |

Interactions. An executor registers at the shard manager when it starts and
serves requests once that has answered; the shard manager calls it to revoke and
assign shards and to check that it is alive. The worker service fetches the
routing table, sends a request for a worker to the executor its shard is routed
to, and on a sharding error fetches the table again. The executor finds or
creates the worker in its cache of active workers; the worker waits for a memory
permit, is instantiated, replays its oplog and then takes invocations from its
queue. Host calls of the running instance append to the oplog and commit it.
Completed promises, due scheduled actions and restarts after a failure resume a
worker that was suspended.

What is hard here: the loop of the shard manager, the health check and the
registrations interleave, and each call can fail with or without effect; the
manager can stop between any two steps, and only the routing table survives.
Invocations arrive while a worker is started, stopped, interrupted or evicted,
and each is stored in the oplog so that it is neither lost nor run twice. The
background transfer of the oplog moves entries between layers while they are
read. Pending items of a cache are waited for by other tasks while the first one
computes them and may fail. Completion of a promise races with waiting for it.

Properties that make the parts correct:

- shard manager: no shard is routed to or held by two executors; every shard is
  routed once some executor is there; what is persisted can be started from;
- worker: accepted invocations are executed in order, once per idempotency key, and
  a client that was told success can rely on it;
- oplog: a reader sees every committed entry exactly once whatever is moved
  between layers; indexes are dense;
- replay: a replayed call gets the result that was recorded for it;
- promises: every waiter of a completed promise is resumed;
- scheduler: a scheduled action is performed after its due time, whatever stops;
- cache: one computation for each key at a time, and nobody waits for ever;
- active workers: memory in use never exceeds the limit.

## 2. Plan

In order of importance.

1. `Rebalancing`: the planner, step by step (done, proved).
2. `ShardManager`, on top of it: the loop, the executors and the faults (done,
   proved).
3. `MultiLayerOplog` with its abstract specification `AppendOnlyLog` (done, proved:
   what it stores, its reads, its fiber and the refinement).
4. `WorkerStatus`: the record folded over pieces of an oplog (done, proved).
5. `Replay`: host calls, regions and jumps over restarts (done, safety proved).
6. `Worker`: queue, lifecycle and invocation loop (done, safety proved).
7. `Suspension`: promises and scheduler (done, safety proved).
8. `Cache` (done, safety proved).

Not begun: a composition of several executors with their workers (a worker created
after its shard was revoked), the acquire loop of the active workers, and the worker
service's cached routing table.

## 3. Modules

### Rebalancing (`golem-shard-manager/src/rebalancing.rs`, `model.rs`)

`Rebalance::from_routing_table` as a state machine with one action for each round
of each of its loops, so that what the loops preserve is an invariant and not a
statement about a recursion. `phase` is the loop, `cursor` the index variable
(`idx`, `target_idx`), `entries` the vector the code balances, `assignments` and
`unassignments` the plan. `BeginPlan` is the part before the first loop;
`AssignToEmptyPod` and `EmptyPodsServed` the loop over `initial_target_pods`;
`AssignToAnyPod` and `AllShardsAssigned` the round robin over all pods;
`MoveShard` and `NextTarget` the loops that move shards to pods below the lower
threshold. Maps keyed by pod are functions; pods are numbers in the order of the
keys, because the order decides which pod is first and which of several largest
sources is taken. The thresholds are integers computed from a percentage, with the
same rounding as the code's floating point for these values.

### ShardManager (`shard_management.rs`, `lib.rs`, `healthcheck.rs`, `worker_executor.rs`, `persistence.rs`; executor: `services/shard.rs`, `grpc.rs`)

Extends `Rebalancing`: the planner runs inside the loop of the manager.

| actions | code |
|---|---|
| `ManagerStart`, `ManagerStop` | `ShardManagement::new` with its health check of the persisted pods; the process stopping |
| `WakeUp`, `Plan`, `PlanReady` | `worker`: changes taken under the write lock, plan, `add_assignments` for pods that came back, first persist |
| `RevokeAnswered`, `RevokesDone`, `AssignAnswered` | `execute_rebalance`: all revocations at once, `remove_shards` of the failed ones, all assignments |
| `ApplyPlan`, `PersistTable`, `PersistFails` | `RoutingTable::rebalance`, second persist, the `expect` on either |
| `HealthCheckStart`, `HealthCheckAnswer`, `Unregister` | the health check task on a snapshot of the table |
| `ExecutorStart`, `Register`, `ExecutorStop` | the executor process, `register_pod` |

A call is its last outcome after all retries: done and answered, or failed, with or
without effect on an executor that is up. `status` and `owned` are the executors'
own state; `owned` is lost when the process ends. Each kind of fault has a budget
(`FaultBudget`), the only bound of the model.

### MultiLayerOplog (`services/oplog/{multilayer,primary,compressed,blob}.rs`)

The oplog of one durable worker. `primary` holds the rows of the primary oplog and
`archive[l]` the chunks of each archive by the index of their last entry; `buffer`,
`last_oplog_idx`, `last_committed_idx` are `PrimaryOplogState`, and `writing` says
who holds its lock; `primary_length` and `entry_count` are the counters that
trigger transfers; `queue`, `fiber`, `msg`, `moving` and `left` are the background
transfer between its steps; `reader` is a read of the service. `log` is a history
variable: every entry ever written.

| actions | code |
|---|---|
| `Create`, `Open`, `Close`, `Crash` | `create`, `open` (last index of the first layer that has one), the drop of the last reference, the executor stopping |
| `Add`, `StartWriting`, `WriteEntry`, `WriteDone`, `EnqueueTransfer` | `add` and `commit` of both the primary oplog and the multi-layer one, one row at a time |
| `Archive` | `archive`: the first layer that is not empty goes one layer down |
| `TakeMessage`, `AppendTarget`, `DropSource`, `MeasureSource`, `AdjustCount` | `BackgroundTransfer::run`: read the source, append to the target, drop the prefix, adjust the counter |
| `ReadStart`, `ReadPrimary`, `ReadChunk`, `ReadGap`, `ReadReturn` | `MultiLayerOplogService::read`, layer by layer and chunk by chunk |

`Cached` models the cache of an archive, through which every chunk is read: what
the `evicting_cache_map` crate (external) keeps of a chunk longer than its capacity
is its newest part. The ghost `damaged` is set when a chunk is stored that is longer than
this cache, or that takes the place of a chunk with more entries (`Damages`): both
happen (section 6), and from then on entries may be missing.

Abstractions: one commit at a time is between its write and its message; `archive` checks the length and the current index in two reads, here
one step; the blob archive keeps the list of its chunks in memory, taken here as
equal to what is stored; reading one chunk is one step.

`AppendOnlyLog` is the abstract specification: entries are added, written in order,
and lost only if not written, until the promise is given up (`intact`).

### WorkerStatus (`worker.rs`: `calculate_last_known_status` and what it calls)

The status record is cached with the index of the last entry it covers, and brought
up to date from the entries after it. `AddEntry` writes any entry the program can
write at that point (`NextEntries`: what a guest records only inside an invocation, an
invalid request also outside of one); `UpdateMetadata` brings the cached record
`known` up to date, or does not, so that TLC sees every cut of every oplog.
`calculate_last_known_status` is one recursive function over the new entries, whose
round has a step for each `calculate_...` function of the code (`StatusStep`,
`PendingStep`, `UpdateStep`, `ResultStep`, `ResourceStep`, `PluginStep`, `RegionStep`,
`MemoryStep`): the code runs one loop for each, and they do not look at each other's
results. `Start` is what each loop begins with; the count of errors and the overridden
retry policy begin anew. The properties compare the result with definitions that look at
the whole oplog at once (`WaitingRequests`, `EndsOf`, `OwnedResources`). Host calls that
only set the status to running are one kind of entry. `CreateV1` and
`SuccessfulUpdateV1`, which the program reads and no longer writes, are left out.
`Selection` has `Only`, the
`retain` of a vector, as a recursive function.

### Replay (`durable_host/{replay_state,durability,mod}.rs`, `durable_host/golem/mod.rs`, `invocation.rs`)

One invocation of a deterministic guest, a program of host calls. `durable` and
`buffer` are the oplog, `last`, `target` and `regions` the `ReplayState`, `seen` what
the guest was answered. A result carries the number of the instance that made it.

| actions | code |
|---|---|
| `CreateInstance`, `ResumeReplay`, `Invoke`, `Complete` | `ReplayState::new`, `resume_replay`, `invoke_or_fail`, `on_invocation_success` |
| `CallLive`, `ReplayCall` | `Durability::persist` and `replay`, and the markers in replay |
| `AddMarker`, `ReadIndex`, `EndLive`, `ReplayBegin` | `mark_begin_operation`, `mark_end_operation`, `get_oplog_index`, `begin_function` of a batch: live, and the retry of a region in replay |
| `BeginOnce`, `PerformOnce`, `RecordOnce`, `ReplayOnce` | a remote write without assumed idempotence: `begin_function`, the call, `end_function` |
| `StartJump`, `Jump`, `NoJump` | `set_oplog_index` |
| `Commit`, `Request`, `Crash` | a commit of the buffer, an invocation recorded meanwhile, the instance dropped |

`MoveTo`, `SkipHints`, `EntryAfter` and `IndexAfter` are how `ReplayState` steps over
deleted regions and hints; `HasEntry` and `HasBatchEnd` its lookups. Batches are
made with assumed idempotence and single writes without: a guest switches with
`set_idempotence_mode`. Ghosts: `timeline` (what the last live guest saw), `kept` (how
many calls a restarted guest must get back), `effects` (writes performed) and `misread`.

A request is recorded by another task at any moment, also while the worker replays or
between two steps of a host call. A host call that adds an entry and then reads the
index of the oplog, or computes the index its entry will get, may so take the entry of
the request for its own: `misread` says that this has happened. From then on ends do not
match begins and jumps do not cover themselves, and most of what replay promises is lost
(section 6, `replay_overtaken`). `MixedBatch` is a program with a write inside a batch:
`HasBatchEnd` takes such a batch for one that has not ended (section 6). The properties name these two exceptions.

`ProgramsAssumption` says of a guest that it ends only what it has begun and jumps only
to an index it has saved, after a call that may tell it to. `RegionsAssumption` says that
every region is ended, and has no other of its kind inside: `EndLive` ends the region
begun last, so the programs do not nest what only the index given to
`mark_end_operation` could tell apart.

Abstractions: the result of a write, its end and their commit are one step (a crash in
between is refused in either case); a batch with `assume_idempotence` off, which is
refused like a single write when it was not ended, is not modelled.

`RegionsWhole` excepts the regions that a guest may take up in their middle
(`MayResume`). TLC finds two ways, which the docs of the host functions do not mention.
A guest may save an index inside a region, end it and jump back to that index: the end is
in the part that was deleted, `lookup_oplog_entry` finds it there, and after a crash the
region counts as ended although the guest is again in its middle. And a batch that begins
inside an atomic region and ends after it is retried from its own begin.

### Worker (`worker.rs`, with the hooks of `durable_host/mod.rs`; `grpc.rs`)

One worker with its clients. `queue`, `results`, `exec`, `instance`, `stopping`,
`commands` (the channel of `RunningWorker`) and `idle` (`waiting_for_command`) are
fields of the code; `lock` is the instance mutex where it is held over an await;
`stored` is the record in the key-value storage and `loop` the invocation loop.

| actions | code |
|---|---|
| `Validate`, `Start`, `Lookup`, `Subscribe` | `validate_worker_status`, `get_or_create`, `lookup_invocation_result`, `wait_for_invocation_result` |
| `EnqueueIdle`, `EnqueueBusy`, `RecordBusy`, `PushBusy`, `EnqueueUnloaded`, `Persist` | `enqueue` and `enqueue_worker_invocation` for each state of the instance |
| `Interrupt`, `SetInterrupting` | `set_interrupting`: the command, then the status |
| `StopIfIdle`, `Evicted` | `stop_if_idle`, with the lock held until the loop has ended |
| `StartWithPermit`, `CreateInstance`, `Replay`, `Prepared` | `RunningWorker::new`, `create_instance`, `prepare_instance` with `resume_replay` |
| `Receive`, `ChannelClosed`, `InterruptCommand`, `Dequeue`, `NextCommand` | the loop over the channel |
| `SaveStatus` | `update_worker_status`: the queue is read first (`SaveThen`), the index of the oplog here |
| `Enter`, `HostCall`, `WantMemory`, `GotMemory`, `Succeed`, `Trap` | `invoke_or_fail` and what the guest does |
| `RecordSuccess`, `StoreSuccess`, `RecordFailure`, `ReadFailureIndex`, `GiveUp` | `on_invocation_success`, `on_invocation_failure` with the recovery decision |
| `End`, `Abort`, `Stopping`, `Stop`, `RestartOnOom` | the end of the loop, a failed `create_instance` or replay, `stop_internal`, `restart_on_oom` |
| `Activate`, `Crash` | any other request that needs the worker; the executor stops and `Worker::new` reads record and oplog |

`WorkerAssumption` keeps the holders of the lock, the keys and the answers apart from
each other and from nothing; it says nothing about the code.

Abstractions: completed invocations are replayed in one step; one host call of an
invocation is enough to tell whether anything was recorded; memory has no amount, and
a permit is granted at last. `arrived` and `dropped` are ghosts: the keys in the order
they were enqueued, and those a worker that could not start has dropped.

### Suspension (`services/{promise,scheduler}.rs`, `durable_host/{golem/mod,io/poll,mod}.rs`, `grpc.rs`)

How a worker is suspended and woken. A worker runs a program of the steps create,
subscribe, sleep and await, is unloaded when it suspends, and replays from the start.

| actions | code |
|---|---|
| `Enter`, `Suspend`, `Unload`, `Finish`, `InvokeAgain` | loading, `on_invocation_failure` for a suspension, stop, `on_invocation_success` with `store_worker_status`, a later invocation |
| `Create`, `Subscribe`, `PollReady`, `Sleep`, `AwaitReady`, `AwaitPending` | `create_promise`, `subscribe_duration`, `poll` with `sleep_until`, `await_promise` |
| `WriteCompletion`, `Answer`, `WakeWorker` | `complete` of the promise service, then the wake-up of the gRPC call; the host function does not wake |
| `ReadPreviousHour`, `ReadCurrentHour`, `Remove`, `CompleteScheduled`, `CheckLastIndex`, `Archive`, `Activate`, `EndPass` | `process` of the scheduler |
| `Tick`, `StorageError`, `Crash` | time, a pass given up, the executor stopping and recovering the workers stored as running |

`ProgramsAssumption` restricts the programs: one promise at most, and a timer before a
sleep. A promise is named by an index of the oplog, and a sleep by the index at which it
begins; a program that sleeps right after it has created its promise makes the two
names equal (`SharesName`; section 6). A promise is completed only
if it exists: `complete` writes first and looks afterwards, which no client that knows
the promise can tell.

The layers of an oplog are reduced to which are empty (`levels`; in detail they are
in `MultiLayerOplog`). The ghost `missed` holds the workers whose wake-up was lost in
one of the ways the code has: while the worker was being unloaded, by the host
function, in a pass that was given up, or by a crash before a worker that was being
loaded was stored as running.

### Cache (`golem-common/src/cache.rs`)

Fibers that call `get_or_insert`, removals, the eviction of a full cache and the sweep
of the background task; a step is one access to the map, the counter or the channel.
The counter wraps below zero at `Width`. Ghosts: `restarted` (removals of a key while
it was computed), `late` (fibers that subscribed after the value was sent) and
`overlap` (two insertions, removals or evictions were counted at the same time).

The MC modules give the constants of the runs. Definitions introduced by "A slip:"
are not part of the models: they are the plausible mistakes that show each property
can fail.

## 4. Runs

| run | instance | shows |
|---|---|---|
| `rebalancing` | 5 pods, 4 shards, threshold 0 %, every table | the plan matches the working copy, places each shard once, starves nobody, takes only surplus, and ends |
| `shard` | 2 pods, 4 shards; each kind of fault once; fairness | tables exclusive and rebalances complete; as long as the manager has not stopped, executors exclusive and, between rebalances, within their table; as long as nothing fails, every shard ends up served by the executor it is routed to |
| `oplog` | 2 archives, 4 entries, 2 archive messages, one crash, fairness | until a chunk is overwritten nothing written is lost, and the layers implement `AppendOnlyLog`; no copy is changed; indexes stay dense; transfers end; no panic without a crash |
| `oplog_reads` | 3 entries, 2 contents, one crash, reads past the end and inside | a read during transfers misses nothing |
| `worker_status` | every oplog of up to 5 entries, cut everywhere | queue, results, regions, resources, plugins, version and status are those of the whole oplog |
| `replay` | 12 programs, 2 crashes, one jump, one request at any moment, fairness | until a call is misled by the request and but for mixed batches: replay gives back the past, forgets nothing committed, repeats regions as a whole, performs writes once; always: it gets stuck only in the two known ways, and ends |
| `worker` | 2 clients with a key each, one fault of any kind (trap, interrupt, failed creation, crash), fairness | commands match the queue, only idle workers are evicted, each key is processed once and in order, success is durable, nothing accepted is lost, interrupts are acknowledged and the queue moves |
| `suspension` | 1 worker, 4 scenarios, 2 clients, one crash or storage error, 2 hours and a half, fairness | one completion counts, the scheduler completes a promise only for a worker that sleeps under its name, sleeps are never early, workers that are ready finish, oplogs are archived |
| `cache` | 3 fibers, 2 keys, capacity 1, one removal, one sweep, fairness | one computation at a time, waiters answered, capacity kept without overlap |
| `worker_same_key`, `suspension_race`, `replay_overtaken` | the smallest instance that shows it | violations: disagreements of section 6 |

The bounds. Three pods are needed for a source, a target and one in between, which
four shards fill; a table with four pods divides the shards evenly, one with three
leaves a remainder, and one with five has more pods than shards and an optimal count of
zero. Other thresholds are left to the proofs.
Two pods suffice
for two owners of a shard, and four shards let one rebalance both revoke and assign.
A fault of each kind once combines any two kinds; the proofs cover more. Two
archives are the default configuration: one that is not the last and one that is.
A limit of two entries for a layer and of one for the buffer make transfers and
flushes happen within three entries; a fourth entry and a second message from `archive`
for the same prefix (`MaxQueue` bounds only what `archive` sends) are what overwriting a
chunk needs, so `oplog` reaches the states behind it. With one content its comparison of
copies is about indexes; `oplog_reads` has two contents, three entries and one message.
The two oplog runs have chunks that fit in the cache; section 6 gives an instance with
one that does not.

Five entries after any cut hold an update that fails and the next one, a resource
that is created again, or a request, its invocation, an error and a second one. Two
crashes of `Replay` are one in the original run and one in the retried one, which is
what regions and jumps need; the programs put jumps inside, over, around and back into
regions, a batch inside an atomic region and across its end, and a write inside a batch.
One request is enough to mislead a call.
In `Worker` a second client is what makes the queue, the busy enqueue and the
order matter, and one fault already includes restarts of the worker for every kind
of trap. Two ticks to an hour and a clock of four ticks cross the turn of the hour
twice. Three fibers on two keys let one wait while another key fills the cache.

Deadlock is checked for the shard manager, where the health check can always
go on. The planner, an oplog at its last index, a worker whose clients are all
answered, a finished guest, a clock at its horizon and fibers that have their value
may stop, so the other runs do not check it.

Fairness. `shard`: the loop of the manager, its start and the registration of a
started executor are weakly fair: they are tasks of a running process that wait for
nothing but each other, and `Register` is retried by the executor until answered.
`ExecutorStart`, the health check and faults are not fair. `oplog`:
`Writing` is weakly fair, a task that holds the lock goes on; `Transfer` is strongly
fair, because the fiber competes for the lock of the primary oplog with the writers
and the mutex of Tokio serves those who wait in order. `replay`: the worker is
weakly fair, commits and requests are not. `worker`: the loop, an interrupt that has
begun, an eviction that has begun and each client are weakly fair; nobody has to
evict, interrupt or activate. `suspension`: the loop of a worker, a call that
has begun, the background loop of the scheduler and the clock are weakly fair; nobody
has to complete a promise or evict an idle worker. `Tick` lets no hour pass without
a completed pass: a longer stop is the hazard at `scheduler.rs:107`. `cache`: each
fiber is weakly fair, so computations end; removals and sweeps are not. All of these
are tasks of the Tokio runtime that are polled again when they can go on.

## 5. Proofs

`IndexLemmas` has the facts the other proof modules share: least and greatest indexes,
appending to sequences, what a fold over a set of indexes is (`FoldSteps`) and what `Only`
keeps (`OnlyPicks`). The prover cannot instantiate an induction theorem, so what a
recursive function computes is proved by its least counterexample: of the indexes at
which a statement fails take the least, and show that it fails before.

`ShardManagerProofs` holds for every finite set of pods, every number of shards, every
threshold and every number of faults.

- The planner (`PlanInvariant`). The properties are not inductive: that a shard is
  placed once follows only at the end. `PlanInv` says what every round keeps: the
  working copy and the shards not handed out yet split all shards
  (`EntriesSplitShards`), the plan is exactly what separates the table from the
  working copy (`PlanSeparates`), and a pod that gave shards away stays at or above
  the lower threshold, so that it is never a target later (`SourcesStayAbove`;
  otherwise a shard would be both assigned and unassigned for one pod, and
  `RoutingTable::rebalance` would lose it). Every step is one of three kinds: hand
  out, move, advance (`PlanStepKinds`), and each kind is treated once.
  `PlanMatchesWorkingCopy`, `PlanPlacesShardsOnce` and `PlanTakesOnlySurplus` follow.
- `PlanServesEveryPod`: at the end no pod is below the lower threshold. The last loop
  leaves a target when there is no source above the threshold. `TargetsServed` says that
  the targets it has passed have what they need, which a move never undoes
  (`MovesServe`); and a target below the threshold always has a source (`SourceExists`), by
  counting: otherwise the pods together held fewer shards than there are.
- The manager (`RoutingInvariant`, `TypeCorrect`, `RoutingSafe`). `RoutingInv` adds
  `PlanSafe`, what makes a plan safe to apply while its calls are being answered: it
  is about pods of the table, assigns no shard twice, and assigns a routed shard only
  together with its unassignment. `WithoutFailed` removes a shard from both halves,
  which preserves it. `RebalanceLeavesNoShard` needs `PlanComplete`: a shard is
  routed by the plan, or a pod failed to give it up.
- The executors (`ExecutorsExclusive`, `ExecutorsFollowTable`), as long as the manager
  has not stopped (`ManagerNeverStopped`). `OwnersInv` bounds what each
  executor holds at each stage: within the table before the assignments, within the
  table with the plan during them. A call that failed with effect is harmless because
  of the order revoke, drop failed, assign. Without the assumption the statement
  about all executors is false (section 6), and the property the run checks,
  `OwnersExclusiveUntilStop`, speaks of the time before the manager stops.

`MultiLayerOplogProofs` holds for any number of archives, any limits, any number of
entries, messages, reads and crashes.

- `OplogIndexesDense` and `OplogCopiesRight` need no hypothesis. `IndexInv` says what a
  fresh `open` relies on: some layer ends at the last index written (`EndStored`) and
  a layer with anything in it reaches further than those below it
  (`UpperReachesFurther`), so that the first non-empty layer has the last index; and
  that the waiting messages of a source ask for more and more, never for less than
  the layers below already have (`QueueOK`, `MovingInv`), so that a transfer never
  takes the end of the log away from the upper layers without storing it below.
- `OplogLosesNothing`. `WholeInv` says that from every layer down nothing is missing
  below a stored entry (`TailsComplete`), that a chunk has everything up to its key
  that a layer above still has (`LowerHasAll`), and that a running transfer holds
  everything its source has up to the index it will drop (`MovingWhole`). It is kept as
  long as no chunk is longer than the cache it is read through (`ChunksFit`) and none is
  overwritten by a smaller one (`NoChunkShrinks`), which is what `damaged` records; so
  the invariant is `damaged \/ Intact`, and the property says the same of itself. No
  hypothesis on the constants is left. That neither exception can be dropped is shown
  by `EntriesMoved` and `BeginningReached` (section 6).
- `OplogImplementsLog`: until then every step is a step of `AppendOnlyLog` or a stutter.
- `ReadsMissNothing`: a read that asks the layers one after
  the other while entries are moved. `ReadInv` says that what it has not found is in
  the layers it has yet to ask; it is kept because entries only move down
  (`MoveDown`) and a read goes the same way.
- `FiberSurvivesWithoutCrash`: without a crash the fiber never panics, for two archives
  or more of which all but the first are blob layers, as in the default
  configuration. `FiberInv`: the rows of the primary oplog come after the
  chunks of the first archive, except while the rows just moved are being dropped.

`WorkerProofs` holds for any clients and keys, any retry policy and any number of
faults, crashes included.

- `WorkerInv` ties the loop to the rest. `LoopInv`: where the loop is says whether the
  oplog has an unfinished invocation and which, and `idle` is only set where the loop
  waits. `LockInv`: who holds the lock, and that a loop that is not being evicted
  belongs to the running instance. `EvictionInv`: during an eviction the channel holds
  no command for an invocation, and the loop is on its way out by one of the
  places that never take the lock. `CommandsMatchQueue` is needed to know that an idle
  worker with an empty queue has no such command. `WorkerCommandsMatch` and
  `WorkerEvictsOnlyIdle` follow.
- `WorkerKeepsAccepted` speaks of the time before a crash. `KeptInv` follows an accepted
  invocation through queue, loop, oplog and results; it is stronger than the property,
  which is satisfied by any current key.
- `WorkerSuccessIsDurable`, over crashes: `DurableInv` says that every result that is
  a success, in memory or by its index, has its completion in the oplog.
- `WorkerProcessesOnce` and `WorkerBeginsInOrder`, if no two clients have the same key
  (otherwise the first is false: `worker_same_key`). `OnceInv` says that a key is with its
  client, in the queue once, or begun, that what is unfinished is not completed, and
  that a key is completed when it was not before. `OrderInv` says that `arrived` is the
  invocations that were begun, followed by the queue.

A crash recomputes queue and results by a fold over the oplog from the stored record
(`LatestRecord`). What it returns is proved by induction over the entries: results point
into the oplog and to no completion of another key, and the queue is made of keys in the
order of their pending entries, none twice and none that was begun.

`WorkerStatusProofs` holds for every oplog and every cut.

- `StatusIsFromOplog`: two runs of the loop are compared round by round, one from the
  cached record and one over the whole oplog. They differ only in the count of errors,
  which the first begins anew (`FewerErrors`), so their statuses are the same or the first
  is still retrying where the second has failed (`AsFarAlong`).
- `RecordIsFromOplog`: `RecordInv` says field by field (`FieldsOf`) that the record is what
  the definitions over the whole oplog say. Pending updates are the hard field:
  the loop removes the front of a queue where the definition counts, and
  `UpdatesInTurn` relates the two by the rank of an update among those asked for.

`ReplayProofs` holds for every program and any number of crashes, jumps and requests at
any moment. Each invariant is proved with `misread` as its alternative: a request alone
adds a hint, which the cursor skips wherever it lies, and only the step of a host call
that uses a wrong index breaks the chain described below. What is said of regions and
writes has `MixedBatch` as a second alternative.

- The cursor first. `SkipHintsIs` and `MoveToIs` show that the recursion over hints and
  regions ends and that `EntryAfter` is the next visible entry, one that is neither
  deleted nor a hint (`EntryIs`), from any index with nothing visible in between.
- A log is a chain: `Chain` has for each call of the timeline the link (`Link`) of visible
  entries that record its result, from the invocation (`Begins`) on; behind the last link
  there is nothing, or the begin of a call that was not answered (`Rest`).
- `ReplayInv` says what holds in each mode: a stopped or loading worker has such a log
  (`LogOK`); a guest that replays has seen the first links and its cursor is at the end
  of them (`FollowAt`); a live guest has seen all of them (`LiveAt`). A step adds a
  link or part of one; a jump and a retried region take links away from the end and hide
  them by a region (`CutBack`); a crash takes away what was not committed, and what is
  left is again a chain (`CutOff`), because an entry is hidden only by a committed jump.
- `ReplayGivesBackThePast` follows from `FollowAt`. `ReplayGetsStuckTwoWays`: a guest in
  step with the chain finds the entry it asks for; the one state that is not a chain and
  not misread has the invocation twice at its front (`Lost`).
- `WhatIsCommittedIsNotRepeated` and `WritesAreNotRepeated` need to know more of a chain
  than that it answers calls: an account (`Account`) of what it keeps. Calls that
  were committed have their links in the committed part (`Committed`). Every region
  that begins before a committed call, or before a write that must not be repeated, has its end in
  the log with something visible in front of it and something behind it (`RegionsOver`):
  this is what the two lookups ask for, so replay does not retry the region. For that, an
  end carries the index of its begin (`Matched`), and no side effect lies between the
  begin and the end of a batch (`BatchesEnd`). A write is performed only if the log has
  its link, or its begin and nothing behind it (`Written`).
- `AccountInv` says that a live guest has a chain with such an account, or else the oplog.
  A chain is determined by the log and its length, so the account of a chain is that of
  any other over the same log. A jump cuts the chain back to an index before which
  nothing is lost that `kept` still counts; a crash cuts it off behind what is
  committed. `InWrite` says where a write is between its begin, which is committed first,
  and its end; `PerformedOnce` that no two effects are of one such write, and that a
  guest that is done has performed all of them.
- `RegionsAreWhole`. The lookups for the end of a region also look at deleted entries, so
  an end that was recorded and deleted can let a region count as ended. `Ends` says that
  this does no harm: if any entry of the log, deleted or not, would let the region of a
  call in the chain count as ended, the chain reaches the end of that region, unless the
  guest may take it up in its middle (`Clean` leaves those out). `Whole` says that what
  the calls of a region returned is from one instance. `WholeInv` says both of every chain of
  the oplog (`LogWhole`); that a live guest inside a region has seen only results of its
  own there (`LiveBoots`); and that a guest that is replayed inside a region will find its
  end (`FollowEnds`), so that it never turns live in the middle of it. The step that needs
  all of this is a retry: a region that begins inside one whose end is found was
  itself left, and has its end in the chain (`InnerEnds`), so it is not the one retried.

`SuspensionProofs` holds for any workers, programs that satisfy `ProgramsAssumption`,
clients, deadlines, lengths of an hour and storage errors. `PromisesCompleteOnce`:
`SuspensionInv` says that every promise that is scheduled or in a pass belongs to a
sleep, of which the index is that of the worker's own promise only if its program
sleeps under that name, and that the completion a client was answered, and the one a
worker has seen, is the stored one. `SleepsAreNotShortened`: an action is stored under the hour and the
tick it is due at, and a pass takes only what is due (`ScheduleInv`, `PassInv`).

`CacheProofs` holds for any finite set of fibers and any keys. `CacheComputesOnce`: the
fibers that compute a key without owning its item (`Orphans`) are at most as many as the
removals of the key while it was computed; one more may own the item.
`CacheKeepsCapacity`: as long as no two changes were counted at the same time, the
counter is the number of cached items, but for the one fiber that is between the two
(`Alone`; `CountInv`). `CacheAssumption` says that an eviction removes something and not more than
the cache can hold, and that the counter does not wrap before the cache is full.

Model checked only: liveness (`EveryShardServed`, `PlanTerminates`, `TransfersEnd`,
`InvocationEnds`, `InterruptAcknowledged`, `QueueMoves`, `ReadyFinishes`, `OplogArchived`,
`WaitersAnswered`), which is out of the reach of the prover.

## 6. Where the code and its documentation disagree

With a run that shows it:

- `worker_same_key`: the doc comment of `Worker` says that the idempotency key keeps an
  invocation from being processed multiple times; the key is looked up and enqueued
  in two steps, and is unknown while its invocation is executed.
- `suspension_race`: the comment in `complete_promise_internal` says that a suspended
  worker goes on; a completion that arrives between the poll of the worker and its
  unloading wakes nobody.
- `replay_overtaken`: the doc of `set-idempotence-mode` promises at-most-once semantics.
  The index of a begin marker is read after the marker was added
  (`durable_host/golem/mod.rs:321`, `durable_host/mod.rs:1906`): an invocation that is
  recorded in between gives the region a wrong begin, its end is not found, and after a
  restart the region and everything behind it are done again, writes included. In the
  same way a request that is recorded while a worker replays, or while it jumps, leaves
  the `Jump` entry outside its own region, and the next replay gets stuck on it
  (`StuckInTwoWays` counts this as the first of the two ways).

Met while modelling, each of which TLC shows with the constants given here, the others
as in the named cfg:

- The doc comment of `Worker` also says that invocations are persisted. The loop
  stores the status record without the invocation it has taken from the queue before it
  records the start of that invocation (`worker.rs:1599`): after a crash in between the
  pending entry lies before the index of the record and is not looked at again. The same
  happens to an invocation recorded between the two reads of `update_worker_status`
  (`durable_host/mod.rs:338`). `PersistedIsKept` in `Worker.cfg` with
  `Faults = {"crash"}`.
- And that all enqueued invocations eventually get processed. A request that finds the
  worker running and enqueues after an eviction leaves its invocation in the queue of a
  worker nobody starts (`worker.rs:785`). `EnqueuedIsProcessed` in `Worker.cfg` with
  `Faults = {}`.
- The index of a result is read after its entry was committed
  (`durable_host/mod.rs:984`), and a client that has found the worker busy may record
  its invocation in between: the stored index points at that entry, and after a crash
  looking the result up panics (`worker.rs:2009`). `ResultsReadable` in `Worker.cfg` with
  `Clients = {c1, c2, c3}`, `KeyOf <- TwoKeys` and `Faults = {"crash"}`.
- The doc of `golem-host` says that awaiting a promise returns when it is completed; the
  host function `complete_promise` does not wake the worker that awaits it
  (`durable_host/golem/mod.rs:167`). `AwaitReturns` in `SuspensionRace.cfg` with
  `GuestClients = {c1}`.
- The same doc says that the payload passed to the completion is returned. `sleep_until`
  names the promise it is woken by with the current index of the oplog
  (`durable_host/mod.rs:2019`), and `create_promise` names the guest's promise by the
  same index if nothing was recorded since. A guest that subscribes to a timer, creates a
  promise and then polls the timer has its own promise completed by the scheduler with an
  empty payload. `PayloadPassed` in `SuspensionRace.cfg` with
  `Scenarios <- SleepUnderPromise` and `Horizon = 2`.
- At-most-once also fails without a request if a write lies inside a batch. The lookup
  for the end of the batch gives up at that write (`durable_host/mod.rs:1929`), and the
  batch and everything behind it are done again after every restart. `AtMostOnce` in
  `ReplayOvertaken.cfg` with `Programs <- WriteAfterMixedBatch` and `MaxRequests = 0`.
- A blob layer overwrites a chunk that is appended under the same last index
  (`services/oplog/blob.rs:433`). After a crash between the two halves of a transfer
  the source may hold an entry twice, in a chunk of its own and at the beginning of the
  next one. If two `archive` messages for the same prefix are waiting, the first moves
  the prefix, and the second finds only the second copy of its last entry and
  overwrites the moved chunk with it: the entries before it are lost. `EntriesMoved` in
  `Oplog.cfg`.
- A chunk with more entries than the cache of its archive cannot be read to its
  beginning, though the comment says that the beginning of the stream is reached there
  (`services/oplog/blob.rs:399`). A transfer to the last layer makes one chunk of up to
  1024 chunks of the layer above; the cache holds 4096 entries. `BeginningReached` in
  `OplogReads.cfg` with `Entries = {a}`, `CacheSize = 3`, `MaxIndex = 4` and
  `MaxCrashes = 0`.
- The upper threshold of `rebalancing.rs` is computed and logged, never used: a plan
  can leave a pod above what the doc comment calls balanced.
  `BalancedWithinThreshold` in the instance of `Rebalancing.cfg`.
- The doc comment of `ShardManagement::new` speaks of a pending rebalance read from
  the persistence; none is stored. A manager stopped between executing a rebalance
  and persisting it lets two executors hold a shard. `OwnersExclusive` in the
  instance of `ShardManager.cfg`.
- A crash between the two halves of a transfer makes the repeated transfer fail, and
  the fiber with it; the next `archive` panics. `FiberReceives` in the instance of
  `Oplog.cfg`.

By inspection of the model: a health check that is answered late removes a pod that has
restarted and registered meanwhile (`lib.rs:146`). The pod keeps the shards it was sent,
which are given to others; the properties of the executors speak of the pods of the
table, and none of them covers it.

Seen in the code and not modelled: a transfer that runs while a worker is deleted
writes to an archive that has been deleted already (`grpc.rs:416`);
`OplogRegion::contains` never holds (`regions.rs:35`), so that a jump into a deleted
region is not refused; the number of attempts differs by one between the live worker
(`durable_host/mod.rs:899`) and the recalculated status (`worker.rs:2196`).

## 7. Not modelled

Within the modelled components:

- shard manager: retries and timeouts inside one call, addresses, Kubernetes and the
  storage clients, metrics and logging; stopping the workers of revoked shards;
- oplog: deletion, payloads in the blob storage, replicas, the reference counting of
  open oplogs, ephemeral workers and the scan for workers;
- worker status: the entries of old formats, which the program no longer writes;
- worker: updates, the `ResumeReplay` command, invalid requests, file system requests,
  plugin activation, deletion, a stop from outside the loop and the removal from the
  active workers, after which two worker objects may share an oplog;
- active workers: the loop that tries, evicts and waits for the semaphore;
- replay: persistence levels, batches with `assume_idempotence` off, batches that overlap,
  payloads, and what each of the other host functions
  records, which is one `call` or `once` each;
- suspension: deleting a promise, `wait_for` and `cancel` (which nothing calls), timers
  short enough to be waited for in memory, and a second executor in the middle of a
  shard's move;
- cache: a computation that is cancelled, and the functions nothing calls.

Left out as a whole: the Rib language, the value and code formats and stub
generation are sequential conversions over large inputs; the component services
store records; the worker service routes requests and keeps no state besides a cached
table and API definitions; the front ends, generated clients and bindings (more than
half of the lines of the repository, most of them in `test-components`) hold no logic
of their own. What remains of the executor is adapters to wasmtime and to the storages.

Hazards met in the code that no model reaches, besides those `PROJECT.json` lists:

- shard manager: a failing write ends only the rebalancing loop, and the manager goes
  on registering pods (`shard_management.rs:182`); the table file is rewritten in
  place (`persistence.rs:105`); `hash.abs()` of the smallest integer
  (`golem-common/src/model/mod.rs:520`);
- executor: a request checks its shard and creates the worker after the shard was revoked
  (`grpc.rs:240`), for which `Worker` and `ShardManager` would have to be composed;
- oplog: `lower.len() - 2` with one archive (`multilayer.rs:641`); `archive` reads the
  length of a layer and its last index in two steps (`multilayer.rs:654`); two tasks
  give back the same temporary reference of an open oplog (`oplog/mod.rs:421`);
- worker: `interrupt_worker` removes a worker whose loop still runs from the active
  workers (`grpc.rs:555`); a failure gives its result to queued invocations that are
  executed later (`durable_host/mod.rs:949`); the stored record can overwrite a change
  of the plugins (`durable_host/mod.rs:316`); the memory total is stored before the
  permits are there (`durable_host/mod.rs:368`); a stop from outside holds the lock the
  loop may want (`worker.rs:308`); a failed `ResumeReplay` stops the worker twice
  (`worker.rs:1517`); an evicted worker's permits are free before its loop has ended
  (`worker.rs:1037`); a request larger than the pool evicts all idle workers again
  and again (`active_workers.rs:103`);
- scheduler: actions older than an hour after a longer stop (`scheduler.rs:107`), two
  executors in the middle of a shard's move (`scheduler.rs:168`);
- cache: an eviction or sweep that overlaps with an insertion leaves a wrong count
  (`cache.rs:374`, `cache.rs:406`).
