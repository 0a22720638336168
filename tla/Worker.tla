------------------------------- MODULE Worker -------------------------------
(***************************************************************************)
(* One worker of an executor: its queue of invocations, its lifecycle and  *)
(* its invocation loop (golem-worker-executor-base/src/worker.rs, with the *)
(* hooks of durable_host/mod.rs that the loop calls).                      *)
(*                                                                         *)
(* Clients invoke an idempotency key and await the result; an interrupter, *)
(* the memory manager that evicts idle workers, and crashes disturb the    *)
(* worker.  The instance mutex is the variable lock; it is held over       *)
(* several steps by a client that waits for the oplog while it enqueues    *)
(* and by an eviction that waits for the loop to end.  What the guest does *)
(* inside an invocation is in module Replay; here it is a host call, a     *)
(* request for memory, success or a trap.                                  *)
(***************************************************************************)
EXTENDS Integers, Sequences, SequencesExt, FiniteSets, Selection

CONSTANTS
  Clients, KeyOf,   \* the clients, and the idempotency key each invokes
  None,             \* no key, no holder of the lock
  MaxAttempts,      \* max_attempts of the retry policy
  Faults,           \* those that may happen: "trap", "interrupt", "create", "crash"
  MaxFaults         \* bound: faults of different kinds

VARIABLES
  oplog,        \* the oplog of the worker, committed
  stored,       \* the status record in the key-value storage
  queue,        \* keys of the pending invocations
  results,      \* invocation_results
  exec,         \* execution_status; "Interrupt" and "Restart" are Interrupting
  instance,     \* "Unloaded", "WaitingForPermit" or "Running"
  lock,         \* holder of the instance mutex over several steps
  stopping,
  commands,     \* channel of the running worker
  open,         \* whether its sender still exists
  idle,         \* waiting_for_command
  loop,         \* the loop: pc, current key, replaying, trap, decision, index
  snap,         \* the status record the loop is about to store
  interrupting, \* kind of the interrupt between the steps of set_interrupting
  client,       \* pc of each client
  told,         \* what each client was answered
  arrived,      \* ghost: keys in the order they were enqueued
  dropped,      \* ghost: keys a worker that could not start has dropped
  faults        \* ghost: the faults so far

lifeVars == <<instance, lock, stopping, commands, open>>
clientVars == <<client, told>>
ghosts == <<arrived, dropped>>
vars == <<oplog, stored, queue, results, exec, lifeVars, idle, loop, snap,
          interrupting, clientVars, ghosts, faults>>

Keys == {KeyOf[c] : c \in Clients}

(* The lock tells its holders from each other and from nobody, and no key  *)
(* and no answer is nothing.                                               *)
ASSUME WorkerAssumption ==
  /\ None \notin Clients /\ "evictor" \notin Clients /\ None # "evictor"
  /\ None \notin Keys /\ None # "ok"

-----------------------------------------------------------------------------
(* The oplog.                                                              *)

Entry(kind, key) == [kind |-> kind, key |-> key]

(* OplogEntry::is_hint *)
IsHint(e) == e.kind \in {"Pending", "Error", "Interrupted", "Suspend", "Exited"}

NonHints == {i \in DOMAIN oplog : ~IsHint(oplog[i])}
LastNonHint == oplog[Max(NonHints)]

(* last_error_and_retry_count: errors with nothing but hints after them.   *)
TrailingErrors ==
  Cardinality({i \in DOMAIN oplog : i > Max(NonHints) /\ oplog[i].kind = "Error"})

(* The invocation that was begun last and did not complete, if any.        *)
InvokedIndexes == {i \in DOMAIN oplog : oplog[i].kind = "Invoked"}
Unfinished ==
  IF InvokedIndexes = {} \/ \E i \in DOMAIN oplog :
        i > Max(InvokedIndexes) /\ oplog[i].kind = "Completed"
  THEN None ELSE oplog[Max(InvokedIndexes)].key

(* Replay meets an invocation where it expects something else.             *)
Unreplayable ==
  \E i, j \in InvokedIndexes :
    i < j /\ \A k \in (i + 1)..(j - 1) : IsHint(oplog[k])

(* calculate_pending_invocations and calculate_invocation_results, on the  *)
(* entries after the stored record.                                        *)
Put(f, k, v) == [x \in DOMAIN f \cup {k} |-> IF x = k THEN v ELSE f[x]]

RecordStep(record, i) ==
  LET e == oplog[i]
  IN  CASE e.kind = "Pending" ->
             [record EXCEPT !.pending = Append(@, e.key)]
        [] e.kind = "Invoked" ->
             [record EXCEPT !.pending = Only(@, Keys \ {e.key}),
                            !.current = e.key]
        [] e.kind = "Completed" /\ record.current # None ->
             [record EXCEPT !.results = Put(@, record.current, i),
                            !.current = None]
        [] e.kind \in {"Error", "Exited"} /\ record.current # None ->
             [record EXCEPT !.results = Put(@, record.current, i)]
        [] OTHER -> record

(* A slip: the last entry of the stored record is applied again.           *)
LatestRecordAgain ==
  FoldLeft(RecordStep, stored,
           [n \in 1..(Len(oplog) - stored.idx + 1) |-> stored.idx + n - 1])

LatestRecord ==
  FoldLeft(RecordStep, stored,
           [n \in 1..(Len(oplog) - stored.idx) |-> stored.idx + n])

-----------------------------------------------------------------------------
EmptyRecord == [idx |-> 1, pending |-> <<>>, results |-> <<>>, current |-> None]
NoLoop == [pc |-> "none", current |-> None, replaying |-> FALSE,
           trap |-> None, decision |-> "None", at |-> 0, next |-> None]

Init ==
  /\ oplog = <<Entry("Create", None)>> /\ stored = EmptyRecord
  /\ queue = <<>> /\ results = <<>> /\ exec = "Suspended"
  /\ instance = "Unloaded" /\ lock = None /\ stopping = FALSE
  /\ commands = <<>> /\ open = FALSE /\ idle = FALSE
  /\ loop = NoLoop /\ snap = EmptyRecord /\ interrupting = None
  /\ client = [c \in Clients |-> "new"] /\ told = [c \in Clients |-> None]
  /\ arrived = <<>> /\ dropped = {} /\ faults = {}

Free == lock = None

Fault(kind) ==
  /\ kind \in Faults \ faults /\ Cardinality(faults) < MaxFaults
  /\ faults' = faults \cup {kind}

(* The loop goes on at a place, with the rest of its state unchanged.      *)
Goto(place) == loop' = [loop EXCEPT !.pc = place]

(* update_worker_status reads the queue and the results first, the index   *)
(* of the oplog later: see SaveStatus.                                     *)
SaveThen(state, place) ==
  /\ snap' = [idx |-> 0, pending |-> queue',
              results |-> [k \in DOMAIN results' |-> results'[k].idx],
              current |-> state.current]
  /\ loop' = [state EXCEPT !.pc = "save", !.next = place]

(* Event::InvocationCompleted reaches the clients that await a key.        *)
Publish(keys, answer) ==
  LET reached == {c \in Clients : client[c] = "waiting" /\ KeyOf[c] \in keys}
  IN  /\ client' = [c \in Clients |-> IF c \in reached THEN "told" ELSE client[c]]
      /\ told' = [c \in Clients |-> IF c \in reached THEN answer ELSE told[c]]

-----------------------------------------------------------------------------
(* Clients: get_or_create, then invoke_and_await.                          *)

Tell(c, answer) ==
  client' = [client EXCEPT ![c] = "told"] /\ told' = [told EXCEPT ![c] = answer]
Step(c, place) == client' = [client EXCEPT ![c] = place] /\ UNCHANGED told

(* validate_worker_status: no further invocation of a failed worker.       *)
Validate(c) ==
  /\ client[c] = "new"
  /\ IF TrailingErrors > 0 \/ oplog[Len(oplog)].kind = "Exited"
     THEN Tell(c, "rejected") ELSE Step(c, "valid")
  /\ UNCHANGED <<oplog, stored, queue, results, exec, lifeVars, idle, loop, snap,
                 interrupting, ghosts, faults>>

(* start_if_needed *)
StartIfNeeded ==
  /\ Free
  /\ IF instance = "Unloaded"
     THEN instance' = "WaitingForPermit" /\ exec' = "Loading"
     ELSE UNCHANGED <<instance, exec>>
  /\ UNCHANGED <<lock, stopping, commands, open>>

Start(c) ==
  /\ client[c] = "valid" /\ StartIfNeeded /\ Step(c, "started")
  /\ UNCHANGED <<oplog, stored, queue, results, idle, loop, snap, interrupting,
                 ghosts, faults>>

(* Somebody else needs the worker: a resume request, a promise, a shard.   *)
Activate ==
  /\ instance = "Unloaded" /\ TrailingErrors = 0 /\ StartIfNeeded
  /\ UNCHANGED <<oplog, stored, queue, results, idle, loop, snap, interrupting,
                 clientVars, ghosts, faults>>

(* lookup_invocation_result, with InvocationResult::cache: a result that   *)
(* is known by its index only is read from the oplog.                      *)
ResultOf(k) ==
  IF results[k].kind # "Lazy" THEN results[k].kind
  ELSE CASE oplog[results[k].idx].kind = "Completed" -> "ok"
         [] oplog[results[k].idx].kind = "Interrupted" -> "interrupted"
         [] oplog[results[k].idx].kind \in {"Error", "Exited"} -> "failed"
         [] OTHER -> "panic"

Lookup(c) ==
  /\ client[c] = "started"
  /\ IF KeyOf[c] \in DOMAIN results THEN Tell(c, ResultOf(KeyOf[c]))
     ELSE Step(c, IF Contains(queue, KeyOf[c]) THEN "accepted" ELSE "enqueue")
  /\ UNCHANGED <<oplog, stored, queue, results, exec, lifeVars, idle, loop, snap,
                 interrupting, ghosts, faults>>

(* wait_for_invocation_result: subscribe, then look the result up again.   *)
Subscribe(c) ==
  /\ client[c] = "accepted"
  /\ IF KeyOf[c] \in DOMAIN results THEN Tell(c, ResultOf(KeyOf[c]))
     ELSE Step(c, "waiting")
  /\ UNCHANGED <<oplog, stored, queue, results, exec, lifeVars, idle, loop, snap,
                 interrupting, ghosts, faults>>

(* A slip: push_front.                                                     *)
PushFront(k) ==
  /\ queue' = <<k>> \o queue
  /\ arrived' = Append(arrived, k) /\ UNCHANGED dropped

Push(k) ==
  /\ queue' = Append(queue, k)
  /\ arrived' = Append(arrived, k) /\ UNCHANGED dropped

(* enqueue of an idle worker: the invocation is in memory only.            *)
EnqueueIdle(c) ==
  /\ client[c] = "enqueue" /\ Free /\ instance = "Running" /\ exec # "Running"
  /\ Push(KeyOf[c]) /\ commands' = Append(commands, "Invocation")
  /\ Step(c, "accepted")
  /\ UNCHANGED <<oplog, stored, results, exec, instance, lock, stopping, open,
                 idle, loop, snap, interrupting, faults>>

(* enqueue of a busy worker: first the oplog, then the queue.  The status  *)
(* may have changed when the entry is written.                             *)
EnqueueBusy(c) ==
  /\ client[c] = "enqueue" /\ Free /\ instance = "Running" /\ exec = "Running"
  /\ lock' = c /\ Step(c, "record")
  /\ UNCHANGED <<oplog, stored, queue, results, exec, instance, stopping, commands,
                 open, idle, loop, snap, interrupting, ghosts, faults>>

RecordBusy(c) ==
  /\ client[c] = "record"
  /\ oplog' = Append(oplog, Entry("Pending", KeyOf[c])) /\ Step(c, "push")
  /\ UNCHANGED <<stored, queue, results, exec, lifeVars, idle, loop, snap,
                 interrupting, ghosts, faults>>

PushBusy(c) ==
  /\ client[c] = "push"
  /\ Push(KeyOf[c]) /\ commands' = Append(commands, "Invocation")
  /\ lock' = None /\ Step(c, "accepted")
  /\ UNCHANGED <<oplog, stored, results, exec, instance, stopping, open, idle,
                 loop, snap, interrupting, faults>>

(* enqueue of a worker that is not loaded: first the queue, then the oplog.*)
EnqueueUnloaded(c) ==
  /\ client[c] = "enqueue" /\ Free /\ instance # "Running"
  /\ lock' = c /\ Push(KeyOf[c]) /\ Step(c, "persist")
  /\ UNCHANGED <<oplog, stored, results, exec, instance, stopping, commands, open,
                 idle, loop, snap, interrupting, faults>>

Persist(c) ==
  /\ client[c] = "persist"
  /\ oplog' = Append(oplog, Entry("Pending", KeyOf[c]))
  /\ lock' = None /\ Step(c, "accepted")
  /\ UNCHANGED <<stored, queue, results, exec, instance, stopping, commands, open,
                 idle, loop, snap, interrupting, ghosts, faults>>

Client(c) ==
  \/ Validate(c) \/ Start(c) \/ Lookup(c) \/ Subscribe(c)
  \/ EnqueueIdle(c) \/ EnqueueBusy(c) \/ RecordBusy(c) \/ PushBusy(c)
  \/ EnqueueUnloaded(c) \/ Persist(c)

-----------------------------------------------------------------------------
(* set_interrupting: a command for the loop if it waits for one, then the  *)
(* status if it runs an invocation.                                        *)

Interrupt(kind) ==
  /\ interrupting = None /\ Free /\ Fault("interrupt")
  /\ commands' = IF instance = "Running" THEN Append(commands, kind) ELSE commands
  /\ interrupting' = kind
  /\ UNCHANGED <<oplog, stored, queue, results, exec, instance, lock, stopping,
                 open, idle, loop, snap, clientVars, ghosts>>

(* A slip: the status is changed although the worker does not run.         *)
SetInterruptingAlways ==
  /\ interrupting # None
  /\ exec' = interrupting
  /\ interrupting' = None
  /\ UNCHANGED <<oplog, stored, queue, results, lifeVars, idle, loop, snap,
                 clientVars, ghosts, faults>>

SetInterrupting ==
  /\ interrupting # None
  /\ exec' = IF exec = "Running" THEN interrupting ELSE exec
  /\ interrupting' = None
  /\ UNCHANGED <<oplog, stored, queue, results, lifeVars, idle, loop, snap,
                 clientVars, ghosts, faults>>

(* stop_if_idle: the lock is kept until the loop has ended.                *)
StopIfIdle ==
  /\ Free /\ instance = "Running" /\ idle /\ queue = <<>> /\ ~stopping
  /\ instance' = "Unloaded" /\ open' = FALSE
  /\ stopping' = TRUE /\ lock' = "evictor"
  /\ UNCHANGED <<oplog, stored, queue, results, exec, commands, idle, loop, snap,
                 interrupting, clientVars, ghosts, faults>>

Evicted ==
  /\ lock = "evictor" /\ loop.pc = "none"
  /\ stopping' = FALSE /\ lock' = None
  /\ UNCHANGED <<oplog, stored, queue, results, exec, instance, commands, open,
                 idle, loop, snap, interrupting, clientVars, ghosts, faults>>

-----------------------------------------------------------------------------
(* The loop.                                                               *)

(* A slip: the channel starts empty.                                       *)
StartWithoutCommands ==
  /\ Free /\ instance = "WaitingForPermit"
  /\ instance' = "Running" /\ open' = TRUE /\ idle' = FALSE
  /\ commands' = <<>>
  /\ loop' = [NoLoop EXCEPT !.pc = "create"]
  /\ UNCHANGED <<oplog, stored, queue, results, exec, lock, stopping, snap,
                 interrupting, clientVars, ghosts, faults>>

(* RunningWorker::new: a command for every queued invocation.              *)
StartWithPermit ==
  /\ Free /\ instance = "WaitingForPermit"
  /\ instance' = "Running" /\ open' = TRUE /\ idle' = FALSE
  /\ commands' = [i \in DOMAIN queue |-> "Invocation"]
  /\ loop' = [NoLoop EXCEPT !.pc = "create"]
  /\ UNCHANGED <<oplog, stored, queue, results, exec, lock, stopping, snap,
                 interrupting, clientVars, ghosts, faults>>

(* create_instance, set_suspended, and set_running of prepare_instance.    *)
CreateInstance ==
  /\ loop.pc = "create"
  /\ loop' = [NoLoop EXCEPT !.pc = "replay", !.replaying = TRUE]
  /\ exec' = "Running"
  /\ UNCHANGED <<oplog, stored, queue, results, lifeVars, idle, snap,
                 interrupting, clientVars, ghosts, faults>>

(* resume_replay: completed invocations are replayed and the status is     *)
(* stored after each; an invocation that did not complete goes on, and is  *)
(* recorded again if nothing was recorded since.                           *)
Replay ==
  /\ loop.pc = "replay"
  /\ UNCHANGED <<queue, results>>
  /\ LET invoked == [loop EXCEPT !.current = Unfinished]
         done == [loop EXCEPT !.current = oplog[Max(InvokedIndexes)].key]
     IN  IF Unreplayable THEN Goto("abort") /\ UNCHANGED <<oplog, snap>>
         ELSE IF InvokedIndexes = {} THEN Goto("prepared") /\ UNCHANGED <<oplog, snap>>
         ELSE IF Unfinished = None
         THEN SaveThen(done, "prepared") /\ UNCHANGED oplog
         ELSE /\ SaveThen(invoked, "guest")
              /\ oplog' = IF LastNonHint.kind = "Invoked"
                          THEN Append(oplog, Entry("Invoked", Unfinished)) ELSE oplog
  /\ UNCHANGED <<stored, exec, lifeVars, idle, interrupting, clientVars, ghosts, faults>>

(* set_suspended at the end of prepare_instance; the loop waits.           *)
Prepared ==
  /\ loop.pc = "prepared"
  /\ loop' = [loop EXCEPT !.pc = "ready", !.replaying = FALSE]
  /\ exec' = "Suspended" /\ idle' = TRUE
  /\ UNCHANGED <<oplog, stored, queue, results, lifeVars, snap, interrupting,
                 clientVars, ghosts, faults>>

Receive ==
  /\ loop.pc = "ready" /\ commands # <<>>
  /\ loop' = [loop EXCEPT !.pc = Head(commands)]
  /\ commands' = Tail(commands)
  /\ UNCHANGED <<oplog, stored, queue, results, exec, instance, lock, stopping,
                 open, idle, snap, interrupting, clientVars, ghosts, faults>>

ChannelClosed ==
  /\ loop.pc = "ready" /\ commands = <<>> /\ ~open
  /\ loop' = [loop EXCEPT !.pc = "end", !.decision = "None"]
  /\ idle' = FALSE
  /\ UNCHANGED <<oplog, stored, queue, results, exec, lifeVars, snap, interrupting,
                 clientVars, ghosts, faults>>

InterruptCommand ==
  /\ loop.pc \in {"Interrupt", "Restart"}
  /\ loop' = [loop EXCEPT !.pc = "end",
                !.decision = IF loop.pc = "Restart" THEN "Immediate" ELSE "None"]
  /\ idle' = FALSE
  /\ UNCHANGED <<oplog, stored, queue, results, exec, lifeVars, snap, interrupting,
                 clientVars, ghosts, faults>>

(* A slip: waiting_for_command is not reset.                               *)
DequeueWaiting ==
  /\ loop.pc = "Invocation"
  /\ queue' = Tail(queue)
  /\ results' = [k \in DOMAIN results \ {Head(queue)} |-> results[k]]
  /\ SaveThen([loop EXCEPT !.current = Head(queue)], "enter")
  /\ UNCHANGED <<oplog, stored, exec, lifeVars, idle, interrupting, clientVars,
                 ghosts, faults>>

(* The next invocation is taken off the queue, its earlier result is       *)
(* forgotten, and the status is stored without it.                         *)
Dequeue ==
  /\ loop.pc = "Invocation"
  /\ idle' = FALSE
  /\ queue' = Tail(queue)
  /\ results' = [k \in DOMAIN results \ {Head(queue)} |-> results[k]]
  /\ SaveThen([loop EXCEPT !.current = Head(queue)], "enter")
  /\ UNCHANGED <<oplog, stored, exec, lifeVars, interrupting, clientVars, ghosts, faults>>

(* update_worker_status, after the index was read.                         *)
SaveStatus ==
  /\ loop.pc = "save"
  /\ stored' = [snap EXCEPT !.idx = Len(oplog)]
  /\ snap' = EmptyRecord
  /\ loop' = [loop EXCEPT !.pc = loop.next, !.next = None]
  /\ UNCHANGED <<oplog, queue, results, exec, lifeVars, idle, interrupting,
                 clientVars, ghosts, faults>>

(* invoke_or_fail: on_exported_function_invoked, set_running.              *)
Enter ==
  /\ loop.pc = "enter"
  /\ oplog' = Append(oplog, Entry("Invoked", loop.current))
  /\ exec' = IF exec = "Suspended" THEN "Running" ELSE exec
  /\ UNCHANGED <<queue, results>> /\ SaveThen(loop, "guest")
  /\ UNCHANGED <<stored, lifeVars, idle, interrupting, clientVars, ghosts, faults>>

(* The guest records something; once is enough to tell.                    *)
HostCall ==
  /\ loop.pc = "guest" /\ LastNonHint.kind = "Invoked"
  /\ oplog' = Append(oplog, Entry("Host", loop.current))
  /\ UNCHANGED <<stored, queue, results, exec, lifeVars, idle, loop, snap,
                 interrupting, clientVars, ghosts, faults>>

(* increase_memory: the growth is recorded and the status stored, then it  *)
(* waits for the instance lock.                                            *)
WantMemory ==
  /\ loop.pc = "guest" /\ LastNonHint.kind = "Invoked"
  /\ oplog' = Append(oplog, Entry("Host", loop.current))
  /\ UNCHANGED <<queue, results>> /\ SaveThen(loop, "grow")
  /\ UNCHANGED <<stored, exec, lifeVars, idle, interrupting, clientVars, ghosts,
                 faults>>

GotMemory ==
  /\ loop.pc = "grow" /\ Free /\ Goto("guest")
  /\ UNCHANGED <<oplog, stored, queue, results, exec, lifeVars, idle, snap,
                 interrupting, clientVars, ghosts, faults>>

(* The guest returns; set_suspended.                                       *)
Succeed ==
  /\ loop.pc = "guest" /\ exec' = "Suspended" /\ Goto("success")
  /\ UNCHANGED <<oplog, stored, queue, results, lifeVars, idle, snap,
                 interrupting, clientVars, ghosts, faults>>

(* The guest traps: because it is interrupted, or by itself.               *)
Trap(trap) ==
  /\ \/ loop.pc = "guest" /\ trap = exec /\ trap \in {"Interrupt", "Restart"}
        /\ UNCHANGED faults
     \/ /\ loop.pc = "guest" /\ trap \in {"Suspend", "Error", "StackOverflow", "Exit"}
        /\ Fault("trap")
     \/ loop.pc = "grow" /\ Free /\ trap = "OutOfMemory" /\ Fault("trap")
  /\ exec' = "Suspended"
  /\ loop' = [loop EXCEPT !.pc = "failure", !.trap = trap]
  /\ UNCHANGED <<oplog, stored, queue, results, lifeVars, idle, snap, interrupting,
                 clientVars, ghosts>>

(* on_invocation_success *)
RecordSuccess ==
  /\ loop.pc = "success"
  /\ oplog' = Append(oplog, Entry("Completed", loop.current)) /\ Goto("completed")
  /\ UNCHANGED <<stored, queue, results, exec, lifeVars, idle, snap, interrupting,
                 clientVars, ghosts, faults>>

(* A slip: the result is given to the queued invocations too.              *)
StoreSuccessForAll ==
  /\ loop.pc = "completed"
  /\ results' = Put(results, loop.current, [kind |-> "ok", idx |-> Len(oplog)])
  /\ Publish({loop.current} \cup Range(queue), "ok")
  /\ UNCHANGED queue
  /\ SaveThen(loop, IF loop.replaying THEN "prepared" ELSE "done")
  /\ UNCHANGED <<oplog, stored, exec, lifeVars, idle, interrupting, ghosts, faults>>

StoreSuccess ==
  /\ loop.pc = "completed"
  /\ results' = Put(results, loop.current, [kind |-> "ok", idx |-> Len(oplog)])
  /\ Publish({loop.current}, "ok")
  /\ UNCHANGED queue
  /\ SaveThen(loop, IF loop.replaying THEN "prepared" ELSE "done")
  /\ UNCHANGED <<oplog, stored, exec, lifeVars, idle, interrupting, ghosts, faults>>

NextCommand ==
  /\ loop.pc = "done" /\ Goto("ready") /\ idle' = TRUE
  /\ UNCHANGED <<oplog, stored, queue, results, exec, lifeVars, snap, interrupting,
                 clientVars, ghosts, faults>>

(* on_invocation_failure, with get_recovery_decision_on_trap.              *)
EntryOfTrap ==
  [Interrupt |-> "Interrupted", Suspend |-> "Suspend", Exit |-> "Exited",
   Error |-> "Error", StackOverflow |-> "Error", OutOfMemory |-> "Error"]

DecisionOnTrap(trap) ==
  CASE trap = "Restart" -> "Immediate"
    [] trap = "OutOfMemory" -> "ReacquirePermits"
    [] trap = "Error" /\ TrailingErrors < MaxAttempts -> "Delayed"
    [] OTHER -> "None"

RecordFailure ==
  /\ loop.pc = "failure"
  /\ loop' = [loop EXCEPT !.pc = "failed", !.decision = DecisionOnTrap(loop.trap)]
  /\ oplog' = IF loop.trap \in DOMAIN EntryOfTrap
              THEN Append(oplog, Entry(EntryOfTrap[loop.trap], loop.current))
              ELSE oplog
  /\ UNCHANGED <<stored, queue, results, exec, lifeVars, idle, snap, interrupting,
                 clientVars, ghosts, faults>>

ReadFailureIndex ==
  /\ loop.pc = "failed"
  /\ UNCHANGED <<queue, results>>
  /\ SaveThen([loop EXCEPT !.at = Len(oplog)], "giveup")
  /\ UNCHANGED <<oplog, stored, exec, lifeVars, idle, interrupting, clientVars,
                 ghosts, faults>>

(* store_invocation_failure: for the current and all queued invocations.   *)
GiveUp ==
  /\ loop.pc = "giveup"
  /\ LET final == loop.trap \notin {"Suspend", "Restart", "OutOfMemory"}
                  /\ loop.decision = "None"
         answer == IF loop.trap = "Interrupt" THEN "interrupted" ELSE "failed"
         keys == IF final THEN {loop.current} \cup Range(queue) ELSE {}
     IN  /\ results' = [k \in DOMAIN results \cup keys |->
                          IF k \in keys THEN [kind |-> answer, idx |-> loop.at]
                          ELSE results[k]]
         /\ Publish(keys, answer)
  /\ Goto(IF loop.replaying /\ loop.decision = "None" THEN "abort" ELSE "end")
  /\ UNCHANGED <<oplog, stored, queue, exec, lifeVars, idle, snap, interrupting,
                 ghosts, faults>>

(* The loop is left: set_suspended, then what was decided.                 *)
End ==
  /\ loop.pc = "end"
  /\ exec' = "Suspended"
  /\ Goto(IF loop.decision \in {"Immediate", "Delayed"} THEN "create" ELSE "stop")
  /\ UNCHANGED <<oplog, stored, queue, results, lifeVars, idle, snap, interrupting,
                 clientVars, ghosts, faults>>

(* The worker cannot be started: creating its instance fails, or replay    *)
(* does.  The error goes to all who wait for it.                           *)
Abort ==
  /\ \/ loop.pc = "create" /\ Fault("create") /\ UNCHANGED exec
     \/ loop.pc = "abort" /\ exec' = "Suspended" /\ UNCHANGED faults
  /\ loop' = [loop EXCEPT !.pc = "stop", !.decision = "Fail"]
  /\ UNCHANGED <<oplog, stored, queue, results, lifeVars, idle, snap, interrupting,
                 clientVars, ghosts>>

(* The loop ends, or waits to start the worker with new permits.           *)
AfterStop ==
  IF loop.decision = "ReacquirePermits" THEN [NoLoop EXCEPT !.pc = "restart"]
  ELSE NoLoop

(* stop_internal from the loop: nothing if a stop is under way.            *)
Stopping ==
  /\ loop.pc = "stop"
  /\ loop' = IF ~stopping THEN [loop EXCEPT !.pc = "unload"] ELSE AfterStop
  /\ stopping' = TRUE
  /\ UNCHANGED <<oplog, stored, queue, results, exec, instance, lock, commands,
                 open, idle, snap, interrupting, clientVars, ghosts, faults>>

(* A slip: the drained queue is not put back.                              *)
StopDrained ==
  /\ loop.pc = "unload" /\ Free
  /\ instance' = "Unloaded" /\ open' = FALSE /\ commands' = <<>>
  /\ stopping' = FALSE /\ queue' = <<>>
  /\ loop' = AfterStop
  /\ UNCHANGED <<oplog, stored, results, exec, lock, idle, snap, interrupting,
                 clientVars, ghosts, faults>>

(* A slip: the stopping flag is not reset.                                 *)
StopFlagged ==
  /\ loop.pc = "unload" /\ Free
  /\ instance' = "Unloaded" /\ open' = FALSE /\ commands' = <<>>
  /\ loop' = AfterStop
  /\ UNCHANGED <<oplog, stored, queue, results, exec, lock, stopping, idle, snap,
                 interrupting, clientVars, ghosts, faults>>

(* stop_internal_running: the queue stays; when the worker could not be    *)
(* started, the queued invocations are dropped and their clients told.     *)
Stop ==
  /\ loop.pc = "unload" /\ Free
  /\ instance' = "Unloaded" /\ open' = FALSE /\ commands' = <<>>
  /\ stopping' = FALSE
  /\ IF loop.decision = "Fail"
     THEN /\ Publish(Range(queue), "failed") /\ queue' = <<>>
          /\ arrived' = Only(arrived, Keys \ Range(queue))
          /\ dropped' = dropped \cup Range(queue)
     ELSE UNCHANGED <<clientVars, queue, ghosts>>
  /\ loop' = AfterStop
  /\ UNCHANGED <<oplog, stored, results, exec, lock, idle, snap, interrupting,
                 faults>>

(* restart_on_oom, after the stop.                                         *)
RestartOnOom ==
  /\ loop.pc = "restart" /\ StartIfNeeded
  /\ loop' = NoLoop
  /\ UNCHANGED <<oplog, stored, queue, results, idle, snap, interrupting,
                 clientVars, ghosts, faults>>

Traps == {"Interrupt", "Restart", "Suspend", "Error", "StackOverflow", "Exit",
          "OutOfMemory"}

Loop ==
  \/ StartWithPermit \/ CreateInstance \/ Replay \/ Prepared
  \/ Receive \/ ChannelClosed \/ InterruptCommand \/ Dequeue
  \/ SaveStatus \/ Enter \/ HostCall \/ WantMemory \/ GotMemory \/ Succeed
  \/ \E trap \in Traps : Trap(trap)
  \/ RecordSuccess \/ StoreSuccess \/ NextCommand
  \/ RecordFailure \/ ReadFailureIndex \/ GiveUp
  \/ End \/ Abort \/ Stopping \/ Stop \/ RestartOnOom

-----------------------------------------------------------------------------
(* The executor stops.  Worker::new starts from the stored record and the  *)
(* oplog after it; a client that waits loses its connection.               *)
Crash ==
  /\ Fault("crash")
  /\ queue' = LatestRecord.pending
  /\ results' = [k \in DOMAIN LatestRecord.results |->
                   [kind |-> "Lazy", idx |-> LatestRecord.results[k]]]
  /\ exec' = "Suspended" /\ instance' = "Unloaded" /\ lock' = None
  /\ stopping' = FALSE /\ commands' = <<>> /\ open' = FALSE /\ idle' = FALSE
  /\ loop' = NoLoop /\ snap' = EmptyRecord /\ interrupting' = None
  /\ client' = [c \in Clients |->
                  IF client[c] = "new" THEN "new" ELSE "told"]
  /\ arrived' = Only(arrived, {oplog[i].key : i \in InvokedIndexes}) \o queue'
  /\ UNCHANGED <<oplog, stored, told, dropped>>

Next ==
  \/ \E c \in Clients : Client(c)
  \/ Activate \/ Loop
  \/ \E kind \in {"Interrupt", "Restart"} : Interrupt(kind)
  \/ SetInterrupting \/ StopIfIdle \/ Evicted \/ Crash

Spec == Init /\ [][Next]_vars

(* Tasks that can go on do; nobody has to evict, interrupt or activate.    *)
FairSpec ==
  /\ Spec
  /\ WF_vars(Loop) /\ WF_vars(SetInterrupting) /\ WF_vars(Evicted)
  /\ \A c \in Clients : WF_vars(Client(c))

-----------------------------------------------------------------------------
(* Properties.                                                             *)

(* Every queued invocation of a running worker has its command in the      *)
(* channel and no command is without an invocation, so that the loop never *)
(* panics on an empty queue ("Message should be present") and leaves       *)
(* nothing behind, over restarts, stops and evictions.                     *)
CommandsMatchQueue ==
  instance = "Running" =>
    Cardinality({i \in DOMAIN commands : commands[i] = "Invocation"})
      + (IF loop.pc = "Invocation" THEN 1 ELSE 0) = Len(queue)

(* An eviction meets an idle worker and it stays idle until it is gone:    *)
(* nothing is queued, no invocation is begun, going on or unfinished, and  *)
(* the loop does not wait for the lock the eviction holds (the argument    *)
(* above stop_if_idle).                                                    *)
EvictsOnlyIdle ==
  lock = "evictor" =>
    /\ queue = <<>> /\ Unfinished = None
    /\ loop.pc \notin {"Invocation", "enter", "guest", "grow", "unload", "restart"}

(* No invocation is processed twice: however often the worker is stopped,  *)
(* restarted or interrupted, one completion is recorded for a key.         *)
CompletionsOf(k) ==
  {i \in DOMAIN oplog : oplog[i].kind = "Completed" /\ oplog[i].key = k}
ProcessedOnce == \A k \in Keys : Cardinality(CompletionsOf(k)) <= 1

(* A client is told success only when the completion of its own invocation *)
(* is in the oplog, so that no crash can take it back.                     *)
SuccessIsDurable ==
  \A c \in Clients : told[c] = "ok" => CompletionsOf(KeyOf[c]) # {}

(* A result kept by its index can be read back from the oplog: the lookup  *)
(* never meets an "Unexpected oplog entry pointed by invocation result".   *)
ResultsReadable == \A c \in Clients : told[c] # "panic"

(* Invocations are begun in the order in which they were enqueued.         *)
Begun(k) == \E i \in InvokedIndexes : oplog[i].key = k
InOrder ==
  \A i, j \in DOMAIN arrived :
    i < j /\ Begun(arrived[j]) => Begun(arrived[i])

(* Without a crash, an invocation that was accepted is queued, being       *)
(* processed, or has a result: no stop, restart or eviction loses it.      *)
(* Only a worker that cannot be started drops its queue.                   *)
AcceptedIsKept ==
  "crash" \notin faults =>
    \A c \in Clients : client[c] \in {"accepted", "waiting"} =>
      LET k == KeyOf[c]
      IN  \/ Contains(queue, k) \/ k \in DOMAIN results
          \/ loop.current = k \/ Unfinished = k \/ k \in dropped

(* Whoever interrupts a running invocation is told that it stopped:        *)
(* set_suspended is reached from everywhere.                               *)
InterruptAcknowledged ==
  exec \in {"Interrupt", "Restart"} ~> exec \notin {"Interrupt", "Restart"}

(* A queued invocation of a worker that is loaded or being loaded is taken *)
(* up, unless the worker is unloaded: nobody waits for a lock forever.     *)
QueueMoves ==
  \A k \in Keys :
    (Contains(queue, k) /\ instance # "Unloaded") ~>
    (~Contains(queue, k) \/ instance = "Unloaded")

(* The first half of what the doc comment of Worker says of an enqueued    *)
(* invocation, that it is persisted: one that has been written to the      *)
(* oplog is queued or on its way there, has been begun or has a result,    *)
(* also after a crash.  Only a worker that cannot be started drops it.     *)
PersistedIsKept ==
  \A i \in DOMAIN oplog : oplog[i].kind = "Pending" =>
    LET k == oplog[i].key
    IN  \/ Contains(queue, k) \/ Begun(k) \/ loop.current = k
        \/ k \in DOMAIN results \/ k \in dropped
        \/ \E c \in Clients : KeyOf[c] = k /\ client[c] = "push"

(* The second half: every enqueued invocation eventually gets processed.   *)
EnqueuedIsProcessed == \A k \in Keys : Contains(queue, k) ~> ~Contains(queue, k)
=============================================================================
