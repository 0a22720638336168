----------------------------- MODULE Suspension -----------------------------
(***************************************************************************)
(* How a durable worker is suspended and woken again: the promise service  *)
(* (services/promise.rs), the scheduler with its hourly sets of actions    *)
(* (services/scheduler.rs), the host functions that suspend a worker       *)
(* (durable_host/golem/mod.rs, durable_host/io/poll.rs) and the gRPC call  *)
(* that completes a promise (grpc.rs), on one executor.                    *)
(*                                                                         *)
(* Each worker executes one invocation, a program of steps:                *)
(*   "create"     create_promise                                           *)
(*   "subscribe"  subscribe_duration, a timer for Deadline[w]              *)
(*   "sleep"      poll on that timer: the worker is suspended until then   *)
(*   "await"      await_promise                                            *)
(* A suspended worker is unloaded; when it is started again it replays the *)
(* program from its beginning.  The steps that have an oplog entry take    *)
(* their answer from it; creating and awaiting a promise have none for     *)
(* their answer and ask the promise service again.                         *)
(***************************************************************************)
EXTENDS Integers, Sequences, FiniteSets

CONSTANTS
  Workers,
  Scenarios,     \* [program, callers, extra]: what each worker executes, which
                 \* clients call, and how many later invocations there may be
  Deadline,      \* when the timer of a worker fires
  Clients,       \* callers of complete_promise; the payload of c is c itself
  GuestClients,  \* those that are workers and call the host function
  Target,        \* the worker whose promise a client completes
  Empty,         \* the empty payload of a scheduled completion
  HourLength,    \* ticks of the clock in an hour
  Horizon,       \* bound: the clock stops here
  ArchiveAfter,  \* archive_interval
  Archives,      \* number of archive layers below the primary oplog
  Faults         \* the faults, one of which may happen: "crash", "storage"

ASSUME SuspensionAssumption ==
  /\ GuestClients \subseteq Clients
  /\ HourLength \in Nat \ {0}
  /\ Archives \in Nat /\ Archives >= 2
  /\ Deadline \in [Workers -> Nat] /\ ArchiveAfter \in Nat
  /\ Target \in [Clients -> Workers] /\ Empty \notin Clients

(* A program creates one promise at most, and sleeps on a timer that it    *)
(* has subscribed to.                                                      *)
Steps == {"create", "subscribe", "sleep", "await"}
WellFormed(p) ==
  /\ \A i, j \in 1..Len(p) : p[i] = "create" /\ p[j] = "create" => i = j
  /\ \A i \in 1..Len(p) : p[i] = "sleep" => \E j \in 1 .. i - 1 : p[j] = "subscribe"

ASSUME ProgramsAssumption ==
  \A s \in Scenarios : /\ s.program \in [Workers -> Seq(Steps)]
                       /\ \A w \in Workers : WellFormed(s.program[w])

VARIABLES
  program,    \* the program of each worker
  now,        \* the clock
  lastPass,   \* the clock the last completed pass of the scheduler has read
  mode,       \* worker: "unloaded", "loading", "guest", "trap", "stop" or "idle"
  pc,         \* its next step
  log,        \* length of its oplog
  recorded,   \* steps of the program the oplog knows of
  promise,    \* oplog index that identifies its promise, 0 before it is created
  running,    \* the stored set of running workers
  created,    \* promises in the key-value storage
  result,     \* their results
  schedule,   \* the scheduled actions, of all hours
  pass,       \* the pass of the scheduler
  client,     \* what each client does
  told,       \* what it was answered
  levels,     \* layers of a worker's oplog that are not empty, 0 the primary
  got,        \* ghost: payloads that awaiting has returned to a worker
  missed,     \* ghost: workers whose wake-up has been lost
  extra,      \* later invocations still to come
  faults      \* the fault that has happened

workerVars == <<mode, pc, log, recorded, promise, running, levels>>
promiseVars == <<created, result>>
passVars == <<pass, lastPass>>
clientVars == <<client, told>>
vars == <<program, now, passVars, workerVars, promiseVars, schedule, clientVars,
          got, missed, extra, faults>>

NoPass == [step |-> "none", at |-> 0, batch |-> {}, workers |-> {}, action |-> <<>>]

Init ==
  /\ \E s \in Scenarios :
       /\ program = s.program
       /\ client = [c \in Clients |-> IF c \in s.callers THEN "start" ELSE "done"]
       /\ extra = s.extra
  /\ now = 0 /\ lastPass = 0
  /\ mode = [w \in Workers |-> "guest"]
  /\ pc = [w \in Workers |-> 1]
  /\ log = [w \in Workers |-> 1]
  /\ recorded = [w \in Workers |-> 0]
  /\ promise = [w \in Workers |-> 0]
  /\ running = Workers
  /\ created = {}
  /\ result = <<>>
  /\ schedule = {}
  /\ pass = NoPass
  /\ told = [c \in Clients |-> "nothing"]
  /\ levels = [w \in Workers |-> {0}]
  /\ got = [w \in Workers |-> {}]
  /\ missed = {}
  /\ faults = {}

Finished(w) == recorded[w] > Len(program[w])

-----------------------------------------------------------------------------
(* The promise service.                                                    *)

PromiseOf(w) == <<w, promise[w]>>

(* set_if_not_exists on the result key *)
WriteResult(id, data) ==
  result' = [i \in DOMAIN result \cup {id} |->
               IF i \in DOMAIN result THEN result[i] ELSE data]

-----------------------------------------------------------------------------
(* Scheduled actions.                                                      *)

Hour(t) == t \div HourLength

CompletePromise(id) == <<"complete", id[1], id[2]>>
ArchiveOplog(w, last) == <<"archive", w, last>>
WorkerOf(action) == action[2]

(* add_to_sorted_set on the set of the hour: an action the set has already *)
(* gets the new time.                                                      *)
Scheduled(t, action) ==
  {x \in schedule : ~(x.action = action /\ Hour(x.at) = Hour(t))}
    \cup {[at |-> t, action |-> action]}

-----------------------------------------------------------------------------
(* Starting and stopping a worker.                                         *)

(* A slip: workers that are not in the stored set of running ones are left *)
(* alone.                                                                  *)
StartOnlyRunning(w) ==
  /\ mode' = IF mode[w] = "unloaded" /\ w \in running
               THEN [mode EXCEPT ![w] = "loading"] ELSE mode
  /\ missed' = IF mode[w] \in {"trap", "stop"} THEN missed \cup {w}
               ELSE IF mode[w] = "unloaded" THEN missed \ {w} ELSE missed

(* Worker::get_or_create_running: a worker that is on its way to be        *)
(* unloaded counts as running and the call does nothing.                   *)
StartIfNeeded(w) ==
  /\ mode' = IF mode[w] = "unloaded" THEN [mode EXCEPT ![w] = "loading"] ELSE mode
  /\ missed' = IF mode[w] \in {"trap", "stop"} THEN missed \cup {w}
               ELSE IF mode[w] = "unloaded" THEN missed \ {w} ELSE missed

(* The instance is there: the invocation is replayed from its beginning,   *)
(* the status Running is stored first.                                     *)
Enter(w) ==
  /\ mode[w] = "loading"
  /\ mode' = [mode EXCEPT ![w] = "guest"]
  /\ running' = running \cup {w}
  /\ UNCHANGED <<program, now, passVars, pc, log, recorded, promise, levels, promiseVars,
                 schedule, clientVars, got, missed, extra, faults>>

(* on_invocation_failure for InterruptKind::Suspend: the Suspend entry,    *)
(* then the status.                                                        *)
Suspend(w) ==
  /\ mode[w] = "trap"
  /\ mode' = [mode EXCEPT ![w] = "stop"]
  /\ pc' = [pc EXCEPT ![w] = 1]
  /\ log' = [log EXCEPT ![w] = @ + 1]
  /\ levels' = [levels EXCEPT ![w] = @ \cup {0}]
  /\ running' = running \ {w}
  /\ UNCHANGED <<program, now, passVars, recorded, promise, promiseVars, schedule,
                 clientVars, got, missed, extra, faults>>

(* stop_internal at the end of the invocation loop, or the eviction of an  *)
(* idle worker.                                                            *)
Unload(w) ==
  /\ mode[w] \in {"stop", "idle"}
  /\ mode' = [mode EXCEPT ![w] = "unloaded"]
  /\ UNCHANGED <<program, now, passVars, pc, log, recorded, promise, running, levels,
                 promiseVars, schedule, clientVars, got, missed, extra, faults>>

-----------------------------------------------------------------------------
(* The steps of a program.                                                 *)

At(w, step) == /\ mode[w] = "guest"
               /\ pc[w] <= Len(program[w])
               /\ program[w][pc[w]] = step
Live(w) == pc[w] > recorded[w]

(* The step writes one oplog entry, or reads the one it has written.       *)
RecordStep(w) ==
  /\ pc' = [pc EXCEPT ![w] = @ + 1]
  /\ recorded' = IF Live(w) THEN [recorded EXCEPT ![w] = pc[w]] ELSE recorded
  /\ log' = IF Live(w) THEN [log EXCEPT ![w] = @ + 1] ELSE log
  /\ levels' = IF Live(w) THEN [levels EXCEPT ![w] = @ \cup {0}] ELSE levels

(* create_promise: a NoOp entry, whose index names the promise; the        *)
(* promise service is called in replay too.                                *)
Create(w) ==
  /\ At(w, "create")
  /\ RecordStep(w)
  /\ promise' = IF Live(w) THEN [promise EXCEPT ![w] = log'[w]] ELSE promise
  /\ created' = created \cup {<<w, promise'[w]>>}
  /\ UNCHANGED <<program, now, passVars, mode, running, result, schedule, clientVars,
                 got, missed, extra, faults>>

(* A slip: subscribing does not write the time it has read.                *)
SubscribeUnrecorded(w) ==
  /\ At(w, "subscribe")
  /\ pc' = [pc EXCEPT ![w] = @ + 1]
  /\ UNCHANGED <<program, now, passVars, mode, log, recorded, promise, running, levels,
                 promiseVars, schedule, clientVars, got, missed, extra, faults>>

(* subscribe_duration *)
Subscribe(w) ==
  /\ At(w, "subscribe")
  /\ RecordStep(w)
  /\ UNCHANGED <<program, now, passVars, mode, promise, running, promiseVars, schedule,
                 clientVars, got, missed, extra, faults>>

(* poll, when the timer has fired or the entry says that it had.           *)
PollReady(w) ==
  /\ At(w, "sleep")
  /\ Live(w) => now >= Deadline[w]
  /\ RecordStep(w)
  /\ UNCHANGED <<program, now, passVars, mode, promise, running, promiseVars, schedule,
                 clientVars, got, missed, extra, faults>>

(* poll, when it would wait for too long, and sleep_until: a promise named *)
(* after the current oplog index, which the scheduler is to complete.      *)
Sleep(w) ==
  /\ At(w, "sleep") /\ Live(w) /\ now < Deadline[w]
  /\ created' = created \cup {<<w, log[w]>>}
  /\ schedule' = Scheduled(Deadline[w], CompletePromise(<<w, log[w]>>))
  /\ mode' = [mode EXCEPT ![w] = "trap"]
  /\ UNCHANGED <<program, now, passVars, pc, log, recorded, promise, running, levels,
                 result, clientVars, got, missed, extra, faults>>

(* await_promise: the result if there is one; its answer is not recorded.  *)
AwaitReady(w) ==
  /\ At(w, "await") /\ PromiseOf(w) \in DOMAIN result
  /\ got' = [got EXCEPT ![w] = @ \cup {result[PromiseOf(w)]}]
  /\ pc' = [pc EXCEPT ![w] = @ + 1]
  /\ recorded' = IF Live(w) THEN [recorded EXCEPT ![w] = pc[w]] ELSE recorded
  /\ UNCHANGED <<program, now, passVars, mode, log, promise, running, levels, promiseVars,
                 schedule, clientVars, missed, extra, faults>>

AwaitPending(w) ==
  /\ At(w, "await") /\ PromiseOf(w) \notin DOMAIN result
  /\ mode' = [mode EXCEPT ![w] = "trap"]
  /\ UNCHANGED <<program, now, passVars, pc, log, recorded, promise, running, levels,
                 promiseVars, schedule, clientVars, got, missed, extra, faults>>

(* on_invocation_success: the Completed entry unless it is there, and the  *)
(* status Idle, with which the oplog is scheduled to be archived - in      *)
(* replay too.                                                             *)
Finish(w) ==
  /\ mode[w] = "guest" /\ pc[w] = Len(program[w]) + 1
  /\ mode' = [mode EXCEPT ![w] = "idle"]
  /\ pc' = [pc EXCEPT ![w] = 1]
  /\ recorded' = [recorded EXCEPT ![w] = Len(program[w]) + 1]
  /\ log' = [log EXCEPT ![w] = IF Finished(w) THEN @ ELSE @ + 1]
  /\ levels' = [levels EXCEPT ![w] = IF Finished(w) THEN @ ELSE @ \cup {0}]
  /\ running' = running \ {w}
  /\ schedule' = Scheduled(now + ArchiveAfter, ArchiveOplog(w, log'[w]))
  /\ UNCHANGED <<program, now, passVars, promise, promiseVars, clientVars, got, missed,
                 extra, faults>>

(* One more invocation, from its first entry to its last: the worker is    *)
(* idle again with a longer oplog.                                         *)
InvokeAgain(w) ==
  /\ mode[w] = "idle" /\ Finished(w) /\ extra > 0
  /\ extra' = extra - 1
  /\ log' = [log EXCEPT ![w] = @ + 1]
  /\ levels' = [levels EXCEPT ![w] = @ \cup {0}]
  /\ schedule' = Scheduled(now + ArchiveAfter, ArchiveOplog(w, log'[w]))
  /\ UNCHANGED <<program, now, passVars, mode, pc, recorded, promise, running,
                 promiseVars, clientVars, got, missed, faults>>

-----------------------------------------------------------------------------
(* Completing a promise from outside: complete_promise_internal of the     *)
(* gRPC interface, and the host function complete_promise of a worker.     *)

(* DefaultPromiseService::complete: first the result is written.           *)
WriteCompletion(c) ==
  /\ client[c] \in {"start", "retry"} /\ promise[Target[c]] # 0
  /\ WriteResult(PromiseOf(Target[c]), c)
  /\ client' = [client EXCEPT ![c] =
       IF PromiseOf(Target[c]) \in DOMAIN result THEN "lost" ELSE "written"]
  /\ UNCHANGED <<program, now, passVars, workerVars, created, schedule, told, got, missed,
                 extra, faults>>

(* Then the answer: true to the one that has written it.  The host         *)
(* function is done with that and wakes nobody.                            *)
Answer(c) ==
  /\ client[c] \in {"written", "lost"}
  /\ told' = [told EXCEPT ![c] = IF client[c] = "written" THEN "true" ELSE "false"]
  /\ client' = [client EXCEPT ![c] = IF c \in GuestClients THEN "done" ELSE "answered"]
  /\ missed' = IF c \in GuestClients /\ mode[Target[c]] \in {"trap", "stop", "unloaded"}
                 THEN missed \cup {Target[c]} ELSE missed
  /\ UNCHANGED <<program, now, passVars, workerVars, promiseVars, schedule, got, extra,
                 faults>>

(* The gRPC call looks at the status and makes sure the worker is loaded,  *)
(* unless it is idle.                                                      *)
WakeWorker(c) ==
  /\ client[c] = "answered"
  /\ client' = [client EXCEPT ![c] = "done"]
  /\ IF Finished(Target[c]) THEN UNCHANGED <<mode, missed>> ELSE StartIfNeeded(Target[c])
  /\ UNCHANGED <<program, now, passVars, pc, log, recorded, promise, running, levels,
                 promiseVars, schedule, told, got, extra, faults>>

-----------------------------------------------------------------------------
(* SchedulerServiceDefault::process, a pass of the background loop.        *)

(* All actions of the previous hour.                                       *)
ReadPreviousHour ==
  /\ pass.step = "none"
  /\ pass' = [NoPass EXCEPT !.step = "read", !.at = now,
                !.batch = {x \in schedule : Hour(x.at) = Hour(now) - 1}]
  /\ UNCHANGED <<program, now, lastPass, workerVars, promiseVars, schedule, clientVars,
                 got, missed, extra, faults>>

(* A slip: the actions of the whole hour.                                  *)
WholeHour(t) == {x \in schedule : Hour(x.at) = Hour(t)}

(* query_sorted_set: the actions of the current hour up to the time.       *)
DueThisHour(t) ==
  {x \in schedule : Hour(x.at) = Hour(t) /\ x.at % HourLength <= t % HourLength}

ReadCurrentHour ==
  /\ pass.step = "read"
  /\ pass' = [pass EXCEPT !.step = "perform", !.batch = @ \cup DueThisHour(pass.at)]
  /\ UNCHANGED <<program, now, lastPass, workerVars, promiseVars, schedule, clientVars,
                 got, missed, extra, faults>>

(* An action is removed from the set and performed afterwards.             *)
Remove(x) ==
  /\ pass.step = "perform" /\ x \in pass.batch
  /\ schedule' = {y \in schedule : ~(y.action = x.action /\ Hour(y.at) = Hour(x.at))}
  /\ pass' = [pass EXCEPT !.step = x.action[1], !.action = x.action,
                !.batch = @ \ {x}, !.workers = @ \cup {WorkerOf(x.action)}]
  /\ UNCHANGED <<program, now, lastPass, workerVars, promiseVars, clientVars, got,
                 missed, extra, faults>>

(* CompletePromise *)
CompleteScheduled ==
  /\ pass.step = "complete"
  /\ WriteResult(<<pass.action[2], pass.action[3]>>, Empty)
  /\ pass' = [pass EXCEPT !.step = "perform", !.action = <<>>]
  /\ UNCHANGED <<program, now, lastPass, workerVars, created, schedule, clientVars, got,
                 missed, extra, faults>>

(* ArchiveOplog, only if the oplog has not changed since it was scheduled. *)
CheckLastIndex ==
  /\ pass.step = "archive"
  /\ pass' = IF log[pass.action[2]] = pass.action[3]
               THEN [pass EXCEPT !.step = "unchanged"]
               ELSE [pass EXCEPT !.step = "perform", !.action = <<>>]
  /\ UNCHANGED <<program, now, lastPass, workerVars, promiseVars, schedule, clientVars,
                 got, missed, extra, faults>>

(* MultiLayerOplog::archive: the first layer that is not empty, the last   *)
(* one aside, goes down to the next.                                       *)
Movable(w) == {l \in levels[w] : l < Archives}
First(S) == CHOOSE l \in S : \A m \in S : l <= m
Moved(w) == IF Movable(w) = {} THEN levels[w]
            ELSE (levels[w] \ {First(Movable(w))}) \cup {First(Movable(w)) + 1}

(* A slip: the last layer that could be moved is not counted.              *)
MoreIfAnother(w) == Movable(w) # {} /\ First(Movable(w)) < Archives - 2

(* What archive returns: whether there is another layer to move from.      *)
More(w) == Movable(w) # {} /\ First(Movable(w)) < Archives - 1

(* The transfer, and another action if there is more to archive.           *)
Archive ==
  LET w == pass.action[2]
  IN /\ pass.step = "unchanged"
     /\ levels' = [levels EXCEPT ![w] = Moved(w)]
     /\ schedule' = IF More(w) THEN Scheduled(pass.at + ArchiveAfter, pass.action)
                    ELSE schedule
     /\ pass' = [pass EXCEPT !.step = "perform", !.action = <<>>]
     /\ UNCHANGED <<program, now, lastPass, mode, pc, log, recorded, promise, running,
                    promiseVars, clientVars, got, missed, extra, faults>>

(* When all actions are performed, their workers are activated.            *)
Activate(w) ==
  /\ pass.step = "perform" /\ pass.batch = {} /\ w \in pass.workers
  /\ StartIfNeeded(w)
  /\ pass' = [pass EXCEPT !.workers = @ \ {w}]
  /\ UNCHANGED <<program, now, lastPass, pc, log, recorded, promise, running, levels,
                 promiseVars, schedule, clientVars, got, extra, faults>>

EndPass ==
  /\ pass.step = "perform" /\ pass.batch = {} /\ pass.workers = {}
  /\ pass' = NoPass
  /\ lastPass' = pass.at
  /\ UNCHANGED <<program, now, workerVars, promiseVars, schedule, clientVars, got, missed,
                 extra, faults>>

-----------------------------------------------------------------------------
(* Time, and faults.                                                       *)

(* A pass is completed at least once an hour.                              *)
Tick ==
  /\ now < Horizon
  /\ now - lastPass < HourLength
  /\ now' = now + 1
  /\ UNCHANGED <<program, passVars, workerVars, promiseVars, schedule, clientVars, got,
                 missed, extra, faults>>

(* The storage answers one request of the pass with an error: the pass is  *)
(* given up and the workers it has collected are not activated.            *)
StorageError ==
  /\ "storage" \in Faults /\ faults = {}
  /\ pass.step = "read" \/ (pass.step = "perform" /\ pass.batch # {})
  /\ faults' = {"storage"}
  /\ pass' = NoPass
  /\ missed' = missed \cup pass.workers
  /\ UNCHANGED <<program, now, lastPass, workerVars, promiseVars, schedule, clientVars,
                 got, extra>>

(* on_shard_assignment_changed: the workers of the stored set.             *)
Recovered(w) == w \in running

(* The executor crashes and is back within the hour.  Callers that have no *)
(* answer yet repeat their call.                                           *)
Crash ==
  /\ "crash" \in Faults /\ faults = {}
  /\ faults' = {"crash"}
  /\ mode' = [w \in Workers |-> IF Recovered(w) THEN "loading" ELSE "unloaded"]
  /\ pc' = [w \in Workers |-> 1]
  /\ pass' = NoPass
  /\ client' = [c \in Clients |->
       IF client[c] \in {"written", "lost", "answered"} THEN "retry" ELSE client[c]]
  /\ missed' = (missed \cup pass.workers \cup {w \in Workers : mode[w] = "loading"})
                 \ running
  /\ UNCHANGED <<program, now, lastPass, log, recorded, promise, running, levels,
                 promiseVars, schedule, told, got, extra>>

-----------------------------------------------------------------------------
WorkerStep(w) ==
  \/ Enter(w) \/ Suspend(w)
  \/ Create(w) \/ Subscribe(w) \/ PollReady(w) \/ Sleep(w)
  \/ AwaitReady(w) \/ AwaitPending(w) \/ Finish(w)

ClientStep(c) == WriteCompletion(c) \/ Answer(c) \/ WakeWorker(c)

PassStep ==
  \/ ReadPreviousHour \/ ReadCurrentHour
  \/ \E x \in pass.batch : Remove(x)
  \/ CompleteScheduled \/ CheckLastIndex \/ Archive
  \/ \E w \in pass.workers : Activate(w)
  \/ EndPass

Next ==
  \/ \E w \in Workers : WorkerStep(w) \/ Unload(w) \/ InvokeAgain(w)
  \/ \E c \in Clients : ClientStep(c)
  \/ PassStep
  \/ Tick \/ StorageError \/ Crash

Spec == Init /\ [][Next]_vars

(* The loop of a worker, the background loop of the scheduler and a call   *)
(* that has begun go on; time passes.  Nobody has to complete a promise or *)
(* to evict an idle worker.                                                *)
Fairness ==
  /\ \A w \in Workers : WF_vars(WorkerStep(w)) /\ WF_vars(mode[w] = "stop" /\ Unload(w))
  /\ \A c \in Clients : WF_vars(client[c] # "start" /\ ClientStep(c))
  /\ WF_vars(PassStep) /\ WF_vars(Tick)

FairSpec == Spec /\ Fairness

-----------------------------------------------------------------------------
(* Properties.                                                             *)

(* A sleep that follows the creation of the promise, with nothing recorded *)
(* in between: sleep_until names its promise by the index of the entry     *)
(* that names the promise of the worker.                                   *)
SharesName(p) ==
  \E i, j \in 1..Len(p) : /\ i < j /\ p[i] = "create" /\ p[j] = "sleep"
                          /\ \A n \in (i + 1)..(j - 1) : p[n] = "await"

(* What golem-host says of await_promise: it returns the payload passed to *)
(* the completion, never the empty payload of the scheduler.               *)
PayloadPassed == \A w \in Workers : Empty \notin got[w]

(* Awaiting a promise gives a worker one payload, however often it is      *)
(* started again, and it is the payload of the only client that            *)
(* complete_promise has answered with true.  It is not the empty payload   *)
(* of the scheduler, unless the worker sleeps under the name of its        *)
(* promise.                                                                *)
CompletedOnce ==
  \A w \in Workers :
    /\ Cardinality(got[w]) <= 1
    /\ Empty \in got[w] => SharesName(program[w])
    /\ \A c \in Clients : told[c] = "true" /\ Target[c] = w =>
         result[PromiseOf(w)] = c /\ got[w] \subseteq {c}

(* The scheduler completes no promise before its time, whatever hour the   *)
(* pass began in, and a worker does not leave its sleep before that.       *)
NothingEarly ==
  \A w \in Workers :
    (now < Deadline[w] /\ "sleep" \in {program[w][i] : i \in 1..Len(program[w])}) =>
      /\ \A i \in DOMAIN result : i[1] = w => result[i] # Empty
      /\ ~Finished(w)

(* All that a worker waits for has happened.                               *)
Ready(w) ==
  \A i \in 1..Len(program[w]) :
    /\ program[w][i] = "sleep" => now >= Deadline[w]
    /\ program[w][i] = "await" => PromiseOf(w) \in DOMAIN result

(* A worker whose timer has fired and whose promise is completed finishes  *)
(* its invocation, across the two hours the scheduler looks at, executor   *)
(* crashes and the archiving of its oplog, unless its wake-up was one of   *)
(* those that are lost: it came while the worker was being unloaded, its   *)
(* promise was completed by another worker, its pass was given up, or the  *)
(* executor crashed before the worker was loaded.                          *)
ReadyFinishes == \A w \in Workers : Ready(w) ~> (Finished(w) \/ w \in missed)

(* What await_promise promises: a worker whose promise has been completed  *)
(* goes on.                                                                *)
AwaitReturns == \A w \in Workers : Ready(w) ~> Finished(w)

(* The oplog of a worker that has finished reaches the last layer: every   *)
(* pass that moves one layer down schedules the next, the action of an     *)
(* earlier invocation does not stand in for the one of the last, and a     *)
(* replay after a crash schedules what a given-up pass has lost.  Exempt   *)
(* are archivings that are due after the clock has stopped and workers     *)
(* that were neither activated nor recovered.                              *)
Archived(w) == Movable(w) = {}
Later(w) == \E x \in schedule : x.action = ArchiveOplog(w, log[w]) /\ x.at > Horizon
OplogArchived ==
  \A w \in Workers : Finished(w) ~> (Archived(w) \/ Later(w) \/ w \in missed)
=============================================================================
