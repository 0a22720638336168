---------------------------- MODULE WorkerStatus ----------------------------
(***************************************************************************)
(* The status record of a worker, computed from its oplog                  *)
(* (golem-worker-executor-base/src/worker.rs).  The record is cached, in   *)
(* memory and in the key-value storage, with the index of the last oplog   *)
(* entry it covers; calculate_last_known_status applies the entries        *)
(* written since then to it.  When that happens depends on who asks, so    *)
(* the record must not depend on where the oplog was cut.                  *)
(*                                                                         *)
(* A list of pending invocations or updates is a sequence of the oplog     *)
(* indexes of their entries, a set of regions the set of their indexes.    *)
(***************************************************************************)
EXTENDS Integers, Sequences, FiniteSets, FiniteSetsExt, Selection

CONSTANTS
  Keys,          \* idempotency keys
  Resources,     \* resource ids
  Plugins,       \* plugin installations
  Versions,      \* component versions a worker is updated to
  Policies,      \* max_attempts of the retry policies a worker can set
  DefaultPolicy, \* max_attempts of the configured policy
  None,          \* no key, no retry policy set
  MaxLength      \* bound: entries of the oplog

ASSUME StatusAssumption ==
  /\ None \notin Keys /\ None \notin Policies
  /\ Policies \subseteq Nat /\ DefaultPolicy \in Nat

VARIABLES
  oplog,         \* the entries
  known          \* the cached record, execution_status.last_known_status

vars == <<oplog, known>>

-----------------------------------------------------------------------------
(* WorkerStatusRecord of a worker that was just created; errors is         *)
(* last_error_count, which every calculation starts from 0.                *)
InitialStatus ==
  [ oplog_idx |-> 0, status |-> "Idle", errors |-> 0, retry |-> None,
    regions |-> {}, override |-> {},
    pending_invocations |-> <<>>, pending_updates |-> <<>>,
    failed_updates |-> <<>>, successful_updates |-> <<>>, version |-> 0,
    results |-> <<>>, current |-> None, memory |-> 0,
    resources |-> <<>>, plugins |-> {} ]

(* The entries that only tell that the worker is running are one kind.     *)
StatusOf ==
  [ Create |-> "Idle", Host |-> "Running", Invoked |-> "Running",
    Completed |-> "Idle", Suspend |-> "Suspended", Jump |-> "Running",
    Interrupted |-> "Interrupted", Exited |-> "Exited",
    ChangeRetryPolicy |-> "Running", Restart |-> "Idle" ]

(* is_worker_error_retriable *)
IsRetriable(policy, error, count) ==
  \/ error = "OutOfMemory"
  \/ error = "Unknown" /\ count < policy

PolicyInForce(retry) == IF retry = None THEN DefaultPolicy ELSE retry

(* calculate_latest_worker_status and calculate_overridden_retry_policy:   *)
(* errors counts the Error entries in a row of this calculation.           *)
StatusStep(r, e) ==
  LET errors == IF e.kind = "Error" THEN r.errors + 1 ELSE 0
      retry == IF e.kind = "ChangeRetryPolicy" THEN e.policy ELSE r.retry
      status ==
        IF e.kind \in DOMAIN StatusOf THEN StatusOf[e.kind]
        ELSE IF e.kind = "Error"
        THEN IF IsRetriable(PolicyInForce(retry), e.error, errors)
             THEN "Retrying" ELSE "Failed"
        ELSE IF e.kind = "PendingUpdate" /\ r.status = "Failed"
        THEN "Retrying"
        ELSE r.status
  IN  [errors |-> errors, retry |-> retry, status |-> status]

(* calculate_pending_invocations: an entry adds a request or takes up the  *)
(* ones it was requested by.                                               *)
TakesUp(e, request) ==
  \/ /\ e.kind = "Invoked" /\ request.kind = "PendingInvocation"
     /\ request.key = e.key
  \/ /\ e.kind = "PendingUpdate" /\ e.snapshot
     /\ request.kind = "PendingManualUpdate" /\ request.version = e.version

PendingStep(pending, i) ==
  IF oplog[i].kind \in {"PendingInvocation", "PendingManualUpdate"}
  THEN Append(pending, i)
  ELSE Only(pending, {j \in 1..i : ~TakesUp(oplog[i], oplog[j])})

(* calculate_update_fields; pop_front of an empty list does nothing.       *)
UpdateStep(r, i) ==
  LET e == oplog[i]
      rest == IF r.pending_updates = <<>> THEN <<>> ELSE Tail(r.pending_updates)
  IN  [ version |-> IF e.kind \in {"Create", "SuccessfulUpdate"} THEN e.version
                    ELSE r.version,
        pending |-> IF e.kind = "PendingUpdate" THEN Append(r.pending_updates, i)
                    ELSE IF e.kind \in {"FailedUpdate", "SuccessfulUpdate"} THEN rest
                    ELSE r.pending_updates,
        failed |-> IF e.kind = "FailedUpdate" THEN Append(r.failed_updates, i)
                   ELSE r.failed_updates,
        successful |-> IF e.kind = "SuccessfulUpdate"
                       THEN Append(r.successful_updates, i)
                       ELSE r.successful_updates ]

Put(f, k, v) == [x \in DOMAIN f \cup {k} |-> IF x = k THEN v ELSE f[x]]

(* calculate_invocation_results *)
ResultStep(r, i) ==
  LET kind == oplog[i].kind
  IN  [ results |-> IF kind \in {"Completed", "Error", "Exited"} /\ r.current # None
                    THEN Put(r.results, r.current, i) ELSE r.results,
        current |-> IF kind = "Invoked" THEN oplog[i].key
                    ELSE IF kind = "Completed" THEN None ELSE r.current ]

(* calculate_owned_resources: a description is the index of the creation   *)
(* and whether the resource was described.                                 *)
ResourceStep(owned, i) ==
  LET e == oplog[i]
  IN  CASE e.kind = "CreateResource" ->
             Put(owned, e.id, [created_at |-> i, described |-> FALSE])
        [] e.kind = "DropResource" ->
             [x \in DOMAIN owned \ {e.id} |-> owned[x]]
        [] e.kind = "DescribeResource" /\ e.id \in DOMAIN owned ->
             Put(owned, e.id, [created_at |-> owned[e.id].created_at,
                               described |-> TRUE])
        [] OTHER -> owned

(* calculate_active_plugins *)
PluginStep(active, e) ==
  CASE e.kind = "ActivatePlugin" -> active \cup {e.plugin}
    [] e.kind = "DeactivatePlugin" -> active \ {e.plugin}
    [] e.kind = "SuccessfulUpdate" -> e.plugins
    [] OTHER -> active

(* calculate_deleted_regions *)
RegionStep(regions, e) ==
  IF e.kind = "Jump" THEN regions \cup e.start..e.end ELSE regions

(* calculate_total_linear_memory_size, in units of growth.                 *)
MemoryStep(memory, e) == IF e.kind = "GrowMemory" THEN memory + 1 ELSE memory

(* One entry: each calculation goes over the entries in their order, and   *)
(* none looks at what another has found.                                   *)
Round(r, i) ==
  LET e == oplog[i]
      latest == StatusStep(r, e)
      updates == UpdateStep(r, i)
      results == ResultStep(r, i)
  IN  [ oplog_idx |-> i, status |-> latest.status, errors |-> latest.errors,
        retry |-> latest.retry,
        regions |-> RegionStep(r.regions, e), override |-> {},
        pending_invocations |-> PendingStep(r.pending_invocations, i),
        pending_updates |-> updates.pending,
        failed_updates |-> updates.failed,
        successful_updates |-> updates.successful, version |-> updates.version,
        results |-> results.results, current |-> results.current,
        memory |-> MemoryStep(r.memory, e),
        resources |-> ResourceStep(r.resources, i),
        plugins |-> PluginStep(r.plugins, e) ]

(* Slips: the calculation starts from the default status; the override of  *)
(* an earlier calculation is not dropped.                                  *)
StartIdle(last_known) ==
  [last_known EXCEPT !.errors = 0, !.override = {}, !.status = "Idle"]
StartOverridden(last_known) ==
  [last_known EXCEPT !.errors = 0, !.override = {},
     !.regions = IF last_known.override = {} THEN @ ELSE last_known.override]

(* What the calculations start from: no errors, no override.               *)
Start(last_known) == [last_known EXCEPT !.errors = 0, !.override = {}]

(* The override while the first pending update starts from a snapshot:     *)
(* everything before the update is skipped.                                *)
SnapshotOverride(regions, pending_updates) ==
  IF pending_updates # <<>> /\ oplog[pending_updates[1]].snapshot
  THEN regions \cup 2..pending_updates[1]
  ELSE {}

(* calculate_last_known_status: nothing if the record covers the whole     *)
(* oplog, else every field from the entries it does not cover.             *)
calculate_last_known_status(last_known) ==
  LET after[i \in last_known.oplog_idx..Len(oplog)] ==
        IF i = last_known.oplog_idx THEN Start(last_known)
        ELSE Round(after[i - 1], i)
      result == after[Len(oplog)]
  IN  IF last_known.oplog_idx = Len(oplog) THEN last_known
      ELSE [result EXCEPT !.override =
              SnapshotOverride(result.regions, result.pending_updates)]

-----------------------------------------------------------------------------
(* What the first n entries of an oplog say, without any calculation from  *)
(* left to right.                                                          *)

Upto(n, kinds) == {i \in 1..n : oplog[i].kind \in kinds}

(* The invocation an index belongs to: the last one invoked up to it, if   *)
(* none completed since.                                                   *)
InInvocation(n) ==
  LET invoked == Upto(n, {"Invoked"})
  IN  invoked # {} /\ \A i \in Upto(n, {"Completed"}) : i < Max(invoked)

InvokedKey(n) == oplog[Max(Upto(n, {"Invoked"}))].key

(* Requests nothing has taken up since.                                    *)
WaitingRequests(n) ==
  {i \in Upto(n, {"PendingInvocation", "PendingManualUpdate"}) :
     \A j \in i..n : ~TakesUp(oplog[j], oplog[i])}

(* The ends of invocations of a key: its completion, and every failure.    *)
EndsOf(k, n) ==
  {i \in Upto(n, {"Completed", "Error", "Exited"}) :
     InInvocation(i - 1) /\ InvokedKey(i - 1) = k}

(* Updates come to their end in the order they were requested in.          *)
FinishedUpdates(n) == Upto(n, {"SuccessfulUpdate", "FailedUpdate"})
WaitingUpdates(n) ==
  {i \in Upto(n, {"PendingUpdate"}) :
     Cardinality(Upto(i, {"PendingUpdate"})) > Cardinality(FinishedUpdates(n))}

CreationsOf(r, n) == {i \in Upto(n, {"CreateResource"}) : oplog[i].id = r}
OwnedResources(n) ==
  {r \in Resources :
     /\ CreationsOf(r, n) # {}
     /\ \A j \in Upto(n, {"DropResource"}) :
          oplog[j].id = r => j < Max(CreationsOf(r, n))}

-----------------------------------------------------------------------------
(* The entries the program can write next.  Host calls and everything the  *)
(* guest does come from inside an invocation; requests, updates and        *)
(* plugins at any time; the result of an update when one is pending.  An   *)
(* invocation of a function that is not there is an error before it is     *)
(* recorded.                                                               *)
(* invoke_or_fail writes the invocation of a key again when it is replayed *)
(* and nothing follows it.                                                 *)
GuestEntries ==
  [kind : {"Completed", "Host", "Suspend", "Interrupted", "Exited",
           "GrowMemory"}]
  \cup [kind : {"Error"}, error : {"Unknown", "StackOverflow", "OutOfMemory"}]
  \cup [kind : {"Jump"}, start : 2..(Len(oplog) + 1), end : {Len(oplog) + 1}]
  \cup [kind : {"ChangeRetryPolicy"}, policy : Policies]
  \cup [kind : {"CreateResource"}, id : Resources]
  \cup [kind : {"DropResource", "DescribeResource"}, id : OwnedResources(Len(oplog))]

ExternalEntries ==
  [kind : {"PendingInvocation"}, key : Keys]
  \cup [kind : {"PendingManualUpdate"}, version : Versions]
  \cup [kind : {"PendingUpdate"}, snapshot : BOOLEAN, version : Versions]
  \cup [kind : {"ActivatePlugin", "DeactivatePlugin"}, plugin : Plugins]

UpdateResults ==
  [kind : {"FailedUpdate"}, version : Versions]
  \cup [kind : {"SuccessfulUpdate"}, version : Versions,
        plugins : SUBSET Plugins]

NextEntries ==
  ExternalEntries
  \cup (IF InInvocation(Len(oplog)) THEN GuestEntries
        ELSE [kind : {"Invoked"}, key : Keys] \cup [kind : {"Restart"}]
               \cup [kind : {"Error"}, error : {"InvalidRequest"}])
  \cup (IF oplog[Len(oplog)].kind = "Invoked" THEN {oplog[Len(oplog)]} ELSE {})
  \cup (IF Cardinality(Upto(Len(oplog), {"PendingUpdate"}))
             > Cardinality(FinishedUpdates(Len(oplog)))
        THEN UpdateResults ELSE {})

Init ==
  /\ oplog = <<[kind |-> "Create", version |-> 0]>>
  /\ known = InitialStatus

AddEntry ==
  /\ Len(oplog) < MaxLength
  /\ \E e \in NextEntries : oplog' = Append(oplog, e)
  /\ UNCHANGED known

(* update_metadata, or the worker is loaded from the stored record.        *)
UpdateMetadata ==
  /\ known' = calculate_last_known_status(known)
  /\ UNCHANGED oplog

Next == AddEntry \/ UpdateMetadata

Spec == Init /\ [][Next]_vars

-----------------------------------------------------------------------------
(* Properties: they hold of the record calculated now, from a cached one   *)
(* that covers any part of the oplog.                                      *)

Current == calculate_last_known_status(known)

(* A list has the indexes of a set, in their order.                        *)
Lists(q, S) ==
  /\ \A i, j \in DOMAIN q : i < j => q[i] < q[j]
  /\ S = {q[i] : i \in DOMAIN q}

(* The invocations a worker starts with are, in their order, exactly those *)
(* requested and not taken up since, and every key has its last end as its *)
(* result.                                                                 *)
QueueOf(r, n) ==
  /\ Lists(r.pending_invocations, WaitingRequests(n))
  /\ DOMAIN r.results = {k \in Keys : EndsOf(k, n) # {}}
  /\ \A k \in DOMAIN r.results : r.results[k] = Max(EndsOf(k, n))
  /\ r.current = IF InInvocation(n) THEN InvokedKey(n) ELSE None

(* The regions replay skips are the union of all jumps, and up to the next *)
(* snapshot-based update while one is first in the list: a region skipped  *)
(* for an update that failed, or came to its turn, never stays.            *)
JumpedOver(n) == UNION {oplog[i].start..oplog[i].end : i \in Upto(n, {"Jump"})}

SkippedFor(n) ==
  IF WaitingUpdates(n) # {} /\ oplog[Min(WaitingUpdates(n))].snapshot
  THEN JumpedOver(n) \cup 2..Min(WaitingUpdates(n)) ELSE {}

RegionsOf(r, n) ==
  /\ r.regions = JumpedOver(n)
  /\ r.override = SkippedFor(n)
  /\ Lists(r.pending_updates, WaitingUpdates(n))

(* What a worker owns is what its oplog says it got and did not give back: *)
(* memory, resources with the description of their last creation, plugins  *)
(* and the version of the last successful update.                          *)
LastUpdate(n) == LET updates == Upto(n, {"SuccessfulUpdate"})
                 IN  IF updates = {} THEN 0 ELSE Max(updates)

NotDeactivated(p, i, n) ==
  \A d \in Upto(n, {"DeactivatePlugin"}) : d > i => oplog[d].plugin # p

ActivePlugins(n) ==
  {p \in Plugins :
     \/ \E i \in Upto(n, {"ActivatePlugin"}) :
          i > LastUpdate(n) /\ oplog[i].plugin = p /\ NotDeactivated(p, i, n)
     \/ /\ LastUpdate(n) # 0 /\ p \in oplog[LastUpdate(n)].plugins
        /\ NotDeactivated(p, LastUpdate(n), n)}

DescriptionOf(r, n) ==
  [ created_at |-> Max(CreationsOf(r, n)),
    described |-> \E i \in Upto(n, {"DescribeResource"}) :
                    oplog[i].id = r /\ i > Max(CreationsOf(r, n)) ]

OwnedOf(r, n) ==
  /\ r.memory = Cardinality(Upto(n, {"GrowMemory"}))
  /\ DOMAIN r.resources = OwnedResources(n)
  /\ \A x \in OwnedResources(n) : r.resources[x] = DescriptionOf(x, n)
  /\ r.plugins = ActivePlugins(n)
  /\ r.version = IF LastUpdate(n) = 0 THEN 0 ELSE oplog[LastUpdate(n)].version

(* The record does not depend on where the oplog was cut: an invocation    *)
(* that was taken up does not come back after a restart, a region skipped  *)
(* for an update that is over does not stay skipped, and nothing given     *)
(* back is still owned.                                                    *)
RecordOf(r, n) == QueueOf(r, n) /\ RegionsOf(r, n) /\ OwnedOf(r, n)

RecordFromOplog == RecordOf(Current, Len(oplog))

(* The status depends on where the oplog was cut in one way only: errors   *)
(* are counted from the cut, so a worker that has used up its retries can  *)
(* be taken for one that is retrying, and never the other way round.       *)
StatusFromOplog ==
  LET whole == calculate_last_known_status(InitialStatus)
  IN  \/ Current.status = whole.status
      \/ Current.status = "Retrying" /\ whole.status = "Failed"
=============================================================================
