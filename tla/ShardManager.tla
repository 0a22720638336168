----------------------------- MODULE ShardManager -----------------------------
(***************************************************************************)
(* The shard manager and the worker executors it assigns shards to.        *)
(*                                                                         *)
(*  - ShardManagement (golem-shard-manager/src/shard_management.rs): the   *)
(*    routing table, the pending changes, the Notify permit and the worker *)
(*    loop that plans, persists and executes a rebalance;                  *)
(*  - the planner, action by action, from module Rebalancing;              *)
(*  - the periodic health check (lib.rs, healthcheck.rs), which works on a *)
(*    snapshot of the table;                                               *)
(*  - the registered shards of each worker executor (golem-worker-         *)
(*    executor-base/src/services/shard.rs), changed by the RPCs of the     *)
(*    loop, lost when the executor stops.                                  *)
(*                                                                         *)
(* Left out: request addresses, retries inside one call (a call is its     *)
(* final outcome, with or without effect on the executor), metrics.        *)
(***************************************************************************)
EXTENDS Rebalancing

CONSTANT FaultBudget   \* how often each kind of fault may happen

(* executor: an executor stops; manager: the manager stops; call: a call   *)
(* to or from a live executor fails; alarm: a live executor fails its      *)
(* health check; persist: writing the routing table fails.                 *)
FaultKinds == {"executor", "manager", "call", "alarm", "persist"}
ASSUME FaultBudgetAssumption == FaultBudget \in [FaultKinds -> Nat]

VARIABLES pc,           \* where the worker loop of ShardManagement is
          new_pods,     \* ShardManagementChanges
          removed_pods,
          notified,     \* the permit stored in the Notify
          returned,     \* send_full_assignment
          calls,        \* pods whose call of the current round is not answered
          failedShards, \* failed_shards of execute_rebalance
          persisted,    \* what the RoutingTablePersistence holds
          checking,     \* the pods of the snapshot being health checked
          failedPods,   \* failed_pods of the health check still to unregister
          status,       \* of each executor process
          owned,        \* ShardAssignment.shard_ids of each executor
          budget        \* faults still allowed

managerVars == <<pc, new_pods, removed_pods, notified, returned, calls,
                 failedShards, persisted>>
healthVars == <<checking, failedPods>>
executorVars == <<status, owned>>
vars == <<table, planVars, managerVars, healthVars, executorVars, budget>>

NoTable == [p \in {} |-> {}]
Up(p) == status[p] = "up"

Fault(k) ==
  /\ budget[k] > 0
  /\ budget' = [budget EXCEPT ![k] = @ - 1]

Init ==
  /\ table = NoTable
  /\ PlanIdle
  /\ pc = "down"
  /\ new_pods = {} /\ removed_pods = {}
  /\ notified = FALSE
  /\ returned = {}
  /\ calls = {}
  /\ failedShards = {}
  /\ persisted = NoTable
  /\ checking = {}
  /\ failedPods = {}
  /\ status = [p \in Pods |-> "down"]
  /\ owned = [p \in Pods |-> {}]
  /\ budget = FaultBudget
-----------------------------------------------------------------------------
(* The executors.                                                          *)

ExecutorStart(p) ==
  /\ status[p] = "down"
  /\ status' = [status EXCEPT ![p] = "starting"]
  /\ UNCHANGED <<table, planVars, managerVars, healthVars, owned, budget>>

(* A slip: the change is recorded and the loop not woken.                  *)
RegisterPodSilently(p) ==
  /\ new_pods' = new_pods \cup {p}
  /\ removed_pods' = removed_pods \ {p}
  /\ UNCHANGED notified

(* ShardManagement::register_pod.                                          *)
RegisterPod(p) ==
  /\ new_pods' = new_pods \cup {p}
  /\ removed_pods' = removed_pods \ {p}
  /\ notified' = TRUE

(* A starting executor registers.  It serves requests only once it has   *)
(* the answer; if the answer is lost it registers again.                   *)
Register(p) ==
  /\ status[p] = "starting"
  /\ pc # "down"
  /\ RegisterPod(p)
  /\ \/ status' = [status EXCEPT ![p] = "up"] /\ UNCHANGED budget
     \/ Fault("call") /\ UNCHANGED status
  /\ UNCHANGED <<table, planVars, pc, returned, calls, failedShards, persisted,
                 healthVars, owned>>

ExecutorStop(p) ==
  /\ status[p] # "down"
  /\ Fault("executor")
  /\ status' = [status EXCEPT ![p] = "down"]
  /\ owned' = [owned EXCEPT ![p] = {}]
  /\ UNCHANGED <<table, planVars, managerVars, healthVars>>
-----------------------------------------------------------------------------
(* The health check loop.                                                  *)

(* get_unhealthy_pods of the pods in S: the ones that do not answer, and   *)
(* possibly one that would.                                                *)
Unhealthy(S, failed) ==
  \/ failed = {p \in S : ~Up(p)} /\ UNCHANGED budget
  \/ /\ Fault("alarm")
     /\ \E p \in S : Up(p) /\ failed = {q \in S : ~Up(q)} \cup {p}

(* health_check takes a snapshot of the table, which needs the read lock.  *)
HealthCheckStart ==
  /\ pc \notin {"down", "planning"}
  /\ checking = {} /\ failedPods = {}
  /\ checking' = DOMAIN table
  /\ UNCHANGED <<table, planVars, managerVars, failedPods, executorVars, budget>>

(* The checks of all pods of the snapshot have been answered.              *)
HealthCheckAnswer ==
  /\ checking # {}
  /\ checking' = {}
  /\ Unhealthy(checking, failedPods')
  /\ UNCHANGED <<table, planVars, managerVars, executorVars>>

(* ShardManagement::unregister_pod.                                        *)
UnregisterPod(p) ==
  /\ new_pods' = new_pods \ {p}
  /\ removed_pods' = removed_pods \cup {p}
  /\ notified' = TRUE

(* The next failed pod is unregistered: what has happened to it since it   *)
(* was checked is not looked at.                                           *)
Unregister(p) ==
  /\ p \in failedPods
  /\ failedPods' = failedPods \ {p}
  /\ UnregisterPod(p)
  /\ UNCHANGED <<table, planVars, pc, returned, calls, failedShards, persisted,
                 checking, executorVars, budget>>
-----------------------------------------------------------------------------
(* The worker loop.                                                        *)

(* ShardManagement::new: every pod of the persisted table is checked; the  *)
(* healthy ones count as new, to be sent their full assignment.            *)
ManagerStart ==
  /\ pc = "down"
  /\ pc' = "waiting"
  /\ table' = persisted
  /\ Unhealthy(DOMAIN persisted, removed_pods')
  /\ new_pods' = DOMAIN persisted \ removed_pods'
  /\ notified' = TRUE
  /\ UNCHANGED <<planVars, returned, calls, failedShards, persisted, healthVars,
                 executorVars>>

(* The changes are taken and applied to the table under the write lock,    *)
(* and the planner starts.                                                 *)
WakeUp ==
  /\ pc = "waiting"
  /\ notified
  /\ notified' = FALSE
  /\ new_pods' = {} /\ removed_pods' = {}
  /\ LET kept == DOMAIN table \ removed_pods
     IN  /\ table' = [p \in kept \cup new_pods |->
                        IF p \in kept THEN table[p] ELSE {}]
         /\ returned' = new_pods \cap kept
  /\ BeginPlan(table')
  /\ pc' = "planning"
  /\ UNCHANGED <<calls, failedShards, persisted, healthVars, executorVars,
                 budget>>

Plan ==
  /\ pc = "planning"
  /\ PlanStep
  /\ UNCHANGED <<table, managerVars, healthVars, executorVars, budget>>

(* from_routing_table has returned: only the plan it built is left.        *)
DropPlannerLocals ==
  /\ phase' = "idle"
  /\ entries' = NoTable
  /\ unassigned' = {}
  /\ emptyPods' = {}
  /\ cursor' = 0

PodsTold(plan) == {p \in Pods : plan[p] # {}}

(* A slip: what is about to be revoked is sent along.                      *)
FullAssignmentUnfiltered(p) == assignments[p] \cup table[p]

(* Rebalance::add_assignments.                                             *)
FullAssignment(p) == assignments[p] \cup (table[p] \ unassignments[p])

(* add_assignments for every returned pod; then the table with the pod     *)
(* changes is persisted and the lock released.                             *)
PlanReady ==
  /\ pc = "planning"
  /\ phase = "done"
  /\ assignments' = [p \in Pods |->
       IF p \in returned THEN FullAssignment(p) ELSE assignments[p]]
  /\ persisted' = table
  /\ returned' = {}
  /\ pc' = "revoking"
  /\ calls' = PodsTold(unassignments)
  /\ DropPlannerLocals
  /\ UNCHANGED <<table, unassignments, new_pods, removed_pods, notified,
                 failedShards, healthVars, executorVars, budget>>

(* The executor's side of the two calls.                                   *)
RevokeShards(p, S) == owned' = [owned EXCEPT ![p] = @ \ S]
AssignShards(p, S) == owned' = [owned EXCEPT ![p] = @ \cup S]

(* A call with all its retries fails: the pod does not serve, or the calls *)
(* or their answers are lost.                                              *)
CallFails(p) == IF Up(p) THEN Fault("call") ELSE UNCHANGED budget

(* revoke_shards of one pod is answered.  A call that fails, timed out for *)
(* example, may have reached the executor all the same.                    *)
RevokeAnswered(p) ==
  /\ pc = "revoking"
  /\ p \in calls
  /\ calls' = calls \ {p}
  /\ \/ /\ Up(p)
        /\ RevokeShards(p, unassignments[p])
        /\ UNCHANGED <<failedShards, budget>>
     \/ /\ failedShards' = failedShards \cup unassignments[p]
        /\ CallFails(p)
        /\ \/ UNCHANGED owned
           \/ Up(p) /\ RevokeShards(p, unassignments[p])
  /\ UNCHANGED <<table, planVars, pc, new_pods, removed_pods, notified,
                 returned, persisted, healthVars, status>>

(* A slip: a failed revocation is ignored.                                 *)
WithoutFailedIgnored(plan) == plan

(* Rebalance::remove_shards(failed_shards), for one half of the plan.      *)
WithoutFailed(plan) == [p \in Pods |-> plan[p] \ failedShards]

(* All revocations are answered: what could not be revoked is dropped from *)
(* the plan, and the assignments are sent.                                 *)
RevokesDone ==
  /\ pc = "revoking"
  /\ calls = {}
  /\ assignments' = WithoutFailed(assignments)
  /\ unassignments' = WithoutFailed(unassignments)
  /\ pc' = "assigning"
  /\ calls' = PodsTold(assignments')
  /\ UNCHANGED <<table, phase, entries, unassigned, emptyPods, cursor,
                 new_pods, removed_pods, notified, returned, failedShards,
                 persisted, healthVars, executorVars, budget>>

(* assign_shards of one pod is answered; execute_rebalance ignores failed  *)
(* calls.                                                                  *)
AssignAnswered(p) ==
  /\ pc = "assigning"
  /\ p \in calls
  /\ calls' = calls \ {p}
  /\ \/ /\ Up(p)
        /\ AssignShards(p, assignments[p])
        /\ UNCHANGED budget
     \/ /\ CallFails(p)
        /\ \/ UNCHANGED owned
           \/ Up(p) /\ AssignShards(p, assignments[p])
  /\ UNCHANGED <<table, planVars, pc, new_pods, removed_pods, notified,
                 returned, failedShards, persisted, healthVars, status>>

(* A slip: the unassignments of the plan are not applied.                  *)
RebalancedAdditively(t, assigned, revoked) ==
  [p \in DOMAIN t |-> t[p] \cup assigned[p]]

(* RoutingTable::rebalance: assignments first, then unassignments, each    *)
(* adding the pod if the table does not have it.                           *)
Rebalanced(t, assigned, revoked) ==
  [p \in DOMAIN t \cup PodsTold(assigned) \cup PodsTold(revoked) |->
     ((IF p \in DOMAIN t THEN t[p] ELSE {}) \cup assigned[p]) \ revoked[p]]

ApplyPlan ==
  /\ pc = "assigning"
  /\ calls = {}
  /\ table' = Rebalanced(table, assignments, unassignments)
  /\ pc' = "persisting"
  /\ UNCHANGED <<planVars, new_pods, removed_pods, notified, returned, calls,
                 failedShards, persisted, healthVars, executorVars, budget>>

(* The rebalanced table is persisted; the plan is dropped.                 *)
PersistTable ==
  /\ pc = "persisting"
  /\ persisted' = table
  /\ pc' = "waiting"
  /\ assignments' = NoShards
  /\ unassignments' = NoShards
  /\ failedShards' = {}
  /\ UNCHANGED <<table, phase, entries, unassigned, emptyPods, cursor,
                 new_pods, removed_pods, notified, returned, calls, healthVars,
                 executorVars, budget>>

(* Everything the loop has on its stack is gone.                           *)
DropLoopLocals ==
  /\ DropPlannerLocals
  /\ assignments' = NoShards
  /\ unassignments' = NoShards
  /\ returned' = {}
  /\ calls' = {}
  /\ failedShards' = {}

(* Either write of the table fails: expect panics in the spawned task,     *)
(* which ends the loop but not the process.                                *)
PersistFails ==
  /\ Fault("persist")
  /\ \/ pc = "planning" /\ phase = "done"
     \/ pc = "persisting"
  /\ pc' = "panicked"
  /\ DropLoopLocals
  /\ UNCHANGED <<table, new_pods, removed_pods, notified, persisted, healthVars,
                 executorVars>>

(* The process stops; what is not persisted is gone.                       *)
ManagerStop ==
  /\ pc # "down"
  /\ Fault("manager")
  /\ pc' = "down"
  /\ table' = NoTable
  /\ DropLoopLocals
  /\ new_pods' = {} /\ removed_pods' = {}
  /\ notified' = FALSE
  /\ checking' = {} /\ failedPods' = {}
  /\ UNCHANGED <<persisted, executorVars>>
-----------------------------------------------------------------------------
Loop ==
  \/ WakeUp \/ Plan \/ PlanReady \/ RevokesDone \/ ApplyPlan \/ PersistTable
  \/ \E p \in Pods : RevokeAnswered(p) \/ AssignAnswered(p)

HealthCheck ==
  HealthCheckStart \/ HealthCheckAnswer \/ \E p \in Pods : Unregister(p)

Executors ==
  \E p \in Pods : ExecutorStart(p) \/ Register(p) \/ ExecutorStop(p)

Next ==
  \/ Loop
  \/ HealthCheck
  \/ Executors
  \/ ManagerStart \/ ManagerStop \/ PersistFails

Spec == Init /\ [][Next]_vars

(* The tasks of the manager run whenever they can; an executor that has    *)
(* been started registers.                                                 *)
Fairness ==
  /\ WF_vars(Loop)
  /\ WF_vars(ManagerStart)
  /\ \A p \in Pods : WF_vars(Register(p))

FairSpec == Spec /\ Fairness
-----------------------------------------------------------------------------
PcValues == {"down", "waiting", "planning", "revoking", "assigning",
             "persisting", "panicked"}

(* Type invariant.                                                         *)
TypeOK ==
  /\ PlanTypeOK
  /\ pc \in PcValues
  /\ new_pods \subseteq Pods /\ removed_pods \subseteq Pods
  /\ notified \in BOOLEAN
  /\ returned \subseteq DOMAIN table
  /\ pc # "planning" => returned = {}
  /\ calls \subseteq Pods
  /\ failedShards \subseteq Shards
  /\ DOMAIN persisted \subseteq Pods
  /\ persisted \in [DOMAIN persisted -> SUBSET Shards]
  /\ checking \subseteq Pods /\ failedPods \subseteq Pods
  /\ status \in [Pods -> {"down", "starting", "up"}]
  /\ owned \in [Pods -> SUBSET Shards]
  /\ budget \in [FaultKinds -> Nat]

(* Neither the routing table the clients are given nor the persisted one   *)
(* ever routes a shard to two pods, through any mix of failed revocations, *)
(* failed assignments, restarts and pods coming and going.                 *)
RoutingExclusive == Disjoint(table) /\ Disjoint(persisted)

(* Two executors of the routing table never hold the same shard, even in   *)
(* the middle of a rebalance whose calls fail with or without effect.      *)
OwnersExclusive ==
  \A p, q \in DOMAIN table : p # q => owned[p] \cap owned[q] = {}

ManagerNeverStopped == budget["manager"] = FaultBudget["manager"]

(* As long as the manager has not stopped, two executors of the routing    *)
(* table never hold the same shard, whatever calls, executors, checks and  *)
(* writes of the table have failed.                                        *)
OwnersExclusiveUntilStop == ManagerNeverStopped => OwnersExclusive

(* As long as the manager has not stopped, an executor of the routing      *)
(* table holds between two rebalances no shard that the table does not     *)
(* route to it.                                                            *)
IdleOwnersRouted ==
  ManagerNeverStopped /\ pc = "waiting" =>
    \A p \in DOMAIN table : owned[p] \subseteq table[p]

(* A rebalance that has been applied leaves no shard without a pod, except *)
(* the ones that execute_rebalance dropped from the plan because a pod did *)
(* not confirm that it gave them up.                                       *)
AllShardsRouted ==
  pc = "persisting" /\ DOMAIN table # {} =>
    UnassignedShards(table) \subseteq failedShards

(* Once an executor is up, and as long as nothing fails, every shard ends  *)
(* up with an executor that holds it and that the table routes it to.      *)
EveryShardServed ==
  [](budget = FaultBudget) =>
    ((\E p \in Pods : Up(p)) ~>
      [](\A s \in Shards : \E p \in DOMAIN table : s \in table[p] \cap owned[p]))
-----------------------------------------------------------------------------
(* The inductive invariant.                                                *)

(* The planner is active exactly while the loop is planning.               *)
PlannerActive == phase = "idle" <=> pc # "planning"

(* What makes a plan that is being executed safe to apply.                 *)
PlanSafe ==
  pc \in {"revoking", "assigning"} =>
    /\ \A p \in Pods \ DOMAIN table : assignments[p] = {} /\ unassignments[p] = {}
    /\ \A p \in Pods : assignments[p] \cap unassignments[p] = {}
    /\ \A p, q \in Pods : p # q => assignments[p] \cap assignments[q] = {}
    /\ \A p \in Pods, q \in DOMAIN table :
         p # q => assignments[p] \cap table[q] \subseteq unassignments[q]

RoutingInv ==
  /\ RoutingExclusive
  /\ PlannerActive
  /\ PlanInv
  /\ PlanSafe

(* A shard that a pod did not fail to give up is routed by the plan, or,   *)
(* once that is applied, by the table.                                     *)
PlanComplete ==
  DOMAIN table # {} =>
    /\ pc \in {"revoking", "assigning"} =>
         \A s \in Shards :
           \/ pc = "assigning" /\ s \in failedShards
           \/ \E p \in DOMAIN table :
                s \in (table[p] \cup assignments[p]) \ unassignments[p]
    /\ AllShardsRouted

(* What the executors of the table hold, as the plan is carried out.       *)
OwnedWithinTable ==
  \A p \in DOMAIN table :
    /\ pc # "assigning" => owned[p] \subseteq table[p]
    /\ pc = "revoking" /\ p \notin calls =>
         owned[p] \cap unassignments[p] \subseteq failedShards
    /\ pc = "assigning" =>
         owned[p] \subseteq (table[p] \cup assignments[p]) \ unassignments[p]

(* A pod that waits to be added to the table holds nothing.                *)
NewPodsEmpty ==
  /\ new_pods \cap removed_pods = {}
  /\ \A p \in Pods : ~Up(p) => owned[p] = {}
  /\ \A p \in new_pods \ DOMAIN table : owned[p] = {}
  /\ pc = "down" => \A p \in Pods : owned[p] = {}

OwnersInv ==
  /\ ManagerNeverStopped
  /\ OwnedWithinTable
  /\ NewPodsEmpty

ManagerStopped == budget["manager"] < FaultBudget["manager"]
=============================================================================
