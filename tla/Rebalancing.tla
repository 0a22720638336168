----------------------------- MODULE Rebalancing -----------------------------
(***************************************************************************)
(* The rebalance planner of the shard manager: Rebalance::from_routing_table *)
(* (golem-shard-manager/src/rebalancing.rs).  The function is written as a *)
(* state machine with one action per loop iteration, so that what its      *)
(* loops preserve can be proved for every number of pods and shards.       *)
(*                                                                         *)
(* A BTreeMap<Pod, BTreeSet<ShardId>> is a function from the pods in the   *)
(* map to sets of shards.  A position in the vector of entries is the pod  *)
(* at that position, pods being numbered in the order of the map's keys.   *)
(* In the plan a pod that is absent and a pod with the empty set are the   *)
(* same: either way it is told nothing.                                    *)
(***************************************************************************)
EXTENDS Integers, FiniteSets

CONSTANTS Pods,           \* the pods, numbered in the order of the BTreeMap
          NumberOfShards, \* number_of_shards of the routing table
          Threshold       \* the rebalance threshold, in percent

ASSUME PodsAssumption == Pods \subseteq Nat /\ IsFiniteSet(Pods)
ASSUME ShardsAssumption == NumberOfShards \in Nat
ASSUME ThresholdAssumption == Threshold \in 0 .. 100

Shards == 0 .. NumberOfShards - 1

VARIABLES table,         \* the routing table the plan is made from
          phase,         \* the loop from_routing_table is in
          entries,       \* routing_table_entries, with the plan so far applied
          assignments,   \* Assignments of the plan
          unassignments, \* Unassignments of the plan
          unassigned,    \* what unassigned_shards_iter has still to return
          emptyPods,     \* initial_target_pods
          cursor         \* the pod at position idx, or target_idx

planVars == <<phase, entries, assignments, unassignments, unassigned,
              emptyPods, cursor>>

(* The routing tables: some pods, and some shards with one pod each.       *)
TableOf(P, pod_of) == [p \in P |-> {s \in DOMAIN pod_of : pod_of[s] = p}]
RoutingTables ==
  UNION {{TableOf(P, pod_of) : pod_of \in [S -> P]} :
           P \in SUBSET Pods, S \in SUBSET Shards}

NoShards == [p \in Pods |-> {}]

(* No shard is routed to two pods.                                         *)
Disjoint(t) ==
  \A p, q \in DOMAIN t : p # q => t[p] \cap t[q] = {}

UnassignedShards(t) == {s \in Shards : \A p \in DOMAIN t : s \notin t[p]}

optimal_count == NumberOfShards \div Cardinality(DOMAIN entries)

(* floor(optimal_count * (1 - threshold)) and ceil(optimal_count * (1 +    *)
(* threshold)); the second is computed by the code and only logged.        *)
lower_threshold == (optimal_count * (100 - Threshold)) \div 100
upper_threshold == (optimal_count * (100 + Threshold) + 99) \div 100

IsFirst(p, S) == p \in S /\ \A q \in S : p <= q
IsLast(p, S)  == p \in S /\ \A q \in S : q <= p

(* q comes after p in the round robin over S: idx = (idx + 1) % pod_count. *)
IsNext(q, p, S) ==
  \/ IsFirst(q, {r \in S : r > p})
  \/ IsLast(p, S) /\ IsFirst(q, S)
-----------------------------------------------------------------------------
(* from_routing_table(t), up to its first loop.                            *)
BeginPlan(t) ==
  /\ entries' = t
  /\ assignments' = NoShards
  /\ unassignments' = NoShards
  /\ unassigned' = UnassignedShards(t)
  /\ emptyPods' = {p \in DOMAIN t : t[p] = {}}
  /\ \/ /\ DOMAIN t = {}
        /\ phase' = "done"
        /\ UNCHANGED cursor
     \/ /\ emptyPods' # {}
        /\ phase' = "empty_pods"
        /\ \E p \in Pods : IsFirst(p, emptyPods') /\ cursor' = p
     \/ /\ DOMAIN t # {} /\ emptyPods' = {}
        /\ phase' = "all_pods"
        /\ \E p \in Pods : IsFirst(p, DOMAIN t) /\ cursor' = p

(* A slip: the entry is updated, the plan is not.                          *)
AssignNextUnplanned(s) ==
  /\ IsFirst(s, unassigned)
  /\ unassigned' = unassigned \ {s}
  /\ entries' = [entries EXCEPT ![cursor] = @ \cup {s}]
  /\ UNCHANGED <<assignments, unassignments, emptyPods>>

(* The next unassigned shard goes to the pod at the cursor.                *)
AssignNext(s) ==
  /\ IsFirst(s, unassigned)
  /\ unassigned' = unassigned \ {s}
  /\ assignments' = [assignments EXCEPT ![cursor] = @ \cup {s}]
  /\ entries' = [entries EXCEPT ![cursor] = @ \cup {s}]
  /\ UNCHANGED <<unassignments, emptyPods>>

(* The last of the empty pods is at the optimal count, so all are.         *)
EmptyPodsFull ==
  IsLast(cursor, emptyPods) /\ Cardinality(entries'[cursor]) = optimal_count

AssignToEmptyPod ==
  /\ phase = "empty_pods"
  /\ \E s \in unassigned : AssignNext(s)
  /\ \E p \in Pods :
       /\ cursor' = p
       /\ \/ EmptyPodsFull /\ IsFirst(p, DOMAIN entries) /\ phase' = "all_pods"
          \/ ~EmptyPodsFull /\ IsNext(p, cursor, emptyPods) /\ UNCHANGED phase

EmptyPodsServed ==
  /\ phase = "empty_pods"
  /\ unassigned = {}
  /\ phase' = "all_pods"
  /\ \E p \in Pods : IsFirst(p, DOMAIN entries) /\ cursor' = p
  /\ UNCHANGED <<entries, assignments, unassignments, unassigned, emptyPods>>

AssignToAnyPod ==
  /\ phase = "all_pods"
  /\ \E s \in unassigned : AssignNext(s)
  /\ \E p \in Pods : IsNext(p, cursor, DOMAIN entries) /\ cursor' = p
  /\ UNCHANGED phase

(* A slip: the second distribution loop is left out.                       *)
AllShardsAssignedEarly ==
  /\ phase = "all_pods"
  /\ phase' = IF Cardinality(DOMAIN entries) = 1 THEN "done" ELSE "move"
  /\ \E p \in Pods : IsFirst(p, DOMAIN entries) /\ cursor' = p
  /\ UNCHANGED <<entries, assignments, unassignments, unassigned, emptyPods>>

AllShardsAssigned ==
  /\ phase = "all_pods"
  /\ unassigned = {}
  /\ phase' = IF Cardinality(DOMAIN entries) = 1 THEN "done" ELSE "move"
  /\ \E p \in Pods : IsFirst(p, DOMAIN entries) /\ cursor' = p
  /\ UNCHANGED <<entries, assignments, unassignments, unassigned, emptyPods>>

Sources == {p \in DOMAIN entries \ {cursor} :
              Cardinality(entries[p]) > lower_threshold}

(* A slip: the first pod with a shard to give is the source.               *)
IsFirstSource(p) ==
  IsFirst(p, {q \in DOMAIN entries \ {cursor} : entries[q] # {}})

(* max_by returns the last of several maxima.                              *)
IsLargestSource(p) ==
  /\ p \in Sources
  /\ \A q \in Sources :
       \/ Cardinality(entries[q]) < Cardinality(entries[p])
       \/ Cardinality(entries[q]) = Cardinality(entries[p]) /\ q <= p

(* A slip: the target is taken for balanced one shard too early.           *)
TargetNeedsShardEarly ==
  Cardinality(entries[cursor]) + 1 < lower_threshold /\ Sources # {}

TargetNeedsShard ==
  Cardinality(entries[cursor]) < lower_threshold /\ Sources # {}

(* One round of the loop that moves shards to the pod at the cursor.       *)
MoveShard ==
  /\ phase = "move"
  /\ TargetNeedsShard
  /\ \E src \in DOMAIN entries : \E s \in entries[src] :
       /\ IsLargestSource(src)
       /\ IsFirst(s, entries[src])
       /\ entries' = [entries EXCEPT ![src] = @ \ {s}, ![cursor] = @ \cup {s}]
       /\ assignments' =
            [assignments EXCEPT ![src] = @ \ {s}, ![cursor] = @ \cup {s}]
       /\ unassignments' = [unassignments EXCEPT ![src] = @ \cup {s}]
  /\ UNCHANGED <<phase, unassigned, emptyPods, cursor>>

(* Slips: the loop over the targets runs one position too far, or starts   *)
(* over after the last one.                                                *)
NextTargetPastEnd ==
  /\ phase = "move"
  /\ ~TargetNeedsShard
  /\ cursor' = cursor + 1
  /\ UNCHANGED <<phase, entries, assignments, unassignments, unassigned,
                 emptyPods>>
NextTargetAgain ==
  /\ phase = "move"
  /\ ~TargetNeedsShard
  /\ \E p \in Pods : IsNext(p, cursor, DOMAIN entries) /\ cursor' = p
  /\ UNCHANGED <<phase, entries, assignments, unassignments, unassigned,
                 emptyPods>>

(* The loop over target_idx.                                               *)
NextTarget ==
  /\ phase = "move"
  /\ ~TargetNeedsShard
  /\ \/ /\ IsLast(cursor, DOMAIN entries)
        /\ phase' = "done"
        /\ UNCHANGED cursor
     \/ /\ ~IsLast(cursor, DOMAIN entries)
        /\ \E p \in Pods : IsNext(p, cursor, DOMAIN entries) /\ cursor' = p
        /\ UNCHANGED phase
  /\ UNCHANGED <<entries, assignments, unassignments, unassigned, emptyPods>>

PlanStep ==
  \/ AssignToEmptyPod \/ EmptyPodsServed
  \/ AssignToAnyPod   \/ AllShardsAssigned
  \/ MoveShard        \/ NextTarget
-----------------------------------------------------------------------------
(* The planner on its own, started on every table.                         *)
PlanIdle ==
  /\ phase = "idle"
  /\ entries = [p \in {} |-> {}]
  /\ assignments = NoShards
  /\ unassignments = NoShards
  /\ unassigned = {}
  /\ emptyPods = {}
  /\ cursor = 0

PlanInit ==
  /\ table \in RoutingTables
  /\ PlanIdle

PlanNext ==
  /\ UNCHANGED table
  /\ \/ phase = "idle" /\ BeginPlan(table)
     \/ PlanStep

PlanSpec == PlanInit /\ [][PlanNext]_<<table, planVars>>
PlanFairSpec == PlanSpec /\ WF_<<table, planVars>>(PlanNext)
-----------------------------------------------------------------------------
Phases == {"idle", "empty_pods", "all_pods", "move", "done"}

(* Type invariant of the planner's variables.                              *)
PlanTypeOK ==
  /\ phase \in Phases
  /\ DOMAIN entries \subseteq Pods
  /\ entries \in [DOMAIN entries -> SUBSET Shards]
  /\ assignments \in [Pods -> SUBSET Shards]
  /\ unassignments \in [Pods -> SUBSET Shards]
  /\ unassigned \subseteq Shards
  /\ emptyPods \subseteq DOMAIN entries
  /\ cursor \in Nat
  /\ phase \in {"empty_pods", "all_pods", "move"} => cursor \in DOMAIN entries
  /\ phase = "empty_pods" => cursor \in emptyPods
  /\ table \in [DOMAIN table -> SUBSET Shards]
  /\ DOMAIN table \subseteq Pods

(* The plan and the working copy the loops balance never drift apart:      *)
(* applying the plan built so far to the routing table gives exactly the   *)
(* entries from_routing_table goes on balancing.                           *)
PlanYieldsEntries ==
  phase # "idle" =>
    /\ DOMAIN entries = DOMAIN table
    /\ \A p \in DOMAIN table :
         entries[p] = (table[p] \cup assignments[p]) \ unassignments[p]

(* A plan that has been computed leaves no shard without a pod and gives   *)
(* none to two pods, whichever shards were unassigned or moved.            *)
EveryShardPlacedOnce ==
  phase = "done" /\ DOMAIN table # {} =>
    \A s \in Shards : \E p \in DOMAIN entries :
      \A q \in DOMAIN entries : s \in entries[q] <=> q = p

(* Between several pods the computed plan leaves no pod below the lower    *)
(* threshold: the search for a source never gives up too early.            *)
NoPodStarved ==
  phase = "done" =>
    \A p \in DOMAIN entries : Cardinality(entries[p]) >= lower_threshold

(* Shards are taken only from pods that can spare them: giving shards away *)
(* never makes a pod itself a pod with too few.                            *)
MovesOnlySurplus ==
  \A p \in DOMAIN entries :
    unassignments[p] # {} => Cardinality(entries[p]) >= lower_threshold

(* What the doc comment of from_routing_table says a balanced state is:    *)
(* every pod has a shard count within the threshold of the optimal count.  *)
BalancedWithinThreshold ==
  phase = "done" =>
    \A p \in DOMAIN entries :
      Cardinality(entries[p]) \in lower_threshold .. upper_threshold

(* The loops of from_routing_table end on every table.                     *)
PlanTerminates == <>(phase = "done")
-----------------------------------------------------------------------------
(* The inductive invariant of the planner, as a conjunction of what its    *)
(* loops rely on.                                                          *)

(* The working copy and the shards not yet handed out split the shards.    *)
EntriesSplitShards ==
  /\ DOMAIN entries = DOMAIN table
  /\ Disjoint(entries)
  /\ \A p \in DOMAIN entries : entries[p] \cap unassigned = {}
  /\ \A s \in Shards : s \in unassigned \/ \E p \in DOMAIN entries : s \in entries[p]
  /\ phase \in {"move", "done"} /\ DOMAIN entries # {} => unassigned = {}

(* The plan is about pods of the table, and is what separates the table    *)
(* from the working copy; a pod keeps what the plan assigns to it.         *)
PlanSeparates ==
  /\ \A p \in Pods \ DOMAIN table : assignments[p] = {} /\ unassignments[p] = {}
  /\ \A p \in DOMAIN table :
       /\ entries[p] = (table[p] \cup assignments[p]) \ unassignments[p]
       /\ assignments[p] \subseteq entries[p]

(* A pod that has given shards away is not below the lower threshold, so   *)
(* it never becomes a target afterwards.                                   *)
SourcesStayAbove ==
  /\ phase \in {"empty_pods", "all_pods"} => unassignments = NoShards
  /\ MovesOnlySurplus

PlanInv ==
  phase # "idle" => EntriesSplitShards /\ PlanSeparates /\ SourcesStayAbove
=============================================================================
