-------------------------- MODULE ShardManagerProofs --------------------------
(***************************************************************************)
(* Proofs about the rebalance planner and the shard manager, for every set *)
(* of pods, number of shards, threshold and number of faults.              *)
(***************************************************************************)
EXTENDS ShardManager, IndexLemmas, FiniteSetTheorems, TLAPS

-----------------------------------------------------------------------------
(* The planner.                                                            *)

(* Every set of shards is finite: cardinalities of entries are numbers.    *)
LEMMA ShardSetsFinite ==
  ASSUME NEW S \in SUBSET Shards
  PROVE  IsFiniteSet(S) /\ Cardinality(S) \in Nat
<1>1. IsFiniteSet(Shards)
  BY FS_Interval, ShardsAssumption DEF Shards
<1>2. IsFiniteSet(S)
  BY <1>1, FS_Subset
<1> QED
  BY <1>2, FS_CardinalityType

(* The thresholds are numbers as soon as the table has a pod.              *)
LEMMA LowerThresholdIsNat ==
  ASSUME PlanTypeOK, DOMAIN entries # {}
  PROVE  lower_threshold \in Nat
<1>1. IsFiniteSet(DOMAIN entries)
  BY FS_Subset, PodsAssumption DEF PlanTypeOK
<1>2. Cardinality(DOMAIN entries) \in Nat \ {0}
  BY <1>1, FS_CardinalityType, FS_EmptySet
<1>3. optimal_count \in Nat
  BY <1>2, ShardsAssumption DEF optimal_count
<1>4. optimal_count * (100 - Threshold) \in Nat
  BY <1>3, ThresholdAssumption
<1> QED
  BY <1>4 DEF lower_threshold

(* BeginPlan starts the planner in a state of its invariant on every       *)
(* routing table that routes no shard twice.                               *)
LEMMA BeginPlanEstablishes ==
  ASSUME NEW t, t \in [DOMAIN t -> SUBSET Shards], DOMAIN t \subseteq Pods,
         Disjoint(t), table' = t, cursor \in Nat, BeginPlan(t)
  PROVE  PlanTypeOK' /\ PlanInv'
<1>1. /\ entries' = t /\ assignments' = NoShards /\ unassignments' = NoShards
      /\ unassigned' = UnassignedShards(t)
      /\ emptyPods' = {p \in DOMAIN t : t[p] = {}}
  BY DEF BeginPlan
<1>2. \/ phase' = "done" /\ DOMAIN t = {} /\ cursor' \in Nat
      \/ phase' = "empty_pods" /\ cursor' \in emptyPods'
      \/ phase' = "all_pods" /\ cursor' \in DOMAIN t
  BY DEF BeginPlan, IsFirst
<1>3. PlanTypeOK'
  BY <1>1, <1>2, PodsAssumption DEF PlanTypeOK, Phases, NoShards, UnassignedShards
<1>4. EntriesSplitShards'
  BY <1>1, <1>2 DEF EntriesSplitShards, UnassignedShards, Disjoint
<1>5. PlanSeparates'
  BY <1>1 DEF PlanSeparates, NoShards
<1>6. SourcesStayAbove'
  BY <1>1 DEF SourcesStayAbove, MovesOnlySurplus, NoShards
<1> QED
  BY <1>3, <1>4, <1>5, <1>6 DEF PlanInv

(* What one step of the planner does to the plan and the working copy: it  *)
(* hands an unassigned shard to the pod at the cursor, moves a shard to    *)
(* it, or only moves the cursor on.                                        *)
Hands(s) ==
  /\ s \in unassigned
  /\ unassigned' = unassigned \ {s}
  /\ entries' = [entries EXCEPT ![cursor] = @ \cup {s}]
  /\ assignments' = [assignments EXCEPT ![cursor] = @ \cup {s}]
  /\ unassignments' = unassignments
  /\ phase \in {"empty_pods", "all_pods"}
  /\ phase' \in {"empty_pods", "all_pods"}

Moves(src, s) ==
  /\ src \in DOMAIN entries /\ src # cursor
  /\ s \in entries[src]
  /\ Cardinality(entries[src]) > lower_threshold
  /\ Cardinality(entries[cursor]) < lower_threshold
  /\ unassigned' = unassigned
  /\ entries' = [entries EXCEPT ![src] = @ \ {s}, ![cursor] = @ \cup {s}]
  /\ assignments' = [assignments EXCEPT ![src] = @ \ {s}, ![cursor] = @ \cup {s}]
  /\ unassignments' = [unassignments EXCEPT ![src] = @ \cup {s}]
  /\ phase = "move" /\ phase' = "move"

Advances ==
  /\ UNCHANGED <<entries, assignments, unassignments, unassigned>>
  /\ \/ phase = "empty_pods" /\ unassigned = {} /\ phase' = "all_pods"
     \/ phase = "all_pods" /\ unassigned = {} /\ phase' \in {"move", "done"}
     \/ phase = "move" /\ phase' \in {"move", "done"}

(* Every step of the planner hands out a shard, moves one or advances.     *)
LEMMA PlanStepKinds ==
  ASSUME PlanTypeOK, PlanStep
  PROVE  /\ \/ \E s \in Shards : Hands(s)
            \/ \E src \in Pods : \E s \in Shards : Moves(src, s)
            \/ Advances
         /\ cursor \in DOMAIN entries
         /\ emptyPods' = emptyPods
         /\ phase' \in {"empty_pods", "all_pods", "move"} => cursor' \in DOMAIN entries
         /\ phase' = "empty_pods" => cursor' \in emptyPods
         /\ cursor' \in Nat
<1>1. CASE AssignToEmptyPod
  BY <1>1, PodsAssumption DEF AssignToEmptyPod, AssignNext, Hands, PlanTypeOK, IsFirst, IsNext
<1>2. CASE EmptyPodsServed
  BY <1>2, PodsAssumption DEF EmptyPodsServed, Advances, PlanTypeOK, IsFirst
<1>3. CASE AssignToAnyPod
  BY <1>3, PodsAssumption DEF AssignToAnyPod, AssignNext, Hands, PlanTypeOK, IsFirst, IsNext
<1>4. CASE AllShardsAssigned
  BY <1>4, PodsAssumption DEF AllShardsAssigned, Advances, PlanTypeOK, IsFirst
<1>5. CASE MoveShard
  <2>1. PICK src \in DOMAIN entries : \E s \in entries[src] :
          /\ IsLargestSource(src)
          /\ entries' = [entries EXCEPT ![src] = @ \ {s}, ![cursor] = @ \cup {s}]
          /\ assignments' = [assignments EXCEPT ![src] = @ \ {s}, ![cursor] = @ \cup {s}]
          /\ unassignments' = [unassignments EXCEPT ![src] = @ \cup {s}]
    BY <1>5 DEF MoveShard
  <2>2. PICK s \in entries[src] :
          /\ IsLargestSource(src)
          /\ entries' = [entries EXCEPT ![src] = @ \ {s}, ![cursor] = @ \cup {s}]
          /\ assignments' = [assignments EXCEPT ![src] = @ \ {s}, ![cursor] = @ \cup {s}]
          /\ unassignments' = [unassignments EXCEPT ![src] = @ \cup {s}]
    BY <2>1
  <2>3. src \in Pods /\ s \in Shards
    BY DEF PlanTypeOK
  <2>4. Moves(src, s)
    BY <1>5, <2>2 DEF MoveShard, Moves, IsLargestSource, Sources, TargetNeedsShard
  <2> QED
    BY <1>5, <2>3, <2>4 DEF MoveShard, PlanTypeOK
<1>6. CASE NextTarget
  BY <1>6, PodsAssumption DEF NextTarget, Advances, PlanTypeOK, IsNext, IsFirst
<1> QED
  BY <1>1, <1>2, <1>3, <1>4, <1>5, <1>6 DEF PlanStep

(* Every step of the planner preserves its type invariant.                 *)
LEMMA PlanTypeStep ==
  ASSUME PlanTypeOK, PlanStep, UNCHANGED table
  PROVE  PlanTypeOK'
<1>1. CASE \E s \in Shards : Hands(s)
  BY <1>1, PlanStepKinds DEF PlanTypeOK, Hands, Phases
<1>2. CASE \E src \in Pods : \E s \in Shards : Moves(src, s)
  BY <1>2, PlanStepKinds DEF PlanTypeOK, Moves, Phases
<1>3. CASE Advances
  BY <1>3, PlanStepKinds DEF PlanTypeOK, Advances, Phases
<1> QED
  BY <1>1, <1>2, <1>3, PlanStepKinds

(* The step that hands out an unassigned shard keeps the plan and the      *)
(* working copy together.                                                  *)
LEMMA HandsPreserves ==
  ASSUME PlanTypeOK, PlanTypeOK', PlanInv, UNCHANGED table, cursor \in DOMAIN entries,
         NEW s \in Shards, Hands(s)
  PROVE  PlanInv'
<1>1. /\ EntriesSplitShards /\ PlanSeparates /\ unassignments = NoShards
      /\ DOMAIN entries' = DOMAIN entries
  BY DEF PlanInv, Hands, SourcesStayAbove, PlanTypeOK
<1>2. EntriesSplitShards'
  BY <1>1 DEF EntriesSplitShards, Hands, Disjoint, PlanTypeOK
<1>3. PlanSeparates'
  BY <1>1 DEF PlanSeparates, EntriesSplitShards, Hands, PlanTypeOK, NoShards
<1>4. SourcesStayAbove'
  BY <1>1 DEF SourcesStayAbove, MovesOnlySurplus, Hands, NoShards, PlanTypeOK
<1> QED
  BY <1>2, <1>3, <1>4 DEF PlanInv

(* The step that moves a shard does too: its target has never given a      *)
(* shard away, because it is below the threshold.                          *)
LEMMA MovesPreserves ==
  ASSUME PlanTypeOK, PlanTypeOK', PlanInv, UNCHANGED table, cursor \in DOMAIN entries,
         NEW src \in Pods, NEW s \in Shards, Moves(src, s)
  PROVE  PlanInv'
<1>1. /\ EntriesSplitShards /\ PlanSeparates /\ MovesOnlySurplus
      /\ DOMAIN entries' = DOMAIN entries
      /\ phase' = "move"
      /\ cursor \in Pods
  BY DEF PlanInv, Moves, SourcesStayAbove, PlanTypeOK
<1>2. lower_threshold \in Nat /\ lower_threshold' = lower_threshold
  BY <1>1, LowerThresholdIsNat DEF lower_threshold, optimal_count
<1>3. \A p \in DOMAIN entries :
        /\ IsFiniteSet(entries[p]) /\ Cardinality(entries[p]) \in Nat
  BY ShardSetsFinite DEF PlanTypeOK
<1>4. unassignments[cursor] = {}
  BY <1>1, <1>2, <1>3 DEF MovesOnlySurplus, Moves
<1>5. /\ entries'[src] = entries[src] \ {s}
      /\ entries'[cursor] = entries[cursor] \cup {s}
      /\ \A p \in DOMAIN entries : p # src /\ p # cursor => entries'[p] = entries[p]
      /\ assignments'[src] = assignments[src] \ {s}
      /\ assignments'[cursor] = assignments[cursor] \cup {s}
      /\ \A p \in Pods : p # src /\ p # cursor => assignments'[p] = assignments[p]
      /\ unassignments'[src] = unassignments[src] \cup {s}
      /\ \A p \in Pods : p # src => unassignments'[p] = unassignments[p]
  BY <1>1 DEF Moves, PlanTypeOK
<1>6. src # cursor /\ src \in DOMAIN entries /\ s \in entries[src]
  BY DEF Moves
<1>7. EntriesSplitShards'
  <2>1. Disjoint(entries')
    BY <1>1, <1>5, <1>6 DEF EntriesSplitShards, Disjoint
  <2>2. \A p \in DOMAIN entries : entries'[p] \cap unassigned = {}
    BY <1>1, <1>5, <1>6 DEF EntriesSplitShards
  <2>3. \A r \in Shards : r \in unassigned \/ \E p \in DOMAIN entries : r \in entries'[p]
    BY <1>1, <1>5, <1>6 DEF EntriesSplitShards
  <2> QED
    BY <1>1, <2>1, <2>2, <2>3 DEF EntriesSplitShards, Moves
<1>8. PlanSeparates'
  <2>1. \A p \in Pods \ DOMAIN table : assignments'[p] = {} /\ unassignments'[p] = {}
    BY <1>1, <1>5, <1>6 DEF PlanSeparates, EntriesSplitShards
  <2>2. ASSUME NEW p \in DOMAIN table
        PROVE  /\ entries'[p] = (table[p] \cup assignments'[p]) \ unassignments'[p]
               /\ assignments'[p] \subseteq entries'[p]
    <3>1. CASE p = src
      BY <1>1, <1>5, <1>6, <3>1 DEF PlanSeparates
    <3>2. CASE p = cursor
      BY <1>1, <1>4, <1>5, <1>6, <3>2 DEF PlanSeparates
    <3>3. CASE p # src /\ p # cursor
      BY <1>1, <1>5, <3>3 DEF PlanSeparates, PlanTypeOK, EntriesSplitShards
    <3> QED
      BY <3>1, <3>2, <3>3
  <2> QED
    BY <2>1, <2>2 DEF PlanSeparates
<1>9. MovesOnlySurplus'
  <2>1. Cardinality(entries'[src]) >= lower_threshold
    <3>1. Cardinality(entries[src] \ {s}) = Cardinality(entries[src]) - 1
      BY <1>3, <1>6, FS_RemoveElement
    <3>2. Cardinality(entries[src]) > lower_threshold
      BY DEF Moves
    <3>3. Cardinality(entries[src]) - 1 >= lower_threshold
      BY <1>2, <1>3, <1>6, <3>2
    <3> QED
      BY <1>5, <3>1, <3>3, Zenon
  <2>2. unassignments'[cursor] = {}
    BY <1>1, <1>4, <1>5, <1>6
  <2> QED
    BY <1>1, <1>2, <1>5, <2>1, <2>2 DEF MovesOnlySurplus, PlanTypeOK
<1> QED
  BY <1>1, <1>7, <1>8, <1>9 DEF PlanInv, SourcesStayAbove

(* Every step of the planner preserves its inductive invariant.            *)
LEMMA PlanInvStep ==
  ASSUME PlanTypeOK, PlanInv, PlanStep, UNCHANGED table
  PROVE  PlanInv'
<1>1. PlanTypeOK' /\ cursor \in DOMAIN entries
  BY PlanTypeStep, PlanStepKinds
<1>2. ASSUME NEW s \in Shards, Hands(s) PROVE PlanInv'
  BY <1>1, <1>2, HandsPreserves
<1>3. ASSUME NEW src \in Pods, NEW s \in Shards, Moves(src, s) PROVE PlanInv'
  BY <1>1, <1>3, MovesPreserves
<1>4. CASE Advances
  <2>1. phase # "idle" /\ EntriesSplitShards /\ PlanSeparates /\ SourcesStayAbove
    BY <1>4 DEF Advances, PlanInv
  <2>2. EntriesSplitShards'
    BY <1>4, <2>1 DEF Advances, EntriesSplitShards, Disjoint
  <2>3. PlanSeparates'
    BY <1>4, <2>1 DEF Advances, PlanSeparates
  <2>4. SourcesStayAbove'
    BY <1>4, <2>1 DEF Advances, SourcesStayAbove, MovesOnlySurplus, lower_threshold,
       optimal_count
  <2> QED
    BY <2>2, <2>3, <2>4 DEF PlanInv
<1> QED
  BY <1>2, <1>3, <1>4, PlanStepKinds

(* A routing table has shards for some of the pods, none for two.          *)
LEMMA TableTypes ==
  ASSUME NEW t \in RoutingTables
  PROVE  DOMAIN t \subseteq Pods /\ t \in [DOMAIN t -> SUBSET Shards] /\ Disjoint(t)
<1>1. PICK P \in SUBSET Pods, S \in SUBSET Shards :
        t \in {TableOf(P, pod_of) : pod_of \in [S -> P]}
  BY DEF RoutingTables
<1>2. PICK pod_of \in [S -> P] : t = TableOf(P, pod_of)
  BY <1>1
<1> QED
  BY <1>2 DEF TableOf, Disjoint

(* The planner's invariant holds throughout, on every routing table.       *)
THEOREM PlanInvariant == PlanSpec => [](PlanTypeOK /\ PlanInv)
<1>1. PlanInit => PlanTypeOK /\ PlanInv
  BY TableTypes DEF PlanInit, PlanIdle, PlanTypeOK, PlanInv, Phases, NoShards
<1>2. PlanTypeOK /\ PlanInv /\ Disjoint(table) /\ [PlanNext]_<<table, planVars>>
        => (PlanTypeOK /\ PlanInv /\ Disjoint(table))'
  <2> SUFFICES ASSUME PlanTypeOK, PlanInv, Disjoint(table), [PlanNext]_<<table, planVars>>
               PROVE  (PlanTypeOK /\ PlanInv /\ Disjoint(table))'
    OBVIOUS
  <2>1. table' = table
    BY DEF PlanNext, planVars
  <2>2. CASE phase = "idle" /\ BeginPlan(table)
    BY <2>1, <2>2, BeginPlanEstablishes DEF PlanTypeOK
  <2>3. CASE PlanStep
    BY <2>1, <2>3, PlanTypeStep, PlanInvStep
  <2>4. CASE UNCHANGED <<table, planVars>>
    BY <2>4 DEF planVars, PlanTypeOK, PlanInv, EntriesSplitShards, PlanSeparates,
       SourcesStayAbove, MovesOnlySurplus, lower_threshold, optimal_count, Disjoint
  <2> QED
    BY <2>1, <2>2, <2>3, <2>4 DEF PlanNext, Disjoint
<1>3. PlanInit => Disjoint(table)
  BY TableTypes DEF PlanInit
<1> QED
  BY <1>1, <1>2, <1>3, PTL DEF PlanSpec

(* Applying the plan built so far to the table always gives the working    *)
(* copy (PlanYieldsEntries).                                               *)
THEOREM PlanMatchesWorkingCopy == PlanSpec => []PlanYieldsEntries
<1>1. PlanInv => PlanYieldsEntries
  BY DEF PlanInv, EntriesSplitShards, PlanSeparates, PlanYieldsEntries
<1> QED
  BY <1>1, PlanInvariant, PTL

(* A finished plan gives every shard to exactly one pod, for every number  *)
(* of pods and shards (EveryShardPlacedOnce).                              *)
THEOREM PlanPlacesShardsOnce == PlanSpec => []EveryShardPlacedOnce
<1>1. PlanTypeOK /\ PlanInv => EveryShardPlacedOnce
  <2> SUFFICES ASSUME PlanTypeOK, PlanInv, phase = "done", DOMAIN table # {}, NEW s \in Shards
               PROVE  \E p \in DOMAIN entries :
                        \A q \in DOMAIN entries : s \in entries[q] <=> q = p
    BY DEF EveryShardPlacedOnce
  <2>1. EntriesSplitShards /\ unassigned = {}
    BY DEF PlanInv, EntriesSplitShards
  <2>2. PICK p \in DOMAIN entries : s \in entries[p]
    BY <2>1 DEF EntriesSplitShards
  <2> QED
    BY <2>1, <2>2 DEF EntriesSplitShards, Disjoint
<1> QED
  BY <1>1, PlanInvariant, PTL

(* At no moment of the planning has a pod given away more than it can      *)
(* spare: a pod some shard was taken from is at or above the lower         *)
(* threshold (MovesOnlySurplus).                                           *)
THEOREM PlanTakesOnlySurplus == PlanSpec => []MovesOnlySurplus
<1> DEFINE Idle == phase = "idle" => DOMAIN entries = {}
<1>1. PlanInit => Idle
  BY DEF PlanInit, PlanIdle
<1>2. PlanTypeOK /\ PlanInv /\ Idle /\ [PlanNext]_<<table, planVars>> => Idle'
  <2> SUFFICES ASSUME PlanTypeOK, Idle, [PlanNext]_<<table, planVars>>
               PROVE  Idle'
    OBVIOUS
  <2>1. CASE BeginPlan(table)
    BY <2>1 DEF BeginPlan
  <2>2. CASE PlanStep
    BY <2>2 DEF PlanStep, AssignToEmptyPod, EmptyPodsServed, AssignToAnyPod,
       AllShardsAssigned, MoveShard, NextTarget
  <2>3. CASE UNCHANGED <<table, planVars>>
    BY <2>3 DEF planVars
  <2> QED
    BY <2>1, <2>2, <2>3 DEF PlanNext
<1>3. PlanInv /\ Idle => MovesOnlySurplus
  BY DEF PlanInv, SourcesStayAbove, MovesOnlySurplus
<1> QED
  <2>1. PlanSpec => []Idle
    BY <1>1, <1>2, PlanInvariant, PTL DEF PlanSpec
  <2> QED
    BY <1>3, <2>1, PlanInvariant, PTL

-----------------------------------------------------------------------------
(***************************************************************************)
(* The search for a source never gives up too early.  If no pod but the    *)
(* target has more than the lower threshold and the target has less, then  *)
(* the pods together have less than the number of pods times the optimal   *)
(* count, which is less than all shards: but after the distribution every  *)
(* shard is with some pod.                                                 *)
(***************************************************************************)
HeldBy(f, S) == UNION {f[p] : p \in S}

(* A union of sets has no more elements than they have together.           *)
LEMMA UnionSize ==
  ASSUME NEW A, NEW B, IsFiniteSet(A), IsFiniteSet(B)
  PROVE  /\ IsFiniteSet(A \cup B) /\ Cardinality(A \cup B) \in Nat
         /\ Cardinality(A \cup B) <= Cardinality(A) + Cardinality(B)
<1>1. /\ IsFiniteSet(A \cup B) /\ Cardinality(A \cup B) \in Nat
      /\ Cardinality(A \cup B) = Cardinality(A) + Cardinality(B) - Cardinality(A \cap B)
  BY FS_Union, FS_CardinalityType
<1>2. Cardinality(A) \in Nat /\ Cardinality(B) \in Nat /\ Cardinality(A \cap B) \in Nat
  BY FS_CardinalityType, FS_Intersection
<1> QED
  BY <1>1, <1>2

(* The sets of a finite set of pods, each of at most L elements.           *)
LEMMA HeldByBound ==
  ASSUME NEW D, IsFiniteSet(D), NEW f, NEW L \in Nat,
         \A p \in D : IsFiniteSet(f[p]) /\ Cardinality(f[p]) <= L
  PROVE  IsFiniteSet(HeldBy(f, D)) /\ Cardinality(HeldBy(f, D)) <= Cardinality(D) * L
<1> DEFINE Good(S) == IsFiniteSet(HeldBy(f, S))
                      /\ Cardinality(HeldBy(f, S)) <= Cardinality(S) * L
           Bad == {n \in Nat : \E S \in SUBSET D : Cardinality(S) = n /\ ~Good(S)}
<1>0. \A S \in SUBSET D : IsFiniteSet(S) /\ Cardinality(S) \in Nat
  BY FS_Subset, FS_CardinalityType
<1>1. SUFFICES ASSUME Bad # {} PROVE FALSE
  <2>1. Cardinality(D) \in Nat /\ D \in SUBSET D
    BY <1>0
  <2> HIDE DEF Good
  <2>2. Good(D)
    BY <1>1, <2>1
  <2> QED
    BY <2>2 DEF Good
<1>2. PICK n \in Bad : \A i \in Bad : n <= i
  <2>1. Bad \in SUBSET Nat
    OBVIOUS
  <2> HIDE DEF Bad
  <2> QED
    BY <1>1, <2>1, LeastIndex
<1>3. PICK S \in SUBSET D : Cardinality(S) = n /\ ~Good(S)
  <2> HIDE DEF Good
  <2> QED
    BY <1>2
<1>4. S # {}
  <2>1. HeldBy(f, {}) = {} /\ Cardinality({}) = 0 /\ IsFiniteSet({})
    BY FS_EmptySet DEF HeldBy
  <2>2. Good({})
    <3>1. Cardinality({}) * L = 0
      BY <2>1
    <3>2. Cardinality(HeldBy(f, {})) = 0
      BY <2>1
    <3>3. Cardinality(HeldBy(f, {})) <= Cardinality({}) * L
      BY ONLY <3>1, <3>2
    <3> QED
      BY <2>1, <3>3
  <2> HIDE DEF Good
  <2> QED
    BY <1>3, <2>2
<1>5. PICK x \in S : TRUE
  BY <1>4
<1>6. PICK R \in SUBSET D : R = S \ {x}
  OBVIOUS
<1>7. Cardinality(R) = n - 1 /\ n \in Nat /\ n - 1 \in Nat
  <2>1. Cardinality(S \ {x}) = Cardinality(S) - 1
    BY <1>0, <1>5, FS_RemoveElement
  <2> QED
    BY <1>0, <1>2, <1>3, <1>6, <2>1
<1>8. Good(R)
  <2> HIDE DEF Good
  <2> QED
    BY <1>2, <1>7
<1>9. HeldBy(f, S) = HeldBy(f, R) \cup f[x]
  BY <1>5, <1>6 DEF HeldBy
<1>10. /\ IsFiniteSet(HeldBy(f, R)) /\ IsFiniteSet(f[x])
       /\ Cardinality(HeldBy(f, R)) \in Nat /\ Cardinality(f[x]) \in Nat
       /\ Cardinality(HeldBy(f, R)) <= (n - 1) * L /\ Cardinality(f[x]) <= L
  BY <1>5, <1>7, <1>8, FS_CardinalityType
<1>11. /\ IsFiniteSet(HeldBy(f, S)) /\ Cardinality(HeldBy(f, S)) \in Nat
       /\ Cardinality(HeldBy(f, S)) <= Cardinality(HeldBy(f, R)) + Cardinality(f[x])
  BY <1>9, <1>10, UnionSize
<1>12. (n - 1) * L + L = n * L /\ (n - 1) * L \in Nat /\ n * L \in Nat
  BY <1>7
<1>13. Cardinality(HeldBy(f, S)) <= n * L
  BY ONLY <1>10, <1>11, <1>12, L \in Nat
<1>14. Good(S)
  BY <1>3, <1>11, <1>13
<1> QED
  BY <1>3, <1>14

(* One set that is smaller makes the bound strict.                         *)
LEMMA HeldByLess ==
  ASSUME NEW D, IsFiniteSet(D), NEW f, NEW L \in Nat,
         \A p \in D : IsFiniteSet(f[p]) /\ Cardinality(f[p]) <= L,
         NEW x \in D, Cardinality(f[x]) < L
  PROVE  Cardinality(HeldBy(f, D)) < Cardinality(D) * L
<1>1. PICK R \in SUBSET D : R = D \ {x}
  OBVIOUS
<1>2. PICK n \in Nat : n = Cardinality(D)
  BY FS_CardinalityType
<1>3. IsFiniteSet(R) /\ Cardinality(R) = n - 1 /\ n - 1 \in Nat
  <2>1. IsFiniteSet(R) /\ Cardinality(R) = Cardinality(D) - 1
    BY <1>1, FS_RemoveElement
  <2> QED
    BY <1>2, <2>1, FS_CardinalityType
<1>4. IsFiniteSet(HeldBy(f, R)) /\ Cardinality(HeldBy(f, R)) <= (n - 1) * L
  <2>1. IsFiniteSet(HeldBy(f, R)) /\ Cardinality(HeldBy(f, R)) <= Cardinality(R) * L
    BY <1>3, HeldByBound
  <2> QED
    BY <1>3, <2>1
<1>5. HeldBy(f, D) = HeldBy(f, R) \cup f[x]
  BY <1>1 DEF HeldBy
<1>6. /\ Cardinality(HeldBy(f, D)) \in Nat /\ Cardinality(HeldBy(f, R)) \in Nat
      /\ Cardinality(f[x]) \in Nat
      /\ Cardinality(HeldBy(f, D)) <= Cardinality(HeldBy(f, R)) + Cardinality(f[x])
  BY <1>4, <1>5, UnionSize, FS_CardinalityType
<1>7. (n - 1) * L + L = n * L /\ (n - 1) * L \in Nat /\ n * L \in Nat
  BY <1>3
<1>8. Cardinality(HeldBy(f, D)) < n * L
  BY ONLY <1>4, <1>6, <1>7, L \in Nat, Cardinality(f[x]) < L
<1> QED
  BY <1>2, <1>8

(* The lower threshold is at most an equal share of the shards.            *)
LEMMA LowerThresholdIsFair ==
  ASSUME PlanTypeOK, DOMAIN entries # {}
  PROVE  /\ Cardinality(DOMAIN entries) \in Nat \ {0}
         /\ Cardinality(DOMAIN entries) * lower_threshold <= NumberOfShards
<1>1. IsFiniteSet(DOMAIN entries)
  BY FS_Subset, PodsAssumption DEF PlanTypeOK
<1>2. PICK n \in Nat \ {0} : n = Cardinality(DOMAIN entries)
  BY <1>1, FS_CardinalityType, FS_EmptySet
<1>3. PICK o \in Nat : o = optimal_count
  BY <1>2, ShardsAssumption DEF optimal_count
<1>4. n * o <= NumberOfShards
  BY <1>2, <1>3, ShardsAssumption DEF optimal_count
<1>5. PICK a \in Nat : a = o * (100 - Threshold)
  BY <1>3, ThresholdAssumption
<1>6. a <= o * 100
  BY <1>3, <1>5, ThresholdAssumption
<1>7. lower_threshold = a \div 100
  BY <1>3, <1>5 DEF lower_threshold
<1>8. lower_threshold \in Nat /\ lower_threshold <= o
  BY <1>3, <1>5, <1>6, <1>7
<1>9. n * lower_threshold <= n * o
  BY <1>2, <1>3, <1>8
<1>10. n * o \in Nat /\ n * lower_threshold \in Nat
  BY <1>2, <1>3, <1>8
<1> QED
  BY <1>2, <1>4, <1>9, <1>10, ShardsAssumption

(* Where every shard is with some pod, a target below the threshold has a  *)
(* source.                                                                 *)
LEMMA SourceExists ==
  ASSUME PlanTypeOK, cursor \in DOMAIN entries,
         \A s \in Shards : \E p \in DOMAIN entries : s \in entries[p],
         Cardinality(entries[cursor]) < lower_threshold
  PROVE  Sources # {}
<1> SUFFICES ASSUME Sources = {} PROVE FALSE
  OBVIOUS
<1>1. PICK L \in Nat : L = lower_threshold
  BY LowerThresholdIsNat
<1>2. PICK D : D = DOMAIN entries
  OBVIOUS
<1>3. IsFiniteSet(D)
  BY <1>2, FS_Subset, PodsAssumption DEF PlanTypeOK
<1>4. \A p \in D : IsFiniteSet(entries[p]) /\ Cardinality(entries[p]) \in Nat
  BY <1>2, ShardSetsFinite DEF PlanTypeOK
<1>5. \A p \in D : Cardinality(entries[p]) <= L
  BY <1>1, <1>2, <1>4 DEF Sources
<1>6. HeldBy(entries, D) = Shards
  BY <1>2 DEF HeldBy, PlanTypeOK
<1>7. Cardinality(HeldBy(entries, D)) < Cardinality(D) * L
  BY <1>1, <1>2, <1>3, <1>4, <1>5, HeldByLess
<1>8. Cardinality(Shards) = NumberOfShards
  <2>1. 0 \in Int /\ NumberOfShards - 1 \in Int
    BY ShardsAssumption
  <2>2. Cardinality(0 .. NumberOfShards - 1)
          = IF 0 > NumberOfShards - 1 THEN 0 ELSE NumberOfShards - 1 - 0 + 1
    BY <2>1, FS_Interval
  <2> QED
    BY <2>2, ShardsAssumption DEF Shards
<1>9. Cardinality(D) \in Nat /\ Cardinality(D) * L <= NumberOfShards
  BY <1>1, <1>2, LowerThresholdIsFair
<1>10. Cardinality(D) * L \in Nat
  BY <1>9
<1> QED
  BY <1>6, <1>7, <1>8, <1>9, <1>10, ShardsAssumption

(* The targets the last loop has passed are served.                        *)
TargetsServed ==
  /\ phase = "move" =>
       \A p \in DOMAIN entries : p < cursor => Cardinality(entries[p]) >= lower_threshold
  /\ NoPodStarved

(* A shard that moves leaves no pod below the threshold that was not.      *)
LEMMA MovesServe ==
  ASSUME PlanTypeOK, cursor \in DOMAIN entries, NEW src \in Pods, NEW s \in Shards,
         Moves(src, s), NEW p \in DOMAIN entries,
         Cardinality(entries[p]) >= lower_threshold
  PROVE  Cardinality(entries'[p]) >= lower_threshold
<1>1. lower_threshold \in Nat
  BY LowerThresholdIsNat
<1>2. IsFiniteSet(entries[p]) /\ Cardinality(entries[p]) \in Nat
  BY ShardSetsFinite DEF PlanTypeOK
<1>3. p # cursor
  BY <1>1, <1>2 DEF Moves
<1>4. CASE p = src
  <2>1. entries'[p] = entries[p] \ {s} /\ s \in entries[p]
        /\ Cardinality(entries[p]) > lower_threshold
    BY <1>3, <1>4 DEF Moves, PlanTypeOK
  <2>2. Cardinality(entries[p] \ {s}) = Cardinality(entries[p]) - 1
    BY <1>2, <2>1, FS_RemoveElement
  <2>3. Cardinality(entries[p]) - 1 >= lower_threshold
    BY <1>1, <1>2, <2>1
  <2> QED
    BY <2>1, <2>2, <2>3, Zenon
<1>5. CASE p # src
  <2>1. entries'[p] = entries[p]
    BY <1>3, <1>5 DEF Moves, PlanTypeOK
  <2> QED
    BY <2>1
<1> QED
  BY <1>4, <1>5

(* Every step of the planner keeps the targets it has passed served.       *)
LEMMA ServedStep ==
  ASSUME PlanTypeOK, PlanInv, TargetsServed, PlanStep, UNCHANGED table
  PROVE  TargetsServed'
<1>0. /\ PlanTypeOK' /\ PlanInv' /\ cursor \in DOMAIN entries /\ phase # "idle"
      /\ phase # "done"
  <2>1. phase # "idle" /\ phase # "done"
    BY DEF PlanStep, AssignToEmptyPod, EmptyPodsServed, AssignToAnyPod, AllShardsAssigned,
       MoveShard, NextTarget
  <2> QED
    BY <2>1, PlanTypeStep, PlanInvStep, PlanStepKinds
<1>1. \A p \in DOMAIN entries : p \in Nat
  BY PodsAssumption DEF PlanTypeOK
<1>2. lower_threshold \in Nat
  BY <1>0, LowerThresholdIsNat
<1>3. \A p \in DOMAIN entries : Cardinality(entries[p]) \in Nat
  BY ShardSetsFinite DEF PlanTypeOK
<1>4. CASE AssignToEmptyPod \/ EmptyPodsServed \/ AssignToAnyPod
  <2>1. phase' \in {"empty_pods", "all_pods"}
    BY <1>4 DEF AssignToEmptyPod, EmptyPodsServed, AssignToAnyPod
  <2> QED
    BY <2>1 DEF TargetsServed, NoPodStarved
<1>5. CASE AllShardsAssigned
  <2>1. /\ entries' = entries /\ unassigned = {} /\ IsFirst(cursor', DOMAIN entries)
        /\ phase' = IF Cardinality(DOMAIN entries) = 1 THEN "done" ELSE "move"
    BY <1>5 DEF AllShardsAssigned
  <2>2. lower_threshold' = lower_threshold
    BY <2>1 DEF lower_threshold, optimal_count
  <2>3. CASE Cardinality(DOMAIN entries) = 1
    <3>1. PICK p : DOMAIN entries = {p}
      <4>1. IsFiniteSet(DOMAIN entries)
        BY FS_Subset, PodsAssumption DEF PlanTypeOK
      <4> QED
        BY <2>3, <4>1, FS_Singleton
    <3>2. \A s \in Shards : \E q \in DOMAIN entries : s \in entries[q]
      BY <1>0, <2>1 DEF PlanInv, EntriesSplitShards
    <3>3. cursor = p
      BY <1>0, <3>1
    <3>4. Cardinality(entries[cursor]) >= lower_threshold
      <4>1. SUFFICES ASSUME Cardinality(entries[cursor]) < lower_threshold PROVE FALSE
        BY <1>0, <1>2, <1>3
      <4>2. Sources # {}
        BY <1>0, <3>2, <4>1, SourceExists
      <4> QED
        BY <3>1, <3>3, <4>2 DEF Sources
    <3> QED
      BY <2>1, <2>2, <2>3, <3>1, <3>3, <3>4 DEF TargetsServed, NoPodStarved
  <2>4. CASE Cardinality(DOMAIN entries) # 1
    <3>1. cursor' \in DOMAIN entries /\ \A p \in DOMAIN entries : ~(p < cursor')
      BY <1>1, <2>1 DEF IsFirst
    <3> QED
      BY <2>1, <2>4, <3>1 DEF TargetsServed, NoPodStarved
  <2> QED
    BY <2>3, <2>4
<1>6. CASE MoveShard
  <2>1. PICK src \in Pods, s \in Shards : Moves(src, s)
    <3>1. ~(\E s \in Shards : Hands(s))
      BY <1>6 DEF MoveShard, Hands
    <3>2. ~Advances
      <4> SUFFICES ASSUME Advances PROVE FALSE
        OBVIOUS
      <4>1. PICK src \in DOMAIN entries : \E s \in entries[src] :
              /\ IsLargestSource(src)
              /\ entries' = [entries EXCEPT ![src] = @ \ {s}, ![cursor] = @ \cup {s}]
        BY <1>6 DEF MoveShard
      <4>2. src # cursor
        BY <4>1 DEF IsLargestSource, Sources
      <4>3. \E s \in entries[src] : entries'[src] = entries[src] \ {s}
        BY <4>1, <4>2 DEF PlanTypeOK
      <4> QED
        BY <4>3 DEF Advances
    <3> QED
      BY <3>1, <3>2, PlanStepKinds
  <2>2. /\ DOMAIN entries' = DOMAIN entries /\ cursor' = cursor
        /\ phase = "move" /\ phase' = "move"
    BY <1>6, <2>1 DEF Moves, MoveShard
  <2>3. lower_threshold' = lower_threshold
    BY <2>2 DEF lower_threshold, optimal_count
  <2>4. ASSUME NEW p \in DOMAIN entries, p < cursor
        PROVE  Cardinality(entries'[p]) >= lower_threshold
    <3>1. Cardinality(entries[p]) >= lower_threshold
      BY <2>2, <2>4 DEF TargetsServed
    <3> QED
      BY <1>0, <2>1, <3>1, MovesServe
  <2> QED
    BY <2>2, <2>3, <2>4 DEF TargetsServed, NoPodStarved
<1>7. CASE NextTarget
  <2>1. phase = "move" /\ entries' = entries /\ ~TargetNeedsShard
    BY <1>7 DEF NextTarget
  <2>2. lower_threshold' = lower_threshold
    BY <2>1 DEF lower_threshold, optimal_count
  <2>3. Cardinality(entries[cursor]) >= lower_threshold
    <3>1. SUFFICES ASSUME Cardinality(entries[cursor]) < lower_threshold PROVE FALSE
      BY <1>0, <1>2, <1>3
    <3>2. \A s \in Shards : \E q \in DOMAIN entries : s \in entries[q]
      BY <1>0, <2>1 DEF PlanInv, EntriesSplitShards
    <3>3. Sources # {}
      BY <1>0, <3>1, <3>2, SourceExists
    <3> QED
      BY <2>1, <3>1, <3>3 DEF TargetNeedsShard
  <2>4. ASSUME NEW p \in DOMAIN entries, p <= cursor
        PROVE  Cardinality(entries[p]) >= lower_threshold
    <3>1. p = cursor \/ p < cursor
      BY <1>0, <1>1, <2>4
    <3> QED
      BY <2>1, <2>3, <3>1 DEF TargetsServed
  <2>5. CASE IsLast(cursor, DOMAIN entries)
    <3>1. phase' = "done"
      BY <1>7, <2>5 DEF NextTarget
    <3> QED
      BY <2>1, <2>2, <2>4, <2>5, <3>1 DEF TargetsServed, NoPodStarved, IsLast
  <2>6. CASE ~IsLast(cursor, DOMAIN entries)
    <3>1. phase' = "move" /\ IsNext(cursor', cursor, DOMAIN entries)
      BY <1>7, <2>1, <2>6 DEF NextTarget
    <3>2. IsFirst(cursor', {r \in DOMAIN entries : r > cursor})
      BY <2>6, <3>1 DEF IsNext
    <3>3. \A p \in DOMAIN entries : p < cursor' => p <= cursor
      BY <1>0, <1>1, <3>2 DEF IsFirst
    <3> QED
      BY <2>1, <2>2, <2>4, <3>1, <3>3 DEF TargetsServed, NoPodStarved
  <2> QED
    BY <2>5, <2>6
<1> QED
  BY <1>4, <1>5, <1>6, <1>7 DEF PlanStep

(* A finished plan leaves no pod below the lower threshold, on every       *)
(* routing table and for every number of pods and shards (NoPodStarved).   *)
THEOREM PlanServesEveryPod == PlanSpec => []NoPodStarved
<1>1. PlanInit => TargetsServed
  BY DEF PlanInit, PlanIdle, TargetsServed, NoPodStarved
<1>2. PlanTypeOK /\ PlanInv /\ TargetsServed /\ [PlanNext]_<<table, planVars>>
        => TargetsServed'
  <2> SUFFICES ASSUME PlanTypeOK, PlanInv, TargetsServed, [PlanNext]_<<table, planVars>>
               PROVE  TargetsServed'
    OBVIOUS
  <2>1. CASE BeginPlan(table)
    <3>1. entries' = table /\ (phase' = "done" => DOMAIN table = {}) /\ phase' # "move"
      BY <2>1 DEF BeginPlan
    <3> QED
      BY <3>1 DEF TargetsServed, NoPodStarved
  <2>2. CASE PlanStep /\ UNCHANGED table
    BY <2>2, ServedStep
  <2>3. CASE UNCHANGED <<table, planVars>>
    BY <2>3 DEF planVars, TargetsServed, NoPodStarved, lower_threshold, optimal_count
  <2> QED
    BY <2>1, <2>2, <2>3 DEF PlanNext
<1>3. TargetsServed => NoPodStarved
  BY DEF TargetsServed
<1> QED
  BY <1>1, <1>2, <1>3, PlanInvariant, PTL DEF PlanSpec

-----------------------------------------------------------------------------
(* The shard manager.                                                      *)

routingVars == <<table, planVars, pc, persisted>>

(* The initial state has all parts of the invariants.                      *)
LEMMA InitInv == Init => TypeOK /\ RoutingInv /\ PlanComplete
<1> SUFFICES ASSUME Init PROVE TypeOK /\ RoutingInv /\ PlanComplete
  OBVIOUS
<1>1. table = NoTable /\ persisted = NoTable /\ DOMAIN NoTable = {}
  BY DEF Init, NoTable
<1>2. TypeOK
  BY <1>1, FaultBudgetAssumption
     DEF Init, TypeOK, PlanTypeOK, PlanIdle, NoTable, Phases, PcValues, NoShards
<1>3. RoutingInv
  BY <1>1 DEF Init, RoutingInv, RoutingExclusive, Disjoint, PlannerActive, PlanIdle,
              PlanInv, PlanSafe
<1>4. PlanComplete
  BY <1>1 DEF PlanComplete
<1> QED
  BY <1>2, <1>3, <1>4

(* The invariant of the tables and the plan is a property of these         *)
(* variables alone.                                                        *)
LEMMA RoutingUnchanged ==
  ASSUME RoutingInv, UNCHANGED routingVars
  PROVE  RoutingInv'
BY DEF RoutingInv, routingVars, planVars, RoutingExclusive, Disjoint, PlannerActive,
       PlanInv, EntriesSplitShards, PlanSeparates, SourcesStayAbove,
       MovesOnlySurplus, lower_threshold, optimal_count, PlanSafe

(* The plan is applied to a table it was made for: no shard is routed      *)
(* twice afterwards, and no pod is added.                                  *)
LEMMA RebalancedExclusive ==
  ASSUME TypeOK, RoutingInv, pc = "assigning"
  PROVE  /\ DOMAIN Rebalanced(table, assignments, unassignments) = DOMAIN table
         /\ Disjoint(Rebalanced(table, assignments, unassignments))
         /\ \A p \in DOMAIN table : Rebalanced(table, assignments, unassignments)[p]
              = (table[p] \cup assignments[p]) \ unassignments[p]
<1> DEFINE t == Rebalanced(table, assignments, unassignments)
<1>1. PlanSafe /\ Disjoint(table)
  BY DEF RoutingInv, RoutingExclusive
<1>2. DOMAIN t = DOMAIN table \cup PodsTold(assignments) \cup PodsTold(unassignments)
  BY DEF Rebalanced
<1>3. DOMAIN t = DOMAIN table
  BY <1>1, <1>2 DEF PlanSafe, PodsTold
<1>4. \A p \in DOMAIN table : t[p] = (table[p] \cup assignments[p]) \ unassignments[p]
  BY <1>3 DEF Rebalanced
<1>5. ASSUME NEW p \in DOMAIN table, NEW q \in DOMAIN table, p # q
      PROVE  t[p] \cap t[q] = {}
  <2>1. p \in Pods /\ q \in Pods
    BY DEF TypeOK, PlanTypeOK
  <2>2. table[p] \cap table[q] = {}
    BY <1>1, <1>5 DEF Disjoint
  <2>3. /\ assignments[p] \cap assignments[q] = {}
        /\ assignments[p] \cap table[q] \subseteq unassignments[q]
        /\ assignments[q] \cap table[p] \subseteq unassignments[p]
    BY <1>1, <1>5, <2>1 DEF PlanSafe
  <2> QED
    BY <1>4, <2>2, <2>3
<1> QED
  BY <1>3, <1>4, <1>5 DEF Disjoint

(* A finished plan, completed by the full assignments of the returned      *)
(* pods, is safe to execute.                                               *)
LEMMA PlanReadySafe ==
  ASSUME TypeOK, RoutingInv, PlanReady
  PROVE  PlanSafe'
<1>1. /\ EntriesSplitShards /\ PlanSeparates
      /\ table' = table /\ unassignments' = unassignments
      /\ assignments' = [p \in Pods |->
           IF p \in returned THEN FullAssignment(p) ELSE assignments[p]]
  BY DEF PlanReady, RoutingInv, PlanInv
<1>2. \A p \in Pods \ DOMAIN table : assignments'[p] = {} /\ unassignments'[p] = {}
  BY <1>1 DEF PlanSeparates, TypeOK
<1>3. \A p \in DOMAIN table :
        assignments'[p] \subseteq entries[p] /\ entries[p] \cap unassignments[p] = {}
  BY <1>1 DEF PlanSeparates, FullAssignment, TypeOK, PlanTypeOK
<1>4. \A p, q \in DOMAIN table : p # q => entries[p] \cap entries[q] = {}
  BY <1>1 DEF EntriesSplitShards, Disjoint
<1>5. \A q \in DOMAIN table : table[q] \ entries[q] \subseteq unassignments[q]
  BY <1>1 DEF PlanSeparates
<1>6. \A p \in Pods : assignments'[p] \cap unassignments'[p] = {}
  BY <1>1, <1>2, <1>3
<1>7. \A p, q \in Pods : p # q => assignments'[p] \cap assignments'[q] = {}
  BY <1>2, <1>3, <1>4
<1>8. \A p \in Pods, q \in DOMAIN table :
        p # q => assignments'[p] \cap table[q] \subseteq unassignments[q]
  BY <1>2, <1>3, <1>4, <1>5
<1> QED
  BY <1>1, <1>2, <1>6, <1>7, <1>8 DEF PlanSafe

(* Dropping what could not be revoked keeps the plan safe.                 *)
LEMMA RevokesDoneSafe ==
  ASSUME TypeOK, RoutingInv, RevokesDone
  PROVE  PlanSafe'
<1>1. /\ PlanSafe /\ pc = "revoking" /\ table' = table
      /\ \A p \in Pods : /\ assignments'[p] = assignments[p] \ failedShards
                         /\ unassignments'[p] = unassignments[p] \ failedShards
  BY DEF RevokesDone, WithoutFailed, RoutingInv
<1>2. DOMAIN table \subseteq Pods
  BY DEF TypeOK, PlanTypeOK
<1> QED
  BY <1>1, <1>2 DEF PlanSafe

(* The table with the pod changes of one round, as WakeUp leaves it.       *)
LEMMA WakeUpTable ==
  ASSUME TypeOK, RoutingInv, WakeUp
  PROVE  /\ DOMAIN table' \subseteq Pods
         /\ table' \in [DOMAIN table' -> SUBSET Shards]
         /\ Disjoint(table')
         /\ returned' \subseteq DOMAIN table'
         /\ \A p \in DOMAIN table' :
              \/ p \in DOMAIN table /\ table'[p] = table[p]
              \/ p \in new_pods /\ table'[p] = {}
                   /\ p \notin DOMAIN table \ removed_pods
<1> DEFINE kept == DOMAIN table \ removed_pods
<1>1. /\ table' = [p \in kept \cup new_pods |-> IF p \in kept THEN table[p] ELSE {}]
      /\ returned' = new_pods \cap kept
  BY DEF WakeUp
<1>2. /\ DOMAIN table' = kept \cup new_pods
      /\ \A p \in kept : table'[p] = table[p]
      /\ \A p \in new_pods \ kept : table'[p] = {}
  BY <1>1
<1>3. Disjoint(table)
  BY DEF RoutingInv, RoutingExclusive
<1>4. Disjoint(table')
  BY <1>2, <1>3 DEF Disjoint
<1>5. table' \in [DOMAIN table' -> SUBSET Shards]
  BY <1>1 DEF TypeOK, PlanTypeOK
<1> QED
  BY <1>1, <1>2, <1>4, <1>5 DEF TypeOK, PlanTypeOK

LEMMA WakeUpPlans ==
  ASSUME TypeOK, RoutingInv, WakeUp
  PROVE  PlanTypeOK' /\ PlanInv' /\ phase' # "idle"
<1>1. BeginPlan(table') /\ cursor \in Nat
  BY DEF WakeUp, TypeOK, PlanTypeOK
<1>2. PlanTypeOK' /\ PlanInv'
  BY <1>1, WakeUpTable, BeginPlanEstablishes
<1> QED
  BY <1>1, <1>2 DEF BeginPlan

LEMMA TypeStep ==
  ASSUME TypeOK, RoutingInv, [Next]_vars
  PROVE  TypeOK'
<1> USE DEF TypeOK, managerVars, healthVars, executorVars, Fault, FaultKinds, PcValues
<1>1. ASSUME NEW p \in Pods, ExecutorStart(p) PROVE TypeOK'
  BY <1>1 DEF ExecutorStart, planVars, PlanTypeOK
<1>2. ASSUME NEW p \in Pods, Register(p) PROVE TypeOK'
  BY <1>2 DEF Register, RegisterPod, planVars, PlanTypeOK
<1>3. ASSUME NEW p \in Pods, ExecutorStop(p) PROVE TypeOK'
  BY <1>3 DEF ExecutorStop, planVars, PlanTypeOK
<1>4. CASE HealthCheckStart
  BY <1>4 DEF HealthCheckStart, planVars, PlanTypeOK
<1>5. CASE HealthCheckAnswer
  BY <1>5 DEF HealthCheckAnswer, Unhealthy, planVars, PlanTypeOK
<1>6. ASSUME NEW p \in Pods, Unregister(p) PROVE TypeOK'
  BY <1>6 DEF Unregister, UnregisterPod, planVars, PlanTypeOK
<1>7. CASE ManagerStart
  <2>1. table' = persisted /\ pc' = "waiting" /\ returned' = {} /\ PlanTypeOK'
    BY <1>7 DEF ManagerStart, planVars, PlanTypeOK, RoutingInv, PlannerActive
  <2>2. /\ removed_pods' \subseteq DOMAIN persisted
        /\ new_pods' \subseteq DOMAIN persisted
        /\ budget' \in [FaultKinds -> Nat]
    BY <1>7 DEF ManagerStart, Unhealthy
  <2> QED
    BY <1>7, <2>1, <2>2 DEF ManagerStart
<1>8. CASE WakeUp
  BY <1>8, WakeUpTable, WakeUpPlans DEF WakeUp
<1>9. CASE Plan
  <2>1. PlanTypeOK'
    BY <1>9, PlanTypeStep DEF Plan
  <2> QED
    BY <1>9, <2>1 DEF Plan
<1>10. CASE PlanReady
  <2>1. assignments' \in [Pods -> SUBSET Shards]
    BY <1>10 DEF PlanReady, FullAssignment, PlanTypeOK
  <2>2. PlanTypeOK'
    BY <1>10, <2>1 DEF PlanReady, DropPlannerLocals, NoTable, PlanTypeOK, Phases
  <2> QED
    BY <1>10, <2>2 DEF PlanReady, PodsTold, PlanTypeOK
<1>11. ASSUME NEW p \in Pods, RevokeAnswered(p) PROVE TypeOK'
  <2>1. PlanTypeOK'
    BY <1>11 DEF RevokeAnswered, planVars, PlanTypeOK
  <2>2. unassignments[p] \subseteq Shards
    BY DEF PlanTypeOK
  <2> QED
    BY <1>11, <2>1, <2>2 DEF RevokeAnswered, RevokeShards, CallFails
<1>12. CASE RevokesDone
  <2>1. PlanTypeOK'
    BY <1>12 DEF RevokesDone, WithoutFailed, PlanTypeOK, Phases
  <2> QED
    BY <1>12, <2>1 DEF RevokesDone, PodsTold
<1>13. ASSUME NEW p \in Pods, AssignAnswered(p) PROVE TypeOK'
  <2>1. PlanTypeOK'
    BY <1>13 DEF AssignAnswered, planVars, PlanTypeOK
  <2>2. assignments[p] \subseteq Shards
    BY DEF PlanTypeOK
  <2> QED
    BY <1>13, <2>1, <2>2 DEF AssignAnswered, AssignShards, CallFails
<1>14. CASE ApplyPlan
  <2>1. /\ DOMAIN table' = DOMAIN table
        /\ table' \in [DOMAIN table -> SUBSET Shards]
    BY <1>14, RebalancedExclusive DEF ApplyPlan, Rebalanced, PlanTypeOK
  <2>2. PlanTypeOK'
    BY <1>14, <2>1 DEF ApplyPlan, planVars, PlanTypeOK
  <2> QED
    BY <1>14, <2>1, <2>2 DEF ApplyPlan
<1>15. CASE PersistTable
  <2>1. PlanTypeOK'
    BY <1>15 DEF PersistTable, PlanTypeOK, NoShards
  <2> QED
    BY <1>15, <2>1 DEF PersistTable, PlanTypeOK
<1>16. CASE PersistFails
  <2>1. PlanTypeOK'
    BY <1>16 DEF PersistFails, DropLoopLocals, DropPlannerLocals, NoTable, NoShards,
                 PlanTypeOK, Phases
  <2> QED
    BY <1>16, <2>1 DEF PersistFails, DropLoopLocals
<1>17. CASE ManagerStop
  <2>1. PlanTypeOK'
    BY <1>17 DEF ManagerStop, DropLoopLocals, DropPlannerLocals, NoTable, NoShards,
                 PlanTypeOK, Phases
  <2>2. budget' \in [FaultKinds -> Nat]
    BY <1>17 DEF ManagerStop
  <2>3. /\ pc' = "down" /\ returned' = {} /\ calls' = {} /\ failedShards' = {}
        /\ new_pods' = {} /\ removed_pods' = {} /\ notified' = FALSE
        /\ checking' = {} /\ failedPods' = {}
        /\ persisted' = persisted /\ status' = status /\ owned' = owned
    BY <1>17 DEF ManagerStop, DropLoopLocals
  <2> QED
    BY <2>1, <2>2, <2>3
<1>18. CASE UNCHANGED vars
  BY <1>18 DEF vars, planVars, PlanTypeOK
<1> QED
  BY <1>1, <1>2, <1>3, <1>4, <1>5, <1>6, <1>7, <1>8, <1>9, <1>10, <1>11, <1>12,
     <1>13, <1>14, <1>15, <1>16, <1>17, <1>18
     DEF Next, Loop, HealthCheck, Executors

LEMMA RoutingStep ==
  ASSUME TypeOK, RoutingInv, [Next]_vars
  PROVE  RoutingInv'
<1> USE DEF managerVars
<1>1. ASSUME NEW p \in Pods, ExecutorStart(p) \/ Register(p) \/ ExecutorStop(p)
      PROVE  RoutingInv'
  BY <1>1, RoutingUnchanged DEF ExecutorStart, Register, ExecutorStop, routingVars
<1>2. CASE HealthCheck
  BY <1>2, RoutingUnchanged
     DEF HealthCheck, HealthCheckStart, HealthCheckAnswer, Unregister, routingVars
<1>3. ASSUME NEW p \in Pods, RevokeAnswered(p) \/ AssignAnswered(p)
      PROVE  RoutingInv'
  BY <1>3, RoutingUnchanged DEF RevokeAnswered, AssignAnswered, routingVars
<1>4. CASE UNCHANGED vars
  BY <1>4, RoutingUnchanged DEF vars, routingVars
<1>5. CASE ManagerStart
  <2>1. phase = "idle" /\ phase' = "idle" /\ pc' = "waiting"
        /\ table' = persisted /\ persisted' = persisted
    BY <1>5 DEF ManagerStart, planVars, RoutingInv, PlannerActive
  <2> QED
    BY <2>1 DEF RoutingInv, RoutingExclusive, Disjoint, PlannerActive, PlanInv, PlanSafe
<1>6. CASE WakeUp
  <2>1. pc' = "planning" /\ persisted' = persisted
    BY <1>6 DEF WakeUp
  <2> QED
    BY <1>6, <2>1, WakeUpTable, WakeUpPlans
       DEF RoutingInv, RoutingExclusive, Disjoint, PlannerActive, PlanSafe
<1>7. CASE Plan
  <2>1. /\ pc = "planning" /\ pc' = "planning" /\ PlanStep
        /\ table' = table /\ persisted' = persisted
    BY <1>7 DEF Plan
  <2>2. PlanInv' /\ phase' # "idle"
    BY <2>1, PlanInvStep DEF TypeOK, RoutingInv, PlanStep, AssignToEmptyPod,
       EmptyPodsServed, AssignToAnyPod, AllShardsAssigned, MoveShard, NextTarget
  <2> QED
    BY <2>1, <2>2 DEF RoutingInv, RoutingExclusive, Disjoint, PlannerActive, PlanSafe
<1>8. CASE PlanReady
  <2>1. /\ phase' = "idle" /\ pc' = "revoking"
        /\ table' = table /\ persisted' = table
    BY <1>8 DEF PlanReady, DropPlannerLocals
  <2> QED
    BY <1>8, <2>1, PlanReadySafe
       DEF RoutingInv, RoutingExclusive, Disjoint, PlannerActive, PlanInv
<1>9. CASE RevokesDone
  <2>1. /\ phase' = phase /\ pc = "revoking" /\ pc' = "assigning"
        /\ table' = table /\ persisted' = persisted
    BY <1>9 DEF RevokesDone
  <2> QED
    BY <1>9, <2>1, RevokesDoneSafe
       DEF RoutingInv, RoutingExclusive, Disjoint, PlannerActive, PlanInv
<1>10. CASE ApplyPlan
  <2>1. /\ phase' = phase /\ pc = "assigning" /\ pc' = "persisting"
        /\ table' = Rebalanced(table, assignments, unassignments)
        /\ persisted' = persisted
    BY <1>10 DEF ApplyPlan, planVars
  <2>2. Disjoint(table')
    BY <2>1, RebalancedExclusive
  <2> QED
    BY <2>1, <2>2
       DEF RoutingInv, RoutingExclusive, Disjoint, PlannerActive, PlanInv, PlanSafe
<1>11. CASE PersistTable
  <2>1. /\ phase' = phase /\ pc = "persisting" /\ pc' = "waiting"
        /\ table' = table /\ persisted' = table
    BY <1>11 DEF PersistTable
  <2> QED
    BY <2>1 DEF RoutingInv, RoutingExclusive, Disjoint, PlannerActive, PlanInv, PlanSafe
<1>12. CASE PersistFails
  <2>1. /\ phase' = "idle" /\ pc' = "panicked"
        /\ table' = table /\ persisted' = persisted
    BY <1>12 DEF PersistFails, DropLoopLocals, DropPlannerLocals
  <2> QED
    BY <2>1 DEF RoutingInv, RoutingExclusive, Disjoint, PlannerActive, PlanInv, PlanSafe
<1>13. CASE ManagerStop
  <2>1. /\ phase' = "idle" /\ pc' = "down"
        /\ DOMAIN table' = {} /\ persisted' = persisted
    BY <1>13 DEF ManagerStop, DropLoopLocals, DropPlannerLocals, NoTable
  <2> QED
    BY <2>1 DEF RoutingInv, RoutingExclusive, Disjoint, PlannerActive, PlanInv, PlanSafe
<1> QED
  BY <1>1, <1>2, <1>3, <1>4, <1>5, <1>6, <1>7, <1>8, <1>9, <1>10, <1>11, <1>12, <1>13
     DEF Next, Loop, Executors

(* The type invariant and the inductive invariant behind the properties of *)
(* the routing tables hold together in every state of the manager.         *)
THEOREM RoutingInvariant == Spec => [](TypeOK /\ RoutingInv)
<1>1. Init => TypeOK /\ RoutingInv
  BY InitInv
<1>2. TypeOK /\ RoutingInv /\ [Next]_vars => (TypeOK /\ RoutingInv)'
  BY TypeStep, RoutingStep
<1> QED
  BY <1>1, <1>2, PTL DEF Spec

(* The type invariant of the shard manager, the executors and the planner  *)
(* inside it holds in every state, whatever fails.                         *)
THEOREM TypeCorrect == Spec => []TypeOK
BY RoutingInvariant, PTL

(* Neither the routing table in memory nor the persisted one ever routes a *)
(* shard to two pods, for any number of pods, shards and faults.           *)
THEOREM RoutingSafe == Spec => []RoutingExclusive
<1>1. TypeOK /\ RoutingInv => RoutingExclusive
  BY DEF RoutingInv
<1> QED
  BY <1>1, RoutingInvariant, PTL
-----------------------------------------------------------------------------
(* No shard is left behind by a rebalance.                                 *)

LEMMA PlanReadyComplete ==
  ASSUME TypeOK, RoutingInv, PlanReady, DOMAIN table # {}, NEW s \in Shards
  PROVE  \E p \in DOMAIN table : s \in (table[p] \cup assignments'[p]) \ unassignments[p]
<1>1. /\ EntriesSplitShards /\ PlanSeparates /\ phase = "done"
      /\ \A p \in Pods : assignments[p] \subseteq assignments'[p]
  BY DEF PlanReady, RoutingInv, PlanInv, FullAssignment
<1>2. PICK p \in DOMAIN table : s \in entries[p]
  BY <1>1 DEF EntriesSplitShards
<1>3. s \in (table[p] \cup assignments[p]) \ unassignments[p] /\ p \in Pods
  BY <1>1, <1>2 DEF PlanSeparates, TypeOK, PlanTypeOK
<1> QED
  BY <1>1, <1>2, <1>3

LEMMA PlanCompleteStep ==
  ASSUME TypeOK, RoutingInv, PlanComplete, [Next]_vars
  PROVE  PlanComplete'
<1> USE DEF managerVars
<1>1. ASSUME UNCHANGED <<table, planVars, pc, failedShards>>
      PROVE  PlanComplete'
  BY <1>1 DEF planVars, PlanComplete, AllShardsRouted, UnassignedShards
<1>2. ASSUME NEW p \in Pods, ExecutorStart(p) \/ Register(p) \/ ExecutorStop(p)
      PROVE  PlanComplete'
  BY <1>1, <1>2 DEF ExecutorStart, Register, ExecutorStop
<1>3. CASE HealthCheck
  BY <1>1, <1>3 DEF HealthCheck, HealthCheckStart, HealthCheckAnswer, Unregister
<1>4. ASSUME NEW p \in Pods, AssignAnswered(p)
      PROVE  PlanComplete'
  BY <1>1, <1>4 DEF AssignAnswered
<1>5. CASE UNCHANGED vars
  BY <1>1, <1>5 DEF vars
<1>6. ASSUME NEW p \in Pods, RevokeAnswered(p)
      PROVE  PlanComplete'
  BY <1>6 DEF RevokeAnswered, planVars, PlanComplete, AllShardsRouted
<1>7. CASE ManagerStart \/ WakeUp \/ Plan \/ PersistTable \/ PersistFails \/ ManagerStop
  <2>1. pc' \notin {"revoking", "assigning", "persisting"}
    BY <1>7 DEF ManagerStart, WakeUp, Plan, PersistTable, PersistFails, ManagerStop
  <2> QED
    BY <2>1 DEF PlanComplete, AllShardsRouted
<1>8. CASE PlanReady
  <2>1. table' = table /\ unassignments' = unassignments /\ pc' = "revoking"
    BY <1>8 DEF PlanReady
  <2> QED
    BY <1>8, <2>1, PlanReadyComplete DEF PlanComplete, AllShardsRouted
<1>9. CASE RevokesDone
  <2>1. /\ table' = table /\ pc = "revoking" /\ pc' = "assigning"
        /\ failedShards' = failedShards
        /\ \A p \in Pods : /\ assignments'[p] = assignments[p] \ failedShards
                           /\ unassignments'[p] = unassignments[p] \ failedShards
    BY <1>9 DEF RevokesDone, WithoutFailed
  <2>2. DOMAIN table \subseteq Pods
    BY DEF TypeOK, PlanTypeOK
  <2> QED
    BY <2>1, <2>2 DEF PlanComplete, AllShardsRouted
<1>10. CASE ApplyPlan
  <2>1. /\ pc = "assigning" /\ pc' = "persisting" /\ failedShards' = failedShards
        /\ table' = Rebalanced(table, assignments, unassignments)
    BY <1>10 DEF ApplyPlan
  <2>2. /\ DOMAIN table' = DOMAIN table
        /\ \A p \in DOMAIN table :
             table'[p] = (table[p] \cup assignments[p]) \ unassignments[p]
    BY <2>1, RebalancedExclusive
  <2> QED
    BY <2>1, <2>2 DEF PlanComplete, AllShardsRouted, UnassignedShards
<1> QED
  BY <1>2, <1>3, <1>4, <1>5, <1>6, <1>7, <1>8, <1>9, <1>10 DEF Next, Loop, Executors

(* After every rebalance, the shards without a pod are among the ones a    *)
(* pod did not confirm to have given up (AllShardsRouted).                 *)
THEOREM RebalanceLeavesNoShard == Spec => []AllShardsRouted
<1>1. Init => PlanComplete
  BY InitInv
<1>2. TypeOK /\ RoutingInv /\ PlanComplete /\ [Next]_vars => PlanComplete'
  BY PlanCompleteStep
<1>3. PlanComplete => AllShardsRouted
  BY DEF PlanComplete, AllShardsRouted
<1> QED
  BY <1>1, <1>2, <1>3, RoutingInvariant, PTL DEF Spec
-----------------------------------------------------------------------------
(* The executors, while the manager itself does not stop.                  *)

ownerVars == <<table, assignments, unassignments, pc, calls, failedShards, owned,
               status, new_pods, removed_pods>>

LEMMA OwnersExclude ==
  ASSUME TypeOK, RoutingInv, OwnersInv
  PROVE  OwnersExclusive
<1>1. CASE pc = "assigning"
  BY <1>1, RebalancedExclusive DEF OwnersInv, OwnedWithinTable, OwnersExclusive, Disjoint
<1>2. CASE pc # "assigning"
  BY <1>2 DEF RoutingInv, RoutingExclusive, Disjoint, OwnersInv, OwnedWithinTable,
              OwnersExclusive
<1> QED
  BY <1>1, <1>2

LEMMA OwnersStepExecutors ==
  ASSUME TypeOK, RoutingInv, OwnersInv, NEW p \in Pods,
         ExecutorStart(p) \/ Register(p) \/ ExecutorStop(p) \/ Unregister(p)
  PROVE  OwnersInv'
<1>1. CASE ExecutorStart(p)
  BY <1>1 DEF ExecutorStart, managerVars, planVars, TypeOK, OwnersInv,
              ManagerNeverStopped, OwnedWithinTable, NewPodsEmpty, Up
<1>2. CASE Register(p)
  <2>1. owned[p] = {} /\ owned' = owned /\ ManagerNeverStopped'
    BY <1>2
       DEF ManagerNeverStopped, Register, Fault, FaultKinds, TypeOK, OwnersInv, NewPodsEmpty, Up
  <2>2. OwnedWithinTable'
    BY <1>2, <2>1 DEF Register, planVars, OwnersInv, OwnedWithinTable
  <2>3. NewPodsEmpty'
    BY <1>2, <2>1 DEF Register, RegisterPod, TypeOK, OwnersInv, NewPodsEmpty, Up
  <2> QED
    BY <2>1, <2>2, <2>3 DEF OwnersInv
<1>3. CASE ExecutorStop(p)
  <2>1. ManagerNeverStopped'
    BY <1>3 DEF ManagerNeverStopped, ExecutorStop, Fault, FaultKinds, TypeOK, OwnersInv
  <2>2. /\ owned'[p] = {} /\ \A q \in Pods \ {p} : owned'[q] = owned[q]
        /\ \A q \in Pods \ {p} : status'[q] = status[q]
    BY <1>3 DEF ExecutorStop, TypeOK
  <2>3. OwnedWithinTable'
    BY <1>3, <2>2 DEF ExecutorStop, managerVars, planVars, OwnersInv, OwnedWithinTable,
                      TypeOK, PlanTypeOK
  <2>4. NewPodsEmpty'
    BY <1>3, <2>2 DEF ExecutorStop, managerVars, OwnersInv, NewPodsEmpty, Up, TypeOK
  <2> QED
    BY <2>1, <2>3, <2>4 DEF OwnersInv
<1>4. CASE Unregister(p)
  BY <1>4 DEF Unregister, UnregisterPod, planVars, executorVars, OwnersInv,
              ManagerNeverStopped, OwnedWithinTable, NewPodsEmpty, Up
<1> QED
  BY <1>1, <1>2, <1>3, <1>4

(* Giving up or taking shards leaves the executors within the plan.        *)
LEMMA OwnersStepCalls ==
  ASSUME TypeOK, RoutingInv, OwnersInv, NEW p \in Pods,
         RevokeAnswered(p) \/ AssignAnswered(p)
  PROVE  OwnersInv'
<1>1. /\ table' = table /\ assignments' = assignments /\ unassignments' = unassignments
      /\ pc' = pc /\ calls' = calls \ {p} /\ status' = status
      /\ new_pods' = new_pods /\ removed_pods' = removed_pods
      /\ failedShards \subseteq failedShards'
  BY DEF RevokeAnswered, AssignAnswered, planVars
<1>2. ManagerNeverStopped'
  BY DEF ManagerNeverStopped, RevokeAnswered, AssignAnswered, CallFails, Fault,
         FaultKinds, TypeOK, OwnersInv
<1>3. \A q \in Pods \ {p} : owned'[q] = owned[q]
  BY DEF RevokeAnswered, AssignAnswered, RevokeShards, AssignShards, TypeOK
<1>4. CASE RevokeAnswered(p)
  <2>1. /\ pc = "revoking" /\ owned'[p] \subseteq owned[p]
        /\ owned'[p] \cap unassignments[p] \subseteq failedShards'
    BY <1>4 DEF RevokeAnswered, RevokeShards, TypeOK
  <2>2. OwnedWithinTable'
    BY <1>1, <1>3, <2>1 DEF OwnersInv, OwnedWithinTable, TypeOK, PlanTypeOK
  <2>3. NewPodsEmpty'
    BY <1>1, <1>3, <2>1 DEF OwnersInv, NewPodsEmpty, Up, TypeOK
  <2> QED
    BY <1>2, <2>2, <2>3 DEF OwnersInv
<1>5. CASE AssignAnswered(p)
  <2>1. /\ pc = "assigning"
        /\ \/ owned'[p] = owned[p]
           \/ Up(p) /\ owned'[p] = owned[p] \cup assignments[p]
    BY <1>5 DEF AssignAnswered, AssignShards, TypeOK
  <2>2. /\ assignments[p] \cap unassignments[p] = {}
        /\ p \notin DOMAIN table => assignments[p] = {}
    BY <2>1 DEF RoutingInv, PlanSafe
  <2>3. OwnedWithinTable'
    BY <1>1, <1>3, <2>1, <2>2 DEF OwnersInv, OwnedWithinTable, TypeOK, PlanTypeOK
  <2>4. NewPodsEmpty'
    BY <1>1, <1>3, <2>1, <2>2 DEF OwnersInv, NewPodsEmpty, Up, TypeOK
  <2> QED
    BY <1>2, <2>3, <2>4 DEF OwnersInv
<1> QED
  BY <1>4, <1>5

(* The steps of the loop that call nobody.                                 *)
LEMMA OwnersStepLoop ==
  ASSUME TypeOK, RoutingInv, OwnersInv,
         \/ WakeUp \/ Plan \/ PlanReady \/ RevokesDone \/ ApplyPlan \/ PersistTable
         \/ PersistFails
  PROVE  OwnersInv'
<1>1. /\ owned' = owned /\ status' = status /\ pc # "down" /\ pc' # "down"
      /\ ManagerNeverStopped'
  BY DEF WakeUp, Plan, PlanReady, RevokesDone, ApplyPlan, PersistTable, PersistFails,
         executorVars, managerVars, OwnersInv, ManagerNeverStopped, Fault, FaultKinds,
         TypeOK
<1>2. CASE WakeUp
  <2>1. pc = "waiting" /\ pc' = "planning" /\ new_pods' = {} /\ removed_pods' = {}
    BY <1>2 DEF WakeUp
  <2>2. \A p \in DOMAIN table' : owned[p] \subseteq table'[p]
    BY <1>2, <2>1, WakeUpTable DEF OwnersInv, OwnedWithinTable, NewPodsEmpty
  <2> QED
    BY <1>1, <2>1, <2>2 DEF OwnersInv, OwnedWithinTable, NewPodsEmpty, Up
<1>3. ASSUME new_pods' = new_pods, removed_pods' = removed_pods,
             DOMAIN table' = DOMAIN table
      PROVE  NewPodsEmpty'
  BY <1>1, <1>3 DEF OwnersInv, NewPodsEmpty, Up
<1>4. CASE Plan \/ PersistTable \/ PersistFails
  <2>1. /\ table' = table /\ new_pods' = new_pods /\ removed_pods' = removed_pods
        /\ pc \notin {"revoking", "assigning"} /\ pc' \notin {"revoking", "assigning"}
    BY <1>4 DEF Plan, PersistTable, PersistFails, managerVars
  <2>2. OwnedWithinTable'
    BY <1>1, <2>1 DEF OwnersInv, OwnedWithinTable
  <2> QED
    BY <1>1, <1>3, <2>1, <2>2 DEF OwnersInv
<1>5. CASE PlanReady
  <2>1. /\ table' = table /\ new_pods' = new_pods /\ removed_pods' = removed_pods
        /\ pc = "planning" /\ pc' = "revoking" /\ calls' = PodsTold(unassignments)
        /\ unassignments' = unassignments
    BY <1>5 DEF PlanReady
  <2>2. \A p \in DOMAIN table : p \notin calls' => unassignments'[p] = {}
    BY <2>1 DEF PodsTold, TypeOK, PlanTypeOK
  <2>3. OwnedWithinTable'
    BY <1>1, <2>1, <2>2 DEF OwnersInv, OwnedWithinTable
  <2> QED
    BY <1>1, <1>3, <2>1, <2>3 DEF OwnersInv
<1>6. CASE RevokesDone
  <2>1. /\ table' = table /\ new_pods' = new_pods /\ removed_pods' = removed_pods
        /\ pc = "revoking" /\ pc' = "assigning" /\ calls = {}
        /\ \A p \in Pods : unassignments'[p] = unassignments[p] \ failedShards
    BY <1>6 DEF RevokesDone, WithoutFailed
  <2>2. OwnedWithinTable'
    BY <1>1, <2>1 DEF OwnersInv, OwnedWithinTable, TypeOK, PlanTypeOK
  <2> QED
    BY <1>1, <1>3, <2>1, <2>2 DEF OwnersInv
<1>7. CASE ApplyPlan
  <2>1. /\ new_pods' = new_pods /\ removed_pods' = removed_pods
        /\ pc = "assigning" /\ pc' = "persisting"
        /\ table' = Rebalanced(table, assignments, unassignments)
    BY <1>7 DEF ApplyPlan
  <2>2. /\ DOMAIN table' = DOMAIN table
        /\ \A p \in DOMAIN table :
             table'[p] = (table[p] \cup assignments[p]) \ unassignments[p]
    BY <2>1, RebalancedExclusive
  <2>3. OwnedWithinTable'
    BY <1>1, <2>1, <2>2 DEF OwnersInv, OwnedWithinTable
  <2> QED
    BY <1>1, <1>3, <2>1, <2>2, <2>3 DEF OwnersInv
<1> QED
  BY <1>2, <1>4, <1>5, <1>6, <1>7

LEMMA OwnersStep ==
  ASSUME TypeOK, RoutingInv, OwnersInv, [Next]_vars
  PROVE  OwnersInv' \/ ManagerStopped'
<1>1. ASSUME UNCHANGED ownerVars, budget'["manager"] = budget["manager"]
      PROVE  OwnersInv'
  BY <1>1 DEF ownerVars, OwnersInv, ManagerNeverStopped, OwnedWithinTable,
              NewPodsEmpty, Up
<1>2. CASE HealthCheckStart \/ HealthCheckAnswer \/ UNCHANGED vars
  <2>1. UNCHANGED ownerVars
    BY <1>2 DEF HealthCheckStart, HealthCheckAnswer, vars, ownerVars, planVars,
                managerVars, executorVars
  <2>2. budget'["manager"] = budget["manager"]
    BY <1>2 DEF HealthCheckStart, HealthCheckAnswer, vars, Unhealthy, Fault, FaultKinds,
                TypeOK
  <2> QED
    BY <1>1, <2>1, <2>2
<1>3. CASE ManagerStart
  <2>1. /\ pc = "down" /\ pc' = "waiting" /\ owned' = owned /\ status' = status
        /\ new_pods' \cap removed_pods' = {}
    BY <1>3 DEF ManagerStart, executorVars
  <2>2. \A p \in Pods : owned[p] = {}
    BY <2>1 DEF OwnersInv, NewPodsEmpty
  <2>3. ManagerNeverStopped'
    BY <1>3 DEF ManagerNeverStopped, ManagerStart, Unhealthy, Fault, FaultKinds, TypeOK,
                OwnersInv
  <2>4. new_pods' \subseteq Pods /\ DOMAIN table' \subseteq Pods
    BY <1>3 DEF ManagerStart, TypeOK
  <2> QED
    BY <2>1, <2>2, <2>3, <2>4 DEF OwnersInv, OwnedWithinTable, NewPodsEmpty, Up
<1>4. CASE ManagerStop
  <2>1. budget'["manager"] = budget["manager"] - 1 /\ budget["manager"] \in Nat
    BY <1>4 DEF ManagerStop, Fault, FaultKinds, TypeOK
  <2> QED
    BY <2>1 DEF OwnersInv, ManagerNeverStopped, ManagerStopped
<1> QED
  BY <1>2, <1>3, <1>4, OwnersStepExecutors, OwnersStepCalls, OwnersStepLoop
     DEF Next, Loop, HealthCheck, Executors

(* No step gives a fault back.                                             *)
LEMMA BudgetFalls ==
  ASSUME TypeOK, [Next]_vars
  PROVE  budget'["manager"] <= budget["manager"]
<1>1. /\ budget["manager"] \in Nat
      /\ \/ UNCHANGED budget
         \/ \E k \in FaultKinds : Fault(k)
  BY DEF Next, Loop, HealthCheck, Executors, ExecutorStart, Register, ExecutorStop,
         HealthCheckStart, HealthCheckAnswer, Unregister, Unhealthy, ManagerStart, WakeUp,
         Plan, PlanReady, RevokeAnswered, CallFails, RevokesDone, AssignAnswered, ApplyPlan,
         PersistTable, PersistFails, ManagerStop, FaultKinds, vars, TypeOK
<1> QED
  BY <1>1 DEF Fault, FaultKinds, TypeOK

LEMMA OwnersInitially ==
  ASSUME Init
  PROVE  OwnersInv
BY DEF Init, NoTable, OwnersInv, ManagerNeverStopped, OwnedWithinTable, NewPodsEmpty

LEMMA OwnersInvariant == Spec => [](OwnersInv \/ ManagerStopped)
<1>1. Init => OwnersInv \/ ManagerStopped
  BY OwnersInitially
<1>2. ASSUME TypeOK, RoutingInv, OwnersInv \/ ManagerStopped, [Next]_vars
      PROVE  (OwnersInv \/ ManagerStopped)'
  <2>1. CASE OwnersInv
    BY <1>2, <2>1, OwnersStep
  <2>2. CASE ManagerStopped
    <3>1. /\ budget["manager"] \in Nat /\ FaultBudget["manager"] \in Nat
          /\ budget'["manager"] \in Nat
      BY <1>2, FaultBudgetAssumption, TypeStep DEF TypeOK, FaultKinds
    <3> QED
      BY <1>2, <2>2, <3>1, BudgetFalls DEF ManagerStopped
  <2> QED
    BY <1>2, <2>1, <2>2
<1> QED
  BY <1>1, <1>2, RoutingInvariant, PTL DEF Spec

(* As long as the manager does not stop, two executors of the table never  *)
(* hold the same shard, whatever calls, executors, checks and writes fail  *)
(* (OwnersExclusiveUntilStop).                                             *)
THEOREM ExecutorsExclusive == Spec => []OwnersExclusiveUntilStop
<1>1. TypeOK /\ RoutingInv /\ OwnersInv => OwnersExclusiveUntilStop
  BY OwnersExclude DEF OwnersExclusiveUntilStop
<1>2. TypeOK /\ ManagerStopped => OwnersExclusiveUntilStop
  BY FaultBudgetAssumption
     DEF ManagerStopped, OwnersExclusiveUntilStop, ManagerNeverStopped, TypeOK, FaultKinds
<1> QED
  BY <1>1, <1>2, OwnersInvariant, RoutingInvariant, PTL

(* As long as the manager does not stop, an executor of the table holds    *)
(* between two rebalances only shards routed to it (IdleOwnersRouted).     *)
THEOREM ExecutorsFollowTable == Spec => []IdleOwnersRouted
<1>1. OwnersInv => IdleOwnersRouted
  BY DEF OwnersInv, OwnedWithinTable, IdleOwnersRouted
<1>2. TypeOK /\ ManagerStopped => IdleOwnersRouted
  BY FaultBudgetAssumption
     DEF ManagerStopped, IdleOwnersRouted, ManagerNeverStopped, TypeOK, FaultKinds
<1> QED
  BY <1>1, <1>2, OwnersInvariant, RoutingInvariant, PTL
=============================================================================
