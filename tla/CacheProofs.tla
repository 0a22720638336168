----------------------------- MODULE CacheProofs -----------------------------
(***************************************************************************)
(* Proofs about the concurrent cache, for every number of fibers and keys  *)
(* and every capacity.                                                     *)
(***************************************************************************)
EXTENDS Cache, IndexLemmas, FiniteSetTheorems, TLAPS

Places == {"start", "hit", "subscribe", "wait", "compute", "insert", "count",
           "send", "sendFull", "evict", "retain", "store", "done"}

(* The part of the state that decides who computes a value.                *)
ItemsTypeOK ==
  /\ items \in [Keys -> [state : {"absent", "pending", "cached"}, of : Fibers \cup {None}]]
  /\ pc \in [Fibers -> Places]
  /\ restarted \in [Keys -> Nat]

(* Fibers that have taken on a key and have not stored its value yet.      *)
Busy(k) == {f \in Fibers : KeyOf[f] = k /\ pc[f] \in {"compute", "insert"}}

(* Those among them whose pending item is not in the map any more.         *)
Orphans(k) == {f \in Busy(k) : items[k] # Pending(f)}

(* Each of them lost its item to a removal of its key: it was removed, or  *)
(* an earlier orphan has stored its value over it.                         *)
OrphansCounted == \A k \in Keys : Cardinality(Orphans(k)) <= restarted[k]

OnceInv == ItemsTypeOK /\ OrphansCounted

(* Sets of fibers are finite: their cardinalities are numbers.             *)
LEMMA FiberSetsFinite ==
  ASSUME NEW S \in SUBSET Fibers
  PROVE  IsFiniteSet(S) /\ Cardinality(S) \in Nat
<1>1. IsFiniteSet(S)
  BY CacheAssumption, FS_Subset
<1> QED
  BY <1>1, FS_CardinalityType

(* A smaller set of fibers has a smaller cardinality.                      *)
LEMMA FewerFibers ==
  ASSUME NEW S \in SUBSET Fibers, NEW T \in SUBSET S
  PROVE  Cardinality(T) <= Cardinality(S)
BY FiberSetsFinite, FS_Subset

(* At most one fiber of a set is not an orphan, so the set has at most one *)
(* more element than its orphans.                                          *)
LEMMA OneMore ==
  ASSUME NEW S \in SUBSET Fibers, NEW T \in SUBSET Fibers, NEW x,
         S \subseteq T \cup {x}
  PROVE  Cardinality(S) <= Cardinality(T) + 1
<1>1. IsFiniteSet(T) /\ Cardinality(T) \in Nat
  BY FiberSetsFinite
<1>2. /\ IsFiniteSet(T \cup {x})
      /\ Cardinality(T \cup {x}) \in {Cardinality(T), Cardinality(T) + 1}
  <2>1. /\ IsFiniteSet(T \cup {x})
        /\ Cardinality(T \cup {x}) = IF x \in T THEN Cardinality(T) ELSE Cardinality(T) + 1
    BY <1>1, FS_AddElement
  <2> QED
    BY <2>1
<1>3. /\ Cardinality(S) <= Cardinality(T \cup {x})
      /\ Cardinality(S) \in Nat /\ Cardinality(T \cup {x}) \in Nat
  BY <1>2, FS_Subset, FS_CardinalityType, FiberSetsFinite
<1> QED
  BY <1>1, <1>2, <1>3

(* Replacing one fiber of a set by another does not make it larger.        *)
LEMMA Exchanged ==
  ASSUME NEW T \in SUBSET Fibers, NEW f \in T, NEW x, NEW S \in SUBSET Fibers,
         S \subseteq (T \ {f}) \cup {x}
  PROVE  Cardinality(S) <= Cardinality(T)
<1>1. IsFiniteSet(T) /\ Cardinality(T) \in Nat
  BY FiberSetsFinite
<1>2. Cardinality(T \ {f}) = Cardinality(T) - 1
  BY <1>1, FS_RemoveElement
<1>3. Cardinality(S) <= Cardinality(T \ {f}) + 1
  BY OneMore
<1>4. Cardinality(S) \in Nat
  BY FiberSetsFinite
<1> QED
  BY <1>1, <1>2, <1>3, <1>4

(* A step that gives a key no new orphan keeps its count.                  *)
LEMMA CountKept ==
  ASSUME OnceInv, NEW k \in Keys, Orphans(k)' \subseteq Orphans(k),
         restarted'[k] \in Nat, restarted[k] <= restarted'[k]
  PROVE  Cardinality(Orphans(k)') <= restarted'[k]
<1>1. Orphans(k) \in SUBSET Fibers /\ Orphans(k)' \in SUBSET Fibers
  BY DEF Orphans, Busy
<1>2. Cardinality(Orphans(k)') <= Cardinality(Orphans(k))
  BY <1>1, FewerFibers
<1>3. Cardinality(Orphans(k)) \in Nat /\ Cardinality(Orphans(k)') \in Nat
  BY <1>1, FiberSetsFinite
<1> QED
  BY <1>2, <1>3 DEF OnceInv, OrphansCounted, ItemsTypeOK

LEMMA OnceInit == Init => OnceInv
<1> SUFFICES ASSUME Init PROVE OnceInv
  OBVIOUS
<1>1. ItemsTypeOK
  BY DEF Init, ItemsTypeOK, Places, Absent
<1>2. \A k \in Keys : Orphans(k) = {}
  BY DEF Init, Orphans, Busy
<1>3. ASSUME NEW k \in Keys PROVE Cardinality(Orphans(k)) = 0 /\ restarted[k] = 0
  <2>1. Cardinality(Orphans(k)) = 0
    BY <1>2, FS_EmptySet
  <2> QED
    BY <2>1 DEF Init
<1> QED
  BY <1>1, <1>3 DEF OnceInv, OrphansCounted

LEMMA OnceStep == OnceInv /\ [Next]_vars => OnceInv'
<1> SUFFICES ASSUME OnceInv, [Next]_vars PROVE OnceInv'
  OBVIOUS
<1> USE DEF OnceInv
<1>0. /\ ItemsTypeOK /\ OrphansCounted /\ KeyOf \in [Fibers -> Keys]
  BY CacheAssumption
<1>1. ASSUME NEW f \in Fibers, GetOrAddAsPending(f) PROVE OnceInv'
  <2>1. ItemsTypeOK'
    BY <1>0, <1>1 DEF ItemsTypeOK, GetOrAddAsPending, Goto, Places, Pending, ghosts
  <2>2. ASSUME NEW k \in Keys PROVE Orphans(k)' \subseteq Orphans(k)
    BY <1>0, <1>1, <2>2 DEF ItemsTypeOK, GetOrAddAsPending, Goto, Pending, Orphans, Busy
  <2> QED
    BY <2>1, <2>2, <1>0, <1>1, CountKept DEF OrphansCounted, GetOrAddAsPending, ghosts, ItemsTypeOK
<1>2. ASSUME NEW f \in Fibers,
             Hit(f) \/ Subscribe(f) \/ Receive(f) \/ Compute(f) \/ AddToCount(f)
               \/ Send(f) \/ Evict(f) \/ StoreCount(f)
      PROVE  OnceInv'
  <2>0. /\ items' = items /\ restarted' = restarted
        /\ \E where \in Places \ {"compute"} :
              /\ pc' = [pc EXCEPT ![f] = where]
              /\ where = "insert" => pc[f] = "compute"
    BY <1>2 DEF Hit, Subscribe, Receive, Compute, AddToCount, Send, Evict, StoreCount, Goto,
       Places, ghosts
  <2>1. ItemsTypeOK'
    BY <1>0, <2>0 DEF ItemsTypeOK
  <2>2. ASSUME NEW k \in Keys PROVE Orphans(k)' \subseteq Orphans(k)
    BY <1>0, <2>0, <2>2 DEF ItemsTypeOK, Pending, Orphans, Busy
  <2> QED
    BY <2>0, <2>1, <2>2, <1>0, CountKept DEF OrphansCounted, ItemsTypeOK
<1>3. ASSUME NEW f \in Fibers, Insert(f) PROVE OnceInv'
  <2>0. /\ items' = [items EXCEPT ![KeyOf[f]] = Cached(f)]
        /\ pc[f] = "insert" /\ pc' = [pc EXCEPT ![f] = "count"]
        /\ restarted' = restarted
    BY <1>3 DEF Insert, Goto
  <2>1. ItemsTypeOK'
    BY <1>0, <2>0 DEF ItemsTypeOK, Cached, Places
  <2>2. ASSUME NEW k \in Keys PROVE Cardinality(Orphans(k)') <= restarted'[k]
    <3>1. CASE k # KeyOf[f] \/ f \notin Orphans(k)
      <4>1. Orphans(k)' \subseteq Orphans(k)
        BY <3>1, <1>0, <2>0 DEF ItemsTypeOK, Orphans, Busy, Pending, Cached
      <4> QED
        BY <4>1, <2>0, <1>0, CountKept DEF ItemsTypeOK
    <3>2. CASE k = KeyOf[f] /\ f \in Orphans(k)
      <4>1. Orphans(k)' \subseteq (Orphans(k) \ {f}) \cup {items[k].of}
        BY <3>2, <1>0, <2>0 DEF ItemsTypeOK, Orphans, Busy, Pending, Cached
      <4>2. Orphans(k) \in SUBSET Fibers /\ Orphans(k)' \in SUBSET Fibers
        BY DEF Orphans, Busy
      <4>3. Cardinality(Orphans(k)') <= Cardinality(Orphans(k))
        BY <4>1, <4>2, <3>2, Exchanged
      <4>4. Cardinality(Orphans(k)) \in Nat /\ Cardinality(Orphans(k)') \in Nat
        BY <4>2, FiberSetsFinite
      <4> QED
        BY <4>3, <4>4, <1>0, <2>0 DEF OrphansCounted, ItemsTypeOK
    <3> QED
      BY <3>1, <3>2
  <2> QED
    BY <2>1, <2>2 DEF OrphansCounted
<1>4. ASSUME NEW S, items' = Retained(S), pc' = pc \/ (\E f \in Fibers : pc[f] = "retain" /\ Goto(f, "store")),
             restarted' = restarted
      PROVE  OnceInv'
  <2>1. ItemsTypeOK'
    BY <1>0, <1>4 DEF ItemsTypeOK, Retained, Absent, Goto, Places
  <2>2. ASSUME NEW k \in Keys PROVE Orphans(k)' \subseteq Orphans(k)
    BY <1>0, <1>4, <2>2 DEF ItemsTypeOK, Retained, Goto, Pending, Orphans, Busy
  <2> QED
    BY <2>1, <2>2, <1>0, <1>4, CountKept DEF OrphansCounted, ItemsTypeOK
<1>5. ASSUME NEW x \in Keys, Remove(x) PROVE OnceInv'
  <2>0. /\ items' = [items EXCEPT ![x] = Absent]
        /\ pc' = pc
        /\ restarted' = IF items[x].state = "pending" THEN [restarted EXCEPT ![x] = @ + 1]
                        ELSE restarted
    BY <1>5 DEF Remove, fiberVars
  <2>1. ItemsTypeOK'
    BY <1>0, <2>0 DEF ItemsTypeOK, Absent
  <2>2. ASSUME NEW k \in Keys PROVE Cardinality(Orphans(k)') <= restarted'[k]
    <3>1. CASE k # x \/ items[x].state # "pending"
      <4>1. Orphans(k)' \subseteq Orphans(k)
        BY <3>1, <1>0, <2>0 DEF ItemsTypeOK, Orphans, Busy, Pending, Absent
      <4> QED
        BY <4>1, <3>1, <2>0, <1>0, CountKept DEF ItemsTypeOK
    <3>2. CASE k = x /\ items[x].state = "pending"
      <4>1. Orphans(k)' \subseteq Orphans(k) \cup {items[k].of}
        BY <3>2, <1>0, <2>0 DEF ItemsTypeOK, Orphans, Busy, Pending, Absent
      <4>2. Orphans(k) \in SUBSET Fibers /\ Orphans(k)' \in SUBSET Fibers
        BY DEF Orphans, Busy
      <4>3. Cardinality(Orphans(k)') <= Cardinality(Orphans(k)) + 1
        BY <4>1, <4>2, OneMore
      <4>4. Cardinality(Orphans(k)) \in Nat /\ Cardinality(Orphans(k)') \in Nat
        BY <4>2, FiberSetsFinite
      <4> QED
        BY <4>3, <4>4, <3>2, <1>0, <2>0 DEF OrphansCounted, ItemsTypeOK
    <3> QED
      BY <3>1, <3>2
  <2> QED
    BY <2>1, <2>2 DEF OrphansCounted
<1>6. CASE SubtractFromCount \/ StoreSweep \/ UNCHANGED vars
  <2>1. items' = items /\ pc' = pc /\ restarted' = restarted
    BY <1>6 DEF SubtractFromCount, StoreSweep, vars, fiberVars, ghosts
  <2> QED
    BY <2>1, <1>0 DEF OrphansCounted, Orphans, Busy, ItemsTypeOK
<1>7. ASSUME NEW f \in Fibers, Retain(f) PROVE OnceInv'
  BY <1>4, <1>7 DEF Retain, ghosts
<1>8. ASSUME NEW n \in 1 .. Len(recency), SweepOld(n) PROVE OnceInv'
  BY <1>4, <1>8 DEF SweepOld, fiberVars
<1> QED
  BY <1>1, <1>2, <1>3, <1>5, <1>6, <1>7, <1>8 DEF Next, FiberStep

(* At most one fiber of a key owns its pending item, and the others are    *)
(* orphans: the bound on those that compute follows.                       *)
LEMMA OnceEnough == OnceInv => ComputedOnce
<1> SUFFICES ASSUME OnceInv, NEW k \in Keys
             PROVE  Cardinality(Computing(k)) <= 1 + restarted[k]
  BY DEF ComputedOnce
<1>1. Computing(k) \subseteq Orphans(k) \cup {items[k].of}
  BY DEF Computing, Orphans, Busy, Pending
<1>2. Computing(k) \in SUBSET Fibers /\ Orphans(k) \in SUBSET Fibers
  BY DEF Computing, Orphans, Busy
<1>3. Cardinality(Computing(k)) <= Cardinality(Orphans(k)) + 1
  BY <1>1, <1>2, OneMore
<1>4. Cardinality(Computing(k)) \in Nat /\ Cardinality(Orphans(k)) \in Nat
  BY <1>2, FiberSetsFinite
<1> QED
  BY <1>3, <1>4 DEF OnceInv, OrphansCounted, ItemsTypeOK

(* However fibers, removals, evictions and the background task interleave, *)
(* a key whose value is computed by n + 1 fibers at once was removed n     *)
(* times while it was computed (cache.rs get_or_insert, remove).           *)
THEOREM CacheComputesOnce == Spec => []ComputedOnce
<1>1. Init => OnceInv
  BY OnceInit
<1>2. OnceInv /\ [Next]_vars => OnceInv'
  BY OnceStep
<1>3. OnceInv => ComputedOnce
  BY OnceEnough
<1> QED
  BY <1>1, <1>2, <1>3, PTL DEF Spec

-----------------------------------------------------------------------------
(***************************************************************************)
(* The capacity.  recency lists the cached keys, each one once, so that    *)
(* their number is its length.  While one fiber counts, from its insertion *)
(* to the end of its eviction, the counter and the map differ in a way     *)
(* that depends on where it is; otherwise they differ by the removals that *)
(* have not lowered the counter yet, or by what the background task is     *)
(* about to store.                                                         *)
(***************************************************************************)
Lists(s, S) ==
  /\ s \in Seq(Keys)
  /\ \A i, j \in 1 .. Len(s) : s[i] = s[j] => i = j
  /\ S = {s[i] : i \in 1 .. Len(s)}

Size == Cardinality(CachedKeys)

(* Where nobody counts.                                                    *)
Settled ==
  /\ Size + owed <= Capacity
  /\ sweep = None => count = Size + owed
  /\ sweep # None => sweep = Size /\ owed = 0

(* Where f counts.                                                         *)
Alone(f) ==
  /\ owed = 0 /\ sweep = None
  /\ \A g \in Fibers : Counting(g) => g = f
  /\ pc[f] = "count" => count = Size - 1 /\ count <= Capacity
  /\ pc[f] \in {"sendFull", "evict"} => Size = Capacity + 1
  /\ pc[f] = "retain" => keep[f] \subseteq CachedKeys /\ Cardinality(keep[f]) <= Capacity
  /\ pc[f] = "store" => keep[f] = CachedKeys /\ Size <= Capacity

CountRight ==
  /\ (\A f \in Fibers : ~Counting(f)) => Settled
  /\ \A f \in Fibers : Counting(f) => Alone(f)

CountTypeOK ==
  /\ owed \in Nat
  /\ keep \in [Fibers -> SUBSET Keys]
  /\ overlap \in BOOLEAN
  /\ Lists(recency, CachedKeys)

CountInv == CountTypeOK /\ (~overlap => CountRight)

(* The list has as many entries as there are keys.                         *)
LEMMA ListsCount ==
  ASSUME NEW s, NEW S, Lists(s, S)
  PROVE  IsFiniteSet(S) /\ Cardinality(S) = Len(s) /\ Len(s) \in Nat /\ S \in SUBSET Keys
<1>1. s \in Seq(Keys) /\ Len(s) \in Nat /\ DOMAIN s = 1 .. Len(s)
  BY DEF Lists
<1>2. s \in Bijection(1 .. Len(s), S)
  BY <1>1 DEF Lists, Bijection, Injection, Surjection, IsInjective
<1>3. ExistsBijection(1 .. Len(s), S)
  BY <1>2 DEF ExistsBijection
<1>4. IsFiniteSet(1 .. Len(s)) /\ Cardinality(1 .. Len(s)) = Len(s)
  BY <1>1, FS_Interval
<1>5. IsFiniteSet(S) /\ Cardinality(S) = Cardinality(1 .. Len(s))
  BY <1>3, <1>4, FS_Bijection
<1> QED
  BY <1>1, <1>4, <1>5 DEF Lists

(* Keeping some entries of a list lists some of the keys.                  *)
LEMMA ListsOnly ==
  ASSUME NEW s, NEW S, Lists(s, S), NEW R
  PROVE  Lists(Only(s, R), S \cap R)
<1>1. s \in Seq(Keys) /\ Len(s) \in Nat
  BY DEF Lists
<1>2. PICK t \in Seq(Keys) : t = Only(s, R)
  BY <1>1, OnlyPicks
<1>3. PICK e : Picks(e, t, s, Len(s), R)
  BY <1>1, <1>2, OnlyPicks
<1>4. Len(t) \in Nat
  OBVIOUS
<1>5. ASSUME NEW i \in 1 .. Len(t), NEW j \in 1 .. Len(t), t[i] = t[j] PROVE i = j
  <2>1. e[i] = e[j]
    BY <1>3, <1>5 DEF Picks, Lists
  <2>2. e[i] \in Nat /\ e[j] \in Nat /\ ~(i < j) /\ ~(j < i)
    BY <1>3, <1>1, <2>1 DEF Picks
  <2> QED
    BY <1>4, <2>2
<1>6. S \cap R = {t[i] : i \in 1 .. Len(t)}
  <2>1. \A i \in 1 .. Len(t) : t[i] \in S /\ t[i] \in R
    BY <1>3 DEF Picks, Lists
  <2>2. ASSUME NEW x \in S \cap R PROVE \E i \in 1 .. Len(t) : x = t[i]
    <3>1. PICK n \in 1 .. Len(s) : x = s[n]
      BY DEF Lists
    <3>2. PICK i \in 1 .. Len(t) : e[i] = n
      BY <1>3, <3>1 DEF Picks
    <3> QED
      BY <1>3, <3>1, <3>2 DEF Picks
  <2> QED
    BY <2>1, <2>2
<1> QED
  BY <1>2, <1>5, <1>6 DEF Lists

(* A new key at the end of the list.                                       *)
LEMMA ListsAppend ==
  ASSUME NEW s, NEW S, Lists(s, S), NEW k \in Keys, k \notin S
  PROVE  Lists(Append(s, k), S \cup {k})
<1>1. s \in Seq(Keys) /\ Len(s) \in Nat
  BY DEF Lists
<1>2. PICK t : t = Append(s, k)
  OBVIOUS
<1>3. /\ t \in Seq(Keys) /\ Len(t) = Len(s) + 1
      /\ \A i \in 1 .. Len(s) : t[i] = s[i]
      /\ t[Len(s) + 1] = k
  BY <1>1, <1>2
<1>4. \A i \in 1 .. Len(t) : i \in 1 .. Len(s) \/ i = Len(s) + 1
  BY <1>1, <1>3
<1>5. 1 .. Len(s) \subseteq 1 .. Len(t) /\ Len(s) + 1 \in 1 .. Len(t)
  BY <1>1, <1>3
<1>6. \A i, j \in 1 .. Len(t) : t[i] = t[j] => i = j
  BY <1>3, <1>4 DEF Lists
<1>7. S \cup {k} = {t[i] : i \in 1 .. Len(t)}
  BY <1>3, <1>4, <1>5 DEF Lists
<1> QED
  BY <1>2, <1>3, <1>6, <1>7 DEF Lists

(* A key that is used moves to the end.                                    *)
LEMMA ListsUsed ==
  ASSUME Lists(recency, CachedKeys), NEW k \in Keys
  PROVE  Lists(Used(k), CachedKeys \cup {k})
<1>1. Lists(Only(recency, Keys \ {k}), CachedKeys \cap (Keys \ {k}))
  BY ListsOnly
<1>2. Lists(Used(k), (CachedKeys \cap (Keys \ {k})) \cup {k})
  BY <1>1, ListsAppend DEF Used
<1>3. (CachedKeys \cap (Keys \ {k})) \cup {k} = CachedKeys \cup {k}
  BY DEF CachedKeys
<1> QED
  BY <1>2, <1>3

(* Keys dropped from the map are dropped from the list.                    *)
LEMMA ListsRetained ==
  ASSUME ItemsTypeOK, Lists(recency, CachedKeys), NEW S,
         items' = Retained(S), recency' = Only(recency, S)
  PROVE  CachedKeys' = CachedKeys \cap S /\ Lists(recency, CachedKeys)'
<1>1. CachedKeys' = CachedKeys \cap S
  BY DEF CachedKeys, Retained, ItemsTypeOK, Absent
<1>2. Lists(Only(recency, S), CachedKeys \cap S)
  BY ListsOnly
<1> QED
  BY <1>1, <1>2

LEMMA CountTypeStep ==
  ASSUME OnceInv, CountTypeOK, [Next]_vars
  PROVE  CountTypeOK'
<1>0. /\ ItemsTypeOK /\ KeyOf \in [Fibers -> Keys] /\ Lists(recency, CachedKeys)
      /\ owed \in Nat /\ keep \in [Fibers -> SUBSET Keys] /\ overlap \in BOOLEAN
      /\ CachedKeys \in SUBSET Keys /\ recency \in Seq(Keys)
  BY CacheAssumption DEF OnceInv, CountTypeOK, CachedKeys, Lists
<1>1. ASSUME NEW f \in Fibers, GetOrAddAsPending(f) PROVE CountTypeOK'
  <2>1. CachedKeys' = CachedKeys
    BY <1>0, <1>1 DEF GetOrAddAsPending, CachedKeys, ItemsTypeOK, Pending
  <2> QED
    BY <1>0, <1>1, <2>1 DEF GetOrAddAsPending, CountTypeOK, removalVars, ghosts
<1>2. ASSUME NEW f \in Fibers, Hit(f) PROVE CountTypeOK'
  <2>1. CachedKeys' = CachedKeys
    BY <1>2 DEF Hit, CachedKeys
  <2>2. Lists(Used(KeyOf[f]), CachedKeys \cup {KeyOf[f]})
    BY <1>0, ListsUsed
  <2>3. Lists(recency', CachedKeys)
    <3>1. CASE KeyOf[f] \in CachedKeys
      <4>1. CachedKeys \cup {KeyOf[f]} = CachedKeys
        BY <3>1
      <4> QED
        BY <1>2, <2>2, <3>1, <4>1 DEF Hit
    <3>2. CASE KeyOf[f] \notin CachedKeys
      BY <1>0, <1>2, <3>2 DEF Hit
    <3> QED
      BY <3>1, <3>2
  <2> QED
    BY <1>0, <1>2, <2>1, <2>3 DEF Hit, CountTypeOK, removalVars, ghosts
<1>3. ASSUME NEW f \in Fibers,
             Subscribe(f) \/ Receive(f) \/ Compute(f) \/ AddToCount(f) \/ Send(f)
      PROVE  CountTypeOK'
  <2>1. UNCHANGED <<items, recency, owed, keep, overlap>>
    BY <1>3 DEF Subscribe, Receive, Compute, AddToCount, Send, removalVars, ghosts
  <2> QED
    BY <1>0, <2>1 DEF CountTypeOK, CachedKeys
<1>4. ASSUME NEW f \in Fibers, Insert(f) PROVE CountTypeOK'
  <2>1. CachedKeys' = CachedKeys \cup {KeyOf[f]}
    BY <1>0, <1>4 DEF Insert, CachedKeys, ItemsTypeOK, Cached
  <2>2. Lists(Used(KeyOf[f]), CachedKeys \cup {KeyOf[f]})
    BY <1>0, ListsUsed
  <2>3. overlap' \in BOOLEAN
    BY <1>4 DEF Insert
  <2> QED
    BY <1>0, <1>4, <2>1, <2>2, <2>3 DEF Insert, CountTypeOK, removalVars
<1>5. ASSUME NEW f \in Fibers, Evict(f) PROVE CountTypeOK'
  <2>1. Recent(CachedKeys) \in SUBSET Keys
    BY <1>0, CacheAssumption DEF Recent
  <2>2. keep' \in [Fibers -> SUBSET Keys]
    BY <1>0, <1>5, <2>1 DEF Evict
  <2>3. UNCHANGED <<items, recency, owed, overlap>>
    BY <1>5 DEF Evict, removalVars, ghosts
  <2> QED
    BY <1>0, <2>2, <2>3 DEF CountTypeOK, CachedKeys
<1>6. ASSUME NEW f \in Fibers, Retain(f) PROVE CountTypeOK'
  <2>1. Lists(recency, CachedKeys)'
    BY <1>0, <1>6, ListsRetained DEF Retain
  <2> QED
    BY <1>0, <1>6, <2>1 DEF Retain, CountTypeOK, removalVars, ghosts
<1>7. ASSUME NEW f \in Fibers, StoreCount(f) PROVE CountTypeOK'
  <2>1. keep' \in [Fibers -> SUBSET Keys]
    BY <1>0, <1>7 DEF StoreCount
  <2>2. UNCHANGED <<items, recency, owed, overlap>>
    BY <1>7 DEF StoreCount, removalVars, ghosts
  <2> QED
    BY <1>0, <2>1, <2>2 DEF CountTypeOK, CachedKeys
<1>8. ASSUME NEW k \in Keys, Remove(k) PROVE CountTypeOK'
  <2>1. CachedKeys' = CachedKeys \cap (Keys \ {k})
    BY <1>0, <1>8 DEF Remove, CachedKeys, ItemsTypeOK, Absent
  <2>2. Lists(Only(recency, Keys \ {k}), CachedKeys \cap (Keys \ {k}))
    BY <1>0, ListsOnly
  <2>3. owed' \in Nat /\ overlap' \in BOOLEAN
    BY <1>0, <1>8 DEF Remove
  <2> QED
    BY <1>0, <1>8, <2>1, <2>2, <2>3 DEF Remove, CountTypeOK, fiberVars
<1>9. CASE SubtractFromCount \/ StoreSweep \/ UNCHANGED vars
  <2>1. UNCHANGED <<items, recency, keep, overlap>>
    BY <1>9 DEF SubtractFromCount, StoreSweep, vars, fiberVars, ghosts
  <2>2. owed' \in Nat
    BY <1>0, <1>9 DEF SubtractFromCount, StoreSweep, vars, removalVars
  <2> QED
    BY <1>0, <2>1, <2>2 DEF CountTypeOK, CachedKeys
<1>10. ASSUME NEW n \in 1 .. Len(recency), SweepOld(n) PROVE CountTypeOK'
  <2>1. PICK S : items' = Retained(S) /\ recency' = Only(recency, S)
    BY <1>10 DEF SweepOld
  <2>2. Lists(recency, CachedKeys)'
    BY <1>0, <2>1, ListsRetained
  <2>3. overlap' \in BOOLEAN
    BY <1>10 DEF SweepOld
  <2> QED
    BY <1>0, <1>10, <2>2, <2>3 DEF SweepOld, CountTypeOK, fiberVars
<1> QED
  BY <1>1, <1>2, <1>3, <1>4, <1>5, <1>6, <1>7, <1>8, <1>9, <1>10 DEF Next, FiberStep

CountPlaces == {"count", "sendFull", "evict", "retain", "store"}

(* Steps of fibers that do not count, and stay so.                         *)
LEMMA QuietStep ==
  ASSUME ItemsTypeOK, CountRight, NEW f \in Fibers, NEW where, pc[f] \notin CountPlaces,
         where \notin CountPlaces, pc' = [pc EXCEPT ![f] = where],
         UNCHANGED <<count, owed, sweep, keep>>, CachedKeys' = CachedKeys
  PROVE  CountRight'
<1>1. \A g \in Fibers : /\ Counting(g)' <=> Counting(g)
                        /\ Counting(g) => pc'[g] = pc[g]
  BY DEF ItemsTypeOK, Counting, CountPlaces
<1>2. Size' = Size
  BY DEF Size
<1>3. Settled => Settled'
  BY <1>2 DEF Settled
<1>4. ASSUME NEW g \in Fibers, Counting(g), Alone(g) PROVE Alone(g)'
  BY <1>1, <1>2, <1>4 DEF Alone
<1> QED
  BY <1>1, <1>3, <1>4 DEF CountRight

(* A step of the one fiber that counts to a place where it still does.     *)
LEMMA AloneStep ==
  ASSUME ItemsTypeOK, NEW f \in Fibers, Counting(f), CountRight, pc'[f] \in CountPlaces,
         pc' = [pc EXCEPT ![f] = pc'[f]], Alone(f)'
  PROVE  CountRight'
<1>1. \A g \in Fibers : Counting(g) => g = f
  BY DEF CountRight, Alone
<1>2. \A g \in Fibers : g # f => ~Counting(g)'
  BY <1>1 DEF ItemsTypeOK, Counting
<1>3. Counting(f)'
  BY DEF Counting, CountPlaces
<1> QED
  BY <1>2, <1>3 DEF CountRight

(* Its last step.                                                          *)
LEMMA LastStep ==
  ASSUME ItemsTypeOK, NEW f \in Fibers, Counting(f), CountRight, NEW where,
         where \notin CountPlaces, pc' = [pc EXCEPT ![f] = where], Settled'
  PROVE  CountRight'
<1>1. \A g \in Fibers : Counting(g) => g = f
  BY DEF CountRight, Alone
<1>2. \A g \in Fibers : ~Counting(g)'
  BY <1>1 DEF ItemsTypeOK, Counting, CountPlaces
<1> QED
  BY <1>2 DEF CountRight

(* A step that ends where nobody counts.                                   *)
LEMMA SettledStep ==
  ASSUME pc' = pc, Settled', \A g \in Fibers : ~Counting(g)
  PROVE  CountRight'
<1>1. \A g \in Fibers : ~Counting(g)'
  BY DEF Counting
<1> QED
  BY <1>1 DEF CountRight

LEMMA CountStep ==
  ASSUME OnceInv, CountTypeOK, [Next]_vars, ~overlap => CountRight, ~overlap'
  PROVE  CountRight'
<1> USE DEF CountPlaces
<1>0. /\ ItemsTypeOK /\ KeyOf \in [Fibers -> Keys] /\ Lists(recency, CachedKeys)
      /\ owed \in Nat /\ keep \in [Fibers -> SUBSET Keys] /\ overlap \in BOOLEAN
      /\ Capacity \in Nat /\ Width \in Nat /\ Width > Capacity + 1 /\ None \notin Nat
      /\ EvictCount \in 1 .. Capacity + 1
  BY CacheAssumption DEF OnceInv, CountTypeOK
<1>s. IsFiniteSet(CachedKeys) /\ Size \in Nat /\ Size = Len(recency) /\ Len(recency) \in Nat
  BY <1>0, ListsCount DEF Size
<1>t. CountTypeOK' /\ OnceInv'
  BY CountTypeStep, OnceStep
<1>u. /\ IsFiniteSet(CachedKeys') /\ Size' \in Nat
      /\ Size' = Cardinality(CachedKeys')
  <2>1. Lists(recency', CachedKeys')
    BY <1>t DEF CountTypeOK
  <2> QED
    BY <2>1, ListsCount DEF Size
<1>c. ~overlap /\ CountRight
  <2>1. overlap => overlap'
    BY DEF Next, FiberStep, vars, ghosts, GetOrAddAsPending, Hit, Subscribe, Receive, Compute,
       Insert, AddToCount, Send, Evict, Retain, StoreCount, Remove, SubtractFromCount, SweepOld,
       StoreSweep
  <2> QED
    BY <2>1
<1>1. ASSUME NEW f \in Fibers, GetOrAddAsPending(f) PROVE CountRight'
  <2>1. CachedKeys' = CachedKeys
    BY <1>0, <1>1 DEF GetOrAddAsPending, CachedKeys, ItemsTypeOK, Pending
  <2>2. \E where \in {"hit", "compute", "subscribe"} : pc' = [pc EXCEPT ![f] = where]
    <3>1. PICK where : /\ where = CASE items'[KeyOf[f]].state = "cached" -> "hit"
                                    [] items[KeyOf[f]].state = "absent" -> "compute"
                                    [] OTHER -> "subscribe"
                       /\ pc' = [pc EXCEPT ![f] = where]
      BY <1>1 DEF GetOrAddAsPending, Goto
    <3>2. items[KeyOf[f]].state = "absent" => items'[KeyOf[f]].state = "pending"
      BY <1>0, <1>1 DEF GetOrAddAsPending, ItemsTypeOK, Pending
    <3>3. where \in {"hit", "compute", "subscribe"}
      BY ONLY <3>1, <3>2
    <3> QED
      BY <3>1, <3>3
  <2>3. pc[f] = "start" /\ UNCHANGED <<count, owed, sweep, keep>>
    BY <1>1 DEF GetOrAddAsPending, removalVars
  <2> QED
    BY <1>0, <1>c, <2>1, <2>2, <2>3, QuietStep
<1>2. ASSUME NEW f \in Fibers, Hit(f) \/ Subscribe(f) \/ Receive(f) \/ Compute(f)
      PROVE  CountRight'
  <2>1. CachedKeys' = CachedKeys
    BY <1>2 DEF Hit, Subscribe, Receive, Compute, CachedKeys
  <2>2. \E where \in {"done", "wait", "insert", "send"} : pc' = [pc EXCEPT ![f] = where]
    BY <1>2 DEF Hit, Subscribe, Receive, Compute, Goto
  <2>3. /\ pc[f] \in {"hit", "subscribe", "wait", "compute"}
        /\ UNCHANGED <<count, owed, sweep, keep>>
    BY <1>2 DEF Hit, Subscribe, Receive, Compute, removalVars
  <2> QED
    BY <1>0, <1>c, <2>1, <2>2, <2>3, QuietStep
<1>3. ASSUME NEW f \in Fibers, Insert(f) PROVE CountRight'
  <2>1. /\ ~(owed > 0) /\ sweep = None /\ (\A g \in Fibers : ~Counting(g))
        /\ ~(restarted[KeyOf[f]] > 0) /\ pc[f] = "insert"
        /\ pc' = [pc EXCEPT ![f] = "count"]
        /\ items' = [items EXCEPT ![KeyOf[f]] = Cached(f)]
        /\ UNCHANGED <<count, owed, sweep, keep>>
    BY <1>3 DEF Insert, Goto, removalVars
  <2>2. owed = 0 /\ restarted[KeyOf[f]] = 0
    BY <1>0, <2>1 DEF ItemsTypeOK
  <2>3. Settled
    BY <1>c, <2>1 DEF CountRight
  <2>4. count = Size /\ Size <= Capacity
    BY <1>s, <2>1, <2>2, <2>3 DEF Settled
  <2>5. KeyOf[f] \notin CachedKeys
    <3>1. f \notin Orphans(KeyOf[f])
      <4>1. Orphans(KeyOf[f]) \in SUBSET Fibers
        BY DEF Orphans, Busy
      <4>2. IsFiniteSet(Orphans(KeyOf[f])) /\ Cardinality(Orphans(KeyOf[f])) \in Nat
        BY <4>1, FiberSetsFinite
      <4>3. Cardinality(Orphans(KeyOf[f])) <= 0
        BY <1>0, <2>2 DEF OnceInv, OrphansCounted
      <4>4. Cardinality(Orphans(KeyOf[f])) = 0
        BY <4>2, <4>3
      <4> QED
        BY <4>2, <4>4, FS_EmptySet
    <3>2. items[KeyOf[f]] = Pending(f)
      BY <2>1, <3>1 DEF Orphans, Busy
    <3> QED
      BY <3>2 DEF CachedKeys, Pending
  <2>6. CachedKeys' = CachedKeys \cup {KeyOf[f]}
    BY <1>0, <2>1 DEF CachedKeys, ItemsTypeOK, Cached
  <2>7. Size' = Size + 1
    BY <1>s, <1>u, <2>5, <2>6, FS_AddElement DEF Size
  <2>8. pc'[f] = "count" /\ \A g \in Fibers : g # f => ~Counting(g)'
    BY <1>0, <2>1 DEF ItemsTypeOK, Counting
  <2>9. Alone(f)'
    BY <1>s, <2>1, <2>2, <2>4, <2>7, <2>8 DEF Alone
  <2> QED
    BY <2>8, <2>9 DEF CountRight, Counting
<1>4. ASSUME NEW f \in Fibers, AddToCount(f) PROVE CountRight'
  <2>1. /\ pc[f] = "count" /\ count' = (count + 1) % Width
        /\ pc' = [pc EXCEPT ![f] = IF Full(count) THEN "sendFull" ELSE "send"]
        /\ UNCHANGED <<items, owed, sweep, keep>>
    BY <1>4 DEF AddToCount, Goto, removalVars
  <2>2. Counting(f) /\ Alone(f)
    BY <1>c, <2>1 DEF Counting, CountRight
  <2>3. count = Size - 1 /\ count <= Capacity /\ owed = 0 /\ sweep = None
    BY <2>1, <2>2 DEF Alone
  <2>4. CachedKeys' = CachedKeys /\ Size' = Size
    BY <2>1 DEF CachedKeys, Size
  <2>5. CASE Full(count)
    <3>1. Size = Capacity + 1
      BY <1>0, <1>s, <2>3, <2>5 DEF Full
    <3>2. pc' = [pc EXCEPT ![f] = "sendFull"] /\ pc'[f] = "sendFull"
      BY <1>0, <2>1, <2>5 DEF ItemsTypeOK
    <3>3. \A g \in Fibers : Counting(g)' => g = f
      BY <1>0, <2>2, <3>2 DEF Alone, Counting, ItemsTypeOK
    <3>4. Alone(f)'
      BY <2>1, <2>3, <2>4, <3>1, <3>2, <3>3 DEF Alone
    <3> QED
      BY <1>0, <1>c, <2>2, <3>2, <3>4, AloneStep
  <2>6. CASE ~Full(count)
    <3>1. Size <= Capacity /\ Size \in 0 .. Width - 1 /\ count + 1 = Size
      BY <1>0, <1>s, <2>3, <2>6 DEF Full
    <3>2. count' = Size
      BY <1>0, <2>1, <3>1
    <3>3. Settled'
      BY <1>s, <2>1, <2>3, <2>4, <3>1, <3>2 DEF Settled
    <3>4. pc' = [pc EXCEPT ![f] = "send"]
      BY <2>1, <2>6
    <3> QED
      BY <1>0, <1>c, <2>2, <3>3, <3>4, LastStep
  <2> QED
    BY <2>5, <2>6
<1>5. ASSUME NEW f \in Fibers, Send(f) PROVE CountRight'
  <2>1. /\ pc[f] \in {"send", "sendFull"}
        /\ pc' = [pc EXCEPT ![f] = IF pc[f] = "sendFull" THEN "evict" ELSE "done"]
        /\ UNCHANGED <<items, count, owed, sweep, keep>>
    BY <1>5 DEF Send, Goto, removalVars
  <2>2. CachedKeys' = CachedKeys /\ Size' = Size
    BY <2>1 DEF CachedKeys, Size
  <2>3. CASE pc[f] = "send"
    <3>1. pc' = [pc EXCEPT ![f] = "done"]
      BY <2>1, <2>3
    <3> QED
      BY <1>0, <1>c, <2>1, <2>2, <2>3, <3>1, QuietStep
  <2>4. CASE pc[f] = "sendFull"
    <3>1. Counting(f) /\ Alone(f)
      BY <1>c, <2>4 DEF Counting, CountRight
    <3>2. pc' = [pc EXCEPT ![f] = "evict"] /\ pc'[f] = "evict"
      BY <1>0, <2>1, <2>4 DEF ItemsTypeOK
    <3>3. \A g \in Fibers : Counting(g)' => g = f
      BY <1>0, <3>1, <3>2 DEF Alone, Counting, ItemsTypeOK
    <3>4. Alone(f)'
      BY <2>1, <2>2, <2>4, <3>1, <3>2, <3>3 DEF Alone
    <3> QED
      BY <1>0, <1>c, <3>1, <3>2, <3>4, AloneStep
  <2> QED
    BY <2>1, <2>3, <2>4
<1>6. ASSUME NEW f \in Fibers, Evict(f) PROVE CountRight'
  <2>1. /\ pc[f] = "evict" /\ pc' = [pc EXCEPT ![f] = "retain"]
        /\ keep' = [keep EXCEPT ![f] = Recent(CachedKeys)]
        /\ UNCHANGED <<items, owed, sweep>>
    BY <1>6 DEF Evict, Goto, removalVars
  <2>2. CachedKeys' = CachedKeys /\ Size' = Size
    BY <2>1 DEF CachedKeys, Size
  <2>3. Counting(f) /\ Alone(f) /\ Size = Capacity + 1
    BY <1>c, <2>1 DEF Counting, CountRight, Alone
  <2>4. Len(recency) >= EvictCount /\ Len(recency) >= 1
    BY <1>0, <1>s, <2>3
  <2>5. Recent(CachedKeys) = {recency[i] : i \in EvictCount + 1 .. Len(recency)}
    BY <1>0, <1>s, <2>4 DEF Recent
  <2>6. recency[1] \in CachedKeys /\ Recent(CachedKeys) \subseteq CachedKeys \ {recency[1]}
    <3>1. \A i \in EvictCount + 1 .. Len(recency) : i \in 1 .. Len(recency) /\ i # 1
      BY <1>0, <1>s
    <3>2. 1 \in 1 .. Len(recency)
      BY <1>s, <2>4
    <3> QED
      BY <1>0, <2>5, <3>1, <3>2 DEF Lists
  <2>7. Cardinality(Recent(CachedKeys)) <= Capacity
    <3>1. /\ IsFiniteSet(CachedKeys \ {recency[1]})
          /\ Cardinality(CachedKeys \ {recency[1]}) = Capacity
      <4>1. /\ IsFiniteSet(CachedKeys \ {recency[1]})
            /\ Cardinality(CachedKeys \ {recency[1]}) = Cardinality(CachedKeys) - 1
        BY <1>s, <2>6, FS_RemoveElement
      <4> QED
        BY <1>0, <2>3, <4>1 DEF Size
    <3> QED
      BY <2>6, <3>1, FS_Subset
  <2>8. pc'[f] = "retain" /\ keep'[f] = Recent(CachedKeys)
    BY <1>0, <2>1 DEF ItemsTypeOK
  <2>9. \A g \in Fibers : Counting(g)' => g = f
    BY <1>0, <2>1, <2>3 DEF Alone, Counting, ItemsTypeOK
  <2>10. Alone(f)'
    BY <2>1, <2>2, <2>3, <2>6, <2>7, <2>8, <2>9 DEF Alone
  <2> QED
    BY <1>0, <1>c, <2>1, <2>3, <2>8, <2>10, AloneStep
<1>7. ASSUME NEW f \in Fibers, Retain(f) PROVE CountRight'
  <2>1. /\ pc[f] = "retain" /\ pc' = [pc EXCEPT ![f] = "store"]
        /\ items' = Retained(keep[f]) /\ recency' = Only(recency, keep[f])
        /\ UNCHANGED <<owed, sweep, keep>>
    BY <1>7 DEF Retain, Goto, removalVars
  <2>2. /\ Counting(f) /\ Alone(f)
        /\ keep[f] \subseteq CachedKeys /\ Cardinality(keep[f]) <= Capacity
    BY <1>c, <2>1 DEF Counting, CountRight, Alone
  <2>3. CachedKeys' = CachedKeys \cap keep[f]
    BY <1>0, <2>1, ListsRetained
  <2>4. CachedKeys' = keep'[f] /\ Size' <= Capacity
    <3>1. CachedKeys' = keep[f] /\ keep' = keep
      BY <2>1, <2>2, <2>3
    <3> QED
      BY <1>u, <2>2, <3>1
  <2>5. pc'[f] = "store"
    BY <1>0, <2>1 DEF ItemsTypeOK
  <2>6. \A g \in Fibers : Counting(g)' => g = f
    BY <1>0, <2>1, <2>2 DEF Alone, Counting, ItemsTypeOK
  <2>7. Alone(f)'
    BY <2>1, <2>2, <2>4, <2>5, <2>6 DEF Alone
  <2> QED
    BY <1>0, <1>c, <2>1, <2>2, <2>5, <2>7, AloneStep
<1>8. ASSUME NEW f \in Fibers, StoreCount(f) PROVE CountRight'
  <2>1. /\ pc[f] = "store" /\ pc' = [pc EXCEPT ![f] = "done"]
        /\ count' = Cardinality(keep[f])
        /\ UNCHANGED <<items, owed, sweep>>
    BY <1>8 DEF StoreCount, Goto, removalVars
  <2>2. CachedKeys' = CachedKeys /\ Size' = Size
    BY <2>1 DEF CachedKeys, Size
  <2>3. /\ Counting(f) /\ Alone(f)
        /\ keep[f] = CachedKeys /\ Size <= Capacity /\ owed = 0 /\ sweep = None
    BY <1>c, <2>1 DEF Counting, CountRight, Alone
  <2>4. count' = Size
    BY <2>1, <2>3 DEF Size
  <2>5. Settled'
    BY <1>s, <2>1, <2>2, <2>3, <2>4 DEF Settled
  <2> QED
    BY <1>0, <1>c, <2>1, <2>3, <2>5, LastStep
<1>9. ASSUME NEW k \in Keys, Remove(k) PROVE CountRight'
  <2>1. /\ items[k].state = "cached" /\ sweep = None /\ (\A f \in Fibers : ~Counting(f))
        /\ items' = [items EXCEPT ![k] = Absent] /\ owed' = owed + 1
        /\ pc' = pc /\ sweep' = sweep /\ count' = count
    <3>1. items[k].state \in {"absent", "pending", "cached"}
      BY <1>0 DEF ItemsTypeOK
    <3> QED
      BY <1>9, <3>1 DEF Remove, fiberVars
  <2>2. Settled
    BY <1>c, <2>1 DEF CountRight
  <2>3. k \in CachedKeys /\ CachedKeys' = CachedKeys \ {k}
    BY <1>0, <2>1 DEF CachedKeys, ItemsTypeOK, Absent
  <2>4. Size' = Size - 1
    BY <1>s, <1>u, <2>3, FS_RemoveElement DEF Size
  <2>5. Settled'
    BY <1>0, <1>s, <2>1, <2>2, <2>4 DEF Settled
  <2> QED
    BY <2>1, <2>5, SettledStep
<1>10. CASE SubtractFromCount
  <2>1. /\ owed > 0 /\ owed' = owed - 1 /\ count' = (count - 1) % Width
        /\ items' = items /\ pc' = pc /\ sweep' = sweep
    BY <1>10 DEF SubtractFromCount, fiberVars
  <2>2. \A f \in Fibers : ~Counting(f)
    BY <1>c, <2>1 DEF CountRight, Alone
  <2>3. Settled
    BY <1>c, <2>2 DEF CountRight
  <2>4. sweep = None /\ count = Size + owed /\ count <= Capacity
    BY <2>1, <2>3 DEF Settled
  <2>5. count - 1 \in 0 .. Width - 1
    BY <1>0, <1>s, <2>1, <2>4
  <2>6. count' = Size + owed'
    BY <1>0, <1>s, <2>1, <2>4, <2>5
  <2>7. Size' = Size
    BY <2>1 DEF Size, CachedKeys
  <2>8. Settled'
    BY <1>0, <1>s, <2>1, <2>3, <2>4, <2>6, <2>7 DEF Settled
  <2> QED
    BY <2>1, <2>2, <2>8, SettledStep
<1>11. ASSUME NEW n \in 1 .. Len(recency), SweepOld(n) PROVE CountRight'
  <2>1. PICK S : items' = Retained(S) /\ recency' = Only(recency, S)
    BY <1>11 DEF SweepOld
  <2>2. /\ ~(owed > 0) /\ (\A k \in Keys : items[k].state # "pending")
        /\ (\A f \in Fibers : ~Counting(f))
        /\ sweep = None /\ owed' = owed /\ pc' = pc /\ count' = count
        /\ sweep' = Cardinality({k \in Keys : items'[k].state # "absent"})
    BY <1>11 DEF SweepOld, fiberVars
  <2>3. owed = 0
    BY <1>0, <2>2
  <2>4. {k \in Keys : items'[k].state # "absent"} = CachedKeys'
    BY <1>0, <2>1, <2>2 DEF Retained, CachedKeys, ItemsTypeOK, Absent
  <2>5. sweep' = Size'
    BY <1>u, <2>2, <2>4
  <2>6. Settled
    BY <1>c, <2>2 DEF CountRight
  <2>7. Size' <= Size
    <3>1. CachedKeys' \in SUBSET CachedKeys
      BY <1>0, <2>1, ListsRetained
    <3> QED
      BY <1>s, <1>u, <3>1, FS_Subset DEF Size
  <2>8. Settled'
    BY <1>0, <1>s, <1>u, <2>2, <2>3, <2>5, <2>6, <2>7 DEF Settled
  <2> QED
    BY <2>2, <2>8, SettledStep
<1>12. CASE StoreSweep
  <2>1. /\ sweep # None /\ count' = sweep /\ sweep' = None
        /\ items' = items /\ pc' = pc /\ owed' = owed
    BY <1>12 DEF StoreSweep, fiberVars
  <2>2. \A f \in Fibers : ~Counting(f)
    BY <1>c, <2>1 DEF CountRight, Alone
  <2>3. Settled
    BY <1>c, <2>2 DEF CountRight
  <2>4. Size' = Size
    BY <2>1 DEF Size, CachedKeys
  <2>5. Settled'
    BY <1>s, <2>1, <2>3, <2>4 DEF Settled
  <2> QED
    BY <2>1, <2>2, <2>5, SettledStep
<1>13. CASE UNCHANGED vars
  <2>1. UNCHANGED <<items, pc, keep, count, owed, sweep>>
    BY <1>13 DEF vars, fiberVars, removalVars
  <2> QED
    BY <1>c, <2>1 DEF CountRight, Settled, Alone, Counting, Size, CachedKeys
<1> QED
  BY <1>1, <1>2, <1>3, <1>4, <1>5, <1>6, <1>7, <1>8, <1>9, <1>10, <1>11, <1>12, <1>13
  DEF Next, FiberStep

LEMMA CountInit == Init => CountInv
<1> SUFFICES ASSUME Init PROVE CountInv
  OBVIOUS
<1>1. CachedKeys = {} /\ recency = <<>> /\ owed = 0 /\ sweep = None /\ count = 0
  BY DEF Init, CachedKeys, Absent
<1>2. Size = 0
  BY <1>1, FS_EmptySet DEF Size
<1>3. \A f \in Fibers : ~Counting(f)
  BY DEF Init, Counting
<1>4. Lists(recency, CachedKeys)
  BY <1>1 DEF Lists
<1>5. keep \in [Fibers -> SUBSET Keys] /\ overlap \in BOOLEAN
  BY DEF Init
<1> QED
  BY <1>1, <1>2, <1>3, <1>4, <1>5, CacheAssumption
  DEF CountInv, CountTypeOK, CountRight, Settled

(* As long as insertions, removals and evictions do not overlap on the     *)
(* counter, the cache is within its capacity whenever no fiber is between  *)
(* its insertion and the end of its eviction, for every capacity and every *)
(* number of keys (cache.rs get_or_insert, evict_least_recently_used,      *)
(* remove, evict_older_than).                                              *)
THEOREM CacheKeepsCapacity == Spec => []CapacityKept
<1>1. Init => OnceInv /\ CountInv
  BY OnceInit, CountInit
<1>2. OnceInv /\ CountInv /\ [Next]_vars => (OnceInv /\ CountInv)'
  <2> SUFFICES ASSUME OnceInv, CountInv, [Next]_vars PROVE OnceInv' /\ CountInv'
    OBVIOUS
  <2>1. CountTypeOK /\ (~overlap => CountRight)
    BY DEF CountInv
  <2>2. OnceInv' /\ CountTypeOK'
    BY <2>1, OnceStep, CountTypeStep
  <2>3. ~overlap' => CountRight'
    BY <2>1, CountStep
  <2> QED
    BY <2>2, <2>3 DEF CountInv
<1>3. OnceInv /\ CountInv => CapacityKept
  <2> SUFFICES ASSUME CountInv, ~overlap, \A f \in Fibers : ~Counting(f)
               PROVE  Cardinality(CachedKeys) <= Capacity
    BY DEF CapacityKept
  <2>1. Size + owed <= Capacity /\ owed \in Nat /\ Lists(recency, CachedKeys)
    BY DEF CountInv, CountRight, Settled, CountTypeOK
  <2>2. Size \in Nat
    BY <2>1, ListsCount DEF Size
  <2> QED
    BY <2>1, <2>2, CacheAssumption DEF Size
<1> QED
  BY <1>1, <1>2, <1>3, PTL DEF Spec
=============================================================================
