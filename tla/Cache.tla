-------------------------------- MODULE Cache -------------------------------
(***************************************************************************)
(* The concurrent cache of golem-common (cache.rs): active workers, open   *)
(* oplogs, components and connections are kept in one.  Each fiber calls   *)
(* get_or_insert once, for its key; the first one computes the value and   *)
(* the others wait on its broadcast channel.  Keys are removed by their    *)
(* users, evicted when the cache is full and evicted in the background.    *)
(* A step is one access to the map, to the counter or to the channel.      *)
(* get, try_get and get_or_insert_pending have no caller.                  *)
(***************************************************************************)
EXTENDS Integers, Sequences, FiniteSets, Selection

CONSTANTS
  Fibers,      \* the callers
  Keys, KeyOf, \* the keys, and the one each fiber asks for
  Capacity,    \* Some(capacity)
  EvictCount,  \* count of FullCacheEvictionMode::LeastRecentlyUsed
  None,        \* nobody
  Width,       \* bound: the counter wraps below 0 to Width - 1; larger than
               \* what the cache can hold, as usize is
  MaxRemoves,  \* bound: removals of a key
  MaxSweeps    \* bound: evictions by the background task

(* Every cache of the repository that is evicted by use evicts one item at *)
(* a time.                                                                 *)
ASSUME CacheAssumption ==
  /\ KeyOf \in [Fibers -> Keys]
  /\ Capacity \in Nat \ {0} /\ EvictCount \in 1 .. Capacity + 1
  /\ Width \in Nat /\ Width > Capacity + 1
  /\ None \notin Fibers /\ None \notin Nat
  /\ IsFiniteSet(Fibers)

VARIABLES
  items,      \* the map: state and the fiber whose value or channel it is
  recency,    \* the cached keys, the least recently used one first
  count,      \* the counter of cached items
  pc,         \* where a fiber is
  channel,    \* the fiber whose channel or value a fiber has taken from the map
  outcome,    \* what the computation of a fiber gave: "none", "ok" or "failed"
  receivers,  \* fibers subscribed to the channel of a fiber
  answer,     \* what a fiber returns: None or the fiber whose outcome it got
  keep,       \* keys_to_keep of an eviction in progress
  owed,       \* removals that have not lowered the counter yet
  sweep,      \* counter the background task is about to store, None if idle
  removes, sweeps,
  restarted,  \* ghost: removals of each key while its value was computed
  late,       \* ghost: fibers that subscribed after the value was sent
  overlap     \* ghost: steps of two fibers on the counter have overlapped

fiberVars == <<pc, channel, outcome, receivers, answer, keep>>
removalVars == <<owed, sweep, removes, sweeps>>
ghosts == <<restarted, late, overlap>>
vars == <<items, recency, count, fiberVars, removalVars, ghosts>>

Absent == [state |-> "absent", of |-> None]
Pending(f) == [state |-> "pending", of |-> f]
Cached(f) == [state |-> "cached", of |-> f]

CachedKeys == {k \in Keys : items[k].state = "cached"}

Init ==
  /\ items = [k \in Keys |-> Absent]
  /\ recency = <<>>
  /\ count = 0
  /\ pc = [f \in Fibers |-> "start"]
  /\ channel = [f \in Fibers |-> None]
  /\ outcome = [f \in Fibers |-> "none"]
  /\ receivers = [f \in Fibers |-> {}]
  /\ answer = [f \in Fibers |-> None]
  /\ keep = [f \in Fibers |-> {}]
  /\ owed = 0 /\ sweep = None /\ removes = 0 /\ sweeps = 0
  /\ restarted = [k \in Keys |-> 0]
  /\ late = {}
  /\ overlap = FALSE

(* The key becomes the most recently used one.                             *)
Used(k) == Append(Only(recency, Keys \ {k}), k)

Goto(f, where) == pc' = [pc EXCEPT ![f] = where]

-----------------------------------------------------------------------------
(* get_or_insert.                                                          *)

(* A slip: a value that is being computed counts as missing.               *)
AddUnlessCached(f) ==
  /\ pc[f] = "start"
  /\ items' = IF items[KeyOf[f]].state = "cached" THEN items
              ELSE [items EXCEPT ![KeyOf[f]] = Pending(f)]
  /\ channel' = [channel EXCEPT ![f] = items'[KeyOf[f]].of]
  /\ Goto(f, CASE items'[KeyOf[f]].state = "cached" -> "hit" [] OTHER -> "compute")
  /\ UNCHANGED <<recency, count, outcome, receivers, answer, keep, removalVars, ghosts>>

(* get_or_add_as_pending: the entry is taken or added under its lock, and  *)
(* cloned.                                                                 *)
GetOrAddAsPending(f) ==
  /\ pc[f] = "start"
  /\ items' = IF items[KeyOf[f]].state = "absent"
                THEN [items EXCEPT ![KeyOf[f]] = Pending(f)] ELSE items
  /\ channel' = [channel EXCEPT ![f] = items'[KeyOf[f]].of]
  /\ Goto(f, CASE items'[KeyOf[f]].state = "cached" -> "hit"
               [] items[KeyOf[f]].state = "absent" -> "compute"
               [] OTHER -> "subscribe")
  /\ UNCHANGED <<recency, count, outcome, receivers, answer, keep, removalVars, ghosts>>

(* update_last_access, if the item is still there.                         *)
Hit(f) ==
  /\ pc[f] = "hit"
  /\ recency' = IF KeyOf[f] \in CachedKeys THEN Used(KeyOf[f]) ELSE recency
  /\ answer' = [answer EXCEPT ![f] = channel[f]]
  /\ Goto(f, "done")
  /\ UNCHANGED <<items, count, channel, outcome, receivers, keep, removalVars, ghosts>>

(* The sender was cloned with the item: the channel is never closed, and a *)
(* message sent before this step is not seen.                              *)
Subscribe(f) ==
  /\ pc[f] = "subscribe"
  /\ receivers' = [receivers EXCEPT ![channel[f]] = @ \cup {f}]
  /\ late' = IF pc[channel[f]] \in {"evict", "retain", "store", "done"}
               THEN late \cup {f} ELSE late
  /\ Goto(f, "wait")
  /\ UNCHANGED <<items, recency, count, channel, outcome, answer, keep, removalVars,
                 restarted, overlap>>

(* f2, which succeeds or fails.                                            *)
Compute(f) ==
  /\ pc[f] = "compute"
  /\ \E result \in {"ok", "failed"} :
       /\ outcome' = [outcome EXCEPT ![f] = result]
       /\ Goto(f, IF result = "ok" THEN "insert" ELSE "send")
  /\ UNCHANGED <<items, recency, count, channel, receivers, answer, keep, removalVars,
                 ghosts>>

(* Between its insertion and the end of its eviction a fiber is counting.  *)
Counting(f) == pc[f] \in {"count", "sendFull", "evict", "retain", "store"}

Insert(f) ==
  /\ pc[f] = "insert"
  /\ items' = [items EXCEPT ![KeyOf[f]] = Cached(f)]
  /\ recency' = Used(KeyOf[f])
  /\ overlap' = (overlap \/ owed > 0 \/ sweep # None \/ (\E g \in Fibers : Counting(g))
                   \/ restarted[KeyOf[f]] > 0)
  /\ Goto(f, "count")
  /\ UNCHANGED <<count, channel, outcome, receivers, answer, keep, removalVars,
                 restarted, late>>

(* A slip: the cache is full when it has one more than its capacity.       *)
FullAbove(old) == old = Capacity + 1

(* if Some(old_count) == self.capacity                                     *)
Full(old) == old = Capacity

AddToCount(f) ==
  /\ pc[f] = "count"
  /\ count' = (count + 1) % Width
  /\ Goto(f, IF Full(count) THEN "sendFull" ELSE "send")
  /\ UNCHANGED <<items, recency, channel, outcome, receivers, answer, keep, removalVars,
                 ghosts>>

(* A slip: only a value is sent, not an error.                             *)
SentIfOk(f) ==
  IF outcome[f] = "ok" THEN [g \in Fibers |-> IF g \in receivers[f] THEN f ELSE answer[g]]
  ELSE answer

(* tx.send, to those that have subscribed so far.                          *)
Sent(f) == [g \in Fibers |-> IF g \in receivers[f] THEN f ELSE answer[g]]

Send(f) ==
  /\ pc[f] \in {"send", "sendFull"}
  /\ answer' = [Sent(f) EXCEPT ![f] = f]
  /\ Goto(f, IF pc[f] = "sendFull" THEN "evict" ELSE "done")
  /\ UNCHANGED <<items, recency, count, channel, outcome, receivers, keep, removalVars,
                 ghosts>>

Receive(f) ==
  /\ pc[f] = "wait" /\ answer[f] # None
  /\ Goto(f, "done")
  /\ UNCHANGED <<items, recency, count, channel, outcome, receivers, answer, keep,
                 removalVars, ghosts>>

-----------------------------------------------------------------------------
(* evict_least_recently_used: the keys to keep are collected, the others   *)
(* dropped, the counter set to the number of keys kept.                    *)

(* truncate(len - count) does nothing when the difference wraps.           *)
Recent(keys) ==
  IF Len(recency) < EvictCount THEN keys
  ELSE {recency[i] : i \in EvictCount + 1 .. Len(recency)}

Evict(f) ==
  /\ pc[f] = "evict"
  /\ keep' = [keep EXCEPT ![f] = Recent(CachedKeys)]
  /\ Goto(f, "retain")
  /\ UNCHANGED <<items, recency, count, channel, outcome, receivers, answer, removalVars,
                 ghosts>>

(* Items that are not cached any more, or not among the keys to keep.      *)
Retained(keys) ==
  [k \in Keys |-> IF items[k].state = "cached" /\ k \notin keys THEN Absent ELSE items[k]]

Retain(f) ==
  /\ pc[f] = "retain"
  /\ items' = Retained(keep[f])
  /\ recency' = Only(recency, keep[f])
  /\ Goto(f, "store")
  /\ UNCHANGED <<count, channel, outcome, receivers, answer, keep, removalVars, ghosts>>

StoreCount(f) ==
  /\ pc[f] = "store"
  /\ count' = Cardinality(keep[f])
  /\ keep' = [keep EXCEPT ![f] = {}]
  /\ Goto(f, "done")
  /\ UNCHANGED <<items, recency, channel, outcome, receivers, answer, removalVars, ghosts>>

-----------------------------------------------------------------------------
(* remove and the weak remover, and evict_older_than of the background     *)
(* task.                                                                   *)

Remove(k) ==
  /\ removes < MaxRemoves /\ items[k].state # "absent"
  /\ removes' = removes + 1
  /\ owed' = owed + 1
  /\ items' = [items EXCEPT ![k] = Absent]
  /\ recency' = Only(recency, Keys \ {k})
  /\ restarted' = IF items[k].state = "pending" THEN [restarted EXCEPT ![k] = @ + 1]
                  ELSE restarted
  /\ overlap' = (overlap \/ items[k].state = "pending" \/ sweep # None
                   \/ \E f \in Fibers : Counting(f))
  /\ UNCHANGED <<count, fiberVars, sweep, sweeps, late>>

SubtractFromCount ==
  /\ owed > 0
  /\ owed' = owed - 1
  /\ count' = (count - 1) % Width
  /\ UNCHANGED <<items, recency, fiberVars, sweep, removes, sweeps, ghosts>>

(* The n items that were not used for longest are older than the ttl;      *)
(* pending ones are counted with the rest.                                 *)
SweepOld(n) ==
  LET kept == {recency[i] : i \in n + 1 .. Len(recency)}
  IN /\ sweep = None /\ sweeps < MaxSweeps
     /\ sweeps' = sweeps + 1
     /\ items' = Retained(kept)
     /\ recency' = Only(recency, kept)
     /\ sweep' = Cardinality({k \in Keys : items'[k].state # "absent"})
     /\ overlap' = (overlap \/ owed > 0 \/ (\E k \in Keys : items[k].state = "pending")
                      \/ \E f \in Fibers : Counting(f))
     /\ UNCHANGED <<count, fiberVars, owed, removes, restarted, late>>

StoreSweep ==
  /\ sweep # None
  /\ count' = sweep
  /\ sweep' = None
  /\ UNCHANGED <<items, recency, fiberVars, owed, removes, sweeps, ghosts>>

-----------------------------------------------------------------------------
FiberStep(f) ==
  \/ GetOrAddAsPending(f) \/ Hit(f) \/ Subscribe(f) \/ Receive(f)
  \/ Compute(f) \/ Insert(f) \/ AddToCount(f) \/ Send(f)
  \/ Evict(f) \/ Retain(f) \/ StoreCount(f)

Next ==
  \/ \E f \in Fibers : FiberStep(f)
  \/ \E k \in Keys : Remove(k)
  \/ SubtractFromCount
  \/ \E n \in 1 .. Len(recency) : SweepOld(n)
  \/ StoreSweep

Spec == Init /\ [][Next]_vars

(* A fiber that can go on goes on; the computation ends.                   *)
FairSpec == Spec /\ \A f \in Fibers : WF_vars(FiberStep(f))

-----------------------------------------------------------------------------
(* Properties.                                                             *)

Computing(k) == {f \in Fibers : KeyOf[f] = k /\ pc[f] = "compute"}

(* "the async function computing the cached value is only executed once    *)
(* for each key if multiple fibers are requesting it": two run at the same *)
(* time only if the key was removed while it was computed.                 *)
ComputedOnce == \A k \in Keys : Cardinality(Computing(k)) <= 1 + restarted[k]

(* A fiber that waits for another's computation is answered with its       *)
(* outcome, an error too, unless it subscribed after the outcome was sent. *)
WaitersAnswered ==
  \A f \in Fibers : pc[f] = "wait" ~> (pc[f] = "done" \/ f \in late)

(* The counter keeps the cache within its capacity as long as insertions,  *)
(* removals and evictions do not overlap.                                  *)
CapacityKept ==
  (~overlap /\ \A f \in Fibers : ~Counting(f)) => Cardinality(CachedKeys) <= Capacity
=============================================================================
