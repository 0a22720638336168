---------------------------- MODULE WorkerProofs ----------------------------
(***************************************************************************)
(* Proofs about a worker, for every set of clients and keys, every retry   *)
(* policy and any number of faults.                                        *)
(***************************************************************************)
EXTENDS Worker, IndexLemmas, FiniteSetTheorems

Kinds == {"Create", "Pending", "Invoked", "Completed", "Host", "Error", "Interrupted",
          "Suspend", "Exited"}
Entries == [kind : Kinds, key : Keys \cup {None}]

ClientPlaces == {"new", "valid", "started", "enqueue", "record", "push", "persist",
                 "accepted", "waiting", "told"}

Places ==
  {"none", "create", "replay", "prepared", "ready", "Invocation", "Interrupt", "Restart",
   "save", "enter", "guest", "grow", "success", "completed", "done", "failure", "failed",
   "giveup", "end", "abort", "stop", "unload", "restart"}

LoopStates ==
  [pc : Places, current : Keys \cup {None}, replaying : BOOLEAN, trap : Traps \cup {None},
   decision : {"None", "Immediate", "Delayed", "ReacquirePermits", "Fail"}, at : Nat,
   next : Places \cup {None}]

StateTypeOK ==
  /\ oplog \in Seq(Entries) /\ queue \in Seq(Keys)
  /\ commands \in Seq({"Invocation", "Interrupt", "Restart"})
  /\ loop \in LoopStates
  /\ client \in [Clients -> ClientPlaces] /\ DOMAIN told = Clients
  /\ stopping \in BOOLEAN /\ idle \in BOOLEAN

(* What a crash leaves of the queue, recomputed from the oplog, is a       *)
(* sequence of keys.                                                       *)
RecoveryTyped == LatestRecord.pending \in Seq(Keys)

-----------------------------------------------------------------------------
(* Commands that ask for an invocation.                                    *)
Asked(s) == {i \in DOMAIN s : s[i] = "Invocation"}

LEMMA AskedFinite ==
  ASSUME NEW S, NEW s \in Seq(S)
  PROVE  IsFiniteSet(Asked(s)) /\ Cardinality(Asked(s)) \in Nat
<1>1. Asked(s) \in SUBSET Nat /\ Len(s) \in Nat /\ \A i \in Asked(s) : i <= Len(s)
  BY DEF Asked
<1> QED
  BY <1>1, FS_BoundedSetOfNaturals, FS_CardinalityType

LEMMA AskedAppend ==
  ASSUME NEW S, NEW s \in Seq(S), NEW e \in S
  PROVE  Cardinality(Asked(Append(s, e))) =
           Cardinality(Asked(s)) + (IF e = "Invocation" THEN 1 ELSE 0)
<1>1. Len(s) \in Nat /\ DOMAIN s = 1 .. Len(s) /\ DOMAIN Append(s, e) = 1 .. Len(s) + 1
      /\ \A i \in 1 .. Len(s) + 1 : Append(s, e)[i] = IF i = Len(s) + 1 THEN e ELSE s[i]
  OBVIOUS
<1>2. CASE e = "Invocation"
  <2>1. Asked(Append(s, e)) = Asked(s) \cup {Len(s) + 1} /\ Len(s) + 1 \notin Asked(s)
    BY <1>1, <1>2 DEF Asked
  <2> QED
    BY <1>2, <2>1, AskedFinite, FS_AddElement
<1>3. CASE e # "Invocation"
  <2>1. Asked(Append(s, e)) = Asked(s)
    BY <1>1, <1>3 DEF Asked
  <2> QED
    BY <1>3, <2>1, AskedFinite
<1> QED
  BY <1>2, <1>3

LEMMA AskedTail ==
  ASSUME NEW S, NEW s \in Seq(S), s # <<>>
  PROVE  Cardinality(Asked(Tail(s))) + (IF Head(s) = "Invocation" THEN 1 ELSE 0)
           = Cardinality(Asked(s))
<1>1. Len(s) \in Nat /\ Len(s) >= 1 /\ DOMAIN s = 1 .. Len(s) /\ Head(s) = s[1]
      /\ DOMAIN Tail(s) = 1 .. Len(s) - 1
      /\ \A i \in 1 .. Len(s) - 1 : Tail(s)[i] = s[i + 1]
      /\ Tail(s) \in Seq(S)
  OBVIOUS
<1> DEFINE A == Asked(Tail(s))  B == Asked(s) \ {1}
           f == [i \in A |-> i + 1]
<1>2. A \subseteq 1 .. Len(s) - 1 /\ B = {i \in 2 .. Len(s) : s[i] = "Invocation"}
  BY <1>1 DEF Asked
<1>3. \A i \in A : i + 1 \in B
  BY <1>1, <1>2 DEF Asked
<1>4. \A j \in B : j - 1 \in A /\ (j - 1) + 1 = j
  BY <1>1, <1>2 DEF Asked
<1>5. f \in Bijection(A, B)
  <2>1. f \in [A -> B]
    BY <1>3
  <2>2. \A i, j \in A : f[i] = f[j] => i = j
    BY <1>1, <1>2
  <2>3. \A j \in B : \E i \in A : f[i] = j
    BY <1>4
  <2> HIDE DEF f, A, B
  <2> QED
    BY <2>1, <2>2, <2>3 DEF Bijection, Injection, Surjection, IsInjective
<1>6. ExistsBijection(A, B)
  BY <1>5, Zenon DEF ExistsBijection
<1>7. IsFiniteSet(A) /\ IsFiniteSet(Asked(s)) /\ Cardinality(Asked(s)) \in Nat
      /\ Cardinality(A) \in Nat
  <2>0. Tail(s) \in Seq(S)
    BY <1>1
  <2>1. PICK t \in Seq(S) : t = Tail(s)
    BY ONLY <2>0, Zenon
  <2>2. IsFiniteSet(Asked(t)) /\ Cardinality(Asked(t)) \in Nat
    BY AskedFinite
  <2>3. IsFiniteSet(Asked(s)) /\ Cardinality(Asked(s)) \in Nat
    BY AskedFinite
  <2> QED
    BY <2>1, <2>2, <2>3
<1>8. Cardinality(B) = Cardinality(A)
  BY <1>6, <1>7, FS_Bijection
<1>9. Cardinality(B) = Cardinality(Asked(s)) - (IF 1 \in Asked(s) THEN 1 ELSE 0)
  <2>1. Cardinality(B) = IF 1 \in Asked(s) THEN Cardinality(Asked(s)) - 1
                                            ELSE Cardinality(Asked(s))
    BY <1>7, FS_RemoveElement
  <2> QED
    BY <1>7, <2>1
<1>10. 1 \in Asked(s) <=> Head(s) = "Invocation"
  BY <1>1 DEF Asked
<1> QED
  BY <1>7, <1>8, <1>9, <1>10

LEMMA AskedAll ==
  ASSUME NEW q \in Seq(Keys)
  PROVE  Cardinality(Asked([i \in DOMAIN q |-> "Invocation"])) = Len(q)
<1>1. DOMAIN q = 1 .. Len(q) /\ Len(q) \in Nat
  OBVIOUS
<1>2. Asked([i \in DOMAIN q |-> "Invocation"]) = 1 .. Len(q)
  BY <1>1 DEF Asked
<1>3. PICK n \in Nat : n = Len(q)
  BY <1>1
<1>4. Cardinality(1 .. n) = n
  <2>1. Cardinality(1 .. n) = IF 1 > n THEN 0 ELSE n - 1 + 1
    BY FS_Interval
  <2> QED
    BY <2>1
<1> QED
  BY <1>2, <1>3, <1>4

-----------------------------------------------------------------------------
(* The unfinished invocation when the oplog grows.                         *)

LEMMA MaxIsGreatest ==
  ASSUME NEW n \in Nat, NEW S \in SUBSET (1 .. n), S # {}
  PROVE  Max(S) \in S /\ \A i \in S : i <= Max(S)
<1>1. S \in SUBSET Nat /\ \A i \in S : i <= n
  OBVIOUS
<1>2. PICK m \in S : \A i \in S : i <= m
  BY <1>1, GreatestIndex
<1>3. \A i \in S : m >= i
  BY <1>1, <1>2
<1>4. Max(S) \in S /\ \A i \in S : Max(S) >= i
  BY <1>3 DEF Max
<1> QED
  BY <1>1, <1>4

LEMMA UnfinishedTyped ==
  ASSUME oplog \in Seq(Entries)
  PROVE  /\ Unfinished \in Keys \cup {None}
         /\ InvokedIndexes # {} => oplog[Max(InvokedIndexes)].key \in Keys \cup {None}
<1>1. Len(oplog) \in Nat /\ InvokedIndexes \in SUBSET (1 .. Len(oplog))
  BY DEF InvokedIndexes
<1>2. ASSUME InvokedIndexes # {}
      PROVE  oplog[Max(InvokedIndexes)].key \in Keys \cup {None}
  <2>1. Max(InvokedIndexes) \in 1 .. Len(oplog)
    BY <1>1, <1>2, MaxIsGreatest
  <2>2. PICK m \in 1 .. Len(oplog) : m = Max(InvokedIndexes)
    BY <2>1
  <2>3. oplog[m] \in Entries
    OBVIOUS
  <2> QED
    BY <2>2, <2>3 DEF Entries
<1> QED
  BY <1>2 DEF Unfinished

LEMMA UnfinishedAppend ==
  ASSUME oplog \in Seq(Entries), NEW e \in Entries, oplog' = Append(oplog, e)
  PROVE  /\ e.kind \notin {"Invoked", "Completed"} => Unfinished' = Unfinished
         /\ e.kind = "Invoked" => Unfinished' = e.key
         /\ e.kind = "Completed" => Unfinished' = None
<1>1. PICK n \in Nat : n = Len(oplog)
  OBVIOUS
<1>2. /\ DOMAIN oplog = 1 .. n /\ DOMAIN oplog' = 1 .. n + 1
      /\ oplog'[n + 1] = e /\ \A i \in 1 .. n : oplog'[i] = oplog[i]
  BY <1>1
<1>3. InvokedIndexes \in SUBSET (1 .. n)
  BY <1>2 DEF InvokedIndexes
<1>4. PICK m : m = Max(InvokedIndexes)
  OBVIOUS
<1>5. InvokedIndexes # {} => m \in 1 .. n
  BY <1>3, <1>4, MaxIsGreatest
<1>6. Unfinished = IF InvokedIndexes = {} \/ \E i \in 1 .. n : i > m /\ oplog[i].kind = "Completed"
                   THEN None ELSE oplog[m].key
  BY <1>2, <1>4 DEF Unfinished
<1>7. ASSUME e.kind # "Invoked"
      PROVE  Unfinished' = IF \/ InvokedIndexes = {}
                              \/ \E i \in 1 .. n + 1 : i > m /\ oplog'[i].kind = "Completed"
                           THEN None ELSE oplog'[m].key
  <2>1. InvokedIndexes' = InvokedIndexes
    BY <1>2, <1>7 DEF InvokedIndexes
  <2> QED
    BY <1>2, <1>4, <2>1, Zenon DEF Unfinished
<1>8. ASSUME e.kind \notin {"Invoked", "Completed"} PROVE Unfinished' = Unfinished
  <2>1. CASE InvokedIndexes = {}
    BY <1>6, <1>7, <1>8, <2>1
  <2>2. CASE InvokedIndexes # {}
    <3>1. oplog'[m].key = oplog[m].key
      BY <1>2, <1>5, <2>2
    <3>2. (\E i \in 1 .. n + 1 : i > m /\ oplog'[i].kind = "Completed")
            <=> (\E i \in 1 .. n : i > m /\ oplog[i].kind = "Completed")
      <4>1. ASSUME NEW i \in 1 .. n + 1, oplog'[i].kind = "Completed"
            PROVE  i \in 1 .. n /\ oplog[i].kind = "Completed"
        <5>1. i # n + 1
          BY <1>2, <1>8, <4>1
        <5>2. i \in 1 .. n
          BY <5>1
        <5> QED
          BY <1>2, <4>1, <5>2
      <4>2. ASSUME NEW i \in 1 .. n, oplog[i].kind = "Completed"
            PROVE  i \in 1 .. n + 1 /\ oplog'[i].kind = "Completed"
        BY <1>2, <4>2
      <4> QED
        BY <4>1, <4>2
    <3>3. Unfinished' = IF \E i \in 1 .. n + 1 : i > m /\ oplog'[i].kind = "Completed"
                        THEN None ELSE oplog'[m].key
      BY <1>7, <1>8, <2>2
    <3>4. Unfinished = IF \E i \in 1 .. n : i > m /\ oplog[i].kind = "Completed"
                       THEN None ELSE oplog[m].key
      BY <1>6, <2>2
    <3> QED
      BY ONLY <3>1, <3>2, <3>3, <3>4
  <2> QED
    BY <2>1, <2>2
<1>9. ASSUME e.kind = "Completed" PROVE Unfinished' = None
  <2>1. CASE InvokedIndexes = {}
    BY <1>7, <1>9, <2>1
  <2>2. CASE InvokedIndexes # {}
    <3>1. n + 1 > m /\ n + 1 \in 1 .. n + 1 /\ oplog'[n + 1].kind = "Completed"
      BY <1>2, <1>5, <1>9, <2>2
    <3> QED
      BY <1>7, <1>9, <3>1
  <2> QED
    BY <2>1, <2>2
<1>10. ASSUME e.kind = "Invoked" PROVE Unfinished' = e.key
  <2>1. InvokedIndexes' \in SUBSET (1 .. n + 1) /\ n + 1 \in InvokedIndexes'
    BY <1>2, <1>10 DEF InvokedIndexes
  <2>2. PICK k : k = Max(InvokedIndexes')
    OBVIOUS
  <2>3. k \in 1 .. n + 1 /\ k >= n + 1
    <3>1. n + 1 \in Nat
      OBVIOUS
    <3> QED
      BY <2>1, <2>2, <3>1, MaxIsGreatest
  <2>4. k = n + 1
    BY <2>3
  <2>5. ~ \E i \in 1 .. n + 1 : i > n + 1
    OBVIOUS
  <2>6. Unfinished' = oplog'[k].key
    BY <1>2, <2>1, <2>2, <2>4, <2>5, Zenon DEF Unfinished
  <2> QED
    BY <1>2, <2>4, <2>6
<1> QED
  BY <1>8, <1>9, <1>10

-----------------------------------------------------------------------------
(* The loop is at one of the places, or is about to be.                    *)
At(places) == loop.pc \in places \/ (loop.pc = "save" /\ loop.next \in places)

(* Where the loop has finished an invocation, or has not begun the next,   *)
(* the oplog has no unfinished one; where it runs one, that is the one.    *)
LoopInv ==
  /\ loop.pc = "save" => loop.next \in {"enter", "guest", "grow", "prepared", "done", "giveup"}
  /\ idle => loop.pc \in {"ready", "Interrupt", "Restart", "Invocation"}
  /\ loop.decision = "ReacquirePermits" => At({"failed", "giveup", "end", "stop", "unload"})
  /\ At({"prepared", "ready", "Interrupt", "Restart", "Invocation", "enter", "completed",
         "done"}) => Unfinished = None
  /\ At({"guest", "grow", "success"}) => Unfinished = loop.current

(* An eviction meets no command for an invocation and nothing to replay to *)
(* the end; the loop goes on to its end.                                   *)
EvictionInv ==
  lock = "evictor" =>
    /\ stopping /\ queue = <<>> /\ Unfinished = None /\ Asked(commands) = {}
    /\ loop.decision # "ReacquirePermits"
    /\ At({"ready", "Interrupt", "Restart", "end", "create", "replay", "prepared", "abort",
           "stop", "none"})

(* Who holds the lock, and that a loop without an eviction is the one of   *)
(* the running worker.                                                     *)
LockInv ==
  /\ \A c \in Clients : client[c] \in {"record", "push", "persist"} => lock = c
  /\ loop.pc \notin {"none", "restart"} /\ lock # "evictor" => instance = "Running"

WorkerInv ==
  StateTypeOK /\ LoopInv /\ EvictionInv /\ LockInv /\ CommandsMatchQueue

-----------------------------------------------------------------------------
(* Types.                                                                  *)

LEMMA PlacesAre ==
  /\ {"none", "create", "replay", "prepared", "ready", "Invocation", "Interrupt", "Restart"}
       \subseteq Places
  /\ {"save", "enter", "guest", "grow", "success", "completed", "done", "failure"}
       \subseteq Places
  /\ {"failed", "giveup", "end", "abort", "stop", "unload", "restart"} \subseteq Places
BY DEF Places

LEMMA NoLoopTyped ==
  ASSUME NEW pc \in Places
  PROVE  /\ [NoLoop EXCEPT !.pc = pc] \in LoopStates
         /\ [NoLoop EXCEPT !.pc = pc, !.replaying = TRUE] \in LoopStates
         /\ NoLoop \in LoopStates
<1> HIDE DEF Places, Traps
<1>1. "none" \in Places
  BY PlacesAre
<1> QED
  BY <1>1 DEF NoLoop, LoopStates

LEMMA EntryTyped ==
  ASSUME NEW kind \in Kinds, NEW k \in Keys \cup {None}
  PROVE  /\ Entry(kind, k) \in Entries
         /\ Entry(kind, k).kind = kind /\ Entry(kind, k).key = k
BY DEF Entry, Entries

(* What a step of a client changes.                                        *)
LEMMA ClientChanges ==
  ASSUME NEW c \in Clients, Client(c)
  PROVE  /\ UNCHANGED <<loop, idle, stopping, results, dropped, faults>>
         /\ \E place \in ClientPlaces : client' = [client EXCEPT ![c] = place]
         /\ oplog' = oplog \/ oplog' = Append(oplog, Entry("Pending", KeyOf[c]))
         /\ queue' = queue \/ queue' = Append(queue, KeyOf[c])
         /\ commands' = commands \/ commands' = Append(commands, "Invocation")
         /\ told' = told \/ \E answer : told' = [told EXCEPT ![c] = answer]
<1>1. "valid" \in ClientPlaces /\ "started" \in ClientPlaces /\ "enqueue" \in ClientPlaces
      /\ "record" \in ClientPlaces /\ "push" \in ClientPlaces /\ "persist" \in ClientPlaces
      /\ "accepted" \in ClientPlaces /\ "waiting" \in ClientPlaces
      /\ "told" \in ClientPlaces
  BY DEF ClientPlaces
<1>2. CASE Validate(c) \/ Start(c) \/ Lookup(c) \/ Subscribe(c)
  BY <1>1, <1>2 DEF Validate, Start, Lookup, Subscribe, StartIfNeeded, lifeVars, Tell, Step, ghosts
<1>3. CASE EnqueueIdle(c) \/ EnqueueBusy(c) \/ RecordBusy(c)
  BY <1>1, <1>3 DEF EnqueueIdle, EnqueueBusy, RecordBusy, Push, lifeVars, Step, ghosts
<1>4. CASE PushBusy(c) \/ EnqueueUnloaded(c) \/ Persist(c)
  BY <1>1, <1>4 DEF PushBusy, EnqueueUnloaded, Persist, Push, lifeVars, Step, ghosts
<1> QED
  BY <1>2, <1>3, <1>4 DEF Client

LEMMA ClientTyped ==
  ASSUME StateTypeOK, NEW c \in Clients, Client(c)
  PROVE  StateTypeOK'
<1>1. KeyOf[c] \in Keys /\ "Invocation" \in {"Invocation", "Interrupt", "Restart"}
      /\ "Pending" \in Kinds
  BY DEF Keys, Kinds
<1>2. Entry("Pending", KeyOf[c]) \in Entries
  BY <1>1, EntryTyped
<1>3. UNCHANGED <<loop, idle, stopping>>
  BY ClientChanges
<1>4. client' \in [Clients -> ClientPlaces]
  BY ClientChanges DEF StateTypeOK
<1>5. oplog' \in Seq(Entries)
  <2>1. oplog' = oplog \/ oplog' = Append(oplog, Entry("Pending", KeyOf[c]))
    BY ClientChanges
  <2>2. oplog \in Seq(Entries)
    BY DEF StateTypeOK
  <2> QED
    BY ONLY <1>2, <2>1, <2>2
<1>6. queue' \in Seq(Keys)
  <2>1. queue' = queue \/ queue' = Append(queue, KeyOf[c])
    BY ClientChanges
  <2>2. queue \in Seq(Keys)
    BY DEF StateTypeOK
  <2> QED
    BY ONLY <1>1, <2>1, <2>2
<1>7. commands' \in Seq({"Invocation", "Interrupt", "Restart"})
  <2>1. commands' = commands \/ commands' = Append(commands, "Invocation")
    BY ClientChanges
  <2>2. commands \in Seq({"Invocation", "Interrupt", "Restart"})
    BY DEF StateTypeOK
  <2> QED
    BY ONLY <1>1, <2>1, <2>2
<1>8. DOMAIN told' = Clients
  BY ClientChanges DEF StateTypeOK
<1> QED
  BY <1>3, <1>4, <1>5, <1>6, <1>7, <1>8 DEF StateTypeOK

(* Steps of the loop.                                                      *)
LEMMA SaveTyped ==
  ASSUME NEW state \in LoopStates, NEW place \in Places, SaveThen(state, place)
  PROVE  loop' \in LoopStates
BY PlacesAre DEF SaveThen, LoopStates

LEMMA LoopTyped ==
  ASSUME StateTypeOK, LoopInv, loop.pc = "Invocation" => queue # <<>>, Loop
  PROVE  loop' \in LoopStates
<1> USE DEF StateTypeOK
<1>0. loop \in LoopStates /\ "create" \in Places /\ "replay" \in Places /\ "restart" \in Places
      /\ "save" \in Places
  BY PlacesAre
<1>1. CASE StartWithPermit \/ CreateInstance \/ RestartOnOom
  BY <1>0, <1>1, NoLoopTyped DEF StartWithPermit, CreateInstance, RestartOnOom
<1>2. CASE Replay
  <2>1. Unfinished \in Keys \cup {None}
        /\ (InvokedIndexes # {} => oplog[Max(InvokedIndexes)].key \in Keys \cup {None})
    BY UnfinishedTyped
  <2>2. CASE Goto("abort") \/ Goto("prepared")
    BY <1>0, <2>2, PlacesAre DEF Goto, LoopStates
  <2>3. CASE SaveThen([loop EXCEPT !.current = oplog[Max(InvokedIndexes)].key], "prepared")
             /\ InvokedIndexes # {}
    <3>1. PICK k \in Keys \cup {None} : k = oplog[Max(InvokedIndexes)].key
      BY <2>1, <2>3
    <3>2. [loop EXCEPT !.current = k] \in LoopStates /\ "prepared" \in Places
      BY <1>0, PlacesAre DEF LoopStates
    <3> QED
      BY <2>3, <3>1, <3>2, SaveTyped
  <2>4. CASE SaveThen([loop EXCEPT !.current = Unfinished], "guest")
    <3>1. PICK k \in Keys \cup {None} : k = Unfinished
      BY <2>1
    <3>2. [loop EXCEPT !.current = k] \in LoopStates /\ "guest" \in Places
      BY <1>0, PlacesAre DEF LoopStates
    <3> QED
      BY <2>4, <3>1, <3>2, SaveTyped
  <2> QED
    BY <1>2, <2>2, <2>3, <2>4 DEF Replay
<1>3. CASE Prepared \/ InterruptCommand \/ ChannelClosed \/ NextCommand
  BY <1>0, <1>3, PlacesAre DEF Prepared, InterruptCommand, ChannelClosed, NextCommand, Goto,
     LoopStates
<1>4. CASE Receive
  <2>1. PICK m \in {"Invocation", "Interrupt", "Restart"} : m = Head(commands)
    BY <1>4 DEF Receive
  <2>2. m \in Places
    BY PlacesAre
  <2> QED
    BY <1>0, <1>4, <2>1, <2>2 DEF Receive, LoopStates
<1>5. CASE Dequeue
  <2>1. PICK k \in Keys \cup {None} : k = Head(queue)
    BY <1>5 DEF Dequeue
  <2>2. [loop EXCEPT !.current = k] \in LoopStates /\ "enter" \in Places
    BY <1>0, PlacesAre DEF LoopStates
  <2> QED
    BY <1>5, <2>1, <2>2, SaveTyped DEF Dequeue
<1>6. CASE SaveStatus
  <2>1. loop.next \in Places
    BY <1>6, PlacesAre DEF SaveStatus, LoopInv
  <2> QED
    BY <1>0, <1>6, <2>1 DEF SaveStatus, LoopStates
<1>7. CASE Enter \/ WantMemory
  <2>1. "guest" \in Places /\ "grow" \in Places
    BY PlacesAre
  <2> QED
    BY <1>0, <1>7, <2>1, SaveTyped DEF Enter, WantMemory
<1>8. CASE HostCall
  BY <1>0, <1>8 DEF HostCall
<1>9. CASE GotMemory \/ Succeed \/ RecordSuccess \/ End
  BY <1>0, <1>9, PlacesAre DEF GotMemory, Succeed, RecordSuccess, End, Goto, LoopStates
<1>10. ASSUME NEW trap \in Traps, Trap(trap) PROVE loop' \in LoopStates
  BY <1>0, <1>10, PlacesAre DEF Trap, LoopStates
<1>11. CASE StoreSuccess
  <2>1. "prepared" \in Places /\ "done" \in Places
    BY PlacesAre
  <2> QED
    BY <1>0, <1>11, <2>1, SaveTyped DEF StoreSuccess
<1>12. CASE RecordFailure
  <2>1. PICK d \in {"None", "Immediate", "Delayed", "ReacquirePermits", "Fail"} :
          d = DecisionOnTrap(loop.trap)
    BY DEF DecisionOnTrap
  <2> QED
    BY <1>0, <1>12, <2>1, PlacesAre DEF RecordFailure, LoopStates
<1>13. CASE ReadFailureIndex
  <2>1. PICK n \in Nat : n = Len(oplog)
    OBVIOUS
  <2>2. [loop EXCEPT !.at = n] \in LoopStates /\ "giveup" \in Places
    BY <1>0, PlacesAre DEF LoopStates
  <2> QED
    BY <1>13, <2>1, <2>2, SaveTyped DEF ReadFailureIndex
<1>14. CASE GiveUp \/ Abort
  <2>1. CASE GiveUp
    <3>1. \E place \in {"abort", "end"} : Goto(place)
      BY <2>1 DEF GiveUp
    <3> QED
      BY <1>0, <3>1, PlacesAre DEF Goto, LoopStates
  <2>2. CASE Abort
    BY <1>0, <2>2, PlacesAre DEF Abort, LoopStates
  <2> QED
    BY <1>14, <2>1, <2>2
<1>15. CASE Stopping \/ Stop
  <2>1. AfterStop \in LoopStates
    BY <1>0, NoLoopTyped DEF AfterStop
  <2>2. [loop EXCEPT !.pc = "unload"] \in LoopStates
    BY <1>0, PlacesAre DEF LoopStates
  <2> QED
    BY <1>15, <2>1, <2>2 DEF Stopping, Stop
<1> QED
  BY <1>1, <1>2, <1>3, <1>4, <1>5, <1>6, <1>7, <1>8, <1>9, <1>10, <1>11, <1>12, <1>13,
     <1>14, <1>15 DEF Loop

LEMMA PublishTyped ==
  ASSUME StateTypeOK, NEW keys, NEW answer, Publish(keys, answer)
  PROVE  client' \in [Clients -> ClientPlaces] /\ DOMAIN told' = Clients
BY DEF Publish, StateTypeOK, ClientPlaces

(* What a step of the loop does to the oplog.                              *)
LEMMA LoopWrites ==
  ASSUME StateTypeOK, Loop
  PROVE  oplog' = oplog \/ \E e \in Entries : oplog' = Append(oplog, e)
<1>0. /\ \A kind \in Kinds : \A k \in Keys \cup {None} : Entry(kind, k) \in Entries
      /\ "Invoked" \in Kinds /\ "Host" \in Kinds /\ "Completed" \in Kinds
      /\ "Error" \in Kinds /\ "Interrupted" \in Kinds /\ "Suspend" \in Kinds /\ "Exited" \in Kinds
      /\ loop.current \in Keys \cup {None}
  BY EntryTyped DEF Kinds, StateTypeOK, LoopStates
<1>1. CASE StartWithPermit \/ CreateInstance \/ Prepared \/ Receive \/ ChannelClosed
           \/ InterruptCommand \/ Dequeue \/ SaveStatus \/ GotMemory \/ Succeed
           \/ (\E trap \in Traps : Trap(trap))
  BY <1>1 DEF StartWithPermit, CreateInstance, Prepared, Receive, ChannelClosed,
     InterruptCommand, Dequeue, SaveStatus, GotMemory, Succeed, Trap
<1>2. CASE StoreSuccess \/ NextCommand \/ ReadFailureIndex \/ GiveUp \/ End \/ Abort
           \/ Stopping \/ Stop \/ RestartOnOom
  BY <1>2 DEF StoreSuccess, NextCommand, ReadFailureIndex, GiveUp, End, Abort, Stopping,
     Stop, RestartOnOom
<1>3. CASE Replay
  <2>1. Entry("Invoked", Unfinished) \in Entries
    BY <1>0, UnfinishedTyped DEF StateTypeOK
  <2>2. oplog' = oplog \/ oplog' = Append(oplog, Entry("Invoked", Unfinished))
    BY <1>3 DEF Replay
  <2> QED
    BY <2>1, <2>2
<1>4. CASE Enter \/ HostCall \/ WantMemory \/ RecordSuccess
  BY <1>0, <1>4 DEF Enter, HostCall, WantMemory, RecordSuccess
<1>5. CASE RecordFailure
  <2>1. oplog' = oplog \/ /\ loop.trap \in DOMAIN EntryOfTrap
                          /\ oplog' = Append(oplog, Entry(EntryOfTrap[loop.trap], loop.current))
    BY <1>5 DEF RecordFailure
  <2>2. loop.trap \in DOMAIN EntryOfTrap =>
          EntryOfTrap[loop.trap] \in {"Error", "Interrupted", "Suspend", "Exited"}
    BY DEF EntryOfTrap
  <2> QED
    BY <1>0, <2>1, <2>2
<1> QED
  BY <1>1, <1>2, <1>3, <1>4, <1>5 DEF Loop

(* The rest of what a step of the loop changes.                            *)
LEMMA LoopChanges ==
  ASSUME StateTypeOK, loop.pc = "Invocation" => queue # <<>>, Loop
  PROVE  /\ queue' \in Seq(Keys) /\ commands' \in Seq({"Invocation", "Interrupt", "Restart"})
         /\ client' \in [Clients -> ClientPlaces] /\ DOMAIN told' = Clients
         /\ stopping' \in BOOLEAN /\ idle' \in BOOLEAN
<1> USE DEF StateTypeOK
<1>1. CASE StartWithPermit
  <2>1. commands' = [i \in 1 .. Len(queue) |-> "Invocation"]
    BY <1>1 DEF StartWithPermit
  <2>2. commands' \in Seq({"Invocation", "Interrupt", "Restart"})
    BY <2>1
  <2> QED
    BY <1>1, <2>2 DEF StartWithPermit, clientVars
<1>2. CASE CreateInstance \/ Replay \/ Prepared \/ ChannelClosed \/ InterruptCommand
           \/ SaveStatus \/ Enter \/ HostCall \/ WantMemory \/ GotMemory \/ Succeed
  BY <1>2 DEF CreateInstance, Replay, Prepared, ChannelClosed, InterruptCommand, SaveStatus,
     Enter, HostCall, WantMemory, GotMemory, Succeed, clientVars, lifeVars
<1>3. CASE (\E trap \in Traps : Trap(trap)) \/ RecordSuccess \/ NextCommand \/ RecordFailure
           \/ ReadFailureIndex \/ End \/ Abort \/ Stopping \/ RestartOnOom
  BY <1>3 DEF Trap, RecordSuccess, NextCommand, RecordFailure, ReadFailureIndex, End, Abort,
     Stopping, RestartOnOom, StartIfNeeded, clientVars, lifeVars
<1>4. CASE Receive
  BY <1>4 DEF Receive, clientVars
<1>5. CASE Dequeue
  <2>1. queue # <<>> /\ queue' = Tail(queue)
    BY <1>5 DEF Dequeue
  <2>2. queue' \in Seq(Keys)
    BY <2>1
  <2> QED
    BY <1>5, <2>2 DEF Dequeue, clientVars, lifeVars
<1>6. CASE StoreSuccess \/ GiveUp
  <2>1. \E keys, answer : Publish(keys, answer)
    BY <1>6 DEF StoreSuccess, GiveUp
  <2> QED
    BY <1>6, <2>1, PublishTyped DEF StoreSuccess, GiveUp, lifeVars
<1>7. CASE Stop
  <2>1. (\E keys, answer : Publish(keys, answer)) \/ UNCHANGED clientVars
    BY <1>7 DEF Stop
  <2>2. client' \in [Clients -> ClientPlaces] /\ DOMAIN told' = Clients
    BY <2>1, PublishTyped DEF clientVars
  <2>3. <<>> \in Seq(Keys) /\ <<>> \in Seq({"Invocation", "Interrupt", "Restart"})
    OBVIOUS
  <2>4. queue' \in Seq(Keys)
    BY <1>7, <2>3 DEF Stop
  <2>5. commands' \in Seq({"Invocation", "Interrupt", "Restart"}) /\ stopping' \in BOOLEAN
        /\ idle' \in BOOLEAN
    BY <1>7, <2>3 DEF Stop
  <2> QED
    BY <2>2, <2>4, <2>5
<1> QED
  BY <1>1, <1>2, <1>3, <1>4, <1>5, <1>6, <1>7 DEF Loop

LEMMA KeepTyped ==
  ASSUME StateTypeOK, LoopInv, loop.pc = "Invocation" => queue # <<>>,
         Crash => RecoveryTyped, [Next]_vars
  PROVE  StateTypeOK'
<1>1. CASE \E c \in Clients : Client(c)
  BY <1>1, ClientTyped
<1>2. CASE Loop
  <2>1. oplog' \in Seq(Entries)
    <3>1. oplog' = oplog \/ \E e \in Entries : oplog' = Append(oplog, e)
      BY <1>2, LoopWrites
    <3>2. oplog \in Seq(Entries)
      BY DEF StateTypeOK
    <3>3. \A e \in Entries : Append(oplog, e) \in Seq(Entries)
      BY <3>2
    <3> QED
      BY ONLY <3>1, <3>2, <3>3
  <2> QED
    BY <1>2, <2>1, LoopTyped, LoopChanges DEF StateTypeOK
<1>3. ASSUME NEW kind \in {"Interrupt", "Restart"}, Interrupt(kind) PROVE StateTypeOK'
  <2>1. commands' \in Seq({"Invocation", "Interrupt", "Restart"})
    BY <1>3 DEF Interrupt, StateTypeOK
  <2> QED
    BY <1>3, <2>1 DEF Interrupt, StateTypeOK, clientVars
<1>4. CASE Activate \/ SetInterrupting \/ StopIfIdle \/ Evicted \/ UNCHANGED vars
  BY <1>4 DEF Activate, StartIfNeeded, SetInterrupting, StopIfIdle, Evicted, vars, lifeVars,
     clientVars, StateTypeOK
<1>5. CASE Crash
  <2>1. queue' \in Seq(Keys)
    BY <1>5 DEF Crash, RecoveryTyped
  <2>2. loop' \in LoopStates
    BY <1>5, NoLoopTyped, PlacesAre DEF Crash
  <2>3. client' \in [Clients -> ClientPlaces]
    BY <1>5 DEF Crash, ClientPlaces
  <2>4. commands' \in Seq({"Invocation", "Interrupt", "Restart"})
    BY <1>5 DEF Crash
  <2> QED
    BY <1>5, <2>1, <2>2, <2>3, <2>4 DEF Crash, StateTypeOK
<1> QED
  BY <1>1, <1>2, <1>3, <1>4, <1>5 DEF Next

-----------------------------------------------------------------------------
(* The loop and the unfinished invocation.                                 *)

(* Entries that neither begin nor complete an invocation.                  *)
LEMMA HintAppended ==
  ASSUME StateTypeOK, NEW kind \in Kinds, kind \notin {"Invoked", "Completed"},
         NEW k \in Keys \cup {None}, oplog' = Append(oplog, Entry(kind, k))
  PROVE  Unfinished' = Unfinished
<1>1. PICK e \in Entries : e = Entry(kind, k) /\ e.kind = kind
  BY EntryTyped
<1> QED
  BY <1>1, UnfinishedAppend DEF StateTypeOK

LEMMA SameOplog ==
  ASSUME oplog' = oplog
  PROVE  Unfinished' = Unfinished
BY DEF Unfinished, InvokedIndexes

LEMMA SameLoop ==
  ASSUME LoopInv, UNCHANGED <<loop, idle>>, Unfinished' = Unfinished
  PROVE  LoopInv'
BY DEF LoopInv, At

LEMMA KeepLoop ==
  ASSUME StateTypeOK, LoopInv, loop.pc = "Invocation" => queue # <<>>, Loop
  PROVE  LoopInv'
<1>0. loop \in LoopStates
  BY DEF StateTypeOK
<1>1. CASE StartWithPermit
  <2>1. Unfinished' = Unfinished
    BY <1>1, SameOplog DEF StartWithPermit
  <2> QED
    BY <1>1 DEF StartWithPermit, NoLoop, LoopInv, At
<1>2. CASE CreateInstance
  <2>1. loop'.pc = "replay" /\ loop'.decision = "None" /\ idle' = idle
    BY <1>2 DEF CreateInstance, NoLoop
  <2> QED
    BY <1>2, <2>1 DEF CreateInstance, LoopInv, At
<1>3. CASE Replay
  <2>1. CASE Goto("abort") /\ UNCHANGED oplog
    <3>1. Unfinished' = Unfinished
      BY <2>1, SameOplog
    <3> QED
      BY <1>0, <1>3, <2>1, <3>1 DEF Replay, Goto, LoopInv, At, LoopStates
  <2>2. CASE Goto("prepared") /\ UNCHANGED oplog /\ InvokedIndexes = {}
    <3>1. Unfinished' = None
      BY <2>2, SameOplog DEF Unfinished
    <3> QED
      BY <1>0, <1>3, <2>2, <3>1 DEF Replay, Goto, LoopInv, At, LoopStates
  <2>3. CASE SaveThen([loop EXCEPT !.current = oplog[Max(InvokedIndexes)].key], "prepared")
             /\ UNCHANGED oplog /\ Unfinished = None
    <3>1. Unfinished' = None
      BY <2>3, SameOplog
    <3>2. loop'.pc = "save" /\ loop'.next = "prepared" /\ loop'.decision = loop.decision
      BY <1>0, <2>3 DEF SaveThen, LoopStates
    <3> QED
      BY <1>3, <3>1, <3>2 DEF Replay, LoopInv, At
  <2>4. CASE /\ SaveThen([loop EXCEPT !.current = Unfinished], "guest")
             /\ oplog' = oplog \/ oplog' = Append(oplog, Entry("Invoked", Unfinished))
    <3>1. PICK k \in Keys \cup {None} : k = Unfinished
      BY UnfinishedTyped DEF StateTypeOK
    <3>2. Unfinished' = k
      <4>1. PICK e \in Entries : e = Entry("Invoked", k) /\ e.kind = "Invoked" /\ e.key = k
        BY EntryTyped DEF Kinds
      <4>2. CASE oplog' = oplog
        BY <3>1, <4>2, SameOplog
      <4>3. CASE oplog' = Append(oplog, e)
        BY <4>1, <4>3, UnfinishedAppend DEF StateTypeOK
      <4> QED
        BY <2>4, <3>1, <4>1, <4>2, <4>3
    <3>3. loop'.pc = "save" /\ loop'.next = "guest" /\ loop'.decision = loop.decision
          /\ loop'.current = k
      BY <1>0, <2>4, <3>1 DEF SaveThen, LoopStates
    <3> QED
      BY <1>3, <3>2, <3>3 DEF Replay, LoopInv, At
  <2> QED
    BY <1>3, <2>1, <2>2, <2>3, <2>4 DEF Replay
<1>4. CASE Prepared \/ InterruptCommand \/ ChannelClosed \/ NextCommand
  <2>1. Unfinished' = Unfinished
    BY <1>4, SameOplog DEF Prepared, InterruptCommand, ChannelClosed, NextCommand
  <2> QED
    BY <1>0, <1>4, <2>1 DEF Prepared, InterruptCommand, ChannelClosed, NextCommand, Goto,
       LoopInv, At, LoopStates
<1>5. CASE Receive
  <2>1. Unfinished' = Unfinished
    BY <1>5, SameOplog DEF Receive
  <2>2. PICK m \in {"Invocation", "Interrupt", "Restart"} : m = Head(commands)
    BY <1>5 DEF Receive, StateTypeOK
  <2> QED
    BY <1>0, <1>5, <2>1, <2>2 DEF Receive, LoopInv, At, LoopStates
<1>6. CASE Dequeue
  <2>1. Unfinished' = Unfinished
    BY <1>6, SameOplog DEF Dequeue
  <2>2. loop'.pc = "save" /\ loop'.next = "enter" /\ loop'.decision = loop.decision
    BY <1>0, <1>6 DEF Dequeue, SaveThen, LoopStates
  <2> QED
    BY <1>6, <2>1, <2>2 DEF Dequeue, LoopInv, At
<1>7. CASE SaveStatus
  <2>1. Unfinished' = Unfinished
    BY <1>7, SameOplog DEF SaveStatus
  <2>2. /\ loop'.pc = loop.next /\ loop'.decision = loop.decision
        /\ loop'.current = loop.current /\ idle' = idle
    BY <1>0, <1>7 DEF SaveStatus, LoopStates
  <2> QED
    BY <1>7, <2>1, <2>2 DEF SaveStatus, LoopInv, At
<1>8. CASE Enter
  <2>1. PICK e \in Entries : e = Entry("Invoked", loop.current) /\ e.kind = "Invoked"
                             /\ e.key = loop.current
    BY <1>0, EntryTyped DEF Kinds, LoopStates
  <2>2. Unfinished' = loop.current
    BY <1>8, <2>1, UnfinishedAppend DEF Enter, StateTypeOK
  <2>3. loop'.pc = "save" /\ loop'.next = "guest" /\ loop'.decision = loop.decision
        /\ loop'.current = loop.current
    BY <1>0, <1>8 DEF Enter, SaveThen, LoopStates
  <2> QED
    BY <1>8, <2>2, <2>3 DEF Enter, LoopInv, At
<1>9. CASE HostCall \/ WantMemory
  <2>1. oplog' = Append(oplog, Entry("Host", loop.current))
    BY <1>9 DEF HostCall, WantMemory
  <2>2. Unfinished' = Unfinished
    BY <1>0, <2>1, HintAppended DEF Kinds, LoopStates
  <2>3. CASE HostCall
    BY <2>2, <2>3, SameLoop DEF HostCall
  <2>4. CASE WantMemory
    <3>1. loop'.pc = "save" /\ loop'.next = "grow" /\ loop'.decision = loop.decision
          /\ loop'.current = loop.current
      BY <1>0, <2>4 DEF WantMemory, SaveThen, LoopStates
    <3> QED
      BY <2>2, <2>4, <3>1 DEF WantMemory, LoopInv, At
  <2> QED
    BY <1>9, <2>3, <2>4
<1>10. CASE GotMemory \/ Succeed \/ \E trap \in Traps : Trap(trap)
  <2>1. Unfinished' = Unfinished
    BY <1>10, SameOplog DEF GotMemory, Succeed, Trap
  <2>2. /\ loop'.pc \in {"guest", "success", "failure"} /\ loop'.decision = loop.decision
        /\ loop'.current = loop.current /\ idle' = idle /\ loop.pc \in {"guest", "grow"}
    <3>1. CASE GotMemory \/ Succeed
      BY <1>0, <3>1 DEF GotMemory, Succeed, Goto, LoopStates
    <3>2. ASSUME NEW trap \in Traps, Trap(trap)
          PROVE  /\ loop'.pc = "failure" /\ loop'.decision = loop.decision /\ idle' = idle
                 /\ loop'.current = loop.current /\ loop.pc \in {"guest", "grow"}
      BY <1>0, <3>2 DEF Trap, LoopStates
    <3> QED
      BY <1>10, <3>1, <3>2
  <2> QED
    BY <2>1, <2>2 DEF LoopInv, At
<1>11. CASE RecordSuccess
  <2>1. PICK e \in Entries : e = Entry("Completed", loop.current) /\ e.kind = "Completed"
    BY <1>0, EntryTyped DEF Kinds, LoopStates
  <2>2. Unfinished' = None
    BY <1>11, <2>1, UnfinishedAppend DEF RecordSuccess, StateTypeOK
  <2> QED
    BY <1>0, <1>11, <2>2 DEF RecordSuccess, Goto, LoopInv, At, LoopStates
<1>12. CASE StoreSuccess
  <2>1. Unfinished' = Unfinished
    BY <1>12, SameOplog DEF StoreSuccess
  <2>2. loop'.pc = "save" /\ loop'.next \in {"prepared", "done"}
        /\ loop'.decision = loop.decision
    BY <1>0, <1>12 DEF StoreSuccess, SaveThen, LoopStates
  <2> QED
    BY <1>12, <2>1, <2>2 DEF StoreSuccess, LoopInv, At
<1>13. CASE RecordFailure
  <2>1. loop'.pc = "failed" /\ idle' = idle /\ loop.pc = "failure"
    BY <1>0, <1>13 DEF RecordFailure, LoopStates
  <2> QED
    BY <2>1 DEF LoopInv, At
<1>14. CASE ReadFailureIndex
  <2>1. loop'.pc = "save" /\ loop'.next = "giveup" /\ idle' = idle /\ loop.pc = "failed"
    BY <1>0, <1>14 DEF ReadFailureIndex, SaveThen, LoopStates
  <2> QED
    BY <2>1 DEF LoopInv, At
<1>15. CASE GiveUp
  <2>1. /\ loop'.pc = "end" \/ (loop'.pc = "abort" /\ loop.decision = "None")
        /\ loop'.decision = loop.decision /\ idle' = idle /\ loop.pc = "giveup"
    BY <1>0, <1>15 DEF GiveUp, Goto, LoopStates
  <2> QED
    BY <2>1 DEF LoopInv, At
<1>16. CASE End \/ Abort
  <2>1. /\ loop'.pc = "stop" \/ (loop'.pc = "create" /\ loop'.decision # "ReacquirePermits")
        /\ idle' = idle /\ loop.pc \in {"end", "abort", "create"}
    BY <1>0, <1>16 DEF End, Abort, Goto, LoopStates
  <2> QED
    BY <2>1 DEF LoopInv, At
<1>17. CASE Stopping \/ Stop
  <2>1. AfterStop.pc \in {"none", "restart"} /\ AfterStop.decision = "None"
    BY DEF AfterStop, NoLoop
  <2>2. /\ \/ loop'.pc \in {"none", "restart"} /\ loop'.decision = "None"
           \/ loop'.pc = "unload"
        /\ idle' = idle /\ loop.pc \in {"stop", "unload"}
    BY <1>0, <1>17, <2>1 DEF Stopping, Stop, LoopStates
  <2> QED
    BY <2>2 DEF LoopInv, At
<1>18. CASE RestartOnOom
  <2>1. loop'.pc = "none" /\ loop'.decision = "None" /\ idle' = idle /\ loop.pc = "restart"
    BY <1>18 DEF RestartOnOom, NoLoop
  <2> QED
    BY <2>1 DEF LoopInv, At
<1> QED
  BY <1>1, <1>2, <1>3, <1>4, <1>5, <1>6, <1>7, <1>8, <1>9, <1>10, <1>11, <1>12, <1>13,
     <1>14, <1>15, <1>16, <1>17, <1>18 DEF Loop

-----------------------------------------------------------------------------
(* The lock, the eviction and the commands.                                *)

(* The steps of the loop that leave the queue and the channel alone.       *)
LEMMA QuietLoop ==
  ASSUME StateTypeOK, LoopInv, Loop, ~StartWithPermit, ~Receive, ~Dequeue, ~Stop
  PROVE  /\ UNCHANGED <<queue, commands, lock, dropped>>
         /\ loop.pc # "Invocation" /\ loop'.pc # "Invocation"
         /\ \/ UNCHANGED instance
            \/ loop.pc = "restart" /\ Free /\ instance' = "WaitingForPermit"
         /\ loop'.pc \notin {"none", "restart"} => loop.pc \notin {"none", "restart"}
<1>0. loop \in LoopStates
  BY DEF StateTypeOK
<1>1. CASE CreateInstance \/ Prepared \/ ChannelClosed \/ InterruptCommand \/ NextCommand
  BY <1>0, <1>1 DEF CreateInstance, Prepared, ChannelClosed, InterruptCommand, NextCommand,
     Goto, NoLoop, lifeVars, ghosts, LoopStates
<1>2. CASE Replay
  <2>1. loop'.pc \in {"abort", "prepared", "save"}
    BY <1>0, <1>2 DEF Replay, Goto, SaveThen, LoopStates
  <2> QED
    BY <1>2, <2>1 DEF Replay, lifeVars, ghosts
<1>3. CASE SaveStatus
  <2>1. loop'.pc = loop.next /\ loop.pc = "save"
    BY <1>0, <1>3 DEF SaveStatus, LoopStates
  <2> QED
    BY <1>3, <2>1 DEF SaveStatus, LoopInv, lifeVars, ghosts
<1>4. CASE Enter \/ HostCall \/ WantMemory \/ GotMemory \/ Succeed \/ RecordSuccess
  BY <1>0, <1>4 DEF Enter, HostCall, WantMemory, GotMemory, Succeed, RecordSuccess, Goto,
     SaveThen, lifeVars, ghosts, LoopStates
<1>5. ASSUME NEW trap \in Traps, Trap(trap)
      PROVE  /\ UNCHANGED <<queue, commands, lock, dropped, instance>>
             /\ loop'.pc = "failure" /\ loop.pc \in {"guest", "grow"}
  BY <1>0, <1>5 DEF Trap, lifeVars, ghosts, LoopStates
<1>6. CASE StoreSuccess \/ ReadFailureIndex
  BY <1>0, <1>6 DEF StoreSuccess, ReadFailureIndex, SaveThen, lifeVars, ghosts, LoopStates
<1>7. CASE RecordFailure \/ End \/ Abort
  BY <1>0, <1>7 DEF RecordFailure, End, Abort, Goto, lifeVars, ghosts, LoopStates
<1>8. CASE GiveUp
  <2>1. loop'.pc \in {"abort", "end"} /\ loop.pc = "giveup"
    BY <1>0, <1>8 DEF GiveUp, Goto, LoopStates
  <2> QED
    BY <1>8, <2>1 DEF GiveUp, lifeVars, ghosts
<1>9. CASE Stopping
  <2>1. loop'.pc \in {"unload", "none", "restart"} /\ loop.pc = "stop"
    BY <1>0, <1>9 DEF Stopping, AfterStop, NoLoop, LoopStates
  <2> QED
    BY <1>9, <2>1 DEF Stopping, ghosts
<1>10. CASE RestartOnOom
  BY <1>10 DEF RestartOnOom, StartIfNeeded, NoLoop, ghosts
<1> QED
  BY <1>1, <1>2, <1>3, <1>4, <1>5, <1>6, <1>7, <1>8, <1>9, <1>10 DEF Loop

LEMMA SameCommands ==
  ASSUME CommandsMatchQueue, UNCHANGED <<queue, commands>>,
         instance' = "Running" => instance = "Running",
         loop'.pc = "Invocation" <=> loop.pc = "Invocation"
  PROVE  CommandsMatchQueue'
BY DEF CommandsMatchQueue

LEMMA KeepCommands ==
  ASSUME StateTypeOK, LoopInv, CommandsMatchQueue,
         loop.pc = "Invocation" => instance = "Running", [Next]_vars
  PROVE  CommandsMatchQueue'
<1>0. PICK S : S = {"Invocation", "Interrupt", "Restart"}
  OBVIOUS
<1>1. /\ commands \in Seq(S) /\ "Invocation" \in S /\ queue \in Seq(Keys)
      /\ Cardinality(Asked(commands)) \in Nat /\ Len(queue) \in Nat
  BY <1>0, AskedFinite DEF StateTypeOK
<1>2. instance = "Running" =>
        Cardinality(Asked(commands)) + (IF loop.pc = "Invocation" THEN 1 ELSE 0) = Len(queue)
  BY DEF CommandsMatchQueue, Asked
<1>3. (instance' = "Running" =>
         Cardinality(Asked(commands')) + (IF loop'.pc = "Invocation" THEN 1 ELSE 0)
           = Len(queue')) => CommandsMatchQueue'
  BY DEF CommandsMatchQueue, Asked
<1>4. ASSUME NEW c \in Clients, EnqueueIdle(c) \/ PushBusy(c) PROVE CommandsMatchQueue'
  <2>1. /\ queue' = Append(queue, KeyOf[c]) /\ commands' = Append(commands, "Invocation")
        /\ UNCHANGED <<instance, loop>> /\ KeyOf[c] \in Keys
    BY <1>4 DEF EnqueueIdle, PushBusy, Push, Keys
  <2>2. Len(queue') = Len(queue) + 1
    BY <1>1, <2>1
  <2>3. Cardinality(Asked(commands')) = Cardinality(Asked(commands)) + 1
    BY <1>1, <2>1, AskedAppend
  <2> QED
    BY <1>1, <1>2, <1>3, <2>1, <2>2, <2>3
<1>5. ASSUME NEW c \in Clients, EnqueueUnloaded(c) PROVE CommandsMatchQueue'
  BY <1>5 DEF EnqueueUnloaded, CommandsMatchQueue
<1>6. ASSUME NEW c \in Clients,
             \/ Validate(c) \/ Start(c) \/ Lookup(c) \/ Subscribe(c) \/ EnqueueBusy(c)
             \/ RecordBusy(c) \/ Persist(c)
      PROVE  CommandsMatchQueue'
  <2>1. UNCHANGED <<queue, commands, loop>> /\ (instance' = "Running" => instance = "Running")
    BY <1>6 DEF Validate, Start, Lookup, Subscribe, EnqueueBusy, RecordBusy, Persist,
       StartIfNeeded, lifeVars
  <2> QED
    BY <2>1, SameCommands
<1>7. CASE StartWithPermit
  <2>1. loop'.pc = "create" /\ queue' = queue
        /\ commands' = [i \in DOMAIN queue |-> "Invocation"]
    BY <1>7 DEF StartWithPermit, NoLoop
  <2>2. Cardinality(Asked(commands')) = Len(queue)
    BY <1>1, <2>1, AskedAll
  <2> QED
    BY <1>1, <1>3, <2>1, <2>2
<1>8. CASE Receive
  <2>1. /\ loop'.pc = Head(commands) /\ commands' = Tail(commands) /\ commands # <<>>
        /\ UNCHANGED <<instance, queue>> /\ loop.pc = "ready"
    BY <1>8 DEF Receive, StateTypeOK, LoopStates
  <2>2. Cardinality(Asked(commands')) + (IF Head(commands) = "Invocation" THEN 1 ELSE 0)
          = Cardinality(Asked(commands))
    BY <1>1, <2>1, AskedTail
  <2> QED
    BY <1>1, <1>2, <1>3, <2>1, <2>2
<1>9. CASE Dequeue
  <2>1. /\ loop.pc = "Invocation" /\ loop'.pc = "save" /\ queue' = Tail(queue)
        /\ UNCHANGED <<instance, commands>>
    BY <1>9 DEF Dequeue, SaveThen, lifeVars, StateTypeOK, LoopStates
  <2>2. Len(queue) >= 1
    BY <1>1, <1>2, <2>1
  <2>3. Len(queue') = Len(queue) - 1
    BY <1>1, <2>1, <2>2
  <2> QED
    BY <1>1, <1>2, <1>3, <2>1, <2>3
<1>10. CASE Stop
  BY <1>10 DEF Stop, CommandsMatchQueue
<1>11. CASE Loop /\ ~StartWithPermit /\ ~Receive /\ ~Dequeue /\ ~Stop
  BY <1>11, QuietLoop, SameCommands
<1>12. ASSUME NEW kind \in {"Interrupt", "Restart"}, Interrupt(kind) PROVE CommandsMatchQueue'
  <2>1. UNCHANGED <<queue, loop, instance>>
        /\ (commands' = commands \/ commands' = Append(commands, kind)) /\ kind \in S
        /\ kind # "Invocation"
    BY <1>0, <1>12 DEF Interrupt
  <2>2. Cardinality(Asked(commands')) = Cardinality(Asked(commands))
    <3>1. Cardinality(Asked(Append(commands, kind))) =
            Cardinality(Asked(commands)) + (IF kind = "Invocation" THEN 1 ELSE 0)
      BY <1>1, <2>1, AskedAppend
    <3>2. PICK n \in Nat : n = Cardinality(Asked(commands))
      BY <1>1
    <3>3. Cardinality(Asked(Append(commands, kind))) = n
      BY ONLY <2>1, <3>1, <3>2, kind # "Invocation", n \in Nat
    <3>4. CASE commands' = commands
      BY ONLY <3>4
    <3>5. CASE commands' = Append(commands, kind)
      BY ONLY <3>2, <3>3, <3>5
    <3> QED
      BY <2>1, <3>4, <3>5
  <2> QED
    BY <1>2, <1>3, <2>1, <2>2
<1>13. CASE Activate \/ SetInterrupting \/ StopIfIdle \/ Evicted \/ UNCHANGED vars
  <2>1. UNCHANGED <<queue, commands, loop>> /\ (instance' = "Running" => instance = "Running")
    BY <1>13 DEF Activate, StartIfNeeded, SetInterrupting, StopIfIdle, Evicted, lifeVars, vars
  <2> QED
    BY <2>1, SameCommands
<1>14. CASE Crash
  BY <1>14 DEF Crash, CommandsMatchQueue
<1> QED
  BY <1>4, <1>5, <1>6, <1>7, <1>8, <1>9, <1>10, <1>11, <1>12, <1>13, <1>14 DEF Next, Client

(* Who changes the lock.                                                   *)
LEMMA KeepLock ==
  ASSUME StateTypeOK, LoopInv, LockInv, EvictionInv, [Next]_vars
  PROVE  LockInv'
<1>0. lock = None => lock # "evictor" /\ \A c \in Clients : lock # c
  BY WorkerAssumption
<1>1. client \in [Clients -> ClientPlaces] /\ loop \in LoopStates
  BY DEF StateTypeOK
<1>2. ASSUME UNCHANGED <<client, lock, loop>>, UNCHANGED instance
      PROVE  LockInv'
  BY <1>2 DEF LockInv
<1>3. ASSUME NEW c \in Clients, Validate(c) \/ Lookup(c) \/ Subscribe(c) PROVE LockInv'
  <2>1. UNCHANGED <<lock, loop, instance>> /\ \E place \in {"valid", "accepted", "enqueue",
          "waiting", "told"} : client' = [client EXCEPT ![c] = place]
    BY <1>3 DEF Validate, Lookup, Subscribe, Tell, Step, lifeVars
  <2> QED
    BY <1>1, <2>1 DEF LockInv
<1>4. ASSUME NEW c \in Clients, Start(c) PROVE LockInv'
  <2>1. UNCHANGED <<lock, loop>> /\ client' = [client EXCEPT ![c] = "started"] /\ Free
        /\ (UNCHANGED instance \/ instance = "Unloaded")
    BY <1>4 DEF Start, StartIfNeeded, Step
  <2> QED
    BY <1>0, <1>1, <2>1 DEF LockInv, Free
<1>5. ASSUME NEW c \in Clients, EnqueueIdle(c) PROVE LockInv'
  <2>1. UNCHANGED <<lock, loop, instance>> /\ client' = [client EXCEPT ![c] = "accepted"]
    BY <1>5 DEF EnqueueIdle, Step
  <2> QED
    BY <1>1, <2>1 DEF LockInv
<1>6. ASSUME NEW c \in Clients, EnqueueBusy(c) \/ EnqueueUnloaded(c) PROVE LockInv'
  <2>1. UNCHANGED <<loop, instance>> /\ lock' = c /\ Free /\ lock' # "evictor"
        /\ \E place \in {"record", "persist"} : client' = [client EXCEPT ![c] = place]
    BY <1>6, WorkerAssumption DEF EnqueueBusy, EnqueueUnloaded, Step
  <2> QED
    BY <1>0, <1>1, <2>1 DEF LockInv, Free
<1>7. ASSUME NEW c \in Clients, RecordBusy(c) PROVE LockInv'
  <2>1. UNCHANGED <<lock, loop, instance>> /\ client' = [client EXCEPT ![c] = "push"]
        /\ client[c] = "record"
    BY <1>7 DEF RecordBusy, Step, lifeVars
  <2> QED
    BY <1>1, <2>1 DEF LockInv
<1>8. ASSUME NEW c \in Clients, PushBusy(c) \/ Persist(c) PROVE LockInv'
  <2>1. UNCHANGED <<loop, instance>> /\ lock' = None /\ client' = [client EXCEPT ![c] = "accepted"]
        /\ client[c] \in {"push", "persist"}
    BY <1>8 DEF PushBusy, Persist, Step
  <2>2. lock = c /\ lock # "evictor"
    BY <2>1, WorkerAssumption DEF LockInv
  <2>3. \A d \in Clients : client'[d] \in {"record", "push", "persist"} => d = c
    BY <1>1, <2>1, <2>2 DEF LockInv
  <2>4. client'[c] = "accepted"
    BY <1>1, <2>1
  <2> QED
    BY <2>1, <2>2, <2>3, <2>4 DEF LockInv
<1>9. ASSUME NEW keys, NEW answer, Publish(keys, answer) \/ UNCHANGED clientVars,
             NEW c \in Clients, client'[c] \in {"record", "push", "persist"}
      PROVE  client[c] \in {"record", "push", "persist"}
  BY <1>1, <1>9 DEF Publish, clientVars
<1>10. ASSUME Loop, ~StartWithPermit, ~Stop PROVE LockInv'
  <2>1. UNCHANGED lock
    BY <1>10, QuietLoop DEF Receive, Dequeue, lifeVars
  <2>2. \A c \in Clients : client'[c] \in {"record", "push", "persist"} => lock' = c
    <3>1. CASE UNCHANGED clientVars
      BY <2>1, <3>1 DEF LockInv, clientVars
    <3>2. CASE StoreSuccess \/ GiveUp
      <4>1. \E keys, answer : Publish(keys, answer)
        BY <3>2 DEF StoreSuccess, GiveUp
      <4> QED
        BY <1>9, <2>1, <4>1 DEF LockInv
    <3>3. UNCHANGED clientVars \/ StoreSuccess \/ GiveUp
      BY <1>10 DEF Loop, CreateInstance, Replay, Prepared, Receive, ChannelClosed,
         InterruptCommand, Dequeue, SaveStatus, Enter, HostCall, WantMemory, GotMemory, Succeed,
         Trap, RecordSuccess, NextCommand, RecordFailure, ReadFailureIndex, End, Abort,
         Stopping, RestartOnOom
    <3> QED
      BY <3>1, <3>2, <3>3
  <2>3. loop'.pc \notin {"none", "restart"} /\ lock' # "evictor" => instance' = "Running"
    <3>1. CASE Receive \/ Dequeue
      <4>1. UNCHANGED instance /\ loop.pc \in {"ready", "Invocation"}
        BY <3>1 DEF Receive, Dequeue, lifeVars
      <4> QED
        BY <2>1, <4>1 DEF LockInv
    <3>2. CASE ~Receive /\ ~Dequeue
      <4>1. /\ UNCHANGED instance \/ (loop.pc = "restart" /\ instance' = "WaitingForPermit")
            /\ loop'.pc \notin {"none", "restart"} => loop.pc \notin {"none", "restart"}
        BY <1>10, <3>2, QuietLoop
      <4> QED
        BY <2>1, <4>1 DEF LockInv
    <3> QED
      BY <3>1, <3>2
  <2> QED
    BY <2>2, <2>3 DEF LockInv
<1>11. CASE StartWithPermit
  BY <1>11 DEF StartWithPermit, LockInv, clientVars
<1>12. CASE Stop
  <2>1. loop'.pc \in {"none", "restart"} /\ UNCHANGED lock
    BY <1>12 DEF Stop, AfterStop, NoLoop
  <2>2. (\E keys, answer : Publish(keys, answer)) \/ UNCHANGED clientVars
    BY <1>12 DEF Stop
  <2> QED
    BY <1>9, <2>1, <2>2 DEF LockInv
<1>13. ASSUME NEW kind, Interrupt(kind) \/ SetInterrupting \/ UNCHANGED vars PROVE LockInv'
  BY <1>2, <1>13 DEF Interrupt, SetInterrupting, vars, clientVars, lifeVars
<1>14. CASE Activate
  <2>1. UNCHANGED <<client, lock, loop>> /\ Free /\ instance = "Unloaded"
    BY <1>14 DEF Activate, StartIfNeeded, clientVars
  <2> QED
    BY <1>0, <2>1 DEF LockInv, Free
<1>15. CASE StopIfIdle
  <2>1. UNCHANGED <<client, loop>> /\ Free /\ lock' = "evictor"
    BY <1>15 DEF StopIfIdle, clientVars
  <2> QED
    BY <1>0, <2>1 DEF LockInv, Free
<1>16. CASE Evicted
  <2>1. UNCHANGED <<client, loop>> /\ lock = "evictor" /\ loop.pc = "none"
    BY <1>16 DEF Evicted, clientVars
  <2> QED
    BY <2>1, WorkerAssumption DEF LockInv
<1>17. CASE Crash
  <2>1. loop'.pc = "none" /\ \A c \in Clients : client'[c] \in {"new", "told"}
    BY <1>17 DEF Crash, NoLoop
  <2> QED
    BY <2>1 DEF LockInv
<1> QED
  BY <1>3, <1>4, <1>5, <1>6, <1>7, <1>8, <1>10, <1>11, <1>12, <1>13, <1>14, <1>15, <1>16,
     <1>17 DEF Next, Client

(* Nothing but the loop moves during an eviction.                          *)
LEMMA KeepEviction ==
  ASSUME StateTypeOK, LoopInv, LockInv, EvictionInv, CommandsMatchQueue, [Next]_vars
  PROVE  EvictionInv'
<1>0. loop \in LoopStates
  BY DEF StateTypeOK
<1>1. ASSUME lock = "evictor", UNCHANGED <<queue, commands, stopping, loop, oplog>>
      PROVE  EvictionInv'
  <2>1. Unfinished' = Unfinished
    BY <1>1, SameOplog
  <2> QED
    BY <1>1, <2>1 DEF EvictionInv, Asked, At
<1>2. ASSUME lock' # "evictor" PROVE EvictionInv'
  BY <1>2 DEF EvictionInv
<1>3. lock = "evictor" => ~Free /\ \A c \in Clients : lock # c
  BY WorkerAssumption DEF Free
<1>4. CASE \E c \in Clients : Client(c)
  <2>1. PICK c \in Clients : Client(c)
    BY <1>4
  <2>2. c # "evictor" /\ None # "evictor"
    BY WorkerAssumption
  <2>3. CASE Validate(c) \/ Lookup(c) \/ Subscribe(c)
    <3>1. UNCHANGED <<queue, commands, stopping, loop, oplog, lock>>
      BY <2>3 DEF Validate, Lookup, Subscribe, lifeVars
    <3> QED
      BY <1>1, <1>2, <3>1
  <2>4. CASE Start(c) \/ EnqueueIdle(c)
    <3>1. Free /\ lock' = lock
      BY <2>4 DEF Start, StartIfNeeded, EnqueueIdle
    <3> QED
      BY <1>2, <1>3, <3>1
  <2>5. CASE EnqueueBusy(c) \/ EnqueueUnloaded(c)
    BY <1>2, <2>2, <2>5 DEF EnqueueBusy, EnqueueUnloaded
  <2>6. CASE RecordBusy(c)
    <3>1. client[c] = "record" /\ lock' = lock
      BY <2>6 DEF RecordBusy, lifeVars
    <3> QED
      BY <1>2, <2>2, <3>1 DEF LockInv
  <2>7. CASE PushBusy(c) \/ Persist(c)
    BY <1>2, <2>2, <2>7 DEF PushBusy, Persist
  <2> QED
    BY <2>1, <2>3, <2>4, <2>5, <2>6, <2>7 DEF Client
<1>5. ASSUME Loop, lock = "evictor" PROVE EvictionInv'
  <2>0. /\ stopping = TRUE /\ queue = <<>> /\ Unfinished = None /\ Asked(commands) = {}
        /\ loop.decision # "ReacquirePermits" /\ ~Free
        /\ At({"ready", "Interrupt", "Restart", "end", "create", "replay", "prepared", "abort",
               "stop", "none"})
    BY <1>3, <1>5 DEF EvictionInv, StateTypeOK
  <2>1. ASSUME UNCHANGED <<oplog, queue, commands>>, stopping' = TRUE,
               loop'.decision # "ReacquirePermits",
               \/ loop'.pc \in {"ready", "end", "create", "replay", "prepared", "abort",
                                "stop", "none"}
               \/ loop'.pc = "save" /\ loop'.next = "prepared"
        PROVE  EvictionInv'
    <3>1. Unfinished' = Unfinished
      BY <2>1, SameOplog
    <3>2. Asked(commands') = {}
      BY <2>0, <2>1
    <3>3. loop'.pc \in {"ready", "Interrupt", "Restart", "end", "create", "replay", "prepared",
            "abort", "stop", "none"} \/ (loop'.pc = "save" /\ loop'.next \in {"ready",
            "Interrupt", "Restart", "end", "create", "replay", "prepared", "abort", "stop",
            "none"})
      BY <2>1
    <3> QED
      BY <2>0, <2>1, <3>1, <3>2, <3>3 DEF EvictionInv, At
  <2>2. CASE CreateInstance
    BY <2>0, <2>1, <2>2 DEF CreateInstance, NoLoop, lifeVars
  <2>3. CASE Replay
    <3>1. /\ UNCHANGED <<oplog, queue, commands, stopping>> /\ loop'.decision = loop.decision
          /\ \/ loop'.pc \in {"abort", "prepared"}
             \/ loop'.pc = "save" /\ loop'.next = "prepared"
      BY <1>0, <2>0, <2>3 DEF Replay, Goto, SaveThen, lifeVars, LoopStates
    <3> QED
      BY <2>0, <2>1, <3>1
  <2>4. CASE Prepared \/ ChannelClosed \/ InterruptCommand
    <3>1. UNCHANGED <<oplog, queue, commands, stopping>> /\ loop'.pc \in {"ready", "end"}
          /\ loop'.decision # "ReacquirePermits"
      BY <1>0, <2>0, <2>4 DEF Prepared, ChannelClosed, InterruptCommand, lifeVars, LoopStates
    <3> QED
      BY <2>0, <2>1, <3>1
  <2>5. CASE Receive
    <3>1. /\ commands # <<>> /\ commands' = Tail(commands) /\ loop'.pc = Head(commands)
          /\ UNCHANGED <<oplog, queue, stopping, lock>> /\ loop'.decision = loop.decision
      BY <1>0, <2>5 DEF Receive, LoopStates
    <3>2. commands \in Seq({"Invocation", "Interrupt", "Restart"})
      BY DEF StateTypeOK
    <3>3. Head(commands) # "Invocation" /\ Head(commands) \in {"Interrupt", "Restart"}
          /\ Asked(commands') = {}
      BY <2>0, <3>1, <3>2 DEF Asked
    <3>4. Unfinished' = Unfinished
      BY <3>1, SameOplog
    <3> QED
      BY <2>0, <3>1, <3>3, <3>4 DEF EvictionInv, At
  <2>6. CASE SaveStatus
    <3>1. UNCHANGED <<oplog, queue, commands, stopping>> /\ loop'.decision = loop.decision
          /\ loop'.pc = loop.next /\ loop.pc = "save"
      BY <1>0, <2>6 DEF SaveStatus, lifeVars, LoopStates
    <3>2. loop.next = "prepared"
      BY <2>0, <3>1 DEF At, LoopInv
    <3> QED
      BY <2>0, <2>1, <3>1, <3>2
  <2>7. CASE End \/ Abort
    <3>1. UNCHANGED <<oplog, queue, commands, stopping>> /\ loop'.pc \in {"create", "stop"}
          /\ loop'.decision # "ReacquirePermits"
      BY <1>0, <2>0, <2>7 DEF End, Abort, Goto, lifeVars, LoopStates
    <3> QED
      BY <2>0, <2>1, <3>1
  <2>8. CASE Stopping
    <3>1. UNCHANGED <<oplog, queue, commands>> /\ stopping' = TRUE /\ loop' = NoLoop
      BY <2>0, <2>8 DEF Stopping, AfterStop
    <3>2. loop'.pc = "none" /\ loop'.decision = "None"
      BY <3>1 DEF NoLoop
    <3> QED
      BY <2>0, <2>1, <3>1, <3>2
  <2>9. ~StartWithPermit /\ ~Dequeue /\ ~Enter /\ ~HostCall /\ ~WantMemory /\ ~GotMemory
        /\ ~Succeed /\ ~RecordSuccess /\ ~StoreSuccess /\ ~NextCommand /\ ~RecordFailure
        /\ ~ReadFailureIndex /\ ~GiveUp /\ ~Stop /\ ~RestartOnOom
        /\ \A trap \in Traps : ~Trap(trap)
    BY <2>0 DEF At, StartWithPermit, Dequeue, Enter, HostCall, WantMemory, GotMemory, Succeed,
       RecordSuccess, StoreSuccess, NextCommand, RecordFailure, ReadFailureIndex, GiveUp, Stop,
       RestartOnOom, StartIfNeeded, Trap
  <2> QED
    BY <1>5, <2>2, <2>3, <2>4, <2>5, <2>6, <2>7, <2>8, <2>9 DEF Loop
<1>6. ASSUME Loop, lock # "evictor" PROVE EvictionInv'
  <2>1. lock' = lock
    BY <1>6, QuietLoop DEF StartWithPermit, Receive, Dequeue, Stop, lifeVars
  <2> QED
    BY <1>2, <1>6, <2>1
<1>7. ASSUME NEW kind, Interrupt(kind) \/ Activate PROVE EvictionInv'
  <2>1. lock' = lock /\ Free
    BY <1>7 DEF Interrupt, Activate, StartIfNeeded
  <2> QED
    BY <1>2, <1>3, <2>1
<1>8. CASE SetInterrupting \/ UNCHANGED vars
  <2>1. UNCHANGED <<queue, commands, stopping, loop, oplog, lock>>
    BY <1>8 DEF SetInterrupting, vars, lifeVars
  <2> QED
    BY <1>1, <1>2, <2>1
<1>9. CASE StopIfIdle
  <2>1. /\ UNCHANGED <<queue, commands, loop, oplog>> /\ stopping' = TRUE
        /\ instance = "Running" /\ idle /\ queue = <<>>
    BY <1>9 DEF StopIfIdle
  <2>2. Unfinished' = Unfinished
    BY <2>1, SameOplog
  <2>3. loop.pc \in {"ready", "Interrupt", "Restart", "Invocation"}
    BY <2>1 DEF LoopInv
  <2>4. Cardinality(Asked(commands)) + (IF loop.pc = "Invocation" THEN 1 ELSE 0) = 0
    BY <2>1 DEF CommandsMatchQueue, Asked
  <2>5. IsFiniteSet(Asked(commands)) /\ Cardinality(Asked(commands)) \in Nat
    BY AskedFinite DEF StateTypeOK
  <2>6. loop.pc # "Invocation" /\ Cardinality(Asked(commands)) = 0
    BY <2>4, <2>5
  <2>7. Asked(commands) = {}
    BY <2>5, <2>6, FS_EmptySet
  <2>8. Unfinished = None /\ loop.decision # "ReacquirePermits"
    BY <2>3, <2>6 DEF LoopInv, At
  <2> QED
    BY <2>1, <2>2, <2>3, <2>6, <2>7, <2>8 DEF EvictionInv, At
<1>10. CASE Evicted \/ Crash
  BY <1>2, <1>10, WorkerAssumption DEF Evicted, Crash
<1> QED
  BY <1>4, <1>5, <1>6, <1>7, <1>8, <1>9, <1>10 DEF Next

-----------------------------------------------------------------------------
(* The invariant.                                                          *)

LEMMA KeepLoopInv ==
  ASSUME StateTypeOK, LoopInv, loop.pc = "Invocation" => queue # <<>>, [Next]_vars
  PROVE  LoopInv'
<1>1. CASE \E c \in Clients : Client(c)
  <2>1. PICK c \in Clients : Client(c)
    BY <1>1
  <2>2. UNCHANGED <<loop, idle>>
        /\ (oplog' = oplog \/ oplog' = Append(oplog, Entry("Pending", KeyOf[c])))
    BY <2>1, ClientChanges
  <2>3. KeyOf[c] \in Keys \cup {None} /\ "Pending" \in Kinds
    BY DEF Keys, Kinds
  <2>4. Unfinished' = Unfinished
    BY <2>2, <2>3, HintAppended, SameOplog
  <2> QED
    BY <2>2, <2>4, SameLoop
<1>2. CASE Loop
  BY <1>2, KeepLoop
<1>3. ASSUME NEW kind,
             \/ Interrupt(kind) \/ SetInterrupting \/ StopIfIdle \/ Evicted \/ Activate
             \/ UNCHANGED vars
      PROVE  LoopInv'
  <2>1. UNCHANGED <<loop, idle>> /\ oplog' = oplog
    BY <1>3 DEF Interrupt, SetInterrupting, StopIfIdle, Evicted, Activate, vars
  <2> QED
    BY <2>1, SameLoop, SameOplog
<1>4. CASE Crash
  <2>1. loop'.pc = "none" /\ loop'.decision = "None" /\ idle' = FALSE
    BY <1>4 DEF Crash, NoLoop
  <2> QED
    BY <2>1 DEF LoopInv, At
<1> QED
  BY <1>1, <1>2, <1>3, <1>4 DEF Next

(* A command for an invocation finds the worker running and the invocation *)
(* queued.                                                                 *)
LEMMA CommandFinds ==
  ASSUME WorkerInv, loop.pc = "Invocation"
  PROVE  instance = "Running" /\ queue # <<>>
<1>1. lock # "evictor"
  BY DEF WorkerInv, EvictionInv, At
<1>2. instance = "Running"
  BY <1>1 DEF WorkerInv, LockInv
<1>3. Cardinality(Asked(commands)) \in Nat /\ Len(queue) \in Nat
  BY AskedFinite DEF WorkerInv, StateTypeOK
<1>4. Cardinality(Asked(commands)) + 1 = Len(queue)
  BY <1>2 DEF WorkerInv, CommandsMatchQueue, Asked
<1> QED
  BY <1>2, <1>3, <1>4

LEMMA InitWorker == Init => WorkerInv
<1> SUFFICES ASSUME Init PROVE WorkerInv
  OBVIOUS
<1>1. loop.pc = "none" /\ loop.decision = "None" /\ loop \in LoopStates
  BY NoLoopTyped, PlacesAre DEF Init, NoLoop
<1>2. oplog \in Seq(Entries)
  <2>1. Entry("Create", None) \in Entries
    BY EntryTyped DEF Kinds
  <2> QED
    BY <2>1 DEF Init
<1>3. StateTypeOK
  <2>1. queue \in Seq(Keys) /\ commands \in Seq({"Invocation", "Interrupt", "Restart"})
    BY DEF Init
  <2>2. client \in [Clients -> ClientPlaces] /\ DOMAIN told = Clients
    BY DEF Init, ClientPlaces
  <2>3. stopping \in BOOLEAN /\ idle \in BOOLEAN
    BY DEF Init
  <2> QED
    BY <1>1, <1>2, <2>1, <2>2, <2>3 DEF StateTypeOK
<1>4. LoopInv
  BY <1>1 DEF Init, LoopInv, At
<1>5. EvictionInv
  BY WorkerAssumption DEF Init, EvictionInv
<1>6. LockInv
  BY <1>1 DEF Init, LockInv
<1>7. CommandsMatchQueue
  BY DEF Init, CommandsMatchQueue
<1> QED
  BY <1>3, <1>4, <1>5, <1>6, <1>7 DEF WorkerInv

LEMMA KeepWorker ==
  ASSUME WorkerInv, Crash => RecoveryTyped, [Next]_vars
  PROVE  WorkerInv'
<1>1. StateTypeOK /\ LoopInv /\ EvictionInv /\ LockInv /\ CommandsMatchQueue
  BY DEF WorkerInv
<1>2. loop.pc = "Invocation" => instance = "Running" /\ queue # <<>>
  BY CommandFinds
<1>3. StateTypeOK'
  BY <1>1, <1>2, KeepTyped
<1>4. LoopInv'
  BY <1>1, <1>2, KeepLoopInv
<1>5. EvictionInv'
  BY <1>1, KeepEviction
<1>6. LockInv'
  BY <1>1, KeepLock
<1>7. CommandsMatchQueue'
  BY <1>1, <1>2, KeepCommands
<1> QED
  BY <1>3, <1>4, <1>5, <1>6, <1>7 DEF WorkerInv

(* Where the loop changes the results, answers, or has just completed.     *)
LEMMA LoopAnswers ==
  ASSUME WorkerInv, Loop
  PROVE  /\ ~Dequeue /\ ~StoreSuccess /\ ~GiveUp => results' = results
         /\ ~StoreSuccess /\ ~GiveUp /\ ~Stop => told' = told
         /\ loop'.pc = "completed" => RecordSuccess
<1>0. loop \in LoopStates /\ commands \in Seq({"Invocation", "Interrupt", "Restart"})
  BY DEF WorkerInv, StateTypeOK
<1>1. ~Dequeue /\ ~StoreSuccess /\ ~GiveUp => results' = results
  BY DEF Loop, StartWithPermit, CreateInstance, Replay, Prepared, Receive, ChannelClosed,
     InterruptCommand, SaveStatus, Enter, HostCall, WantMemory, GotMemory, Succeed, Trap,
     RecordSuccess, NextCommand, RecordFailure, ReadFailureIndex, End, Abort, Stopping, Stop,
     RestartOnOom
<1>2. ~StoreSuccess /\ ~GiveUp /\ ~Stop => told' = told
  BY DEF Loop, StartWithPermit, CreateInstance, Replay, Prepared, Receive, ChannelClosed,
     InterruptCommand, Dequeue, SaveStatus, Enter, HostCall, WantMemory, GotMemory, Succeed,
     Trap, RecordSuccess, NextCommand, RecordFailure, ReadFailureIndex, End, Abort, Stopping,
     RestartOnOom, clientVars
<1>3. ASSUME ~RecordSuccess PROVE loop'.pc # "completed"
  <2>1. CASE StartWithPermit \/ CreateInstance \/ Stop \/ Stopping \/ RestartOnOom
    <3>1. NoLoop.pc = "none" /\ AfterStop.pc \in {"none", "restart"}
      BY DEF AfterStop, NoLoop
    <3>2. CASE StartWithPermit \/ CreateInstance
      BY <3>2 DEF StartWithPermit, CreateInstance, NoLoop
    <3>3. CASE Stop \/ RestartOnOom
      BY <3>1, <3>3 DEF Stop, RestartOnOom
    <3>4. CASE Stopping
      <4>1. loop' = [loop EXCEPT !.pc = "unload"] \/ loop' = AfterStop
        BY <3>4 DEF Stopping
      <4> QED
        BY <1>0, <3>1, <4>1 DEF LoopStates
    <3> QED
      BY <2>1, <3>2, <3>3, <3>4
  <2>2. CASE Prepared \/ ChannelClosed \/ InterruptCommand \/ NextCommand \/ GotMemory
             \/ Succeed \/ End \/ Abort \/ RecordFailure
    BY <1>0, <2>2 DEF Prepared, ChannelClosed, InterruptCommand, NextCommand, GotMemory,
       Succeed, End, Abort, RecordFailure, Goto, LoopStates
  <2>3. CASE Replay
    BY <1>0, <2>3 DEF Replay, Goto, SaveThen, LoopStates
  <2>4. CASE Receive
    <3>1. loop'.pc = Head(commands) /\ commands # <<>>
      BY <1>0, <2>4 DEF Receive, LoopStates
    <3> QED
      BY <1>0, <3>1
  <2>5. CASE SaveStatus
    <3>1. loop'.pc = loop.next /\ loop.pc = "save"
      BY <1>0, <2>5 DEF SaveStatus, LoopStates
    <3> QED
      BY <3>1 DEF WorkerInv, LoopInv
  <2>6. CASE Dequeue \/ Enter \/ WantMemory \/ StoreSuccess \/ ReadFailureIndex
    BY <1>0, <2>6 DEF Dequeue, Enter, WantMemory, StoreSuccess, ReadFailureIndex, SaveThen,
       LoopStates
  <2>7. ASSUME NEW trap \in Traps, Trap(trap) PROVE loop'.pc # "completed"
    BY <1>0, <2>7 DEF Trap, LoopStates
  <2>8. CASE HostCall
    BY <2>8 DEF HostCall
  <2>9. CASE GiveUp
    BY <1>0, <2>9 DEF GiveUp, Goto, LoopStates
  <2> QED
    BY <1>3, <2>1, <2>2, <2>3, <2>4, <2>5, <2>6, <2>7, <2>8, <2>9 DEF Loop
<1> QED
  BY <1>1, <1>2, <1>3

-----------------------------------------------------------------------------
(* The record that is computed from the stored one and the oplog after it. *)

PartialMaps(S) == UNION {[D -> S] : D \in SUBSET (Keys \cup {None})}
Records == [idx : Nat, pending : Seq(Keys), results : PartialMaps(Nat),
            current : Keys \cup {None}]

Logs == {log \in Seq(Entries) :
           \A i \in DOMAIN log : log[i].kind = "Pending" => log[i].key \in Keys}

(* RecordStep for an entry of any log.                                     *)
StepOn(record, e, i) ==
  CASE e.kind = "Pending" -> [record EXCEPT !.pending = Append(@, e.key)]
    [] e.kind = "Invoked" ->
         [record EXCEPT !.pending = Only(@, Keys \ {e.key}), !.current = e.key]
    [] e.kind = "Completed" /\ record.current # None ->
         [record EXCEPT !.results = Put(@, record.current, i), !.current = None]
    [] e.kind \in {"Error", "Exited"} /\ record.current # None ->
         [record EXCEPT !.results = Put(@, record.current, i)]
    [] OTHER -> record

LatestOf(log, st) ==
  FoldLeft(LAMBDA record, i : StepOn(record, log[i], i), st,
           [n \in 1..(Len(log) - st.idx) |-> st.idx + n])

LEMMA LatestRecordIs == LatestRecord = LatestOf(oplog, stored)
BY DEF LatestRecord, LatestOf, RecordStep, StepOn

LEMMA LatestRecordIsNext == LatestRecord' = LatestOf(oplog', stored')
<1>1. (LatestRecord = LatestOf(oplog, stored))'
  BY LatestRecordIs, PTL
<1> QED
  BY <1>1

LEMMA PutTyped ==
  ASSUME NEW S, NEW f \in PartialMaps(S), NEW k \in Keys \cup {None}, NEW v \in S
  PROVE  /\ Put(f, k, v) \in PartialMaps(S)
         /\ DOMAIN Put(f, k, v) = DOMAIN f \cup {k} /\ Put(f, k, v)[k] = v
         /\ \A x \in DOMAIN f : x # k => Put(f, k, v)[x] = f[x]
<1>1. PICK D \in SUBSET (Keys \cup {None}) : f \in [D -> S]
  BY DEF PartialMaps
<1>2. D \cup {k} \in SUBSET (Keys \cup {None}) /\ Put(f, k, v) \in [D \cup {k} -> S]
  BY <1>1 DEF Put
<1> QED
  BY <1>1, <1>2 DEF Put, PartialMaps

LEMMA StepOnTyped ==
  ASSUME NEW record \in Records, NEW e \in Entries, e.kind = "Pending" => e.key \in Keys,
         NEW i \in Nat
  PROVE  StepOn(record, e, i) \in Records
<1>1. /\ record.idx \in Nat /\ record.pending \in Seq(Keys)
      /\ record.results \in PartialMaps(Nat) /\ record.current \in Keys \cup {None}
      /\ e.key \in Keys \cup {None}
  BY DEF Records, Entries
<1>2. CASE e.kind = "Pending"
  <2>1. Append(record.pending, e.key) \in Seq(Keys)
    BY <1>1, <1>2
  <2> QED
    BY <1>1, <1>2, <2>1 DEF StepOn, Records
<1>3. CASE e.kind = "Invoked"
  <2>1. Only(record.pending, Keys \ {e.key}) \in Seq(Keys)
    BY <1>1, OnlyPicks
  <2> QED
    BY <1>1, <1>3, <2>1 DEF StepOn, Records
<1>4. CASE e.kind \in {"Completed", "Error", "Exited"} /\ record.current # None
  <2>1. Put(record.results, record.current, i) \in PartialMaps(Nat)
    BY <1>1, PutTyped
  <2> QED
    BY <1>1, <1>4, <2>1 DEF StepOn, Records
<1>5. CASE /\ e.kind \notin {"Pending", "Invoked"}
           /\ e.kind \in {"Completed", "Error", "Exited"} => record.current = None
  BY <1>5 DEF StepOn
<1> QED
  BY <1>2, <1>3, <1>4, <1>5

(* The record is reached step by step, one for every entry.                *)
Steps(h, log, st) ==
  /\ h \in [0 .. Len(log) - st.idx -> Records]
  /\ h[0] = st
  /\ \A m \in 1 .. Len(log) - st.idx : h[m] = StepOn(h[m - 1], log[st.idx + m], st.idx + m)

LEMMA LatestSteps ==
  ASSUME NEW log \in Logs, NEW st \in Records, st.idx <= Len(log)
  PROVE  \E h : Steps(h, log, st) /\ LatestOf(log, st) = h[Len(log) - st.idx]
<1>1. PICK n \in Nat, o \in Nat : n = Len(log) - st.idx /\ o = st.idx /\ o + n = Len(log)
  <2>1. Len(log) \in Nat /\ st.idx \in Nat
    BY DEF Logs, Records
  <2>2. Len(log) - st.idx \in Nat /\ st.idx + (Len(log) - st.idx) = Len(log)
    BY <2>1
  <2> QED
    BY <2>1, <2>2
<1>2. \A m \in 1 .. n : o + m \in DOMAIN log /\ o + m \in Nat
  <2>1. DOMAIN log = 1 .. o + n
    BY <1>1 DEF Logs
  <2> QED
    BY <2>1
<1>3. \A m \in 1 .. n : \A r \in Records : StepOn(r, log[o + m], o + m) \in Records
  BY <1>2, StepOnTyped DEF Logs
<1> DEFINE advance == [p \in Records \X (1 .. n) |-> StepOn(p[1], log[o + p[2]], o + p[2])]
<1>4. advance \in [Records \X (1 .. n) -> Records]
  BY <1>3
<1>5. \A r \in Records, m \in 1 .. n : advance[<<r, m>>] = StepOn(r, log[o + m], o + m)
  OBVIOUS
<1>6. PICK g \in [SUBSET (1 .. n) -> Records] : IsFold(g, n, st, advance)
  <2> HIDE DEF advance
  <2> QED
    BY <1>4, FoldExists
<1> DEFINE seq == [m \in 1 .. n |-> o + m]
           Rec(f) == [s \in SUBSET (1 .. n) |->
                        IF s = {} THEN st
                        ELSE StepOn(f[s \ {Max(s)}], log[seq[Max(s)]], seq[Max(s)])]
<1>7. \A s \in SUBSET (1 .. n) : s # {} => Max(s) \in s /\ Max(s) = Top(s)
                                           /\ s \ {Max(s)} \in SUBSET (1 .. n)
  <2> SUFFICES ASSUME NEW s \in SUBSET (1 .. n), s # {}
               PROVE  Max(s) \in s /\ Max(s) = Top(s)
    OBVIOUS
  <2> QED
    BY MaxIsGreatest DEF Max, Top
<1>8. \A f \in [SUBSET (1 .. n) -> Records] :
         (f = Rec(f)) <=> IsFold(f, n, st, advance)
  <2> SUFFICES ASSUME NEW f \in [SUBSET (1 .. n) -> Records]
               PROVE  (f = Rec(f)) <=> IsFold(f, n, st, advance)
    OBVIOUS
  <2>1. \A s \in SUBSET (1 .. n) : s # {} =>
          StepOn(f[s \ {Max(s)}], log[seq[Max(s)]], seq[Max(s)])
            = advance[<<f[s \ {Top(s)}], Top(s)>>]
    <3> SUFFICES ASSUME NEW s \in SUBSET (1 .. n), s # {}
                 PROVE  StepOn(f[s \ {Max(s)}], log[seq[Max(s)]], seq[Max(s)])
                          = advance[<<f[s \ {Top(s)}], Top(s)>>]
      OBVIOUS
    <3>1. PICK m \in 1 .. n : m = Max(s) /\ m = Top(s)
      BY <1>7
    <3>2. PICK r \in Records : r = f[s \ {m}]
      BY <1>7, <3>1
    <3>3. seq[m] = o + m
      OBVIOUS
    <3> HIDE DEF advance, seq
    <3> QED
      BY <1>5, <3>1, <3>2, <3>3
  <2> HIDE DEF advance, seq
  <2> QED
    BY <2>1 DEF IsFold
<1>9. g = Rec(g)
  BY <1>6, <1>8
<1>10. PICK f : f = Rec(f) /\ LatestOf(log, st) = f[1 .. n]
  <2>1. DOMAIN seq = 1 .. n /\ seq = [m \in 1 .. (Len(log) - st.idx) |-> st.idx + m]
    BY <1>1
  <2>2. FoldLeft(LAMBDA record, i : StepOn(record, log[i], i), st, seq)
          = (CHOOSE f : f = Rec(f))[1 .. n]
    <3> HIDE DEF seq
    <3> QED
      BY <2>1 DEF FoldLeft, MapThenFoldSet
  <2>3. LatestOf(log, st) = (CHOOSE f : f = Rec(f))[1 .. n]
    BY <2>1, <2>2 DEF LatestOf
  <2> HIDE DEF Rec
  <2>4. (CHOOSE f : f = Rec(f)) = Rec(CHOOSE f : f = Rec(f))
    BY <1>9
  <2> QED
    BY <2>3, <2>4
<1>11. ASSUME NEW m \in 1 .. n PROVE f[1 .. m] = StepOn(f[1 .. m - 1], log[o + m], o + m)
  <2>1. 1 .. m \in SUBSET (1 .. n) /\ 1 .. m \in SUBSET Nat /\ m \in 1 .. m /\ 1 .. m # {}
        /\ (\A i \in 1 .. m : i <= m)
    BY ONLY m \in 1 .. n, n \in Nat
  <2>0. (1 .. m) \ {m} = 1 .. m - 1
    BY ONLY m \in 1 .. n, n \in Nat
  <2>2. Max(1 .. m) = m
    BY <1>7, <2>1, TopIs
  <2>3. seq[m] = o + m
    OBVIOUS
  <2> HIDE DEF seq
  <2> QED
    BY <1>10, <2>0, <2>1, <2>2, <2>3
<1>12. f[1 .. 0] = st
  <2>1. 1 .. 0 = {} /\ {} \in SUBSET (1 .. n)
    OBVIOUS
  <2> QED
    BY <1>10, <2>1
<1>13. \A m \in 0 .. n : f[1 .. m] \in Records
  <2> DEFINE Bad == {m \in 0 .. n : f[1 .. m] \notin Records}
  <2>1. SUFFICES ASSUME Bad # {} PROVE FALSE
    OBVIOUS
  <2>2. PICK m \in Bad : \A i \in Bad : m <= i
    <3>1. Bad \in SUBSET Nat
      OBVIOUS
    <3> HIDE DEF Bad
    <3> QED
      BY <2>1, <3>1, LeastIndex
  <2>3. m \in 1 .. n /\ m - 1 \in 0 .. n
    BY <1>12, <2>2
  <2>4. f[1 .. m - 1] \in Records
    BY <2>2, <2>3
  <2>5. f[1 .. m] = StepOn(f[1 .. m - 1], log[o + m], o + m)
    BY ONLY <1>11, <2>3
  <2>6. StepOn(f[1 .. m - 1], log[o + m], o + m) \in Records
    BY ONLY <1>3, <2>3, <2>4
  <2> QED
    BY ONLY <2>2, <2>5, <2>6
<1> DEFINE h == [m \in 0 .. n |-> f[1 .. m]]
<1>14. Steps(h, log, st)
  <2>1. h \in [0 .. n -> Records] /\ h[0] = st
    BY <1>12, <1>13
  <2>2. \A m \in 1 .. n : h[m] = StepOn(h[m - 1], log[o + m], o + m)
    <3> SUFFICES ASSUME NEW m \in 1 .. n
                 PROVE  h[m] = StepOn(h[m - 1], log[o + m], o + m)
      OBVIOUS
    <3>1. m \in 0 .. n /\ m - 1 \in 0 .. n
      OBVIOUS
    <3>2. h[m] = f[1 .. m] /\ h[m - 1] = f[1 .. m - 1]
      BY <3>1
    <3> HIDE DEF h
    <3> QED
      BY <1>11, <3>2
  <2> HIDE DEF h
  <2> QED
    BY <1>1, <2>1, <2>2 DEF Steps
<1>15. LatestOf(log, st) = h[n]
  <2>1. h[n] = f[1 .. n]
    OBVIOUS
  <2> HIDE DEF h
  <2> QED
    BY <1>10, <2>1
<1> HIDE DEF h
<1> QED
  BY <1>1, <1>14, <1>15

(* The record grows with the oplog, and is the stored one right after it   *)
(* was stored.                                                             *)
LEMMA LatestTyped ==
  ASSUME NEW log \in Logs, NEW st \in Records, st.idx <= Len(log)
  PROVE  LatestOf(log, st) \in Records
<1>1. PICK h : Steps(h, log, st) /\ LatestOf(log, st) = h[Len(log) - st.idx]
  BY LatestSteps
<1>2. Len(log) - st.idx \in 0 .. Len(log) - st.idx
  BY DEF Logs, Records
<1> QED
  BY <1>1, <1>2 DEF Steps

LEMMA LatestStored ==
  ASSUME NEW log \in Logs, NEW st \in Records, st.idx = Len(log)
  PROVE  LatestOf(log, st) = st
<1>1. st.idx <= Len(log) /\ Len(log) - st.idx = 0
  BY DEF Logs, Records
<1>2. PICK h : Steps(h, log, st) /\ LatestOf(log, st) = h[Len(log) - st.idx]
  BY <1>1, LatestSteps
<1> QED
  BY <1>1, <1>2 DEF Steps

LEMMA LatestAppend ==
  ASSUME NEW log \in Logs, NEW st \in Records, st.idx <= Len(log), NEW e \in Entries,
         e.kind = "Pending" => e.key \in Keys
  PROVE  /\ Append(log, e) \in Logs /\ st.idx <= Len(Append(log, e))
         /\ LatestOf(Append(log, e), st) = StepOn(LatestOf(log, st), e, Len(log) + 1)
<1>1. PICK n \in Nat, o \in Nat : n = Len(log) - st.idx /\ o = st.idx /\ o + n = Len(log)
  <2>1. Len(log) \in Nat /\ st.idx \in Nat
    BY DEF Logs, Records
  <2>2. Len(log) - st.idx \in Nat /\ st.idx + (Len(log) - st.idx) = Len(log)
    BY <2>1
  <2> QED
    BY <2>1, <2>2
<1>2. PICK longer : longer = Append(log, e)
  OBVIOUS
<1>3. /\ longer \in Seq(Entries) /\ Len(longer) = o + n + 1
      /\ DOMAIN log = 1 .. o + n /\ DOMAIN longer = 1 .. o + n + 1
      /\ longer[o + n + 1] = e /\ \A i \in 1 .. o + n : longer[i] = log[i]
  <2>1. log \in Seq(Entries) /\ DOMAIN log = 1 .. o + n
    BY <1>1 DEF Logs
  <2>2. /\ longer \in Seq(Entries) /\ Len(longer) = Len(log) + 1
        /\ DOMAIN longer = DOMAIN log \cup {Len(log) + 1}
        /\ longer[Len(log) + 1] = e /\ \A i \in DOMAIN log : longer[i] = log[i]
    BY ONLY <1>2, <2>1, e \in Entries, AppendEntries
  <2>3. Len(log) + 1 = o + n + 1 /\ (1 .. o + n) \cup {o + n + 1} = 1 .. o + n + 1
    <3>1. PICK l \in Nat : l = o + n
      OBVIOUS
    <3>2. (1 .. l) \cup {l + 1} = 1 .. l + 1
      BY ONLY l \in Nat
    <3> QED
      BY <1>1, <3>1, <3>2
  <2> QED
    BY ONLY <2>1, <2>2, <2>3
<1>4. longer \in Logs
  <2> SUFFICES ASSUME NEW i \in 1 .. o + n + 1, longer[i].kind = "Pending"
               PROVE  longer[i].key \in Keys
    BY <1>3 DEF Logs
  <2>1. i = o + n + 1 \/ i \in 1 .. o + n
    OBVIOUS
  <2> QED
    BY <1>3, <2>1 DEF Logs
<1>5. st.idx <= Len(longer) /\ Len(longer) - st.idx = n + 1
  BY <1>1, <1>3
<1>6. PICK h : Steps(h, log, st) /\ LatestOf(log, st) = h[n]
  BY <1>1, LatestSteps
<1>7. PICK k : Steps(k, longer, st) /\ LatestOf(longer, st) = k[n + 1]
  BY <1>4, <1>5, LatestSteps
<1>8. /\ h[0] = st /\ k[0] = st
      /\ \A m \in 1 .. n : h[m] = StepOn(h[m - 1], log[o + m], o + m)
      /\ \A m \in 1 .. n + 1 : k[m] = StepOn(k[m - 1], longer[o + m], o + m)
  BY <1>1, <1>5, <1>6, <1>7 DEF Steps
<1>9. \A m \in 0 .. n : k[m] = h[m]
  <2> DEFINE Bad == {m \in 0 .. n : k[m] # h[m]}
  <2>1. SUFFICES ASSUME Bad # {} PROVE FALSE
    OBVIOUS
  <2>2. PICK m \in Bad : \A i \in Bad : m <= i
    <3>1. Bad \in SUBSET Nat
      OBVIOUS
    <3> HIDE DEF Bad
    <3> QED
      BY <2>1, <3>1, LeastIndex
  <2>3. m \in 1 .. n /\ m - 1 \in 0 .. n /\ m \in 1 .. n + 1 /\ o + m \in 1 .. o + n
    BY <1>8, <2>2
  <2>4. k[m - 1] = h[m - 1]
    BY <2>2, <2>3
  <2> QED
    BY <1>3, <1>8, <2>2, <2>3, <2>4
<1>10. k[n + 1] = StepOn(k[n], e, o + n + 1)
  <2>1. n + 1 \in 1 .. n + 1 /\ n + 1 - 1 = n /\ o + (n + 1) = o + n + 1
    OBVIOUS
  <2> QED
    BY <1>3, <1>8, <2>1
<1>11. k[n] = h[n]
  BY <1>9
<1> QED
  BY <1>1, <1>2, <1>4, <1>5, <1>6, <1>7, <1>10, <1>11

LEMMA AppendGrows ==
  ASSUME NEW T, NEW q \in Seq(T), NEW e \in T
  PROVE  Append(q, e) # q
<1>1. Len(Append(q, e)) = Len(q) + 1 /\ Len(q) \in Nat
  OBVIOUS
<1> QED
  BY <1>1

-----------------------------------------------------------------------------
(* Types of the records and of the results.                                *)

Results == [kind : {"ok", "failed", "interrupted", "Lazy"}, idx : Nat]

RecordTypeOK ==
  /\ oplog \in Logs
  /\ stored \in Records /\ stored.idx <= Len(oplog)
  /\ snap \in Records
  /\ results \in PartialMaps(Results)

(* Who writes which entry.                                                 *)
LEMMA LoopAppends ==
  ASSUME StateTypeOK, Loop
  PROVE  \/ oplog' = oplog /\ ~Enter /\ ~RecordSuccess
         \/ \E e \in Entries :
              /\ oplog' = Append(oplog, e) /\ stored' = stored
              /\ \/ e.kind = "Invoked" /\ e.key = loop.current /\ Enter
                 \/ e.kind = "Invoked" /\ e.key = Unfinished /\ Replay
                 \/ e.kind = "Host" /\ (HostCall \/ WantMemory)
                 \/ e.kind = "Completed" /\ e.key = loop.current /\ RecordSuccess
                 \/ /\ e.kind \in {"Error", "Interrupted", "Suspend", "Exited"}
                    /\ RecordFailure
<1>0. /\ \A kind \in Kinds : \A k \in Keys \cup {None} :
           /\ Entry(kind, k) \in Entries
           /\ Entry(kind, k).kind = kind /\ Entry(kind, k).key = k
      /\ "Invoked" \in Kinds /\ "Host" \in Kinds /\ "Completed" \in Kinds
      /\ "Error" \in Kinds /\ "Interrupted" \in Kinds /\ "Suspend" \in Kinds /\ "Exited" \in Kinds
      /\ loop.current \in Keys \cup {None} /\ Unfinished \in Keys \cup {None}
  BY EntryTyped, UnfinishedTyped DEF Kinds, StateTypeOK, LoopStates
<1>1. CASE StartWithPermit \/ CreateInstance \/ Prepared \/ Receive \/ ChannelClosed
           \/ InterruptCommand \/ Dequeue \/ SaveStatus \/ GotMemory \/ Succeed
           \/ (\E trap \in Traps : Trap(trap))
  <2>1. oplog' = oplog
    BY <1>1 DEF StartWithPermit, CreateInstance, Prepared, Receive, ChannelClosed,
       InterruptCommand, Dequeue, SaveStatus, GotMemory, Succeed, Trap
  <2>2. ~Enter /\ ~RecordSuccess
    BY <1>0, <2>1, AppendGrows DEF Enter, RecordSuccess, StateTypeOK
  <2> QED
    BY <2>1, <2>2
<1>2. CASE StoreSuccess \/ NextCommand \/ ReadFailureIndex \/ GiveUp \/ End \/ Abort
           \/ Stopping \/ Stop \/ RestartOnOom
  <2>1. oplog' = oplog
    BY <1>2 DEF StoreSuccess, NextCommand, ReadFailureIndex, GiveUp, End, Abort, Stopping,
       Stop, RestartOnOom
  <2>2. ~Enter /\ ~RecordSuccess
    BY <1>0, <2>1, AppendGrows DEF Enter, RecordSuccess, StateTypeOK
  <2> QED
    BY <2>1, <2>2
<1>3. CASE Replay
  <2>1. oplog' = oplog \/ oplog' = Append(oplog, Entry("Invoked", Unfinished))
    BY <1>3 DEF Replay
  <2>2. stored' = stored /\ loop.pc = "replay"
    BY <1>3 DEF Replay
  <2>3. ~Enter /\ ~RecordSuccess
    BY <2>2 DEF Enter, RecordSuccess
  <2> QED
    BY <1>0, <1>3, <2>1, <2>2, <2>3
<1>4. CASE Enter
  <2>1. oplog' = Append(oplog, Entry("Invoked", loop.current)) /\ stored' = stored
    BY <1>4 DEF Enter
  <2> QED
    BY <1>0, <1>4, <2>1
<1>5. CASE HostCall \/ WantMemory
  <2>1. oplog' = Append(oplog, Entry("Host", loop.current)) /\ stored' = stored
    BY <1>5 DEF HostCall, WantMemory
  <2> QED
    BY <1>0, <1>5, <2>1
<1>6. CASE RecordSuccess
  <2>1. oplog' = Append(oplog, Entry("Completed", loop.current)) /\ stored' = stored
    BY <1>6 DEF RecordSuccess
  <2> QED
    BY <1>0, <1>6, <2>1
<1>7. CASE RecordFailure
  <2>1. oplog' = oplog \/ /\ loop.trap \in DOMAIN EntryOfTrap
                          /\ oplog' = Append(oplog, Entry(EntryOfTrap[loop.trap], loop.current))
    BY <1>7 DEF RecordFailure
  <2>2. loop.trap \in DOMAIN EntryOfTrap =>
          EntryOfTrap[loop.trap] \in {"Error", "Interrupted", "Suspend", "Exited"}
    BY DEF EntryOfTrap
  <2>3. stored' = stored /\ loop.pc = "failure"
    BY <1>7 DEF RecordFailure
  <2>4. ~Enter /\ ~RecordSuccess
    BY <2>3 DEF Enter, RecordSuccess
  <2>5. CASE oplog' = oplog
    BY <2>4, <2>5
  <2>6. CASE /\ loop.trap \in DOMAIN EntryOfTrap
             /\ oplog' = Append(oplog, Entry(EntryOfTrap[loop.trap], loop.current))
    <3>1. PICK kind \in {"Error", "Interrupted", "Suspend", "Exited"} :
             kind = EntryOfTrap[loop.trap]
      BY <2>2, <2>6
    <3>2. Entry(kind, loop.current) \in Entries /\ Entry(kind, loop.current).kind = kind
      BY <1>0
    <3>3. oplog' = Append(oplog, Entry(kind, loop.current))
      BY <2>6, <3>1
    <3> QED
      BY <1>7, <2>3, <3>2, <3>3
  <2> QED
    BY <2>1, <2>5, <2>6
<1> QED
  BY <1>1, <1>2, <1>3, <1>4, <1>5, <1>6, <1>7 DEF Loop

(* What is stored, and what the loop is about to store.                    *)
LEMMA StoredChanges ==
  ASSUME [Next]_vars, ~SaveStatus
  PROVE  stored' = stored
<1>1. ASSUME NEW c \in Clients, Client(c) PROVE stored' = stored
  BY <1>1 DEF Client, Validate, Start, Lookup, Subscribe, EnqueueIdle, EnqueueBusy, RecordBusy,
     PushBusy, EnqueueUnloaded, Persist
<1>2. CASE Loop
  BY <1>2 DEF Loop, StartWithPermit, CreateInstance, Replay, Prepared, Receive, ChannelClosed,
     InterruptCommand, Dequeue, Enter, HostCall, WantMemory, GotMemory, Succeed, Trap,
     RecordSuccess, StoreSuccess, NextCommand, RecordFailure, ReadFailureIndex, GiveUp, End,
     Abort, Stopping, Stop, RestartOnOom
<1>3. ASSUME NEW kind, \/ Interrupt(kind) \/ SetInterrupting \/ StopIfIdle \/ Evicted
                       \/ Activate \/ Crash \/ UNCHANGED vars
      PROVE  stored' = stored
  BY <1>3 DEF Interrupt, SetInterrupting, StopIfIdle, Evicted, Activate, Crash, vars
<1> QED
  BY <1>1, <1>2, <1>3 DEF Next

Snapshot(current) ==
  [idx |-> 0, pending |-> queue', results |-> [k \in DOMAIN results' |-> results'[k].idx],
   current |-> current]

LEMMA SnapChanges ==
  ASSUME StateTypeOK, Loop, ~SaveStatus
  PROVE  \/ snap' = snap /\ loop'.pc # "save"
         \/ /\ loop'.pc = "save" /\ snap' = Snapshot(loop'.current)
            /\ loop'.next \in {"enter", "guest", "grow", "prepared", "done", "giveup"}
<1>0. loop \in LoopStates /\ commands \in Seq({"Invocation", "Interrupt", "Restart"})
  BY DEF StateTypeOK
<1>1. CASE StartWithPermit \/ CreateInstance \/ Stop \/ Stopping \/ RestartOnOom
  <2>1. NoLoop.pc = "none" /\ AfterStop.pc \in {"none", "restart"}
    BY DEF AfterStop, NoLoop
  <2>2. CASE StartWithPermit \/ CreateInstance
    BY <2>2 DEF StartWithPermit, CreateInstance, NoLoop
  <2>3. CASE Stop \/ RestartOnOom
    BY <2>1, <2>3 DEF Stop, RestartOnOom
  <2>4. CASE Stopping
    <3>1. snap' = snap /\ (loop' = [loop EXCEPT !.pc = "unload"] \/ loop' = AfterStop)
      BY <2>4 DEF Stopping
    <3> QED
      BY <1>0, <2>1, <3>1 DEF LoopStates
  <2> QED
    BY <1>1, <2>2, <2>3, <2>4
<1>2. CASE Prepared \/ ChannelClosed \/ InterruptCommand \/ NextCommand \/ GotMemory
           \/ Succeed \/ End \/ Abort \/ RecordFailure \/ RecordSuccess \/ GiveUp
  BY <1>0, <1>2 DEF Prepared, ChannelClosed, InterruptCommand, NextCommand, GotMemory,
     Succeed, End, Abort, RecordFailure, RecordSuccess, GiveUp, Goto, LoopStates
<1>3. ASSUME NEW state \in LoopStates, SaveThen(state, "enter") \/ SaveThen(state, "guest")
               \/ SaveThen(state, "grow") \/ SaveThen(state, "prepared")
               \/ SaveThen(state, "done") \/ SaveThen(state, "giveup")
      PROVE  /\ loop'.pc = "save" /\ snap' = Snapshot(loop'.current)
             /\ loop'.next \in {"enter", "guest", "grow", "prepared", "done", "giveup"}
  BY <1>3 DEF SaveThen, Snapshot, LoopStates
<1>4. CASE Replay
  <2>1. CASE snap' = snap /\ (Goto("abort") \/ Goto("prepared"))
    BY <1>0, <2>1 DEF Goto, LoopStates
  <2>2. CASE SaveThen([loop EXCEPT !.current = Unfinished], "guest")
    <3>1. [loop EXCEPT !.current = Unfinished] \in LoopStates
      BY <1>0, UnfinishedTyped DEF StateTypeOK, LoopStates
    <3> QED
      BY <1>3, <2>2, <3>1
  <2>3. CASE /\ SaveThen([loop EXCEPT !.current = oplog[Max(InvokedIndexes)].key], "prepared")
             /\ InvokedIndexes # {}
    <3>1. [loop EXCEPT !.current = oplog[Max(InvokedIndexes)].key] \in LoopStates
      BY <1>0, <2>3, UnfinishedTyped DEF StateTypeOK, LoopStates
    <3> QED
      BY <1>3, <2>3, <3>1
  <2> QED
    BY <1>4, <2>1, <2>2, <2>3 DEF Replay
<1>5. CASE Receive
  <2>1. snap' = snap /\ loop'.pc = Head(commands) /\ commands # <<>>
    BY <1>0, <1>5 DEF Receive, LoopStates
  <2> QED
    BY <1>0, <2>1
<1>6. CASE Enter \/ WantMemory \/ StoreSuccess
  BY <1>0, <1>3, <1>6 DEF Enter, WantMemory, StoreSuccess
<1>7. CASE Dequeue
  BY <1>0, <1>7 DEF Dequeue, SaveThen, Snapshot, LoopStates
<1>8. CASE ReadFailureIndex
  BY <1>0, <1>8 DEF ReadFailureIndex, SaveThen, Snapshot, LoopStates
<1>9. ASSUME NEW trap \in Traps, Trap(trap) PROVE snap' = snap /\ loop'.pc # "save"
  BY <1>0, <1>9 DEF Trap, LoopStates
<1>10. CASE HostCall
  BY <1>10 DEF HostCall
<1> QED
  BY <1>1, <1>2, <1>4, <1>5, <1>6, <1>7, <1>8, <1>9, <1>10 DEF Loop

LEMMA RecordTyped ==
  ASSUME RecordTypeOK
  PROVE  LatestRecord \in Records /\ RecoveryTyped
<1>1. LatestRecord \in Records
  BY LatestRecordIs, LatestTyped DEF RecordTypeOK
<1> QED
  BY <1>1 DEF Records, RecoveryTyped

LEMMA SameRecord ==
  ASSUME oplog' = oplog, stored' = stored
  PROVE  LatestRecord' = LatestRecord
BY LatestRecordIs, LatestRecordIsNext

LEMMA GrownRecord ==
  ASSUME RecordTypeOK, NEW e \in Entries, e.kind = "Pending" => e.key \in Keys,
         oplog' = Append(oplog, e), stored' = stored
  PROVE  /\ oplog' \in Logs /\ stored'.idx <= Len(oplog')
         /\ LatestRecord' = StepOn(LatestRecord, e, Len(oplog) + 1)
<1>1. PICK log \in Logs, st \in Records : log = oplog /\ st = stored /\ st.idx <= Len(log)
  BY DEF RecordTypeOK
<1>2. /\ Append(log, e) \in Logs /\ st.idx <= Len(Append(log, e))
      /\ LatestOf(Append(log, e), st) = StepOn(LatestOf(log, st), e, Len(log) + 1)
  BY <1>1, LatestAppend
<1> QED
  BY <1>1, <1>2, LatestRecordIs, LatestRecordIsNext

LEMMA SavedRecord ==
  ASSUME RecordTypeOK, SaveStatus
  PROVE  /\ oplog' = oplog /\ stored' \in Records /\ stored'.idx = Len(oplog)
         /\ stored'.pending = snap.pending /\ stored'.results = snap.results
         /\ stored'.current = snap.current
         /\ LatestRecord' = stored'
<1>1. oplog' = oplog /\ stored' = [snap EXCEPT !.idx = Len(oplog)] /\ Len(oplog) \in Nat
      /\ oplog \in Logs
  BY DEF SaveStatus, RecordTypeOK, Logs
<1>2. /\ stored' \in Records /\ stored'.idx = Len(oplog)
      /\ stored'.pending = snap.pending /\ stored'.results = snap.results
      /\ stored'.current = snap.current
  BY <1>1 DEF RecordTypeOK, Records
<1>3. PICK st \in Records : st = stored' /\ st.idx = Len(oplog)
  BY <1>2
<1>4. LatestOf(oplog, st) = st
  BY <1>1, <1>3, LatestStored
<1> QED
  BY <1>1, <1>2, <1>3, <1>4, LatestRecordIsNext

LEMMA EmptyRecordTyped == EmptyRecord \in Records
<1>1. <<>> \in PartialMaps(Nat)
  <2>1. <<>> \in [{} -> Nat] /\ {} \in SUBSET (Keys \cup {None})
    OBVIOUS
  <2> QED
    BY <2>1 DEF PartialMaps
<1>2. <<>> \in Seq(Keys)
  OBVIOUS
<1> QED
  BY <1>1, <1>2 DEF EmptyRecord, Records

LEMMA SnapshotTyped ==
  ASSUME queue' \in Seq(Keys), results' \in PartialMaps(Results), NEW current \in Keys \cup {None}
  PROVE  /\ Snapshot(current) \in Records
         /\ Snapshot(current).pending = queue' /\ Snapshot(current).current = current
         /\ DOMAIN Snapshot(current).results = DOMAIN results'
         /\ \A k \in DOMAIN results' : Snapshot(current).results[k] = results'[k].idx
<1>1. PICK D \in SUBSET (Keys \cup {None}) : results' \in [D -> Results]
  BY DEF PartialMaps
<1>2. [k \in DOMAIN results' |-> results'[k].idx] \in [D -> Nat]
  BY <1>1 DEF Results
<1>3. [k \in DOMAIN results' |-> results'[k].idx] \in PartialMaps(Nat)
  BY <1>2, Zenon DEF PartialMaps
<1> QED
  BY <1>3 DEF Snapshot, Records

LEMMA ResultsTyped ==
  ASSUME StateTypeOK, RecordTypeOK, Dequeue \/ StoreSuccess \/ GiveUp \/ Crash
  PROVE  results' \in PartialMaps(Results)
<1>0. /\ loop.current \in Keys \cup {None} /\ loop.at \in Nat /\ Len(oplog) \in Nat
      /\ queue \in Seq(Keys)
  BY DEF StateTypeOK, LoopStates
<1>1. PICK D \in SUBSET (Keys \cup {None}) : results \in [D -> Results]
  BY DEF PartialMaps, RecordTypeOK
<1>2. CASE Dequeue
  <2>1. results' = [k \in D \ {Head(queue)} |-> results[k]]
    BY <1>1, <1>2 DEF Dequeue
  <2>2. results' \in [D \ {Head(queue)} -> Results]
    BY <1>1, <2>1
  <2> QED
    BY <2>2, D \ {Head(queue)} \in SUBSET (Keys \cup {None}), Zenon DEF PartialMaps
<1>3. CASE StoreSuccess
  <2>1. results' = Put(results, loop.current, [kind |-> "ok", idx |-> Len(oplog)])
    BY <1>3 DEF StoreSuccess
  <2>2. [kind |-> "ok", idx |-> Len(oplog)] \in Results
    BY <1>0 DEF Results
  <2>3. results \in PartialMaps(Results)
    BY DEF RecordTypeOK
  <2> QED
    BY <1>0, <2>1, <2>2, <2>3, PutTyped
<1>4. CASE GiveUp
  <2>1. PICK keys \in SUBSET (Keys \cup {None}), answer \in {"interrupted", "failed"} :
           results' = [k \in D \cup keys |->
                         IF k \in keys THEN [kind |-> answer, idx |-> loop.at] ELSE results[k]]
    <3>1. {loop.current} \cup Range(queue) \in SUBSET (Keys \cup {None})
      BY <1>0 DEF Range
    <3>2. {} \in SUBSET (Keys \cup {None})
      OBVIOUS
    <3> QED
      BY <1>1, <1>4, <3>1, <3>2 DEF GiveUp
  <2>2. [kind |-> answer, idx |-> loop.at] \in Results
    BY <1>0 DEF Results
  <2>3. results' \in [D \cup keys -> Results]
    BY <1>1, <2>1, <2>2
  <2> QED
    BY <2>3, D \cup keys \in SUBSET (Keys \cup {None}), Zenon DEF PartialMaps
<1>5. CASE Crash
  <2>1. PICK known \in PartialMaps(Nat) : known = LatestRecord.results
    BY RecordTyped DEF Records
  <2>2. PICK E \in SUBSET (Keys \cup {None}) : known \in [E -> Nat]
    BY DEF PartialMaps
  <2>3. results' = [k \in E |-> [kind |-> "Lazy", idx |-> known[k]]]
    BY <1>5, <2>1, <2>2 DEF Crash
  <2>4. \A k \in E : [kind |-> "Lazy", idx |-> known[k]] \in Results
    BY <2>2 DEF Results
  <2>5. results' \in [E -> Results]
    BY <2>3, <2>4
  <2> QED
    BY <2>5, Zenon DEF PartialMaps
<1> QED
  BY <1>2, <1>3, <1>4, <1>5

LEMMA ResultsChange ==
  ASSUME WorkerInv, [Next]_vars, ~Dequeue, ~StoreSuccess, ~GiveUp, ~Crash
  PROVE  results' = results
<1>1. ASSUME NEW c \in Clients, Client(c) PROVE results' = results
  BY <1>1, ClientChanges
<1>2. ASSUME NEW kind, \/ Interrupt(kind) \/ SetInterrupting \/ StopIfIdle \/ Evicted
                       \/ Activate \/ UNCHANGED vars
      PROVE  results' = results
  BY <1>2 DEF Interrupt, SetInterrupting, StopIfIdle, Evicted, Activate, vars
<1> QED
  BY <1>1, <1>2, LoopAnswers DEF Next

(* A step outside the loop leaves what the loop works with alone; a client *)
(* may record that its invocation is pending.                              *)
LEMMA OutsideLoop ==
  ASSUME [Next]_vars, ~Loop, ~Crash
  PROVE  /\ UNCHANGED <<loop, snap, results, stored>>
         /\ \/ oplog' = oplog
            \/ \E e \in Entries : /\ oplog' = Append(oplog, e)
                                  /\ e.kind = "Pending" /\ e.key \in Keys
<1>1. ASSUME NEW c \in Clients, Client(c)
      PROVE  /\ UNCHANGED <<loop, snap, results, stored>>
             /\ \/ oplog' = oplog
                \/ \E e \in Entries : /\ oplog' = Append(oplog, e)
                                      /\ e.kind = "Pending" /\ e.key \in Keys
  <2>1. oplog' = oplog \/ oplog' = Append(oplog, Entry("Pending", KeyOf[c]))
    BY <1>1, ClientChanges
  <2>2. KeyOf[c] \in Keys /\ "Pending" \in Kinds
    BY DEF Keys, Kinds
  <2>3. PICK e \in Entries : e = Entry("Pending", KeyOf[c]) /\ e.kind = "Pending" /\ e.key \in Keys
    BY <2>2, EntryTyped
  <2>4. UNCHANGED <<loop, snap, results, stored>>
    BY <1>1 DEF Client, Validate, Start, Lookup, Subscribe, EnqueueIdle, EnqueueBusy, RecordBusy,
       PushBusy, EnqueueUnloaded, Persist
  <2> QED
    BY <2>1, <2>3, <2>4
<1>2. ASSUME NEW kind, \/ Interrupt(kind) \/ SetInterrupting \/ StopIfIdle \/ Evicted
                       \/ Activate \/ UNCHANGED vars
      PROVE  UNCHANGED <<loop, snap, results, stored, oplog>>
  BY <1>2 DEF Interrupt, SetInterrupting, StopIfIdle, Evicted, Activate, vars
<1> QED
  BY <1>1, <1>2 DEF Next

(* What a step does to the oplog and the stored record.                    *)
LEMMA RecordChanges ==
  ASSUME StateTypeOK, [Next]_vars
  PROVE  \/ oplog' = oplog /\ stored' = stored
         \/ SaveStatus /\ oplog' = oplog
         \/ \E e \in Entries :
              /\ oplog' = Append(oplog, e) /\ stored' = stored
              /\ e.kind = "Pending" => e.key \in Keys /\ ~Loop
              /\ e.kind = "Completed" => RecordSuccess /\ e.key = loop.current
              /\ e.kind = "Invoked" => \/ Enter /\ e.key = loop.current
                                       \/ Replay /\ e.key = Unfinished
<1>1. CASE SaveStatus
  BY <1>1 DEF SaveStatus
<1>2. CASE ~SaveStatus /\ Loop
  <2>1. stored' = stored
    BY <1>2, StoredChanges
  <2> QED
    BY <1>2, <2>1, LoopAppends
<1>3. CASE Crash
  BY <1>3 DEF Crash
<1>4. CASE ~Loop /\ ~Crash
  BY <1>4, OutsideLoop
<1> QED
  BY <1>1, <1>2, <1>3, <1>4

LEMMA KeepRecordTyped ==
  ASSUME WorkerInv, StateTypeOK', RecordTypeOK, [Next]_vars
  PROVE  RecordTypeOK'
<1>0. StateTypeOK /\ loop'.current \in Keys \cup {None} /\ queue' \in Seq(Keys)
  BY DEF WorkerInv, StateTypeOK, LoopStates
<1>1. results' \in PartialMaps(Results)
  BY <1>0, ResultsTyped, ResultsChange DEF RecordTypeOK
<1>2. oplog' \in Logs /\ stored' \in Records /\ stored'.idx <= Len(oplog')
  <2>1. CASE oplog' = oplog /\ stored' = stored
    BY <2>1 DEF RecordTypeOK
  <2>2. CASE SaveStatus /\ oplog' = oplog
    <3>1. stored' \in Records /\ stored'.idx = Len(oplog) /\ Len(oplog) \in Nat
      BY <2>2, SavedRecord DEF RecordTypeOK, Logs
    <3> QED
      BY <2>2, <3>1 DEF RecordTypeOK
  <2>3. ASSUME NEW e \in Entries, oplog' = Append(oplog, e), stored' = stored,
               e.kind = "Pending" => e.key \in Keys
        PROVE  oplog' \in Logs /\ stored' \in Records /\ stored'.idx <= Len(oplog')
    BY <2>3, GrownRecord DEF RecordTypeOK
  <2> QED
    BY <1>0, <2>1, <2>2, <2>3, RecordChanges
<1>3. snap' \in Records
  <2>1. CASE Loop /\ ~SaveStatus
    <3>1. snap' = snap \/ snap' = Snapshot(loop'.current)
      BY <1>0, <2>1, SnapChanges
    <3> QED
      BY <1>0, <1>1, <3>1, SnapshotTyped DEF RecordTypeOK
  <2>2. CASE SaveStatus \/ Crash
    BY <2>2, EmptyRecordTyped DEF SaveStatus, Crash
  <2>3. ASSUME NEW c \in Clients, Client(c) PROVE snap' = snap
    BY <2>3 DEF Client, Validate, Start, Lookup, Subscribe, EnqueueIdle, EnqueueBusy, RecordBusy,
       PushBusy, EnqueueUnloaded, Persist
  <2>4. ASSUME NEW kind, \/ Interrupt(kind) \/ SetInterrupting \/ StopIfIdle \/ Evicted
                         \/ Activate \/ UNCHANGED vars
        PROVE  snap' = snap
    BY <2>4 DEF Interrupt, SetInterrupting, StopIfIdle, Evicted, Activate, vars
  <2> QED
    BY <2>1, <2>2, <2>3, <2>4 DEF Next, RecordTypeOK
<1> QED
  BY <1>1, <1>2, <1>3 DEF RecordTypeOK

LEMMA InitRecordTyped == Init => RecordTypeOK
<1> SUFFICES ASSUME Init PROVE RecordTypeOK
  OBVIOUS
<1>1. oplog = <<Entry("Create", None)>> /\ stored = EmptyRecord /\ snap = EmptyRecord
      /\ results = <<>>
  BY DEF Init
<1>2. Entry("Create", None) \in Entries /\ Entry("Create", None).kind = "Create"
  BY EntryTyped DEF Kinds
<1>3. oplog \in Logs /\ Len(oplog) = 1
  BY <1>1, <1>2 DEF Logs
<1>4. results \in PartialMaps(Results)
  <2>1. <<>> \in [{} -> Results] /\ {} \in SUBSET (Keys \cup {None})
    OBVIOUS
  <2> QED
    BY <1>1, <2>1, Zenon DEF PartialMaps
<1>5. EmptyRecord.idx = 1
  BY DEF EmptyRecord
<1> QED
  BY <1>1, <1>3, <1>4, <1>5, EmptyRecordTyped DEF RecordTypeOK

LEMMA WorkerInvariant == Spec => [](WorkerInv /\ RecordTypeOK)
<1>1. WorkerInv /\ RecordTypeOK /\ [Next]_vars => WorkerInv' /\ RecordTypeOK'
  <2> SUFFICES ASSUME WorkerInv, RecordTypeOK, [Next]_vars PROVE WorkerInv' /\ RecordTypeOK'
    OBVIOUS
  <2>1. WorkerInv'
    BY RecordTyped, KeepWorker
  <2>2. StateTypeOK'
    BY <2>1 DEF WorkerInv
  <2> QED
    BY <2>1, <2>2, KeepRecordTyped
<1> QED
  BY <1>1, InitWorker, InitRecordTyped, PTL DEF Spec

(* Every queued invocation of a running worker has its command and every   *)
(* command its invocation (the queue and the channel of RunningWorker),    *)
(* over stops, restarts, evictions and crashes.                            *)
THEOREM WorkerCommandsMatch == Spec => []CommandsMatchQueue
<1>1. WorkerInv => CommandsMatchQueue
  BY DEF WorkerInv
<1> QED
  BY <1>1, WorkerInvariant, PTL

(* stop_if_idle meets an idle worker, which stays idle until it is gone    *)
(* and whose loop never waits for the lock that the eviction holds.        *)
THEOREM WorkerEvictsOnlyIdle == Spec => []EvictsOnlyIdle
<1>1. WorkerInv => EvictsOnlyIdle
  BY DEF WorkerInv, EvictionInv, LoopInv, EvictsOnlyIdle, At
<1> QED
  BY <1>1, WorkerInvariant, PTL

-----------------------------------------------------------------------------
(* What becomes of an accepted invocation.                                 *)

(* It is queued, about to begin, unfinished, answered or about to be, or   *)
(* dropped.                                                                *)
Kept(k) ==
  \/ Contains(queue, k) \/ k \in DOMAIN results \/ Unfinished = k \/ k \in dropped
  \/ loop.current = k /\ At({"enter", "completed"})

KeptInv ==
  \A c \in Clients : client[c] \in {"persist", "accepted", "waiting"} => Kept(KeyOf[c])

LEMMA ContainsAppend ==
  ASSUME NEW q \in Seq(Keys), NEW e \in Keys
  PROVE  /\ Contains(Append(q, e), e)
         /\ \A k : Contains(q, k) => Contains(Append(q, e), k)
BY DEF Contains

LEMMA ContainsTail ==
  ASSUME NEW q \in Seq(Keys), q # <<>>, NEW k, Contains(q, k), k # Head(q)
  PROVE  Contains(Tail(q), k)
<1>1. PICK i \in 1 .. Len(q) : q[i] = k
  BY DEF Contains
<1>2. i # 1 /\ Len(q) \in Nat
  BY <1>1
<1>3. i - 1 \in 1 .. Len(Tail(q)) /\ Tail(q)[i - 1] = k
  BY <1>1, <1>2
<1> QED
  BY <1>3 DEF Contains

LEMMA ContainsRange ==
  ASSUME NEW q \in Seq(Keys), NEW k, Contains(q, k)
  PROVE  k \in Range(q)
BY DEF Contains, Range

(* A step that forgets nothing and is not one of those that begin or       *)
(* answer an invocation.                                                   *)
LEMMA KeptQuietly ==
  ASSUME NEW k, Kept(k), Contains(queue, k) => Contains(queue', k) \/ k \in dropped',
         DOMAIN results \subseteq DOMAIN results', dropped \subseteq dropped',
         Unfinished' = Unfinished,
         loop' = loop \/ loop.pc \notin {"enter", "completed", "save"}
  PROVE  Kept(k)'
BY DEF Kept, At

LEMMA LoopKeeps ==
  ASSUME WorkerInv, Loop, NEW k \in Keys, Kept(k)
  PROVE  Kept(k)'
<1>0. /\ loop \in LoopStates /\ queue \in Seq(Keys) /\ StateTypeOK /\ k # None
      /\ loop.current \in Keys \cup {None} /\ "Host" \in Kinds
  BY WorkerAssumption DEF WorkerInv, StateTypeOK, LoopStates, Kinds
<1>1. CASE StartWithPermit
  <2>1. loop.pc \in {"none", "restart"}
    BY <1>1, WorkerAssumption DEF StartWithPermit, Free, WorkerInv, LockInv
  <2>2. UNCHANGED <<oplog, queue, results, dropped>>
    BY <1>1 DEF StartWithPermit, ghosts
  <2>3. Unfinished' = Unfinished
    BY <2>2, SameOplog
  <2> QED
    BY <2>1, <2>2, <2>3, KeptQuietly
<1>2. CASE CreateInstance \/ Prepared \/ Receive \/ ChannelClosed \/ InterruptCommand
           \/ GotMemory \/ Succeed \/ (\E trap \in Traps : Trap(trap)) \/ NextCommand
           \/ ReadFailureIndex \/ End \/ Abort \/ Stopping \/ RestartOnOom
  <2>1. UNCHANGED <<oplog, queue, results, dropped>>
        /\ loop.pc \notin {"enter", "completed", "save"}
    BY <1>2 DEF CreateInstance, Prepared, Receive, ChannelClosed, InterruptCommand, GotMemory,
       Succeed, Trap, NextCommand, ReadFailureIndex, End, Abort, Stopping, RestartOnOom, ghosts
  <2>2. Unfinished' = Unfinished
    BY <2>1, SameOplog
  <2> QED
    BY <2>1, <2>2, KeptQuietly
<1>3. CASE Replay
  <2>1. UNCHANGED <<queue, results, dropped>> /\ loop.pc \notin {"enter", "completed", "save"}
    BY <1>3 DEF Replay, ghosts
  <2>2. oplog' = oplog \/ oplog' = Append(oplog, Entry("Invoked", Unfinished))
    BY <1>3 DEF Replay
  <2>3. Unfinished' = Unfinished
    <3>1. PICK u \in Keys \cup {None} : u = Unfinished
      BY <1>0, UnfinishedTyped DEF StateTypeOK
    <3>2. PICK e \in Entries : e = Entry("Invoked", u) /\ e.kind = "Invoked" /\ e.key = u
      BY EntryTyped DEF Kinds
    <3>3. CASE oplog' = oplog
      BY <3>3, SameOplog
    <3>4. CASE oplog' = Append(oplog, e)
      BY <1>0, <3>1, <3>2, <3>4, UnfinishedAppend DEF StateTypeOK
    <3> QED
      BY <2>2, <3>1, <3>2, <3>3, <3>4
  <2> QED
    BY <2>1, <2>3, KeptQuietly
<1>4. CASE HostCall \/ WantMemory
  <2>1. UNCHANGED <<queue, results, dropped>> /\ loop.pc \notin {"enter", "completed", "save"}
        /\ oplog' = Append(oplog, Entry("Host", loop.current))
    BY <1>4 DEF HostCall, WantMemory, ghosts
  <2>2. Unfinished' = Unfinished
    BY <1>0, <2>1, HintAppended
  <2> QED
    BY <2>1, <2>2, KeptQuietly
<1>5. CASE RecordFailure
  <2>1. UNCHANGED <<queue, results, dropped>> /\ loop.pc \notin {"enter", "completed", "save"}
    BY <1>5 DEF RecordFailure, ghosts
  <2>2. oplog' = oplog \/ /\ loop.trap \in DOMAIN EntryOfTrap
                          /\ oplog' = Append(oplog, Entry(EntryOfTrap[loop.trap], loop.current))
    BY <1>5 DEF RecordFailure
  <2>3. loop.trap \in DOMAIN EntryOfTrap =>
          EntryOfTrap[loop.trap] \in Kinds \ {"Invoked", "Completed"}
    BY DEF EntryOfTrap, Kinds
  <2>4. Unfinished' = Unfinished
    BY <1>0, <2>2, <2>3, HintAppended, SameOplog
  <2> QED
    BY <2>1, <2>4, KeptQuietly
<1>6. CASE GiveUp
  <2>1. UNCHANGED <<oplog, queue, dropped>> /\ loop.pc \notin {"enter", "completed", "save"}
        /\ DOMAIN results \subseteq DOMAIN results'
    BY <1>6 DEF GiveUp, ghosts
  <2>2. Unfinished' = Unfinished
    BY <2>1, SameOplog
  <2> QED
    BY <2>1, <2>2, KeptQuietly
<1>7. CASE Stop
  <2>1. UNCHANGED <<oplog, results>> /\ loop.pc \notin {"enter", "completed", "save"}
    BY <1>7 DEF Stop
  <2>2. UNCHANGED <<queue, dropped>> \/ dropped' = dropped \cup Range(queue)
    BY <1>7 DEF Stop, ghosts
  <2>3. Unfinished' = Unfinished
    BY <2>1, SameOplog
  <2>4. Contains(queue, k) => Contains(queue', k) \/ k \in dropped'
    BY <1>0, <2>2, ContainsRange
  <2> QED
    BY <2>1, <2>2, <2>3, <2>4, KeptQuietly
<1>8. CASE Dequeue
  <2>1. /\ loop.pc = "Invocation" /\ queue' = Tail(queue) /\ UNCHANGED <<oplog, dropped>>
        /\ DOMAIN results' = DOMAIN results \ {Head(queue)}
        /\ loop'.current = Head(queue) /\ loop'.pc = "save" /\ loop'.next = "enter"
    BY <1>0, <1>8 DEF Dequeue, SaveThen, LoopStates, ghosts
  <2>2. queue # <<>>
    BY <2>1, CommandFinds
  <2>3. Unfinished' = Unfinished
    BY <2>1, SameOplog
  <2>4. CASE k = Head(queue)
    BY <2>1, <2>4 DEF Kept, At
  <2>5. CASE k # Head(queue)
    <3>1. Contains(queue, k) => Contains(queue', k)
      BY <1>0, <2>1, <2>2, <2>5, ContainsTail
    <3>2. k \in DOMAIN results => k \in DOMAIN results'
      BY <2>1, <2>5
    <3>3. ~At({"enter", "completed"})
      BY <2>1 DEF At
    <3> QED
      BY <2>1, <2>3, <3>1, <3>2, <3>3 DEF Kept
  <2> QED
    BY <2>4, <2>5
<1>9. CASE SaveStatus
  <2>1. /\ UNCHANGED <<oplog, queue, results, dropped>>
        /\ loop.pc = "save" /\ loop'.pc = loop.next /\ loop'.current = loop.current
    BY <1>0, <1>9 DEF SaveStatus, LoopStates, ghosts
  <2>2. Unfinished' = Unfinished
    BY <2>1, SameOplog
  <2> QED
    BY <2>1, <2>2 DEF Kept, At
<1>10. CASE Enter
  <2>1. /\ loop.pc = "enter" /\ UNCHANGED <<queue, results, dropped>>
        /\ oplog' = Append(oplog, Entry("Invoked", loop.current))
    BY <1>10 DEF Enter, ghosts
  <2>2. Unfinished = None
    BY <2>1 DEF WorkerInv, LoopInv, At
  <2>3. PICK e \in Entries : e = Entry("Invoked", loop.current) /\ e.kind = "Invoked"
                             /\ e.key = loop.current
    BY <1>0, EntryTyped DEF Kinds
  <2>4. Unfinished' = loop.current
    BY <1>0, <2>1, <2>3, UnfinishedAppend DEF StateTypeOK
  <2> QED
    BY <1>0, <2>1, <2>2, <2>4 DEF Kept
<1>11. CASE RecordSuccess
  <2>1. /\ loop.pc = "success" /\ UNCHANGED <<queue, results, dropped>>
        /\ loop'.pc = "completed" /\ loop'.current = loop.current
    BY <1>0, <1>11 DEF RecordSuccess, Goto, LoopStates, ghosts
  <2>2. Unfinished = loop.current
    BY <2>1 DEF WorkerInv, LoopInv, At
  <2> QED
    BY <2>1, <2>2 DEF Kept, At
<1>12. CASE StoreSuccess
  <2>1. /\ loop.pc = "completed" /\ UNCHANGED <<oplog, queue, dropped>>
        /\ DOMAIN results' = DOMAIN results \cup {loop.current}
    BY <1>12 DEF StoreSuccess, Put, ghosts
  <2>2. Unfinished' = Unfinished
    BY <2>1, SameOplog
  <2> QED
    BY <2>1, <2>2 DEF Kept
<1> QED
  BY <1>1, <1>2, <1>3, <1>4, <1>5, <1>6, <1>7, <1>8, <1>9, <1>10, <1>11, <1>12 DEF Loop

LEMMA ClientKeeps ==
  ASSUME WorkerInv, NEW c \in Clients, Client(c), NEW k, Kept(k)
  PROVE  Kept(k)'
<1>1. /\ UNCHANGED <<loop, results, dropped>>
      /\ oplog' = oplog \/ oplog' = Append(oplog, Entry("Pending", KeyOf[c]))
      /\ queue' = queue \/ queue' = Append(queue, KeyOf[c])
  BY ClientChanges
<1>2. KeyOf[c] \in Keys /\ "Pending" \in Kinds /\ StateTypeOK /\ queue \in Seq(Keys)
  BY DEF Keys, Kinds, WorkerInv, StateTypeOK
<1>3. Unfinished' = Unfinished
  BY <1>1, <1>2, HintAppended, SameOplog
<1>4. Contains(queue, k) => Contains(queue', k)
  BY <1>1, <1>2, ContainsAppend
<1> QED
  BY <1>1, <1>3, <1>4, KeptQuietly

(* A client that becomes accepted has its key in the queue.                *)
LEMMA AcceptedIsQueued ==
  ASSUME WorkerInv, [Next]_vars, ~Crash, NEW c \in Clients,
         client'[c] \in {"persist", "accepted", "waiting"},
         client[c] \notin {"persist", "accepted", "waiting"}
  PROVE  Contains(queue', KeyOf[c])
<1>0. client \in [Clients -> ClientPlaces] /\ queue \in Seq(Keys) /\ KeyOf[c] \in Keys
  BY DEF WorkerInv, StateTypeOK, Keys
<1>1. ASSUME NEW keys, NEW answer, Publish(keys, answer) PROVE FALSE
  BY <1>0, <1>1 DEF Publish
<1>2. ASSUME Loop PROVE FALSE
  <2>1. UNCHANGED clientVars \/ \E keys, answer : Publish(keys, answer)
    BY <1>2 DEF Loop, StartWithPermit, CreateInstance, Replay, Prepared, Receive,
       ChannelClosed, InterruptCommand, Dequeue, SaveStatus, Enter, HostCall, WantMemory,
       GotMemory, Succeed, Trap, RecordSuccess, StoreSuccess, NextCommand, RecordFailure,
       ReadFailureIndex, GiveUp, End, Abort, Stopping, Stop, RestartOnOom
  <2> QED
    BY <1>1, <2>1 DEF clientVars
<1>3. ASSUME NEW kind, \/ Interrupt(kind) \/ SetInterrupting \/ StopIfIdle \/ Evicted
                       \/ Activate \/ UNCHANGED vars
      PROVE  FALSE
  BY <1>3 DEF Interrupt, SetInterrupting, StopIfIdle, Evicted, Activate, vars, clientVars
<1>4. PICK d \in Clients : Client(d)
  BY <1>2, <1>3 DEF Next
<1>5. d = c
  <2>1. PICK place \in ClientPlaces : client' = [client EXCEPT ![d] = place]
    BY <1>4, ClientChanges
  <2> QED
    BY <1>0, <2>1
<1>6. CASE EnqueueIdle(c) \/ PushBusy(c) \/ EnqueueUnloaded(c)
  <2>1. queue' = Append(queue, KeyOf[c])
    BY <1>6 DEF EnqueueIdle, PushBusy, EnqueueUnloaded, Push
  <2> QED
    BY <1>0, <2>1, ContainsAppend
<1>7. CASE Lookup(c)
  <2>1. queue' = queue /\ ~Contains(queue, KeyOf[c]) =>
          client'[c] \in {"told", "enqueue"}
    BY <1>0, <1>7 DEF Lookup, Tell, Step
  <2>2. queue' = queue
    BY <1>7 DEF Lookup
  <2> QED
    BY <2>1, <2>2
<1>8. CASE Validate(c) \/ Start(c) \/ EnqueueBusy(c) \/ RecordBusy(c)
  BY <1>0, <1>8 DEF Validate, Start, EnqueueBusy, RecordBusy, Tell, Step
<1>9. CASE Subscribe(c) \/ Persist(c)
  BY <1>9 DEF Subscribe, Persist
<1> QED
  BY <1>4, <1>5, <1>6, <1>7, <1>8, <1>9 DEF Client

LEMMA KeepKept ==
  ASSUME WorkerInv, KeptInv, [Next]_vars, ~Crash
  PROVE  KeptInv'
<1>1. ASSUME NEW k \in Keys, Kept(k) PROVE Kept(k)'
  <2>1. CASE \E c \in Clients : Client(c)
    BY <1>1, <2>1, ClientKeeps
  <2>2. CASE Loop
    BY <1>1, <2>2, LoopKeeps
  <2>3. ASSUME NEW kind, \/ Interrupt(kind) \/ SetInterrupting \/ StopIfIdle \/ Evicted
                         \/ Activate \/ UNCHANGED vars
        PROVE  Kept(k)'
    <3>1. UNCHANGED <<oplog, queue, results, dropped, loop>>
      BY <2>3 DEF Interrupt, SetInterrupting, StopIfIdle, Evicted, Activate, vars, ghosts
    <3>2. Unfinished' = Unfinished
      BY <3>1, SameOplog
    <3> QED
      BY <1>1, <3>1, <3>2, KeptQuietly
  <2> QED
    BY <2>1, <2>2, <2>3 DEF Next
<1>2. ASSUME NEW c \in Clients, client'[c] \in {"persist", "accepted", "waiting"}
      PROVE  Kept(KeyOf[c])'
  <2>1. CASE client[c] \in {"persist", "accepted", "waiting"}
    <3>1. KeyOf[c] \in Keys /\ Kept(KeyOf[c])
      BY <2>1 DEF KeptInv, Keys
    <3> QED
      BY <1>1, <3>1
  <2>2. CASE client[c] \notin {"persist", "accepted", "waiting"}
    BY <1>2, <2>2, AcceptedIsQueued DEF Kept
  <2> QED
    BY <2>1, <2>2
<1> QED
  BY <1>2 DEF KeptInv

(* A crash is a fault, and faults are not forgotten.                       *)
LEMMA CrashesAreFaults ==
  ASSUME [Next]_vars, "crash" \notin faults'
  PROVE  ~Crash /\ "crash" \notin faults
<1>1. ~Crash
  BY DEF Crash, Fault
<1>2. CASE \E c \in Clients : Client(c)
  BY <1>1, <1>2, ClientChanges
<1>3. CASE Loop
  <2>1. faults \subseteq faults'
    BY <1>3 DEF Loop, StartWithPermit, CreateInstance, Replay, Prepared, Receive,
       ChannelClosed, InterruptCommand, Dequeue, SaveStatus, Enter, HostCall, WantMemory,
       GotMemory, Succeed, Trap, RecordSuccess, StoreSuccess, NextCommand, RecordFailure,
       ReadFailureIndex, GiveUp, End, Abort, Stopping, Stop, RestartOnOom, Fault
  <2> QED
    BY <1>1, <2>1
<1>4. ASSUME NEW kind, \/ Interrupt(kind) \/ SetInterrupting \/ StopIfIdle \/ Evicted
                       \/ Activate \/ UNCHANGED vars
      PROVE  faults \subseteq faults'
  BY <1>4 DEF Interrupt, SetInterrupting, StopIfIdle, Evicted, Activate, vars, Fault
<1> QED
  BY <1>1, <1>2, <1>3, <1>4 DEF Next

(* Until a crash, no stop, restart, eviction or failure loses an           *)
(* invocation that was accepted: it is queued, current, unfinished,        *)
(* answered, or dropped by a worker that cannot start.                     *)
THEOREM WorkerKeepsAccepted == Spec => []AcceptedIsKept
<1> DEFINE Inv == "crash" \notin faults => WorkerInv /\ KeptInv
<1>1. Init => Inv
  <2>1. Init => KeptInv
    BY DEF Init, KeptInv
  <2> QED
    BY <2>1, InitWorker
<1>2. Inv /\ [Next]_vars => Inv'
  <2> SUFFICES ASSUME Inv, [Next]_vars, "crash" \notin faults' PROVE WorkerInv' /\ KeptInv'
    OBVIOUS
  <2> QED
    BY CrashesAreFaults, KeepWorker, KeepKept
<1>3. Inv => AcceptedIsKept
  BY DEF AcceptedIsKept, KeptInv, Kept
<1> QED
  BY <1>1, <1>2, <1>3, PTL DEF Spec

-----------------------------------------------------------------------------
(* What a success rests on.                                                *)

(* A key has a completion in an oplog.                                     *)
Done(log, k) == \E i \in DOMAIN log : log[i].kind = "Completed" /\ log[i].key = k

(* A result known by its index is that of an entry of the oplog which, if  *)
(* it is a completion, is the one of its key; a known success has its      *)
(* completion in the oplog.                                                *)
Right(log, k, result) ==
  IF result.kind = "Lazy"
  THEN /\ result.idx \in DOMAIN log
       /\ log[result.idx].kind = "Completed" => log[result.idx].key = k
  ELSE result.kind = "ok" => Done(log, k)

(* What a crash leaves of the results, recomputed from the oplog, points   *)
(* into the oplog and to no completion of another key.                     *)
RecoveryRight ==
  \A k \in DOMAIN LatestRecord.results :
    LET i == LatestRecord.results[k]
    IN  i \in DOMAIN oplog /\ (oplog[i].kind = "Completed" => oplog[i].key = k)

DurableInv ==
  /\ \A k \in DOMAIN results : Right(oplog, k, results[k])
  /\ loop.pc = "completed" => Done(oplog, loop.current)
  /\ \A c \in Clients : told[c] = "ok" => Done(oplog, KeyOf[c])

(* Completions stay when the oplog grows.                                  *)
LEMMA CompletionsStay ==
  ASSUME oplog \in Seq(Entries), oplog' = oplog \/ \E e \in Entries : oplog' = Append(oplog, e)
  PROVE  /\ \A k : Done(oplog, k) => Done(oplog', k)
         /\ \A k, result : Right(oplog, k, result) => Right(oplog', k, result)
<1>1. \A i \in DOMAIN oplog : i \in DOMAIN oplog' /\ oplog'[i] = oplog[i]
  <2>1. CASE oplog' = oplog
    BY <2>1
  <2>2. ASSUME NEW e \in Entries, oplog' = Append(oplog, e)
        PROVE  \A i \in DOMAIN oplog : i \in DOMAIN oplog' /\ oplog'[i] = oplog[i]
    BY <2>2
  <2> QED
    BY <2>1, <2>2
<1>2. ASSUME NEW k, Done(oplog, k) PROVE Done(oplog', k)
  BY <1>1, <1>2 DEF Done
<1>3. ASSUME NEW k, NEW result, Right(oplog, k, result) PROVE Right(oplog', k, result)
  BY <1>1, <1>2, <1>3 DEF Right
<1> QED
  BY <1>2, <1>3

(* A success that is looked up is in the oplog.                            *)
LEMMA LookupIsDurable ==
  ASSUME NEW k \in DOMAIN results, Right(oplog, k, results[k]), ResultOf(k) = "ok"
  PROVE  Done(oplog, k)
<1>1. CASE results[k].kind # "Lazy"
  BY <1>1 DEF Right, ResultOf
<1>2. CASE results[k].kind = "Lazy"
  <2>1. oplog[results[k].idx].kind = "Completed"
    BY <1>2 DEF ResultOf
  <2> QED
    BY <1>2, <2>1 DEF Right, Done
<1> QED
  BY <1>1, <1>2

(* What a client is told.                                                  *)
LEMMA ClientDurable ==
  ASSUME WorkerInv, DurableInv, NEW c \in Clients, Client(c)
  PROVE  DurableInv'
<1>0. /\ StateTypeOK /\ oplog \in Seq(Entries) /\ DOMAIN told = Clients
      /\ Entry("Pending", KeyOf[c]) \in Entries
  BY EntryTyped DEF WorkerInv, StateTypeOK, Kinds, Keys
<1>1. /\ UNCHANGED <<loop, results>>
      /\ oplog' = oplog \/ oplog' = Append(oplog, Entry("Pending", KeyOf[c]))
      /\ told' = told \/ \E answer : told' = [told EXCEPT ![c] = answer]
  BY ClientChanges
<1>2. /\ \A k : Done(oplog, k) => Done(oplog', k)
      /\ \A k, result : Right(oplog, k, result) => Right(oplog', k, result)
  BY <1>0, <1>1, CompletionsStay
<1>3. told'[c] = "ok" => Done(oplog, KeyOf[c])
  <2>1. CASE Validate(c)
    BY <1>0, <2>1 DEF Validate, Tell, Step, DurableInv
  <2>2. CASE Lookup(c) \/ Subscribe(c)
    <3>1. told' = told \/ (/\ KeyOf[c] \in DOMAIN results
                           /\ told' = [told EXCEPT ![c] = ResultOf(KeyOf[c])])
      BY <2>2 DEF Lookup, Subscribe, Tell, Step
    <3>2. told'[c] = told[c] \/ (KeyOf[c] \in DOMAIN results /\ told'[c] = ResultOf(KeyOf[c]))
      BY <1>0, <3>1
    <3> QED
      BY <3>2, LookupIsDurable DEF DurableInv
  <2>3. CASE ~Validate(c) /\ ~Lookup(c) /\ ~Subscribe(c)
    <3>1. told' = told
      BY <2>3 DEF Client, Start, EnqueueIdle, EnqueueBusy, RecordBusy, PushBusy,
         EnqueueUnloaded, Persist, Step
    <3> QED
      BY <3>1 DEF DurableInv
  <2> QED
    BY <2>1, <2>2, <2>3
<1>4. \A d \in Clients : d # c => told'[d] = told[d]
  BY <1>0, <1>1
<1>5. \A d \in Clients : told'[d] = "ok" => Done(oplog', KeyOf[d])
  BY <1>2, <1>3, <1>4 DEF DurableInv
<1> QED
  BY <1>1, <1>2, <1>5 DEF DurableInv

LEMMA LoopDurable ==
  ASSUME WorkerInv, DurableInv, Loop
  PROVE  DurableInv'
<1>0. /\ StateTypeOK /\ oplog \in Seq(Entries) /\ loop \in LoopStates
      /\ DOMAIN told = Clients /\ loop.current \in Keys \cup {None}
  BY DEF WorkerInv, StateTypeOK, LoopStates
<1>1. oplog' = oplog \/ \E e \in Entries : oplog' = Append(oplog, e)
  BY <1>0, LoopWrites
<1>2. /\ \A k : Done(oplog, k) => Done(oplog', k)
      /\ \A k, result : Right(oplog, k, result) => Right(oplog', k, result)
  BY <1>0, <1>1, CompletionsStay
<1>3. \A k \in DOMAIN results' : Right(oplog', k, results'[k])
  <2>1. CASE results' = results
    BY <1>2, <2>1 DEF DurableInv
  <2>2. CASE Dequeue
    <3>1. results' = [k \in DOMAIN results \ {Head(queue)} |-> results[k]]
      BY <2>2 DEF Dequeue
    <3>2. \A k \in DOMAIN results' : k \in DOMAIN results /\ results'[k] = results[k]
      BY <3>1
    <3> QED
      BY <1>2, <3>2 DEF DurableInv
  <2>3. CASE StoreSuccess
    <3>1. loop.pc = "completed"
          /\ results' = Put(results, loop.current, [kind |-> "ok", idx |-> Len(oplog)])
      BY <2>3 DEF StoreSuccess
    <3>2. \A k \in DOMAIN results' :
            \/ k \in DOMAIN results /\ results'[k] = results[k]
            \/ k = loop.current /\ results'[k] = [kind |-> "ok", idx |-> Len(oplog)]
      BY <3>1 DEF Put
    <3>3. \A r : r = [kind |-> "ok", idx |-> Len(oplog)] => Right(oplog, loop.current, r)
      BY <3>1 DEF Right, DurableInv
    <3> QED
      BY <1>2, <3>2, <3>3 DEF DurableInv
  <2>4. CASE GiveUp
    <3>1. \A k \in DOMAIN results' :
            \/ k \in DOMAIN results /\ results'[k] = results[k]
            \/ \E answer \in {"interrupted", "failed"} :
                 results'[k] = [kind |-> answer, idx |-> loop.at]
      BY <2>4 DEF GiveUp
    <3>2. \A k : \A answer \in {"interrupted", "failed"} : \A r :
            r = [kind |-> answer, idx |-> loop.at] => Right(oplog, k, r)
      BY DEF Right
    <3> QED
      BY <1>2, <3>1, <3>2 DEF DurableInv
  <2> QED
    BY <2>1, <2>2, <2>3, <2>4, LoopAnswers
<1>4. loop'.pc = "completed" => Done(oplog', loop'.current)
  <2>1. CASE RecordSuccess
    <3>1. /\ oplog' = Append(oplog, Entry("Completed", loop.current))
          /\ loop'.current = loop.current
      BY <1>0, <2>1 DEF RecordSuccess, Goto, LoopStates
    <3>2. PICK e \in Entries : e = Entry("Completed", loop.current) /\ e.kind = "Completed"
                               /\ e.key = loop.current
      BY <1>0, EntryTyped DEF Kinds
    <3>3. Len(oplog) + 1 \in DOMAIN oplog' /\ oplog'[Len(oplog) + 1] = e
      BY <1>0, <3>1, <3>2
    <3> QED
      BY <3>1, <3>2, <3>3 DEF Done
  <2> QED
    BY <2>1, LoopAnswers
<1>5. \A c \in Clients : told'[c] = "ok" => Done(oplog', KeyOf[c])
  <2>1. CASE told' = told
    BY <1>2, <2>1 DEF DurableInv
  <2>2. ASSUME NEW keys, NEW answer, Publish(keys, answer),
               answer = "ok" => keys = {loop.current} /\ loop.pc = "completed"
        PROVE  \A c \in Clients : told'[c] = "ok" => Done(oplog', KeyOf[c])
    <3>1. ASSUME NEW c \in Clients, told'[c] = "ok" PROVE Done(oplog, KeyOf[c])
      <4>1. told'[c] = told[c] \/ (told'[c] = answer /\ KeyOf[c] \in keys)
        BY <2>2 DEF Publish
      <4> QED
        BY <2>2, <3>1, <4>1 DEF DurableInv
    <3> QED
      BY <1>2, <3>1
  <2>3. CASE StoreSuccess
    BY <2>2, <2>3 DEF StoreSuccess
  <2>4. CASE GiveUp
    <3>1. \E keys : \E answer \in {"interrupted", "failed"} : Publish(keys, answer)
      BY <2>4 DEF GiveUp
    <3> QED
      BY <2>2, <3>1
  <2>5. CASE Stop
    <3>1. Publish(Range(queue), "failed") \/ told' = told
      BY <2>5 DEF Stop, clientVars
    <3> QED
      BY <2>1, <2>2, <3>1
  <2> QED
    BY <2>1, <2>3, <2>4, <2>5, LoopAnswers
<1> QED
  BY <1>3, <1>4, <1>5 DEF DurableInv

-----------------------------------------------------------------------------
(* What the indexes of results point to.                                   *)

Points(log, k, i) == i \in DOMAIN log /\ (log[i].kind = "Completed" => log[i].key = k)

(* No index of a result, in memory, about to be stored or recomputed from  *)
(* the oplog, is that of a completion of another key.  The recomputed      *)
(* record knows the invocation that is going on.                           *)
PointsInv ==
  /\ \A k \in DOMAIN results : Points(oplog, k, results[k].idx)
  /\ \A k \in DOMAIN LatestRecord.results : Points(oplog, k, LatestRecord.results[k])
  /\ loop.pc = "save" => /\ snap.current = loop.current
                         /\ \A k \in DOMAIN snap.results : Points(oplog, k, snap.results[k])
  /\ loop.pc \in {"guest", "grow", "success"} => LatestRecord.current = loop.current
  /\ loop.pc = "completed" => Points(oplog, loop.current, Len(oplog))
  /\ At({"failure", "failed", "giveup"}) => loop.trap \in Traps
  /\ At({"failed"}) /\ loop.trap \in DOMAIN EntryOfTrap =>
       Len(oplog) \in DOMAIN oplog /\ oplog[Len(oplog)].kind # "Completed"
  /\ At({"giveup"}) /\ loop.trap \in DOMAIN EntryOfTrap =>
       loop.at \in DOMAIN oplog /\ oplog[loop.at].kind # "Completed"

(* How the loop comes to where an invocation goes on or has failed.        *)
LEMMA LoopPlaces ==
  ASSUME WorkerInv, Loop
  PROVE  /\ loop'.pc \in {"guest", "grow", "success"} =>
              \/ /\ loop.pc \in {"guest", "grow", "success"} /\ loop'.current = loop.current
                 /\ HostCall \/ GotMemory \/ Succeed
              \/ SaveStatus /\ loop'.current = loop.current
         /\ At({"failure", "failed", "giveup"})' =>
              \/ loop'.trap \in Traps
              \/ loop'.trap = loop.trap /\ At({"failure", "failed", "giveup"})
         /\ At({"failed"})' => RecordFailure /\ loop'.trap = loop.trap
         /\ At({"giveup"})' => \/ /\ ReadFailureIndex /\ loop'.trap = loop.trap
                                  /\ loop'.at = Len(oplog)
                               \/ /\ SaveStatus /\ At({"giveup"}) /\ loop'.trap = loop.trap
                                  /\ loop'.at = loop.at
<1>0. loop \in LoopStates /\ commands \in Seq({"Invocation", "Interrupt", "Restart"})
      /\ LoopInv /\ StateTypeOK
  BY DEF WorkerInv, StateTypeOK
<1> DEFINE Elsewhere ==
      /\ loop'.pc \notin {"guest", "grow", "success", "failure", "failed", "giveup"}
      /\ loop'.pc = "save" => loop'.next \notin {"failure", "failed", "giveup"}
<1>1. ASSUME StartWithPermit \/ CreateInstance \/ Stop \/ Stopping \/ RestartOnOom
      PROVE  Elsewhere
  <2>1. NoLoop.pc = "none" /\ AfterStop.pc \in {"none", "restart"}
    BY DEF AfterStop, NoLoop
  <2>2. CASE StartWithPermit \/ CreateInstance
    BY <2>2 DEF StartWithPermit, CreateInstance, NoLoop
  <2>3. CASE Stop \/ RestartOnOom
    BY <2>1, <2>3 DEF Stop, RestartOnOom
  <2>4. CASE Stopping
    <3>1. loop' = [loop EXCEPT !.pc = "unload"] \/ loop' = AfterStop
      BY <2>4 DEF Stopping
    <3> QED
      BY <1>0, <2>1, <3>1 DEF LoopStates
  <2> QED
    BY <1>1, <2>2, <2>3, <2>4
<1>2. ASSUME Prepared \/ ChannelClosed \/ InterruptCommand \/ NextCommand \/ End \/ Abort
             \/ RecordSuccess \/ GiveUp
      PROVE  Elsewhere
  BY <1>0, <1>2 DEF Prepared, ChannelClosed, InterruptCommand, NextCommand,
     End, Abort, RecordSuccess, GiveUp, Goto, LoopStates
<1>3. ASSUME Replay PROVE Elsewhere
  BY <1>0, <1>3 DEF Replay, Goto, SaveThen, LoopStates
<1>4. ASSUME Receive PROVE Elsewhere
  <2>1. loop'.pc = Head(commands) /\ commands # <<>>
    BY <1>0, <1>4 DEF Receive, LoopStates
  <2> QED
    BY <1>0, <2>1
<1>5. ASSUME Enter \/ WantMemory \/ StoreSuccess \/ Dequeue PROVE Elsewhere
  BY <1>0, <1>5 DEF Enter, WantMemory, StoreSuccess, Dequeue, SaveThen, LoopStates
<1>6. CASE Elsewhere
  BY <1>6 DEF At
<1>7. CASE SaveStatus
  <2>1. /\ loop'.pc = loop.next /\ loop.pc = "save" /\ loop'.current = loop.current
        /\ loop'.trap = loop.trap /\ loop'.at = loop.at
    BY <1>0, <1>7 DEF SaveStatus, LoopStates
  <2>2. loop'.pc \in {"enter", "guest", "grow", "prepared", "done", "giveup"}
    BY <1>0, <2>1 DEF LoopInv
  <2> QED
    BY <1>7, <2>1, <2>2 DEF At
<1>8. CASE ReadFailureIndex
  <2>1. /\ loop.pc = "failed" /\ loop'.pc = "save" /\ loop'.next = "giveup"
        /\ loop'.trap = loop.trap /\ loop'.at = Len(oplog)
    BY <1>0, <1>8 DEF ReadFailureIndex, SaveThen, LoopStates
  <2> QED
    BY <1>8, <2>1 DEF At
<1>9. CASE RecordFailure
  <2>1. loop.pc = "failure" /\ loop'.pc = "failed" /\ loop'.trap = loop.trap
    BY <1>0, <1>9 DEF RecordFailure, LoopStates
  <2> QED
    BY <1>9, <2>1 DEF At
<1>10. CASE HostCall \/ GotMemory \/ Succeed
  <2>1. /\ loop.pc \in {"guest", "grow", "success"} /\ loop'.pc \in {"guest", "success"}
        /\ loop'.current = loop.current
    BY <1>0, <1>10 DEF HostCall, GotMemory, Succeed, Goto, LoopStates
  <2> QED
    BY <1>10, <2>1 DEF At
<1>11. ASSUME NEW trap \in Traps, Trap(trap)
       PROVE  loop'.pc = "failure" /\ loop'.trap = trap
  BY <1>0, <1>11 DEF Trap, LoopStates
<1>12. CASE \E trap \in Traps : Trap(trap)
  <2>1. loop'.pc = "failure" /\ loop'.trap \in Traps
    BY <1>11, <1>12
  <2> QED
    BY <2>1 DEF At
<1> HIDE DEF Elsewhere
<1> QED
  BY <1>1, <1>2, <1>3, <1>4, <1>5, <1>6, <1>7, <1>8, <1>9, <1>10, <1>12 DEF Loop

LEMMA PointsStay ==
  ASSUME NEW log \in Seq(Entries), NEW e \in Entries
  PROVE  /\ \A k, i : Points(log, k, i) => Points(Append(log, e), k, i)
         /\ \A i \in DOMAIN log : i \in DOMAIN Append(log, e) /\ Append(log, e)[i] = log[i]
         /\ Len(Append(log, e)) \in DOMAIN Append(log, e)
         /\ Append(log, e)[Len(Append(log, e))] = e
         /\ Len(Append(log, e)) = Len(log) + 1
<1>1. PICK n \in Nat : n = Len(log)
  OBVIOUS
<1>2. PICK longer : longer = Append(log, e)
  OBVIOUS
<1>3. /\ Len(longer) = n + 1 /\ DOMAIN log = 1 .. n /\ DOMAIN longer = 1 .. n + 1
      /\ longer[n + 1] = e /\ \A i \in 1 .. n : longer[i] = log[i]
  BY <1>1, <1>2, AppendEntries
<1>4. /\ \A i \in DOMAIN log : i \in DOMAIN longer /\ longer[i] = log[i]
      /\ Len(longer) \in DOMAIN longer /\ longer[Len(longer)] = e /\ Len(longer) = Len(log) + 1
  BY <1>1, <1>3
<1>5. \A k, i : Points(log, k, i) => Points(longer, k, i)
  BY <1>4 DEF Points
<1> QED
  BY <1>2, <1>4, <1>5

(* The indexes a step of the fold adds.                                    *)
LEMMA StepPoints ==
  ASSUME NEW log \in Logs, NEW record \in Records, NEW e \in Entries,
         \A k \in DOMAIN record.results : Points(log, k, record.results[k]),
         e.kind = "Completed" => record.current \in {None, e.key}
  PROVE  LET next == StepOn(record, e, Len(log) + 1)
         IN  \A k \in DOMAIN next.results : Points(Append(log, e), k, next.results[k])
<1>0. PICK n \in Nat : n = Len(log) + 1
  BY DEF Logs
<1> DEFINE longer == Append(log, e)
<1>1. /\ \A k, i : Points(log, k, i) => Points(longer, k, i)
      /\ n \in DOMAIN longer /\ longer[n] = e
  <2>1. log \in Seq(Entries)
    BY DEF Logs
  <2> QED
    BY <1>0, <2>1, PointsStay
<1> HIDE DEF longer
<1>2. record.results \in PartialMaps(Nat) /\ record.current \in Keys \cup {None}
  BY DEF Records
<1> DEFINE next == StepOn(record, e, n)
<1>3. \/ next.results = record.results
      \/ /\ e.kind \in {"Completed", "Error", "Exited"} /\ record.current # None
         /\ next.results = Put(record.results, record.current, n)
  BY DEF StepOn, Records
<1>4. CASE next.results = record.results
  <2> HIDE DEF next
  <2>1. \A k \in DOMAIN next.results : Points(longer, k, next.results[k])
    BY <1>1, <1>4
  <2> QED
    BY <1>0, <2>1 DEF next, longer
<1>5. CASE /\ e.kind \in {"Completed", "Error", "Exited"} /\ record.current # None
           /\ next.results = Put(record.results, record.current, n)
  <2> HIDE DEF next
  <2>1. \A k \in DOMAIN next.results :
          \/ k = record.current /\ next.results[k] = n
          \/ k \in DOMAIN record.results /\ next.results[k] = record.results[k]
    <3>1. PICK f \in PartialMaps(Nat), c \in Keys \cup {None} :
             f = record.results /\ c = record.current
      BY <1>2
    <3>2. /\ DOMAIN Put(f, c, n) = DOMAIN f \cup {c} /\ Put(f, c, n)[c] = n
          /\ \A x \in DOMAIN f : x # c => Put(f, c, n)[x] = f[x]
      BY DEF Put
    <3>3. next.results = Put(f, c, n)
      BY <1>5, <3>1
    <3> QED
      BY <3>1, <3>2, <3>3
  <2>2. Points(longer, record.current, n)
    BY <1>1, <1>5 DEF Points
  <2>3. \A k \in DOMAIN next.results : Points(longer, k, next.results[k])
    BY <1>1, <2>1, <2>2
  <2> QED
    BY <1>0, <2>3 DEF next, longer
<1> QED
  BY <1>3, <1>4, <1>5

(* The oplog only grows, so that what an index points to stays.            *)
LEMMA PointsGrow ==
  ASSUME StateTypeOK, [Next]_vars
  PROVE  /\ \A k, i : Points(oplog, k, i) => Points(oplog', k, i)
         /\ \A i \in DOMAIN oplog : i \in DOMAIN oplog' /\ oplog'[i] = oplog[i]
<1>0. oplog \in Seq(Entries)
  BY DEF StateTypeOK
<1>1. CASE oplog' = oplog
  BY <1>1
<1>2. ASSUME NEW e \in Entries, oplog' = Append(oplog, e)
      PROVE  /\ \A k, i : Points(oplog, k, i) => Points(oplog', k, i)
             /\ \A i \in DOMAIN oplog : i \in DOMAIN oplog' /\ oplog'[i] = oplog[i]
  BY <1>0, <1>2, PointsStay
<1> QED
  BY <1>1, <1>2, RecordChanges

(* The results in memory.                                                  *)
LEMMA ResultsPoint ==
  ASSUME WorkerInv, RecordTypeOK, PointsInv, [Next]_vars
  PROVE  \A k \in DOMAIN results' : Points(oplog', k, results'[k].idx)
<1>0. StateTypeOK
  BY DEF WorkerInv
<1>1. \A k, i : Points(oplog, k, i) => Points(oplog', k, i)
  BY <1>0, PointsGrow
<1>2. SUFFICES \A k \in DOMAIN results' : Points(oplog, k, results'[k].idx)
  BY <1>1
<1>3. \A k \in DOMAIN results : Points(oplog, k, results[k].idx)
  BY DEF PointsInv
<1>4. CASE Dequeue
  <2>1. results' = [k \in DOMAIN results \ {Head(queue)} |-> results[k]]
    BY <1>4 DEF Dequeue
  <2> QED
    BY <1>3, <2>1
<1>5. CASE StoreSuccess
  <2>1. loop.pc = "completed"
        /\ results' = Put(results, loop.current, [kind |-> "ok", idx |-> Len(oplog)])
    BY <1>5 DEF StoreSuccess
  <2>2. \A k \in DOMAIN results' :
          \/ k \in DOMAIN results /\ results'[k] = results[k]
          \/ k = loop.current /\ results'[k].idx = Len(oplog)
    BY <2>1 DEF Put
  <2>3. Points(oplog, loop.current, Len(oplog))
    BY <2>1 DEF PointsInv
  <2> QED
    BY <1>3, <2>2, <2>3
<1>6. CASE GiveUp
  <2> DEFINE Final == /\ loop.trap \notin {"Suspend", "Restart", "OutOfMemory"}
                      /\ loop.decision = "None"
             keys == IF Final THEN {loop.current} \cup Range(queue) ELSE {}
  <2>1. \A k \in DOMAIN results' :
          \/ k \in DOMAIN results /\ results'[k] = results[k]
          \/ Final /\ results'[k].idx = loop.at
    BY <1>6 DEF GiveUp
  <2>2. ASSUME Final PROVE loop.at \in DOMAIN oplog /\ oplog[loop.at].kind # "Completed"
    <3>1. loop.pc = "giveup"
      BY <1>6 DEF GiveUp
    <3>2. loop.trap \in Traps
      BY <3>1 DEF PointsInv, At
    <3>3. loop.trap \in DOMAIN EntryOfTrap
      BY <2>2, <3>2 DEF Traps, EntryOfTrap
    <3> QED
      BY <3>1, <3>3 DEF PointsInv, At
  <2>3. ASSUME NEW k, Final PROVE Points(oplog, k, loop.at)
    BY <2>2, <2>3 DEF Points
  <2> HIDE DEF Final
  <2> QED
    BY <1>3, <2>1, <2>3
<1>7. CASE Crash
  <2>1. PICK known : known = LatestRecord.results
    OBVIOUS
  <2>2. \A k \in DOMAIN known : Points(oplog, k, known[k])
    BY <2>1 DEF PointsInv
  <2>3. results' = [k \in DOMAIN known |-> [kind |-> "Lazy", idx |-> known[k]]]
    BY <1>7, <2>1 DEF Crash
  <2>4. \A k \in DOMAIN results' : k \in DOMAIN known /\ results'[k].idx = known[k]
    BY <2>3
  <2> QED
    BY <2>2, <2>4
<1>8. CASE results' = results
  BY <1>3, <1>8
<1> QED
  BY <1>4, <1>5, <1>6, <1>7, <1>8, ResultsChange

(* The results that would be recomputed.                                   *)
LEMMA RecordPoints ==
  ASSUME WorkerInv, RecordTypeOK, PointsInv, [Next]_vars
  PROVE  \A k \in DOMAIN LatestRecord'.results : Points(oplog', k, LatestRecord'.results[k])
<1>0. StateTypeOK /\ oplog \in Logs
  BY DEF WorkerInv, RecordTypeOK
<1>1. \A k \in DOMAIN LatestRecord.results : Points(oplog, k, LatestRecord.results[k])
  BY DEF PointsInv
<1>2. CASE oplog' = oplog /\ stored' = stored
  <2>1. LatestRecord' = LatestRecord
    BY <1>2, SameRecord
  <2> QED
    BY <1>1, <1>2, <2>1
<1>3. CASE SaveStatus /\ oplog' = oplog
  <2>1. LatestRecord' = stored' /\ stored'.results = snap.results /\ loop.pc = "save"
    BY <1>3, SavedRecord DEF SaveStatus
  <2>2. \A k \in DOMAIN snap.results : Points(oplog, k, snap.results[k])
    BY <2>1 DEF PointsInv
  <2> QED
    BY <1>3, <2>1, <2>2
<1>4. ASSUME NEW e \in Entries, oplog' = Append(oplog, e), stored' = stored,
             e.kind = "Pending" => e.key \in Keys,
             e.kind = "Completed" => RecordSuccess /\ e.key = loop.current
      PROVE  \A k \in DOMAIN LatestRecord'.results : Points(oplog', k, LatestRecord'.results[k])
  <2>1. LatestRecord' = StepOn(LatestRecord, e, Len(oplog) + 1)
    BY <1>4, GrownRecord
  <2>2. PICK record \in Records : record = LatestRecord
    BY RecordTyped
  <2>3. e.kind = "Completed" => record.current \in {None, e.key}
    <3>1. CASE e.kind = "Completed"
      <4>1. loop.pc = "success" /\ e.key = loop.current
        BY <1>4, <3>1 DEF RecordSuccess
      <4> QED
        BY <2>2, <4>1 DEF PointsInv
    <3> QED
      BY <3>1
  <2>4. \A k \in DOMAIN record.results : Points(oplog, k, record.results[k])
    BY <1>1, <2>2
  <2>5. \A k \in DOMAIN StepOn(record, e, Len(oplog) + 1).results :
          Points(Append(oplog, e), k, StepOn(record, e, Len(oplog) + 1).results[k])
    BY <1>0, <2>3, <2>4, StepPoints
  <2> QED
    BY <1>4, <2>1, <2>2, <2>5
<1> QED
  BY <1>0, <1>2, <1>3, <1>4, RecordChanges

(* The invocation the recomputed record knows of.                          *)
LEMMA RecordCurrent ==
  ASSUME WorkerInv, RecordTypeOK, PointsInv, [Next]_vars, loop'.pc \in {"guest", "grow", "success"}
  PROVE  LatestRecord'.current = loop'.current
<1>0. StateTypeOK
  BY DEF WorkerInv
<1>1. PICK record \in Records : record = LatestRecord
  BY RecordTyped
<1>2. ASSUME NEW e \in Entries, e.kind \in {"Pending", "Host"},
             e.kind = "Pending" => e.key \in Keys,
             oplog' = Append(oplog, e), stored' = stored
      PROVE  LatestRecord'.current = LatestRecord.current
  <2>1. LatestRecord' = StepOn(record, e, Len(oplog) + 1)
    BY <1>1, <1>2, GrownRecord
  <2> QED
    BY <1>1, <1>2, <2>1 DEF StepOn, Records
<1>3. CASE SaveStatus
  <2>1. LatestRecord'.current = snap.current /\ loop.pc = "save" /\ loop'.current = loop.current
    BY <1>0, <1>3, SavedRecord DEF SaveStatus, StateTypeOK, LoopStates
  <2> QED
    BY <2>1 DEF PointsInv
<1>4. CASE Loop /\ ~SaveStatus
  <2>1. /\ loop.pc \in {"guest", "grow", "success"} /\ loop'.current = loop.current
        /\ HostCall \/ GotMemory \/ Succeed
    BY <1>4, LoopPlaces
  <2>2. LatestRecord'.current = LatestRecord.current
    <3>1. CASE HostCall
      <4>1. oplog' = Append(oplog, Entry("Host", loop.current)) /\ stored' = stored
        BY <3>1 DEF HostCall
      <4>2. loop.current \in Keys \cup {None} /\ "Host" \in Kinds
        BY <1>0 DEF StateTypeOK, LoopStates, Kinds
      <4>3. PICK e \in Entries : e = Entry("Host", loop.current) /\ e.kind = "Host"
        BY <4>2, EntryTyped
      <4> QED
        BY <1>2, <4>1, <4>3
    <3>2. CASE GotMemory \/ Succeed
      <4>1. oplog' = oplog /\ stored' = stored
        BY <3>2 DEF GotMemory, Succeed
      <4> QED
        BY <4>1, SameRecord
    <3> QED
      BY <2>1, <3>1, <3>2
  <2> QED
    BY <2>1, <2>2 DEF PointsInv
<1>5. CASE Crash
  BY <1>5 DEF Crash, NoLoop
<1>6. CASE ~Loop /\ ~Crash
  <2>1. loop' = loop /\ stored' = stored
    BY <1>6, OutsideLoop
  <2>2. LatestRecord'.current = LatestRecord.current
    BY <1>2, <1>6, <2>1, OutsideLoop, SameRecord
  <2> QED
    BY <2>1, <2>2 DEF PointsInv
<1> QED
  BY <1>3, <1>4, <1>5, <1>6

(* The entry of a completion or of a failure, which is the last one until  *)
(* a client appends a pending invocation.                                  *)
LEMMA LastPoints ==
  ASSUME WorkerInv, RecordTypeOK, PointsInv, [Next]_vars
  PROVE  /\ loop'.pc = "completed" => Points(oplog', loop'.current, Len(oplog'))
         /\ At({"failure", "failed", "giveup"})' => loop'.trap \in Traps
         /\ At({"failed"})' /\ loop'.trap \in DOMAIN EntryOfTrap =>
              Len(oplog') \in DOMAIN oplog' /\ oplog'[Len(oplog')].kind # "Completed"
         /\ At({"giveup"})' /\ loop'.trap \in DOMAIN EntryOfTrap =>
              loop'.at \in DOMAIN oplog' /\ oplog'[loop'.at].kind # "Completed"
<1>0. StateTypeOK /\ loop \in LoopStates /\ oplog \in Seq(Entries)
      /\ loop.current \in Keys \cup {None}
  BY DEF WorkerInv, StateTypeOK, LoopStates
<1>1. \A i \in DOMAIN oplog : i \in DOMAIN oplog' /\ oplog'[i] = oplog[i]
  BY <1>0, PointsGrow
<1>2. ASSUME NEW e \in Entries, oplog' = Append(oplog, e)
      PROVE  Len(oplog') \in DOMAIN oplog' /\ oplog'[Len(oplog')] = e
  BY <1>0, <1>2, PointsStay
<1>3. CASE Loop
  <2>1. ASSUME loop'.pc = "completed" PROVE Points(oplog', loop'.current, Len(oplog'))
    <3>1. RecordSuccess
      BY <1>3, <2>1, LoopAnswers
    <3>2. oplog' = Append(oplog, Entry("Completed", loop.current)) /\ loop'.current = loop.current
      BY <1>0, <3>1 DEF RecordSuccess, Goto, LoopStates
    <3>3. PICK e \in Entries : e = Entry("Completed", loop.current) /\ e.key = loop.current
      BY <1>0, EntryTyped DEF Kinds
    <3> QED
      BY <1>2, <3>2, <3>3 DEF Points
  <2>2. At({"failure", "failed", "giveup"})' => loop'.trap \in Traps
    BY <1>3, LoopPlaces DEF PointsInv
  <2>3. ASSUME At({"failed"})', loop'.trap \in DOMAIN EntryOfTrap
        PROVE  Len(oplog') \in DOMAIN oplog' /\ oplog'[Len(oplog')].kind # "Completed"
    <3>1. RecordFailure /\ loop'.trap = loop.trap
      BY <1>3, <2>3, LoopPlaces
    <3>2. oplog' = Append(oplog, Entry(EntryOfTrap[loop.trap], loop.current))
      BY <2>3, <3>1 DEF RecordFailure
    <3>3. EntryOfTrap[loop.trap] \in {"Interrupted", "Suspend", "Exited", "Error"}
      BY <2>3, <3>1 DEF EntryOfTrap
    <3>4. PICK kind \in Kinds : kind = EntryOfTrap[loop.trap] /\ kind # "Completed"
      BY <3>3 DEF Kinds
    <3>5. PICK e \in Entries : e = Entry(kind, loop.current) /\ e.kind = kind
      BY <1>0, EntryTyped
    <3> QED
      BY <1>2, <3>2, <3>4, <3>5
  <2>4. ASSUME At({"giveup"})', loop'.trap \in DOMAIN EntryOfTrap
        PROVE  loop'.at \in DOMAIN oplog' /\ oplog'[loop'.at].kind # "Completed"
    <3>1. CASE ReadFailureIndex /\ loop'.trap = loop.trap /\ loop'.at = Len(oplog)
      <4>1. loop.pc = "failed" /\ oplog' = oplog
        BY <3>1 DEF ReadFailureIndex
      <4> QED
        BY <2>4, <3>1, <4>1 DEF PointsInv, At
    <3>2. CASE At({"giveup"}) /\ loop'.trap = loop.trap /\ loop'.at = loop.at
      BY <1>1, <2>4, <3>2 DEF PointsInv
    <3> QED
      BY <1>3, <2>4, <3>1, <3>2, LoopPlaces
  <2> QED
    BY <2>1, <2>2, <2>3, <2>4
<1>4. CASE Crash
  <2>1. loop'.pc = "none"
    BY <1>4 DEF Crash, NoLoop
  <2> QED
    BY <2>1 DEF At
<1>5. CASE ~Loop /\ ~Crash
  <2>1. loop' = loop
    BY <1>5, OutsideLoop
  <2>2. \/ oplog' = oplog
        \/ Len(oplog') \in DOMAIN oplog' /\ oplog'[Len(oplog')].kind = "Pending"
    BY <1>2, <1>5, OutsideLoop
  <2> QED
    BY <1>1, <2>1, <2>2 DEF PointsInv, Points, At
<1> QED
  BY <1>3, <1>4, <1>5

LEMMA KeepPoints ==
  ASSUME WorkerInv, StateTypeOK', RecordTypeOK, RecordTypeOK', PointsInv, [Next]_vars
  PROVE  PointsInv'
<1>0. /\ StateTypeOK /\ loop \in LoopStates /\ loop'.current \in Keys \cup {None}
      /\ queue' \in Seq(Keys) /\ results' \in PartialMaps(Results)
  BY DEF WorkerInv, StateTypeOK, LoopStates, RecordTypeOK
<1>1. \A k \in DOMAIN results' : Points(oplog', k, results'[k].idx)
  BY ResultsPoint
<1>2. ASSUME loop'.pc = "save"
      PROVE  /\ snap'.current = loop'.current
             /\ \A k \in DOMAIN snap'.results : Points(oplog', k, snap'.results[k])
  <2>1. CASE Loop /\ ~SaveStatus
    <3>1. snap' = Snapshot(loop'.current)
      BY <1>0, <1>2, <2>1, SnapChanges
    <3>2. /\ Snapshot(loop'.current).current = loop'.current
          /\ DOMAIN Snapshot(loop'.current).results = DOMAIN results'
          /\ \A k \in DOMAIN results' : Snapshot(loop'.current).results[k] = results'[k].idx
      BY <1>0, SnapshotTyped
    <3> QED
      BY <1>1, <3>1, <3>2
  <2>2. CASE SaveStatus
    <3>1. loop'.pc = loop.next /\ loop.pc = "save"
      BY <1>0, <2>2 DEF SaveStatus, LoopStates
    <3> QED
      BY <1>2, <3>1 DEF WorkerInv, LoopInv
  <2>3. CASE Crash
    BY <1>2, <2>3 DEF Crash, NoLoop
  <2>4. CASE ~Loop /\ ~Crash
    <3>1. loop' = loop /\ snap' = snap
      BY <2>4, OutsideLoop
    <3>2. \A k, i : Points(oplog, k, i) => Points(oplog', k, i)
      BY <1>0, PointsGrow
    <3> QED
      BY <1>2, <3>1, <3>2 DEF PointsInv
  <2> QED
    BY <2>1, <2>2, <2>3, <2>4
<1>3. \A k \in DOMAIN LatestRecord'.results : Points(oplog', k, LatestRecord'.results[k])
  BY RecordPoints
<1>4. loop'.pc \in {"guest", "grow", "success"} => LatestRecord'.current = loop'.current
  BY RecordCurrent
<1> QED
  BY <1>1, <1>2, <1>3, <1>4, LastPoints DEF PointsInv

LEMMA InitLatest == Init => LatestRecord = EmptyRecord
<1> SUFFICES ASSUME Init PROVE LatestRecord = EmptyRecord
  OBVIOUS
<1>1. RecordTypeOK /\ stored = EmptyRecord /\ oplog = <<Entry("Create", None)>>
  BY InitRecordTyped DEF Init
<1>2. stored.idx = Len(oplog) /\ oplog \in Logs /\ stored \in Records
  BY <1>1 DEF EmptyRecord, RecordTypeOK
<1> QED
  BY <1>1, <1>2, LatestRecordIs, LatestStored

LEMMA InitPoints == Init => PointsInv
<1> SUFFICES ASSUME Init PROVE PointsInv
  OBVIOUS
<1>1. loop.pc = "none" /\ results = <<>> /\ LatestRecord = EmptyRecord
  BY InitLatest DEF Init, NoLoop
<1>2. DOMAIN results = {} /\ DOMAIN EmptyRecord.results = {}
  BY <1>1 DEF EmptyRecord
<1> QED
  BY <1>1, <1>2 DEF PointsInv, At

LEMMA PointsRight == PointsInv => RecoveryRight
BY DEF PointsInv, RecoveryRight, Points

(* A client is told a success only when the completion of its invocation   *)
(* is in the oplog, over interrupts, failures, restarts, evictions and     *)
(* crashes: what is recomputed after a crash points to no completion of    *)
(* another key.                                                            *)
THEOREM WorkerSuccessIsDurable == Spec => []SuccessIsDurable
<1>1. Init => DurableInv
  BY WorkerAssumption DEF Init, NoLoop, DurableInv
<1>2. WorkerInv /\ DurableInv /\ RecoveryRight /\ [Next]_vars => DurableInv'
  <2> SUFFICES ASSUME WorkerInv, DurableInv, RecoveryRight, [Next]_vars PROVE DurableInv'
    OBVIOUS
  <2>1. CASE \E c \in Clients : Client(c)
    BY <2>1, ClientDurable
  <2>2. CASE Loop
    BY <2>2, LoopDurable
  <2>3. ASSUME NEW kind, \/ Interrupt(kind) \/ SetInterrupting \/ StopIfIdle \/ Evicted
                         \/ Activate \/ UNCHANGED vars
        PROVE  DurableInv'
    <3>1. UNCHANGED <<oplog, results, told, loop>>
      BY <2>3 DEF Interrupt, SetInterrupting, StopIfIdle, Evicted, Activate, vars, clientVars
    <3> QED
      BY <3>1 DEF DurableInv
  <2>4. CASE Crash
    <3>1. /\ UNCHANGED <<oplog, told>> /\ loop'.pc = "none"
          /\ results' = [k \in DOMAIN LatestRecord.results |->
                           [kind |-> "Lazy", idx |-> LatestRecord.results[k]]]
      BY <2>4 DEF Crash, NoLoop
    <3>2. \A k \in DOMAIN results' : Right(oplog', k, results'[k])
      <4>1. PICK known : known = LatestRecord.results
        OBVIOUS
      <4>2. \A k \in DOMAIN known :
              known[k] \in DOMAIN oplog
              /\ (oplog[known[k]].kind = "Completed" => oplog[known[k]].key = k)
        BY <4>1 DEF RecoveryRight
      <4>3. results' = [k \in DOMAIN known |-> [kind |-> "Lazy", idx |-> known[k]]]
        BY <3>1, <4>1
      <4> QED
        BY <3>1, <4>2, <4>3 DEF Right
    <3> QED
      BY <3>1, <3>2 DEF DurableInv
  <2> QED
    BY <2>1, <2>2, <2>3, <2>4 DEF Next
<1>3. DurableInv => SuccessIsDurable
  BY DEF DurableInv, SuccessIsDurable, Done, CompletionsOf
<1>4. WorkerInv /\ RecordTypeOK /\ PointsInv /\ [Next]_vars /\ WorkerInv' /\ RecordTypeOK'
        => PointsInv'
  BY KeepPoints DEF WorkerInv
<1> QED
  BY <1>1, <1>2, <1>3, <1>4, WorkerInvariant, InitPoints, PointsRight, PTL DEF Spec

-----------------------------------------------------------------------------
(* How often an invocation is completed, when every client has a key of    *)
(* its own.                                                                *)

(* A key that is begun, or about to be.                                    *)
Taken(k) ==
  Unfinished = k \/ Done(oplog, k) \/ (loop.current = k /\ At({"enter"}))

(* Where a client has not put its key into the queue yet.                  *)
NotYet == {"new", "valid", "started", "enqueue", "record", "push"}

Distinct(q) == \A i, j \in 1 .. Len(q) : q[i] = q[j] => i = j

CompletedAtMostOnce(log) ==
  \A i, j \in DOMAIN log :
    log[i].kind = "Completed" /\ log[j].kind = "Completed" /\ log[i].key = log[j].key
      /\ log[i].key \in Keys => i = j

(* A key is with its client, in the queue once, or taken, and is completed *)
(* when it was not before.                                                 *)
OnceInv ==
  /\ Distinct(queue)
  /\ \A k \in Keys : Contains(queue, k) => ~Taken(k)
  /\ \A c \in Clients : client[c] \in NotYet =>
       ~Contains(queue, KeyOf[c]) /\ ~Taken(KeyOf[c])
  /\ \A k \in Keys : Unfinished = k => ~Done(oplog, k)
  /\ \A k \in Keys : loop.current = k /\ At({"enter"}) => ~Done(oplog, k)
  /\ CompletedAtMostOnce(oplog)

(* What a crash leaves of the queue, recomputed from the oplog, has no key *)
(* twice, none that is unfinished or completed, and none of a client that  *)
(* has not come yet.                                                       *)
RecoveryFresh ==
  /\ Distinct(LatestRecord.pending)
  /\ \A k \in Keys : Contains(LatestRecord.pending, k) =>
       Unfinished # k /\ ~Done(oplog, k)
  /\ \A c \in Clients : client[c] = "new" => ~Contains(LatestRecord.pending, KeyOf[c])

(* Nothing is completed by an entry of another kind.                       *)
LEMMA NotCompleted ==
  ASSUME oplog \in Seq(Entries),
         \/ oplog' = oplog
         \/ \E e \in Entries : e.kind # "Completed" /\ oplog' = Append(oplog, e)
  PROVE  /\ \A k : Done(oplog', k) <=> Done(oplog, k)
         /\ CompletedAtMostOnce(oplog) => CompletedAtMostOnce(oplog')
<1>1. CASE oplog' = oplog
  BY <1>1
<1>2. ASSUME NEW e \in Entries, e.kind # "Completed", oplog' = Append(oplog, e)
      PROVE  /\ \A k : Done(oplog', k) <=> Done(oplog, k)
             /\ CompletedAtMostOnce(oplog) => CompletedAtMostOnce(oplog')
  <2>1. PICK n \in Nat : n = Len(oplog)
    OBVIOUS
  <2>2. /\ DOMAIN oplog = 1 .. n /\ DOMAIN oplog' = 1 .. n + 1 /\ oplog'[n + 1] = e
        /\ \A i \in 1 .. n : oplog'[i] = oplog[i]
    BY <1>2, <2>1
  <2>3. \A i \in DOMAIN oplog' : oplog'[i].kind = "Completed" =>
          i \in DOMAIN oplog /\ oplog'[i] = oplog[i]
    BY <1>2, <2>2
  <2>4. \A i \in DOMAIN oplog : i \in DOMAIN oplog' /\ oplog'[i] = oplog[i]
    BY <2>2
  <2> QED
    BY <2>3, <2>4 DEF Done, CompletedAtMostOnce
<1> QED
  BY <1>1, <1>2

(* The loop begins an invocation in Enter and completes it in              *)
(* RecordSuccess only.                                                     *)
LEMMA LoopBegins ==
  ASSUME StateTypeOK, Loop, ~Enter, ~RecordSuccess
  PROVE  /\ Unfinished' = Unfinished
         /\ \A k : Done(oplog', k) <=> Done(oplog, k)
         /\ CompletedAtMostOnce(oplog) => CompletedAtMostOnce(oplog')
<1>0. oplog \in Seq(Entries) /\ loop.current \in Keys \cup {None}
  BY DEF StateTypeOK, LoopStates
<1>1. ASSUME oplog' = oplog
      PROVE  /\ Unfinished' = Unfinished
             /\ \A k : Done(oplog', k) <=> Done(oplog, k)
             /\ CompletedAtMostOnce(oplog) => CompletedAtMostOnce(oplog')
  BY <1>0, <1>1, SameOplog, NotCompleted
<1>2. ASSUME NEW kind \in Kinds, kind \notin {"Invoked", "Completed"},
             oplog' = Append(oplog, Entry(kind, loop.current))
      PROVE  /\ Unfinished' = Unfinished
             /\ \A k : Done(oplog', k) <=> Done(oplog, k)
             /\ CompletedAtMostOnce(oplog) => CompletedAtMostOnce(oplog')
  <2>1. Unfinished' = Unfinished
    BY <1>0, <1>2, HintAppended
  <2>2. PICK e \in Entries : e = Entry(kind, loop.current) /\ e.kind = kind
    BY <1>0, EntryTyped
  <2>3. e.kind # "Completed" /\ oplog' = Append(oplog, e)
    BY <1>2, <2>2
  <2> QED
    BY <1>0, <2>1, <2>3, NotCompleted
<1>3. CASE Replay
  <2>1. oplog' = oplog \/ oplog' = Append(oplog, Entry("Invoked", Unfinished))
    BY <1>3 DEF Replay
  <2>2. PICK u \in Keys \cup {None} : u = Unfinished
    BY <1>0, UnfinishedTyped
  <2>3. PICK e \in Entries : e = Entry("Invoked", u) /\ e.kind = "Invoked" /\ e.key = u
    BY EntryTyped DEF Kinds
  <2>4. ASSUME oplog' = Append(oplog, e)
        PROVE  /\ Unfinished' = Unfinished
               /\ \A k : Done(oplog', k) <=> Done(oplog, k)
               /\ CompletedAtMostOnce(oplog) => CompletedAtMostOnce(oplog')
    <3>1. Unfinished' = Unfinished
      BY <1>0, <2>2, <2>3, <2>4, UnfinishedAppend
    <3> QED
      BY <1>0, <2>3, <2>4, <3>1, NotCompleted
  <2> QED
    BY <1>1, <2>1, <2>2, <2>3, <2>4
<1>4. CASE HostCall \/ WantMemory
  <2>1. oplog' = Append(oplog, Entry("Host", loop.current)) /\ "Host" \in Kinds
    BY <1>4 DEF HostCall, WantMemory, Kinds
  <2> QED
    BY <1>2, <2>1
<1>5. CASE RecordFailure
  <2>1. oplog' = oplog \/ /\ loop.trap \in DOMAIN EntryOfTrap
                          /\ oplog' = Append(oplog, Entry(EntryOfTrap[loop.trap], loop.current))
    BY <1>5 DEF RecordFailure
  <2>2. loop.trap \in DOMAIN EntryOfTrap =>
          EntryOfTrap[loop.trap] \in Kinds \ {"Invoked", "Completed"}
    BY DEF EntryOfTrap, Kinds
  <2> QED
    BY <1>1, <1>2, <2>1, <2>2
<1>6. CASE ~Replay /\ ~HostCall /\ ~WantMemory /\ ~RecordFailure
  <2>1. oplog' = oplog
    BY <1>6 DEF Loop, StartWithPermit, CreateInstance, Prepared, Receive, ChannelClosed,
       InterruptCommand, Dequeue, SaveStatus, GotMemory, Succeed, Trap, StoreSuccess,
       NextCommand, ReadFailureIndex, GiveUp, End, Abort, Stopping, Stop, RestartOnOom
  <2> QED
    BY <1>1, <2>1
<1> QED
  BY <1>3, <1>4, <1>5, <1>6

(* The loop comes to the beginning of an invocation by Dequeue only.       *)
LEMMA LoopEnters ==
  ASSUME WorkerInv, Loop, ~Dequeue, At({"enter"})'
  PROVE  At({"enter"}) /\ loop'.current = loop.current
<1>0. loop \in LoopStates /\ commands \in Seq({"Invocation", "Interrupt", "Restart"})
      /\ (loop'.pc = "enter" \/ (loop'.pc = "save" /\ loop'.next = "enter"))
  BY DEF WorkerInv, StateTypeOK, At
<1>1. CASE StartWithPermit \/ CreateInstance \/ Stop \/ Stopping \/ RestartOnOom
  <2>1. NoLoop.pc = "none" /\ AfterStop.pc \in {"none", "restart"}
    BY DEF AfterStop, NoLoop
  <2>2. CASE StartWithPermit \/ CreateInstance
    BY <1>0, <2>2 DEF StartWithPermit, CreateInstance, NoLoop
  <2>3. CASE Stop \/ RestartOnOom
    BY <1>0, <2>1, <2>3 DEF Stop, RestartOnOom
  <2>4. CASE Stopping
    <3>1. loop' = [loop EXCEPT !.pc = "unload"] \/ loop' = AfterStop
      BY <2>4 DEF Stopping
    <3> QED
      BY <1>0, <2>1, <3>1 DEF LoopStates
  <2> QED
    BY <1>1, <2>2, <2>3, <2>4
<1>2. CASE Prepared \/ ChannelClosed \/ InterruptCommand \/ NextCommand \/ GotMemory
           \/ Succeed \/ End \/ Abort \/ RecordFailure \/ RecordSuccess
  BY <1>0, <1>2 DEF Prepared, ChannelClosed, InterruptCommand, NextCommand, GotMemory,
     Succeed, End, Abort, RecordFailure, RecordSuccess, Goto, LoopStates
<1>3. CASE Replay
  BY <1>0, <1>3 DEF Replay, Goto, SaveThen, LoopStates
<1>4. CASE Receive
  <2>1. loop'.pc = Head(commands) /\ commands # <<>>
    BY <1>0, <1>4 DEF Receive, LoopStates
  <2> QED
    BY <1>0, <2>1
<1>5. CASE SaveStatus
  <2>1. loop'.pc = loop.next /\ loop.pc = "save" /\ loop'.next = None
        /\ loop'.current = loop.current
    BY <1>0, <1>5 DEF SaveStatus, LoopStates
  <2>2. loop.next # "save"
    BY <2>1 DEF WorkerInv, LoopInv
  <2> QED
    BY <1>0, <2>1, <2>2 DEF At
<1>6. CASE Enter \/ WantMemory \/ StoreSuccess \/ ReadFailureIndex
  BY <1>0, <1>6 DEF Enter, WantMemory, StoreSuccess, ReadFailureIndex, SaveThen, LoopStates
<1>7. ASSUME NEW trap \in Traps, Trap(trap) PROVE FALSE
  BY <1>0, <1>7 DEF Trap, LoopStates
<1>8. CASE HostCall
  BY <1>0, <1>8 DEF HostCall
<1>9. CASE GiveUp
  BY <1>0, <1>9 DEF GiveUp, Goto, LoopStates
<1> QED
  BY <1>1, <1>2, <1>3, <1>4, <1>5, <1>6, <1>7, <1>8, <1>9 DEF Loop

(* The loop takes keys from the head of the queue and adds none.           *)
LEMMA LoopTakes ==
  ASSUME WorkerInv, Loop
  PROVE  /\ \A k \in Keys : Taken(k)' => Taken(k) \/ (Dequeue /\ k = Head(queue))
         /\ \/ queue' = queue /\ ~Dequeue
            \/ queue' = <<>> /\ ~Dequeue
            \/ queue' = Tail(queue) /\ queue # <<>> /\ Dequeue
         /\ \A c \in Clients : client'[c] \in NotYet => client[c] \in NotYet
<1>0. /\ StateTypeOK /\ loop \in LoopStates /\ oplog \in Seq(Entries)
      /\ loop.current \in Keys \cup {None} /\ client \in [Clients -> ClientPlaces]
  BY DEF WorkerInv, StateTypeOK, LoopStates
<1>1. ASSUME NEW k \in Keys, Taken(k)', ~Taken(k) PROVE Dequeue /\ k = Head(queue)
  <2>0. k # None
    BY WorkerAssumption
  <2>1. CASE Enter
    <3>1. oplog' = Append(oplog, Entry("Invoked", loop.current)) /\ loop.pc = "enter"
      BY <2>1 DEF Enter
    <3>2. PICK e \in Entries : e = Entry("Invoked", loop.current) /\ e.kind = "Invoked"
                               /\ e.key = loop.current
      BY <1>0, EntryTyped DEF Kinds
    <3>3. Unfinished' = loop.current
      BY <1>0, <3>1, <3>2, UnfinishedAppend
    <3>4. Done(oplog', k) <=> Done(oplog, k)
      BY <1>0, <3>1, <3>2, NotCompleted
    <3>5. k # loop.current
      BY <1>1, <3>1 DEF Taken, At
    <3>6. loop'.current = loop.current
      BY <1>0, <2>1 DEF Enter, SaveThen, LoopStates
    <3> QED
      BY <1>1, <3>3, <3>4, <3>5, <3>6 DEF Taken
  <2>2. CASE RecordSuccess
    <3>1. /\ oplog' = Append(oplog, Entry("Completed", loop.current)) /\ loop.pc = "success"
          /\ loop'.pc = "completed"
      BY <1>0, <2>2 DEF RecordSuccess, Goto, LoopStates
    <3>2. PICK e \in Entries : e = Entry("Completed", loop.current) /\ e.kind = "Completed"
                               /\ e.key = loop.current
      BY <1>0, EntryTyped DEF Kinds
    <3>3. Unfinished' = None /\ oplog' = Append(oplog, e)
      BY <1>0, <3>1, <3>2, UnfinishedAppend
    <3>4. k # loop.current
      BY <1>1, <3>1 DEF Taken, WorkerInv, LoopInv, At
    <3>5. Done(oplog', k)
      BY <1>1, <2>0, <3>1, <3>3 DEF Taken, At
    <3>6. PICK i \in DOMAIN oplog' : oplog'[i].kind = "Completed" /\ oplog'[i].key = k
      BY <3>5 DEF Done
    <3>7. i \in DOMAIN oplog /\ oplog'[i] = oplog[i]
      <4>1. PICK n \in Nat : n = Len(oplog)
        BY <1>0
      <4>2. /\ DOMAIN oplog = 1 .. n /\ DOMAIN oplog' = 1 .. n + 1 /\ oplog'[n + 1] = e
            /\ \A x \in 1 .. n : oplog'[x] = oplog[x]
        BY <1>0, <3>3, <4>1
      <4> QED
        BY <3>2, <3>4, <3>6, <4>2
    <3> QED
      BY <1>1, <3>6, <3>7 DEF Taken, Done
  <2>3. CASE ~Enter /\ ~RecordSuccess
    <3>1. Unfinished' = Unfinished /\ (Done(oplog', k) <=> Done(oplog, k))
      BY <1>0, <2>3, LoopBegins
    <3>2. loop'.current = k /\ At({"enter"})'
      BY <1>1, <3>1 DEF Taken
    <3>3. Dequeue
      BY <1>1, <3>2, LoopEnters DEF Taken
    <3>4. loop'.current = Head(queue)
      BY <1>0, <3>3 DEF Dequeue, SaveThen, LoopStates
    <3> QED
      BY <3>2, <3>3, <3>4
  <2> QED
    BY <2>1, <2>2, <2>3
<1>2. \/ queue' = queue /\ ~Dequeue
      \/ queue' = <<>> /\ ~Dequeue
      \/ queue' = Tail(queue) /\ queue # <<>> /\ Dequeue
  <2>1. CASE Dequeue
    BY <2>1, CommandFinds DEF Dequeue
  <2>2. CASE Stop
    BY <2>2 DEF Stop, Dequeue
  <2>3. CASE StartWithPermit \/ Receive
    <3>1. queue' = queue
      BY <2>3 DEF StartWithPermit, Receive
    <3> QED
      BY <2>1, <3>1
  <2>4. CASE ~StartWithPermit /\ ~Receive /\ ~Dequeue /\ ~Stop
    BY <2>4, QuietLoop DEF WorkerInv
  <2> QED
    BY <2>1, <2>2, <2>3, <2>4
<1>3. ASSUME NEW c \in Clients, client'[c] \in NotYet PROVE client[c] \in NotYet
  <2>1. UNCHANGED clientVars \/ \E keys, answer : Publish(keys, answer)
    BY DEF Loop, StartWithPermit, CreateInstance, Replay, Prepared, Receive,
       ChannelClosed, InterruptCommand, Dequeue, SaveStatus, Enter, HostCall, WantMemory,
       GotMemory, Succeed, Trap, RecordSuccess, StoreSuccess, NextCommand, RecordFailure,
       ReadFailureIndex, GiveUp, End, Abort, Stopping, Stop, RestartOnOom
  <2>2. CASE UNCHANGED clientVars
    BY <1>3, <2>2 DEF clientVars
  <2>3. ASSUME NEW keys, NEW answer, Publish(keys, answer) PROVE client[c] \in NotYet
    BY <1>0, <1>3, <2>3 DEF Publish, NotYet
  <2> QED
    BY <2>1, <2>2, <2>3
<1> QED
  BY <1>1, <1>2, <1>3

LEMMA DistinctTail ==
  ASSUME NEW q \in Seq(Keys), q # <<>>, Distinct(q)
  PROVE  /\ Distinct(Tail(q)) /\ Head(q) \in Keys /\ Contains(q, Head(q))
         /\ \A k : Contains(Tail(q), k) => Contains(q, k) /\ k # Head(q)
<1>1. /\ Len(q) \in Nat /\ Len(q) >= 1 /\ Head(q) = q[1] /\ Len(Tail(q)) = Len(q) - 1
      /\ \A i \in 1 .. Len(q) - 1 : Tail(q)[i] = q[i + 1]
  OBVIOUS
<1>2. ASSUME NEW i \in 1 .. Len(q) - 1, NEW j \in 1 .. Len(q) - 1, Tail(q)[i] = Tail(q)[j]
      PROVE  i = j
  <2>1. i + 1 \in 1 .. Len(q) /\ j + 1 \in 1 .. Len(q) /\ q[i + 1] = q[j + 1]
    BY <1>1, <1>2
  <2>2. i + 1 = j + 1
    BY <2>1 DEF Distinct
  <2> QED
    BY <1>1, <2>2
<1>3. ASSUME NEW k, Contains(Tail(q), k) PROVE Contains(q, k) /\ k # Head(q)
  <2>1. PICK i \in 1 .. Len(q) - 1 : q[i + 1] = k
    BY <1>1, <1>3 DEF Contains
  <2>2. i + 1 \in 1 .. Len(q) /\ 1 \in 1 .. Len(q) /\ i + 1 # 1
    BY <1>1
  <2>3. q[i + 1] # q[1]
    BY <2>2 DEF Distinct
  <2> QED
    BY <1>1, <2>1, <2>2, <2>3 DEF Contains
<1>4. Head(q) \in Keys /\ Contains(q, Head(q))
  BY <1>1 DEF Contains
<1> QED
  BY <1>1, <1>2, <1>3, <1>4 DEF Distinct

LEMMA DistinctAppend ==
  ASSUME NEW q \in Seq(Keys), NEW e \in Keys, Distinct(q), ~Contains(q, e)
  PROVE  /\ Distinct(Append(q, e))
         /\ \A k : Contains(Append(q, e), k) => Contains(q, k) \/ k = e
<1>1. /\ Len(q) \in Nat /\ Len(Append(q, e)) = Len(q) + 1 /\ Append(q, e)[Len(q) + 1] = e
      /\ \A i \in 1 .. Len(q) : Append(q, e)[i] = q[i]
  OBVIOUS
<1>2. \A i \in 1 .. Len(q) : q[i] # e
  BY DEF Contains
<1>3. ASSUME NEW i \in 1 .. Len(q) + 1, NEW j \in 1 .. Len(q) + 1,
             Append(q, e)[i] = Append(q, e)[j]
      PROVE  i = j
  <2>1. CASE i = Len(q) + 1 /\ j = Len(q) + 1
    BY <2>1
  <2>2. CASE i \in 1 .. Len(q) /\ j \in 1 .. Len(q)
    BY <1>1, <1>3, <2>2 DEF Distinct
  <2>3. CASE i \in 1 .. Len(q) /\ j = Len(q) + 1
    BY <1>1, <1>2, <1>3, <2>3
  <2>4. CASE i = Len(q) + 1 /\ j \in 1 .. Len(q)
    BY <1>1, <1>2, <1>3, <2>4
  <2> QED
    BY <1>1, <2>1, <2>2, <2>3, <2>4
<1>4. ASSUME NEW k, Contains(Append(q, e), k) PROVE Contains(q, k) \/ k = e
  <2>1. PICK i \in 1 .. Len(q) + 1 : Append(q, e)[i] = k
    BY <1>1, <1>4 DEF Contains
  <2>2. CASE i = Len(q) + 1
    BY <1>1, <2>1, <2>2
  <2>3. CASE i \in 1 .. Len(q)
    BY <1>1, <2>1, <2>3 DEF Contains
  <2> QED
    BY <1>1, <2>2, <2>3
<1> QED
  BY <1>1, <1>3, <1>4 DEF Distinct

LEMMA LoopOnce ==
  ASSUME WorkerInv, OnceInv, Loop
  PROVE  OnceInv'
<1>0. /\ StateTypeOK /\ loop \in LoopStates /\ oplog \in Seq(Entries) /\ queue \in Seq(Keys)
      /\ loop.current \in Keys \cup {None} /\ None \notin Keys /\ "Completed" \in Kinds
  BY WorkerAssumption DEF WorkerInv, StateTypeOK, LoopStates, Kinds
<1>1. /\ \A k \in Keys : Taken(k)' => Taken(k) \/ (Dequeue /\ k = Head(queue))
      /\ \/ queue' = queue /\ ~Dequeue
         \/ queue' = <<>> /\ ~Dequeue
         \/ queue' = Tail(queue) /\ queue # <<>> /\ Dequeue
      /\ \A c \in Clients : client'[c] \in NotYet => client[c] \in NotYet
  BY LoopTakes
<1>2. /\ Distinct(queue')
      /\ \A k \in Keys : Contains(queue', k) => Contains(queue, k)
                         /\ ~(Dequeue /\ k = Head(queue))
      /\ Dequeue => Head(queue) \in Keys /\ Contains(queue, Head(queue))
  <2>1. Distinct(queue)
    BY DEF OnceInv
  <2>2. CASE queue' = queue /\ ~Dequeue
    BY <2>1, <2>2
  <2>3. CASE queue' = <<>> /\ ~Dequeue
    BY <2>3 DEF Distinct, Contains
  <2>4. CASE queue' = Tail(queue) /\ queue # <<>> /\ Dequeue
    BY <1>0, <2>1, <2>4, DistinctTail
  <2> QED
    BY <1>1, <2>2, <2>3, <2>4
<1>3. \A k \in Keys : Contains(queue', k) => ~Taken(k)'
  BY <1>1, <1>2 DEF OnceInv
<1>4. ASSUME NEW c \in Clients, client'[c] \in NotYet
      PROVE  ~Contains(queue', KeyOf[c]) /\ ~Taken(KeyOf[c])'
  <2>1. KeyOf[c] \in Keys /\ ~Contains(queue, KeyOf[c]) /\ ~Taken(KeyOf[c])
    BY <1>1, <1>4 DEF OnceInv, Keys
  <2> QED
    BY <1>1, <1>2, <2>1
<1>5. /\ \A k \in Keys : Unfinished' = k => ~Done(oplog', k)
      /\ CompletedAtMostOnce(oplog')
  <2>1. CASE Enter
    <3>1. oplog' = Append(oplog, Entry("Invoked", loop.current)) /\ loop.pc = "enter"
      BY <2>1 DEF Enter
    <3>2. PICK e \in Entries : e = Entry("Invoked", loop.current) /\ e.kind = "Invoked"
                               /\ e.key = loop.current
      BY <1>0, EntryTyped DEF Kinds
    <3>3. Unfinished' = loop.current
      BY <1>0, <3>1, <3>2, UnfinishedAppend
    <3>4. /\ \A k : Done(oplog', k) <=> Done(oplog, k)
          /\ CompletedAtMostOnce(oplog) => CompletedAtMostOnce(oplog')
      BY <1>0, <3>1, <3>2, NotCompleted
    <3>5. \A k \in Keys : loop.current = k => ~Done(oplog, k)
      BY <3>1 DEF OnceInv, At
    <3> QED
      BY <3>3, <3>4, <3>5 DEF OnceInv
  <2>2. CASE RecordSuccess
    <3>1. oplog' = Append(oplog, Entry("Completed", loop.current)) /\ loop.pc = "success"
      BY <2>2 DEF RecordSuccess
    <3>2. PICK e \in Entries : e = Entry("Completed", loop.current) /\ e.kind = "Completed"
                               /\ e.key = loop.current
      BY <1>0, EntryTyped
    <3>3. Unfinished' = None /\ oplog' = Append(oplog, e)
      BY <1>0, <3>1, <3>2, UnfinishedAppend
    <3>4. \A k \in Keys : loop.current = k => ~Done(oplog, k)
      BY <3>1 DEF WorkerInv, LoopInv, At, OnceInv
    <3>5. PICK n \in Nat : n = Len(oplog)
      BY <1>0
    <3>6. /\ DOMAIN oplog = 1 .. n /\ DOMAIN oplog' = 1 .. n + 1 /\ oplog'[n + 1] = e
          /\ \A x \in 1 .. n : oplog'[x] = oplog[x]
      BY <1>0, <3>3, <3>5
    <3>7. ASSUME NEW i \in 1 .. n + 1, NEW j \in 1 .. n + 1, oplog'[i].kind = "Completed",
                 oplog'[j].kind = "Completed", oplog'[i].key = oplog'[j].key,
                 oplog'[i].key \in Keys, i # j
          PROVE  FALSE
      <4>1. CASE i \in 1 .. n /\ j \in 1 .. n
        BY <3>6, <3>7, <4>1 DEF OnceInv, CompletedAtMostOnce
      <4>2. CASE i = n + 1 /\ j \in 1 .. n
        BY <3>2, <3>4, <3>6, <3>7, <4>2 DEF Done
      <4>3. CASE i \in 1 .. n /\ j = n + 1
        BY <3>2, <3>4, <3>6, <3>7, <4>3 DEF Done
      <4> QED
        BY <3>7, <4>1, <4>2, <4>3
    <3>8. CompletedAtMostOnce(oplog')
      BY <3>6, <3>7 DEF CompletedAtMostOnce
    <3> QED
      BY <1>0, <3>3, <3>8
  <2>3. CASE ~Enter /\ ~RecordSuccess
    BY <1>0, <2>3, LoopBegins DEF OnceInv
  <2> QED
    BY <2>1, <2>2, <2>3
<1>6. ASSUME NEW k \in Keys, loop'.current = k, At({"enter"})' PROVE ~Done(oplog', k)
  <2>1. CASE Dequeue
    <3>1. loop'.current = Head(queue) /\ oplog' = oplog
      BY <1>0, <2>1 DEF Dequeue, SaveThen, LoopStates
    <3> QED
      BY <1>2, <1>6, <2>1, <3>1 DEF OnceInv, Taken
  <2>2. CASE ~Dequeue
    <3>1. At({"enter"}) /\ loop'.current = loop.current
      BY <1>6, <2>2, LoopEnters
    <3>2. loop.current = k /\ ~Done(oplog, k)
      BY <1>6, <3>1 DEF OnceInv
    <3>3. CASE ~Enter /\ ~RecordSuccess
      BY <1>0, <3>2, <3>3, LoopBegins
    <3>4. CASE Enter
      BY <1>0, <1>6, <3>4 DEF Enter, SaveThen, At, LoopStates
    <3>5. CASE RecordSuccess
      BY <3>1, <3>5 DEF RecordSuccess, At
    <3> QED
      BY <3>3, <3>4, <3>5
  <2> QED
    BY <2>1, <2>2
<1> QED
  BY <1>2, <1>3, <1>4, <1>5, <1>6 DEF OnceInv

(* Steps that leave the oplog, the loop and the queue alone.               *)
LEMMA SameOnce ==
  ASSUME OnceInv, UNCHANGED <<oplog, loop, queue>>,
         \A c \in Clients : client'[c] \in NotYet => client[c] \in NotYet
  PROVE  OnceInv'
<1>1. Unfinished' = Unfinished
  BY SameOplog
<1>2. \A k : Taken(k)' <=> Taken(k)
  BY <1>1 DEF Taken, At
<1> QED
  BY <1>1, <1>2 DEF OnceInv, At

(* A client that leaves NotYet puts its key into the queue or is told.     *)
LEMMA ClientOnce ==
  ASSUME \A c, d \in Clients : KeyOf[c] = KeyOf[d] => c = d,
         WorkerInv, OnceInv, NEW c \in Clients, Client(c)
  PROVE  OnceInv'
<1>0. /\ oplog \in Seq(Entries) /\ queue \in Seq(Keys) /\ client \in [Clients -> ClientPlaces]
      /\ KeyOf[c] \in Keys /\ StateTypeOK /\ "Pending" \in Kinds
  BY DEF WorkerInv, StateTypeOK, Keys, Kinds
<1>1. /\ loop' = loop
      /\ oplog' = oplog \/ oplog' = Append(oplog, Entry("Pending", KeyOf[c]))
      /\ \E place \in ClientPlaces : client' = [client EXCEPT ![c] = place]
  BY ClientChanges
<1>2. Unfinished' = Unfinished
  BY <1>0, <1>1, HintAppended, SameOplog
<1>3. /\ \A k : Done(oplog', k) <=> Done(oplog, k)
      /\ CompletedAtMostOnce(oplog')
  <2>1. PICK e \in Entries : e = Entry("Pending", KeyOf[c]) /\ e.kind = "Pending"
    BY <1>0, EntryTyped
  <2>2. oplog' = oplog \/ (e.kind # "Completed" /\ oplog' = Append(oplog, e))
    BY <1>1, <2>1
  <2> QED
    BY <1>0, <2>2, NotCompleted DEF OnceInv
<1>4. \A k : Taken(k)' <=> Taken(k)
  BY <1>1, <1>2, <1>3 DEF Taken, At
<1>5. \A d \in Clients : d # c => client'[d] = client[d] /\ KeyOf[d] # KeyOf[c]
  BY <1>0, <1>1
<1>6. \/ queue' = queue /\ (client'[c] \in NotYet => client[c] \in NotYet)
      \/ queue' = Append(queue, KeyOf[c]) /\ client[c] \in NotYet /\ client'[c] \notin NotYet
  <2>1. CASE EnqueueIdle(c) \/ PushBusy(c) \/ EnqueueUnloaded(c)
    BY <1>0, <2>1 DEF EnqueueIdle, PushBusy, EnqueueUnloaded, Push, Step, NotYet
  <2>2. CASE Validate(c) \/ Start(c) \/ Lookup(c)
    BY <2>2 DEF Validate, Start, Lookup, NotYet
  <2>3. CASE EnqueueBusy(c) \/ RecordBusy(c)
    BY <2>3 DEF EnqueueBusy, RecordBusy, NotYet
  <2>4. CASE Subscribe(c) \/ Persist(c)
    BY <1>0, <2>4 DEF Subscribe, Persist, Tell, Step, NotYet
  <2> QED
    BY <2>1, <2>2, <2>3, <2>4 DEF Client
<1>7. CASE queue' = queue /\ (client'[c] \in NotYet => client[c] \in NotYet)
  BY <1>1, <1>2, <1>3, <1>4, <1>5, <1>7 DEF OnceInv, At
<1>8. CASE queue' = Append(queue, KeyOf[c]) /\ client[c] \in NotYet /\ client'[c] \notin NotYet
  <2>1. ~Contains(queue, KeyOf[c]) /\ ~Taken(KeyOf[c]) /\ Distinct(queue)
    BY <1>8 DEF OnceInv
  <2>2. Distinct(queue') /\ \A k : Contains(queue', k) => Contains(queue, k) \/ k = KeyOf[c]
    BY <1>0, <1>8, <2>1, DistinctAppend
  <2>3. \A k \in Keys : Contains(queue', k) => ~Taken(k)'
    BY <1>4, <2>1, <2>2 DEF OnceInv
  <2>4. ASSUME NEW d \in Clients, client'[d] \in NotYet
        PROVE  ~Contains(queue', KeyOf[d]) /\ ~Taken(KeyOf[d])'
    <3>1. d # c
      BY <1>8, <2>4
    <3>2. ~Contains(queue, KeyOf[d]) /\ ~Taken(KeyOf[d])
      BY <1>5, <2>4, <3>1 DEF OnceInv
    <3> QED
      BY <1>4, <1>5, <2>2, <3>1, <3>2
  <2> QED
    BY <1>1, <1>2, <1>3, <2>2, <2>3, <2>4 DEF OnceInv, At
<1> QED
  BY <1>6, <1>7, <1>8

LEMMA CrashOnce ==
  ASSUME WorkerInv, OnceInv, RecoveryFresh, Crash
  PROVE  OnceInv'
<1>0. None \notin Keys /\ client \in [Clients -> ClientPlaces]
  BY WorkerAssumption DEF WorkerInv, StateTypeOK
<1>1. /\ oplog' = oplog /\ queue' = LatestRecord.pending /\ loop'.pc = "none"
      /\ \A c \in Clients : client'[c] = IF client[c] = "new" THEN "new" ELSE "told"
  BY DEF Crash, NoLoop
<1>2. Unfinished' = Unfinished /\ ~At({"enter"})'
  BY <1>1, SameOplog DEF At
<1>3. \A k : Taken(k)' <=> (Unfinished = k \/ Done(oplog, k))
  BY <1>1, <1>2 DEF Taken
<1>4. Distinct(queue') /\ \A k \in Keys : Contains(queue', k) => ~Taken(k)'
  BY <1>1, <1>3 DEF RecoveryFresh
<1>5. ASSUME NEW c \in Clients, client'[c] \in NotYet
      PROVE  ~Contains(queue', KeyOf[c]) /\ ~Taken(KeyOf[c])'
  <2>1. client[c] = "new"
    BY <1>1, <1>5 DEF NotYet
  <2>2. ~Contains(queue', KeyOf[c])
    BY <1>1, <2>1 DEF RecoveryFresh
  <2>3. ~Taken(KeyOf[c])
    BY <2>1 DEF OnceInv, NotYet
  <2> QED
    BY <1>3, <2>2, <2>3 DEF Taken
<1> QED
  BY <1>1, <1>2, <1>4, <1>5 DEF OnceInv

LEMMA KeepOnce ==
  ASSUME \A c, d \in Clients : KeyOf[c] = KeyOf[d] => c = d,
         WorkerInv, OnceInv, Crash => RecoveryFresh, [Next]_vars
  PROVE  OnceInv'
<1>1. CASE \E c \in Clients : Client(c)
  BY <1>1, ClientOnce
<1>2. CASE Loop
  BY <1>2, LoopOnce
<1>3. ASSUME NEW kind, \/ Interrupt(kind) \/ SetInterrupting \/ StopIfIdle \/ Evicted
                       \/ Activate \/ UNCHANGED vars
      PROVE  OnceInv'
  <2>1. UNCHANGED <<oplog, loop, queue, client>>
    BY <1>3 DEF Interrupt, SetInterrupting, StopIfIdle, Evicted, Activate, vars, clientVars
  <2> QED
    BY <2>1, SameOnce
<1>4. CASE Crash
  BY <1>4, CrashOnce
<1> QED
  BY <1>1, <1>2, <1>3, <1>4 DEF Next

LEMMA InitOnce == Init => OnceInv
<1> SUFFICES ASSUME Init PROVE OnceInv
  OBVIOUS
<1>1. /\ oplog = <<Entry("Create", None)>> /\ loop.pc = "none" /\ queue = <<>>
      /\ None \notin Keys
  BY WorkerAssumption DEF Init, NoLoop
<1>2. DOMAIN oplog = {1} /\ oplog[1].kind = "Create"
  BY <1>1 DEF Entry
<1>3. Unfinished = None
  BY <1>2 DEF Unfinished, InvokedIndexes
<1>4. (\A k : ~Done(oplog, k)) /\ CompletedAtMostOnce(oplog)
  BY <1>2 DEF Done, CompletedAtMostOnce
<1>5. \A k \in Keys : ~Taken(k) /\ ~Contains(queue, k)
  BY <1>1, <1>3, <1>4 DEF Taken, At, Contains
<1>6. Distinct(queue) /\ \A c \in Clients : KeyOf[c] \in Keys
  BY <1>1 DEF Distinct, Keys
<1> QED
  BY <1>1, <1>4, <1>5, <1>6 DEF OnceInv, At

LEMMA OnceIsProcessedOnce ==
  ASSUME CompletedAtMostOnce(oplog)
  PROVE  ProcessedOnce
<1>1. ASSUME NEW k \in Keys PROVE Cardinality(CompletionsOf(k)) <= 1
  <2>1. \A i, j \in CompletionsOf(k) : i = j
    BY <1>1 DEF CompletionsOf, CompletedAtMostOnce
  <2>2. CASE CompletionsOf(k) = {}
    BY <2>2, FS_EmptySet
  <2>3. ASSUME NEW i \in CompletionsOf(k) PROVE Cardinality(CompletionsOf(k)) <= 1
    <3>1. CompletionsOf(k) = {i}
      BY <2>1, <2>3
    <3>2. Cardinality({i}) = 1
      BY ONLY FS_Singleton
    <3> QED
      BY <3>1, <3>2
  <2> QED
    BY <2>2, <2>3
<1> QED
  BY <1>1 DEF ProcessedOnce

-----------------------------------------------------------------------------
(* What a crash leaves of the queue.                                       *)

(* Where the key of a client is in no record.                              *)
Unrecorded == {"new", "valid", "started", "enqueue", "record", "persist"}

Untaken(k) == Unfinished # k /\ ~Done(oplog, k)

(* The queue that would be recomputed from the oplog, and the one the loop *)
(* is about to store, have each key once, none that is begun and none of a *)
(* client that has yet to record it.  A client that persists its key       *)
(* after it has pushed it meets a worker that is not running.              *)
FreshInv ==
  /\ Distinct(LatestRecord.pending)
  /\ \A k \in Keys : Contains(LatestRecord.pending, k) => Untaken(k)
  /\ \A c \in Clients : client[c] \in Unrecorded => ~Contains(LatestRecord.pending, KeyOf[c])
  /\ loop.pc = "save" =>
       /\ Distinct(snap.pending)
       /\ \A k \in Keys : Contains(snap.pending, k) => Untaken(k)
       /\ \A c \in Clients : client[c] \in NotYet => ~Contains(snap.pending, KeyOf[c])
  /\ \A c \in Clients : client[c] = "persist" => instance # "Running" /\ ~Taken(KeyOf[c])

LEMMA OnlyDistinct ==
  ASSUME NEW q \in Seq(Keys), NEW S, Distinct(q)
  PROVE  /\ Only(q, S) \in Seq(Keys) /\ Distinct(Only(q, S))
         /\ \A k : Contains(Only(q, S), k) => Contains(q, k) /\ k \in S
<1>1. PICK t, e : t \in Seq(Keys) /\ t = Only(q, S) /\ Picks(e, t, q, Len(q), S)
  BY OnlyPicks
<1>2. PICK n \in Nat, m \in Nat : n = Len(t) /\ m = Len(q)
  OBVIOUS
<1>3. ASSUME NEW i \in 1 .. n, NEW j \in 1 .. n, t[i] = t[j], i < j PROVE FALSE
  <2>1. e[i] \in 1 .. m /\ e[j] \in 1 .. m /\ e[i] < e[j] /\ q[e[i]] = q[e[j]]
    BY <1>1, <1>2, <1>3 DEF Picks
  <2>2. e[i] = e[j]
    BY <1>2, <2>1 DEF Distinct
  <2> QED
    BY <1>2, <2>1, <2>2
<1>4. Distinct(t)
  BY <1>2, <1>3 DEF Distinct
<1>5. \A k : Contains(t, k) => Contains(q, k) /\ k \in S
  BY <1>1 DEF Contains, Picks
<1> QED
  BY <1>1, <1>4, <1>5

(* A key is begun by its own entries only.                                 *)
LEMMA UntakenStays ==
  ASSUME oplog \in Seq(Entries), NEW e \in Entries, oplog' = Append(oplog, e),
         NEW k \in Keys, Untaken(k), e.kind \in {"Invoked", "Completed"} => e.key # k
  PROVE  Untaken(k)'
<1>1. Unfinished' # k
  BY UnfinishedAppend, WorkerAssumption DEF Untaken
<1>2. PICK n \in Nat : n = Len(oplog)
  OBVIOUS
<1>3. /\ DOMAIN oplog = 1 .. n /\ DOMAIN oplog' = 1 .. n + 1 /\ oplog'[n + 1] = e
      /\ \A i \in 1 .. n : oplog'[i] = oplog[i]
  BY <1>2, AppendEntries
<1>4. ~Done(oplog', k)
  BY <1>3 DEF Untaken, Done
<1> QED
  BY <1>1, <1>4 DEF Untaken

(* The way of a client.                                                    *)
LEMMA ClientSteps ==
  ASSUME StateTypeOK, NEW c \in Clients, Client(c)
  PROVE  /\ client'[c] \in Unrecorded => client[c] \in Unrecorded
         /\ client'[c] \in NotYet => client[c] \in NotYet
         /\ client'[c] = "persist" => EnqueueUnloaded(c)
         /\ \A d \in Clients : d # c => client'[d] = client[d]
         /\ \/ oplog' = oplog
            \/ /\ oplog' = Append(oplog, Entry("Pending", KeyOf[c]))
               /\ client[c] \in {"record", "persist"} /\ client'[c] \notin Unrecorded
<1>0. client \in [Clients -> ClientPlaces]
  BY DEF StateTypeOK
<1>1. \A d \in Clients : d # c => client'[d] = client[d]
  BY <1>0, ClientChanges
<1>2. CASE Validate(c)
  BY <1>0, <1>1, <1>2 DEF Validate, Tell, Step, Unrecorded, NotYet
<1>3. CASE Start(c)
  BY <1>0, <1>1, <1>3 DEF Start, Step, Unrecorded, NotYet
<1>4. CASE Lookup(c)
  BY <1>0, <1>1, <1>4 DEF Lookup, Tell, Step, Unrecorded, NotYet
<1>5. CASE Subscribe(c)
  BY <1>0, <1>1, <1>5 DEF Subscribe, Tell, Step, Unrecorded, NotYet
<1>6. CASE EnqueueIdle(c)
  BY <1>0, <1>1, <1>6 DEF EnqueueIdle, Step, Unrecorded, NotYet
<1>7. CASE EnqueueBusy(c)
  BY <1>0, <1>1, <1>7 DEF EnqueueBusy, Step, Unrecorded, NotYet
<1>8. CASE RecordBusy(c)
  BY <1>0, <1>1, <1>8 DEF RecordBusy, Step, Unrecorded, NotYet
<1>9. CASE PushBusy(c)
  BY <1>0, <1>1, <1>9 DEF PushBusy, Step, Unrecorded, NotYet
<1>10. CASE EnqueueUnloaded(c)
  BY <1>0, <1>1, <1>10 DEF EnqueueUnloaded, Step, Unrecorded, NotYet
<1>11. CASE Persist(c)
  BY <1>0, <1>1, <1>11 DEF Persist, Step, Unrecorded, NotYet
<1> QED
  BY <1>2, <1>3, <1>4, <1>5, <1>6, <1>7, <1>8, <1>9, <1>10, <1>11 DEF Client

(* The others tell a client or leave it alone.                             *)
LEMMA ClientLeft ==
  ASSUME [Next]_vars, NEW c \in Clients, \A d \in Clients : ~Client(d), StateTypeOK
  PROVE  client'[c] = client[c] \/ client'[c] = "told"
<1>1. CASE Loop
  <2>1. UNCHANGED clientVars \/ \E keys, answer : Publish(keys, answer)
    BY <1>1 DEF Loop, StartWithPermit, CreateInstance, Replay, Prepared, Receive,
       ChannelClosed, InterruptCommand, Dequeue, SaveStatus, Enter, HostCall, WantMemory,
       GotMemory, Succeed, Trap, RecordSuccess, StoreSuccess, NextCommand, RecordFailure,
       ReadFailureIndex, GiveUp, End, Abort, Stopping, Stop, RestartOnOom
  <2> QED
    BY <2>1 DEF clientVars, Publish
<1>2. CASE Crash
  BY <1>2 DEF Crash
<1>3. ASSUME NEW kind, \/ Interrupt(kind) \/ SetInterrupting \/ StopIfIdle \/ Evicted
                       \/ Activate \/ UNCHANGED vars
      PROVE  client' = client
  BY <1>3 DEF Interrupt, SetInterrupting, StopIfIdle, Evicted, Activate, vars, clientVars
<1> QED
  BY <1>1, <1>2, <1>3 DEF Next

LEMMA ClientsGoOn ==
  ASSUME StateTypeOK, [Next]_vars, NEW c \in Clients
  PROVE  /\ client'[c] \in Unrecorded => client[c] \in Unrecorded
         /\ client'[c] \in NotYet => client[c] \in NotYet
         /\ client'[c] = "persist" => client[c] = "persist" \/ EnqueueUnloaded(c)
<1>1. ASSUME NEW d \in Clients, Client(d)
      PROVE  /\ client'[c] \in Unrecorded => client[c] \in Unrecorded
             /\ client'[c] \in NotYet => client[c] \in NotYet
             /\ client'[c] = "persist" => client[c] = "persist" \/ EnqueueUnloaded(c)
  BY <1>1, ClientSteps
<1>2. CASE \A d \in Clients : ~Client(d)
  BY <1>2, ClientLeft DEF Unrecorded, NotYet
<1> QED
  BY <1>1, <1>2

(* A worker whose client persists its key does not begin to run.           *)
LEMMA KeepPersist ==
  ASSUME \A c, d \in Clients : KeyOf[c] = KeyOf[d] => c = d,
         WorkerInv, OnceInv, FreshInv, [Next]_vars, NEW c \in Clients, client'[c] = "persist"
  PROVE  instance' # "Running" /\ ~Taken(KeyOf[c])'
<1>0. /\ StateTypeOK /\ KeyOf[c] \in Keys /\ oplog \in Seq(Entries) /\ None \notin Clients
      /\ "evictor" \notin Clients /\ c # None /\ c # "evictor"
  BY WorkerAssumption DEF WorkerInv, StateTypeOK, Keys
<1>1. CASE EnqueueUnloaded(c)
  <2>1. /\ instance' = instance /\ instance # "Running" /\ client[c] = "enqueue"
        /\ UNCHANGED <<oplog, loop>>
    BY <1>1 DEF EnqueueUnloaded
  <2>2. ~Taken(KeyOf[c])
    BY <2>1 DEF OnceInv, NotYet
  <2>3. Unfinished' = Unfinished
    BY <2>1, SameOplog
  <2> QED
    BY <2>1, <2>2, <2>3 DEF Taken, At
<1>2. CASE client[c] = "persist"
  <2>1. lock = c /\ instance # "Running" /\ ~Taken(KeyOf[c])
    BY <1>2 DEF WorkerInv, LockInv, FreshInv
  <2>2. loop.pc \in {"none", "restart"}
    BY <1>0, <2>1 DEF WorkerInv, LockInv
  <2>3. ~Free
    BY <1>0, <2>1 DEF Free
  <2>4. ~Loop
    BY <2>2, <2>3 DEF Loop, StartWithPermit, CreateInstance, Replay, Prepared, Receive,
       ChannelClosed, InterruptCommand, Dequeue, SaveStatus, Enter, HostCall, WantMemory,
       GotMemory, Succeed, Trap, RecordSuccess, StoreSuccess, NextCommand, RecordFailure,
       ReadFailureIndex, GiveUp, End, Abort, Stopping, Stop, RestartOnOom, StartIfNeeded
  <2>5. ~Crash
    BY <1>2 DEF Crash
  <2>6. loop' = loop
        /\ (oplog' = oplog \/ \E e \in Entries : oplog' = Append(oplog, e) /\ e.kind = "Pending")
    BY <2>4, <2>5, OutsideLoop
  <2>7. Untaken(KeyOf[c])'
    <3>1. Untaken(KeyOf[c])
      BY <2>1 DEF Taken, Untaken
    <3>2. CASE oplog' = oplog
      BY <3>1, <3>2, SameOplog DEF Untaken
    <3>3. ASSUME NEW e \in Entries, oplog' = Append(oplog, e), e.kind = "Pending"
          PROVE  Untaken(KeyOf[c])'
      BY <1>0, <3>1, <3>3, UntakenStays
    <3> QED
      BY <2>6, <3>2, <3>3
  <2>8. ~Taken(KeyOf[c])'
    BY <2>2, <2>6, <2>7 DEF Taken, Untaken, At
  <2>9. instance' # "Running"
    <3>1. ASSUME NEW d \in Clients, Client(d) PROVE instance' # "Running"
      BY <2>1, <3>1 DEF Client, Validate, Start, Lookup, Subscribe, EnqueueIdle, EnqueueBusy,
         RecordBusy, PushBusy, EnqueueUnloaded, Persist, StartIfNeeded, lifeVars
    <3>2. ASSUME NEW kind, \/ Interrupt(kind) \/ SetInterrupting \/ StopIfIdle \/ Evicted
                           \/ Activate \/ UNCHANGED vars
          PROVE  instance' # "Running"
      BY <2>1, <3>2 DEF Interrupt, SetInterrupting, StopIfIdle, Evicted, Activate, StartIfNeeded,
         vars, lifeVars
    <3> QED
      BY <2>4, <2>5, <3>1, <3>2 DEF Next
  <2> QED
    BY <2>8, <2>9
<1> QED
  BY <1>0, <1>1, <1>2, ClientsGoOn

LEMMA RecordFresh ==
  ASSUME \A c, d \in Clients : KeyOf[c] = KeyOf[d] => c = d,
         WorkerInv, RecordTypeOK, OnceInv, FreshInv, [Next]_vars
  PROVE  /\ Distinct(LatestRecord'.pending)
         /\ \A k \in Keys : Contains(LatestRecord'.pending, k) => Untaken(k)'
         /\ \A c \in Clients : client'[c] \in Unrecorded
                                => ~Contains(LatestRecord'.pending, KeyOf[c])
<1>0. StateTypeOK /\ oplog \in Seq(Entries) /\ \A c \in Clients : KeyOf[c] \in Keys
  BY DEF WorkerInv, StateTypeOK, Keys
<1>1. PICK record \in Records : record = LatestRecord
  BY RecordTyped
<1>2. /\ record.pending \in Seq(Keys) /\ Distinct(record.pending)
      /\ \A k \in Keys : Contains(record.pending, k) => Untaken(k)
      /\ \A c \in Clients : client[c] \in Unrecorded => ~Contains(record.pending, KeyOf[c])
  BY <1>1 DEF FreshInv, Records
<1>3. \A c \in Clients : client'[c] \in Unrecorded => client[c] \in Unrecorded
  BY <1>0, ClientsGoOn
<1>4. CASE oplog' = oplog /\ stored' = stored
  <2>1. LatestRecord' = record
    BY <1>1, <1>4, SameRecord
  <2>2. \A k : Untaken(k)' <=> Untaken(k)
    BY <1>4, SameOplog DEF Untaken
  <2> QED
    BY <1>2, <1>3, <2>1, <2>2
<1>5. CASE SaveStatus /\ oplog' = oplog
  <2>1. LatestRecord'.pending = snap.pending /\ loop.pc = "save" /\ client' = client
    BY <1>5, SavedRecord DEF SaveStatus, clientVars
  <2>2. \A k : Untaken(k)' <=> Untaken(k)
    BY <1>5, SameOplog DEF Untaken
  <2>3. /\ Distinct(snap.pending)
        /\ \A k \in Keys : Contains(snap.pending, k) => Untaken(k)
        /\ \A c \in Clients : client[c] \in NotYet => ~Contains(snap.pending, KeyOf[c])
    BY <2>1 DEF FreshInv
  <2>4. ASSUME NEW c \in Clients, client[c] \in Unrecorded PROVE client[c] \in NotYet
    <3>1. client[c] # "persist"
      <4> SUFFICES ASSUME client[c] = "persist" PROVE FALSE
        OBVIOUS
      <4>1. lock = c /\ instance # "Running" /\ c # "evictor"
        BY WorkerAssumption DEF WorkerInv, LockInv, FreshInv
      <4> QED
        BY <2>1, <4>1 DEF WorkerInv, LockInv
    <3> QED
      BY <2>4, <3>1 DEF Unrecorded, NotYet
  <2> QED
    BY <2>1, <2>2, <2>3, <2>4
<1>6. ASSUME NEW e \in Entries, oplog' = Append(oplog, e), stored' = stored, e.kind = "Pending",
             e.key \in Keys, ~Loop
      PROVE  /\ Distinct(LatestRecord'.pending)
             /\ \A k \in Keys : Contains(LatestRecord'.pending, k) => Untaken(k)'
             /\ \A c \in Clients :
                  client'[c] \in Unrecorded => ~Contains(LatestRecord'.pending, KeyOf[c])
  <2>1. LatestRecord'.pending = Append(record.pending, e.key)
    <3>1. LatestRecord' = StepOn(record, e, Len(oplog) + 1)
      BY <1>1, <1>6, GrownRecord
    <3> QED
      BY <1>6, <3>1 DEF StepOn, Records
  <2>2. PICK c \in Clients : Client(c)
    <3>1. oplog' # oplog
      BY <1>0, <1>6, AppendGrows
    <3> QED
      BY <1>6, <3>1 DEF Next, Interrupt, SetInterrupting, StopIfIdle, Evicted, Activate, Crash, vars
  <2>3. /\ oplog' = Append(oplog, Entry("Pending", KeyOf[c]))
        /\ client[c] \in {"record", "persist"} /\ client'[c] \notin Unrecorded
    <3>1. oplog' # oplog
      BY <1>0, <1>6, AppendGrows
    <3> QED
      BY <1>0, <2>2, <3>1, ClientSteps
  <2>4. e.key = KeyOf[c]
    <3>1. PICK d \in Entries : d = Entry("Pending", KeyOf[c]) /\ d.key = KeyOf[c]
      BY <1>0, EntryTyped DEF Kinds
    <3>2. Append(oplog, e) = Append(oplog, d)
      BY <1>6, <2>3, <3>1
    <3>3. e = d
      BY <1>0, <3>2
    <3> QED
      BY <3>1, <3>3
  <2>5. ~Contains(record.pending, e.key) /\ Untaken(e.key)
    <3>1. ~Taken(KeyOf[c])
      BY <2>3 DEF OnceInv, FreshInv, NotYet
    <3> QED
      BY <1>2, <2>3, <2>4, <3>1 DEF Unrecorded, Untaken, Taken
  <2>6. /\ Distinct(Append(record.pending, e.key))
        /\ \A k : Contains(Append(record.pending, e.key), k)
                   => Contains(record.pending, k) \/ k = e.key
    BY <1>2, <1>6, <2>5, DistinctAppend
  <2>7. ASSUME NEW k \in Keys, Untaken(k) PROVE Untaken(k)'
    BY <1>0, <1>6, <2>7, UntakenStays
  <2>8. \A k \in Keys : Contains(LatestRecord'.pending, k) => Untaken(k)'
    BY <1>2, <2>1, <2>5, <2>6, <2>7
  <2>9. ASSUME NEW d \in Clients, client'[d] \in Unrecorded
        PROVE  ~Contains(LatestRecord'.pending, KeyOf[d])
    <3>1. d # c /\ client[d] \in Unrecorded
      BY <1>3, <2>3, <2>9
    <3>2. KeyOf[d] # e.key
      BY <2>4, <3>1
    <3> QED
      BY <1>2, <2>1, <2>6, <3>1, <3>2
  <2> QED
    BY <2>1, <2>6, <2>8, <2>9
<1>7. ASSUME NEW e \in Entries, oplog' = Append(oplog, e), stored' = stored, e.kind # "Pending",
             e.kind = "Completed" => RecordSuccess /\ e.key = loop.current
      PROVE  /\ Distinct(LatestRecord'.pending)
             /\ \A k \in Keys : Contains(LatestRecord'.pending, k) => Untaken(k)'
             /\ \A c \in Clients :
                  client'[c] \in Unrecorded => ~Contains(LatestRecord'.pending, KeyOf[c])
  <2>1. LatestRecord' = StepOn(record, e, Len(oplog) + 1)
    BY <1>1, <1>7, GrownRecord
  <2>2. LatestRecord'.pending = IF e.kind = "Invoked" THEN Only(record.pending, Keys \ {e.key})
                                ELSE record.pending
    BY <1>7, <2>1 DEF StepOn, Records
  <2>3. /\ Distinct(LatestRecord'.pending)
        /\ \A k : Contains(LatestRecord'.pending, k) =>
             Contains(record.pending, k) /\ (e.kind = "Invoked" => k # e.key)
    <3>1. PICK q \in Seq(Keys) : q = record.pending
      BY <1>2
    <3>2. CASE e.kind = "Invoked"
      <4>1. /\ Distinct(Only(q, Keys \ {e.key}))
            /\ \A k : Contains(Only(q, Keys \ {e.key}), k) => Contains(q, k) /\ k \in Keys \ {e.key}
        BY <1>2, <3>1, OnlyDistinct
      <4> QED
        BY <2>2, <3>1, <3>2, <4>1
    <3> QED
      BY <1>2, <2>2, <3>2
  <2>4. ASSUME NEW k \in Keys, Contains(LatestRecord'.pending, k) PROVE Untaken(k)'
    <3>1. Untaken(k)
      BY <1>2, <2>3, <2>4
    <3>2. e.kind = "Completed" => e.key # k
      <4>1. CASE e.kind = "Completed"
        <5>1. loop.pc = "success" /\ e.key = loop.current
          BY <1>7, <4>1 DEF RecordSuccess
        <5>2. Unfinished = loop.current
          BY <5>1 DEF WorkerInv, LoopInv, At
        <5> QED
          BY <3>1, <5>1, <5>2 DEF Untaken
      <4> QED
        BY <4>1
    <3> QED
      BY <1>0, <1>7, <2>3, <2>4, <3>1, <3>2, UntakenStays
  <2> QED
    BY <1>2, <1>3, <2>3, <2>4
<1>8. PICK e : \/ oplog' = oplog /\ stored' = stored
               \/ SaveStatus /\ oplog' = oplog
               \/ /\ e \in Entries /\ oplog' = Append(oplog, e) /\ stored' = stored
                  /\ e.kind = "Pending" => e.key \in Keys /\ ~Loop
                  /\ e.kind = "Completed" => RecordSuccess /\ e.key = loop.current
  BY <1>0, RecordChanges
<1> QED
  BY <1>4, <1>5, <1>6, <1>7, <1>8

LEMMA SnapFresh ==
  ASSUME WorkerInv, StateTypeOK', RecordTypeOK, RecordTypeOK', OnceInv', FreshInv, [Next]_vars,
         loop'.pc = "save"
  PROVE  /\ Distinct(snap'.pending)
         /\ \A k \in Keys : Contains(snap'.pending, k) => Untaken(k)'
         /\ \A c \in Clients : client'[c] \in NotYet => ~Contains(snap'.pending, KeyOf[c])
<1>0. /\ StateTypeOK /\ loop \in LoopStates /\ loop'.current \in Keys \cup {None}
      /\ queue' \in Seq(Keys) /\ results' \in PartialMaps(Results) /\ oplog \in Seq(Entries)
  BY DEF WorkerInv, StateTypeOK, LoopStates, RecordTypeOK
<1>1. CASE Loop /\ ~SaveStatus
  <2>1. snap' = Snapshot(loop'.current)
    BY <1>0, <1>1, SnapChanges
  <2>2. snap'.pending = queue'
    BY <1>0, <2>1, SnapshotTyped
  <2> QED
    BY <2>2 DEF OnceInv, Taken, Untaken
<1>2. CASE SaveStatus
  <2>1. loop'.pc = loop.next /\ loop.pc = "save"
    BY <1>0, <1>2 DEF SaveStatus, LoopStates
  <2> QED
    BY <2>1 DEF WorkerInv, LoopInv
<1>3. CASE Crash
  BY <1>3 DEF Crash, NoLoop
<1>4. CASE ~Loop /\ ~Crash
  <2>1. loop' = loop /\ snap' = snap
        /\ (oplog' = oplog \/ \E e \in Entries : oplog' = Append(oplog, e) /\ e.kind = "Pending")
    BY <1>4, OutsideLoop
  <2>2. ASSUME NEW k \in Keys, Untaken(k) PROVE Untaken(k)'
    <3>1. CASE oplog' = oplog
      BY <2>2, <3>1, SameOplog DEF Untaken
    <3>2. ASSUME NEW e \in Entries, oplog' = Append(oplog, e), e.kind = "Pending"
          PROVE  Untaken(k)'
      BY <1>0, <2>2, <3>2, UntakenStays
    <3> QED
      BY <2>1, <3>1, <3>2
  <2>3. \A c \in Clients : client'[c] \in NotYet => client[c] \in NotYet
    BY <1>0, ClientsGoOn
  <2>4. /\ Distinct(snap.pending)
        /\ \A k \in Keys : Contains(snap.pending, k) => Untaken(k)
        /\ \A c \in Clients : client[c] \in NotYet => ~Contains(snap.pending, KeyOf[c])
    BY <2>1 DEF FreshInv
  <2> QED
    BY <2>1, <2>2, <2>3, <2>4
<1> QED
  BY <1>1, <1>2, <1>3, <1>4

LEMMA KeepFresh ==
  ASSUME \A c, d \in Clients : KeyOf[c] = KeyOf[d] => c = d,
         WorkerInv, StateTypeOK', RecordTypeOK, RecordTypeOK', OnceInv, OnceInv', FreshInv,
         [Next]_vars
  PROVE  FreshInv'
<1>1. /\ Distinct(LatestRecord'.pending)
      /\ \A k \in Keys : Contains(LatestRecord'.pending, k) => Untaken(k)'
      /\ \A c \in Clients : client'[c] \in Unrecorded => ~Contains(LatestRecord'.pending, KeyOf[c])
  BY RecordFresh
<1>2. loop'.pc = "save" =>
        /\ Distinct(snap'.pending)
        /\ \A k \in Keys : Contains(snap'.pending, k) => Untaken(k)'
        /\ \A c \in Clients : client'[c] \in NotYet => ~Contains(snap'.pending, KeyOf[c])
  BY SnapFresh
<1>3. \A c \in Clients : client'[c] = "persist" => instance' # "Running" /\ ~Taken(KeyOf[c])'
  BY KeepPersist
<1> QED
  BY <1>1, <1>2, <1>3 DEF FreshInv

LEMMA InitFresh == Init => FreshInv
<1> SUFFICES ASSUME Init PROVE FreshInv
  OBVIOUS
<1>1. LatestRecord = EmptyRecord /\ EmptyRecord.pending = <<>>
  BY InitLatest DEF EmptyRecord
<1>2. loop.pc = "none" /\ \A c \in Clients : client[c] = "new"
  BY DEF Init, NoLoop
<1> QED
  BY <1>1, <1>2 DEF FreshInv, Distinct, Contains

LEMMA FreshRecovers == FreshInv => RecoveryFresh
BY DEF FreshInv, RecoveryFresh, Untaken, Unrecorded

LEMMA OnceInvariant ==
  ASSUME \A c, d \in Clients : KeyOf[c] = KeyOf[d] => c = d
  PROVE  Spec => [](OnceInv /\ FreshInv)
<1>1. /\ WorkerInv /\ RecordTypeOK /\ OnceInv /\ FreshInv /\ [Next]_vars
      /\ WorkerInv' /\ RecordTypeOK'
      => OnceInv' /\ FreshInv'
  <2> SUFFICES ASSUME WorkerInv, RecordTypeOK, OnceInv, FreshInv, [Next]_vars, WorkerInv',
                      RecordTypeOK'
               PROVE  OnceInv' /\ FreshInv'
    OBVIOUS
  <2>1. OnceInv'
    BY KeepOnce, FreshRecovers
  <2>2. StateTypeOK'
    BY DEF WorkerInv
  <2> QED
    BY <2>1, <2>2, KeepFresh
<1> QED
  BY <1>1, InitOnce, InitFresh, WorkerInvariant, PTL DEF Spec

(* With a key for every client, the oplog has at most one completion of a  *)
(* key, however often the worker is stopped, interrupted, restarted and    *)
(* crashes: the queue recomputed after a crash holds each key once and     *)
(* none that was begun.                                                    *)
THEOREM WorkerProcessesOnce ==
  ASSUME \A c, d \in Clients : KeyOf[c] = KeyOf[d] => c = d
  PROVE  Spec => []ProcessedOnce
<1>1. OnceInv => ProcessedOnce
  BY OnceIsProcessedOnce DEF OnceInv
<1> QED
  BY <1>1, OnceInvariant, PTL

-----------------------------------------------------------------------------
(* The order in which invocations are begun.                               *)

(* A sequence ends with the queue, after its first n entries.              *)
EndsWith(a, q, n) ==
  n \in Nat /\ Len(a) = n + Len(q) /\ \A i \in 1 .. Len(q) : a[n + i] = q[i]

(* What arrived is the queue after the invocations that are begun, the     *)
(* last of which the loop may be about to begin.                           *)
OrderInv ==
  /\ arrived \in Seq(Keys)
  /\ \A k \in Keys : Begun(k) => ~Untaken(k)
  /\ \E n : /\ EndsWith(arrived, queue, n)
            /\ \A i \in 1 .. n :
                 \/ Begun(arrived[i])
                 \/ i = n /\ loop.current = arrived[i] /\ At({"enter"})

LEMMA BegunGrows ==
  ASSUME oplog \in Seq(Entries), NEW e \in Entries, oplog' = Append(oplog, e)
  PROVE  \A k : Begun(k)' <=> Begun(k) \/ (e.kind = "Invoked" /\ e.key = k)
<1>1. PICK n \in Nat : n = Len(oplog)
  OBVIOUS
<1>2. /\ DOMAIN oplog = 1 .. n /\ DOMAIN oplog' = 1 .. n + 1 /\ oplog'[n + 1] = e
      /\ \A i \in 1 .. n : oplog'[i] = oplog[i]
  BY <1>1, AppendEntries
<1>3. 1 .. n + 1 = (1 .. n) \cup {n + 1}
  BY ONLY n \in Nat
<1> QED
  BY <1>2, <1>3 DEF Begun, InvokedIndexes

LEMMA BegunStays ==
  ASSUME StateTypeOK, [Next]_vars, NEW k, Begun(k)
  PROVE  Begun(k)'
<1>1. CASE oplog' = oplog
  BY <1>1 DEF Begun, InvokedIndexes
<1>2. ASSUME NEW e \in Entries, oplog' = Append(oplog, e) PROVE Begun(k)'
  BY <1>2, BegunGrows DEF StateTypeOK
<1> QED
  BY <1>1, <1>2, RecordChanges

(* What is begun is unfinished or completed.                               *)
LEMMA KeepBegun ==
  ASSUME WorkerInv, [Next]_vars, NEW k \in Keys, Begun(k) => ~Untaken(k), Begun(k)'
  PROVE  ~Untaken(k)'
<1>0. StateTypeOK /\ oplog \in Seq(Entries) /\ k # None
  BY WorkerAssumption DEF WorkerInv, StateTypeOK
<1>1. CASE oplog' = oplog
  BY <1>1, SameOplog DEF Begun, InvokedIndexes, Untaken
<1>2. ASSUME NEW e \in Entries, oplog' = Append(oplog, e),
             e.kind = "Completed" => RecordSuccess /\ e.key = loop.current,
             e.kind = "Invoked" => \/ Enter /\ e.key = loop.current
                                   \/ Replay /\ e.key = Unfinished
      PROVE  ~Untaken(k)'
  <2>1. /\ e.kind \notin {"Invoked", "Completed"} => Unfinished' = Unfinished
        /\ e.kind = "Invoked" => Unfinished' = e.key
    BY <1>0, <1>2, UnfinishedAppend
  <2>2. Begun(k) \/ (e.kind = "Invoked" /\ e.key = k)
    BY <1>0, <1>2, BegunGrows
  <2>3. Done(oplog, k) => Done(oplog', k)
    BY <1>0, <1>2, CompletionsStay
  <2>4. e.kind = "Completed" /\ e.key = k => Done(oplog', k)
    <3>1. Len(oplog') \in DOMAIN oplog' /\ oplog'[Len(oplog')] = e
      BY <1>0, <1>2, PointsStay
    <3> QED
      BY <3>1 DEF Done
  <2>5. e.kind = "Completed" => e.key = Unfinished
    BY <1>2 DEF RecordSuccess, WorkerInv, LoopInv, At
  <2>6. e.kind = "Invoked" => Unfinished \in {None, e.key}
    BY <1>2 DEF Enter, WorkerInv, LoopInv, At
  <2> QED
    BY <1>0, <1>2, <2>1, <2>2, <2>3, <2>4, <2>5, <2>6 DEF Untaken
<1> QED
  BY <1>0, <1>1, <1>2, RecordChanges

(* From where it is about to begin an invocation, the loop begins it.      *)
LEMMA LoopLeavesEnter ==
  ASSUME WorkerInv, Loop, At({"enter"})
  PROVE  Enter \/ (At({"enter"})' /\ loop'.current = loop.current)
<1>0. loop \in LoopStates /\ (loop.pc = "enter" \/ (loop.pc = "save" /\ loop.next = "enter"))
  BY DEF WorkerInv, StateTypeOK, At
<1>1. ~StartWithPermit
  BY <1>0, WorkerAssumption DEF StartWithPermit, Free, WorkerInv, LockInv
<1>2. Enter \/ SaveStatus
  BY <1>0, <1>1 DEF Loop, CreateInstance, Replay, Prepared, Receive, ChannelClosed,
     InterruptCommand, Dequeue, HostCall, WantMemory, GotMemory, Succeed, Trap, RecordSuccess,
     StoreSuccess, NextCommand, RecordFailure, ReadFailureIndex, GiveUp, End, Abort, Stopping,
     Stop, RestartOnOom
<1>3. CASE SaveStatus
  <2>1. loop.pc = "save" /\ loop'.pc = loop.next /\ loop'.current = loop.current
    BY <1>0, <1>3 DEF SaveStatus, LoopStates
  <2> QED
    BY <1>0, <2>1 DEF At
<1> QED
  BY <1>2, <1>3

LEMMA EnterBegins ==
  ASSUME StateTypeOK, Enter, NEW k, k = loop.current
  PROVE  Begun(k)'
<1>1. PICK e \in Entries : e = Entry("Invoked", loop.current) /\ e.kind = "Invoked"
                           /\ e.key = loop.current
  BY EntryTyped DEF StateTypeOK, LoopStates, Kinds
<1>2. oplog' = Append(oplog, e)
  BY <1>1 DEF Enter
<1> QED
  BY <1>1, <1>2, BegunGrows DEF StateTypeOK

(* Where the loop changes what has arrived.                                *)
LEMMA ArrivedLoop ==
  ASSUME Loop, ~Dequeue, ~Stop
  PROVE  UNCHANGED <<queue, arrived>>
BY DEF Loop, StartWithPermit, CreateInstance, Replay, Prepared, Receive, ChannelClosed,
   InterruptCommand, SaveStatus, Enter, HostCall, WantMemory, GotMemory, Succeed, Trap,
   RecordSuccess, StoreSuccess, NextCommand, RecordFailure, ReadFailureIndex, GiveUp, End,
   Abort, Stopping, RestartOnOom, ghosts

LEMMA ArrivedClient ==
  ASSUME NEW c \in Clients, Client(c)
  PROVE  \/ UNCHANGED <<queue, arrived>>
         \/ queue' = Append(queue, KeyOf[c]) /\ arrived' = Append(arrived, KeyOf[c])
BY DEF Client, Validate, Start, Lookup, Subscribe, EnqueueIdle, EnqueueBusy, RecordBusy,
   PushBusy, EnqueueUnloaded, Persist, Push, ghosts

LEMMA EndsAppend ==
  ASSUME NEW a \in Seq(Keys), NEW q \in Seq(Keys), NEW n \in Nat, NEW e \in Keys, EndsWith(a, q, n)
  PROVE  /\ Append(a, e) \in Seq(Keys) /\ EndsWith(Append(a, e), Append(q, e), n)
         /\ \A i \in 1 .. n : Append(a, e)[i] = a[i]
<1>1. PICK l \in Nat : l = Len(q) /\ n \in Nat /\ Len(a) = n + l
  BY DEF EndsWith
<1>2. /\ Append(a, e) \in Seq(Keys) /\ Len(Append(a, e)) = n + l + 1
      /\ Len(Append(q, e)) = l + 1 /\ Append(q, e)[l + 1] = e
      /\ Append(a, e)[n + l + 1] = e
      /\ \A i \in 1 .. l : Append(q, e)[i] = q[i]
      /\ \A i \in 1 .. n + l : Append(a, e)[i] = a[i]
  BY <1>1
<1>3. \A i \in 1 .. l : a[n + i] = q[i]
  BY <1>1 DEF EndsWith
<1>4. ASSUME NEW i \in 1 .. l + 1 PROVE Append(a, e)[n + i] = Append(q, e)[i]
  <2>1. CASE i = l + 1
    <3>1. n + i = n + l + 1
      BY <1>1, <2>1
    <3> QED
      BY <1>2, <2>1, <3>1
  <2>2. CASE i \in 1 .. l
    <3>1. n + i \in 1 .. n + l
      BY <1>1, <2>2
    <3> QED
      BY <1>2, <1>3, <2>2, <3>1
  <2> QED
    BY <1>1, <2>1, <2>2
<1>5. \A i \in 1 .. n : Append(a, e)[i] = a[i]
  BY <1>1, <1>2
<1> QED
  BY <1>1, <1>2, <1>4, <1>5 DEF EndsWith

LEMMA EndsTail ==
  ASSUME NEW a \in Seq(Keys), NEW q \in Seq(Keys), q # <<>>, NEW n, EndsWith(a, q, n)
  PROVE  n \in Nat /\ EndsWith(a, Tail(q), n + 1) /\ a[n + 1] = Head(q)
<1>1. PICK l \in Nat : l = Len(q) /\ n \in Nat /\ Len(a) = n + l /\ l >= 1
  BY DEF EndsWith
<1>2. /\ Len(Tail(q)) = l - 1 /\ \A i \in 1 .. l - 1 : Tail(q)[i] = q[i + 1]
      /\ Head(q) = q[1]
  BY <1>1
<1>3. \A i \in 1 .. l : a[n + i] = q[i]
  BY <1>1 DEF EndsWith
<1>4. ASSUME NEW i \in 1 .. l - 1 PROVE a[n + 1 + i] = Tail(q)[i]
  <2>1. i + 1 \in 1 .. l /\ n + (i + 1) = n + 1 + i
    BY <1>1
  <2> QED
    BY <1>2, <1>3, <2>1
<1>5. a[n + 1] = Head(q)
  BY <1>1, <1>2, <1>3
<1>6. n + 1 \in Nat /\ Len(a) = (n + 1) + Len(Tail(q))
  BY <1>1, <1>2
<1> QED
  BY <1>1, <1>2, <1>4, <1>5, <1>6 DEF EndsWith

LEMMA EndsSplit ==
  ASSUME NEW a \in Seq(Keys), NEW q \in Seq(Keys), NEW n, EndsWith(a, q, n),
         NEW i \in 1 .. Len(a)
  PROVE  i \in 1 .. n \/ (i > n /\ Contains(q, a[i]))
<1>1. PICK l \in Nat : l = Len(q) /\ n \in Nat /\ Len(a) = n + l
  BY DEF EndsWith
<1>2. CASE i > n
  <2>1. i - n \in 1 .. l /\ n + (i - n) = i
    BY <1>1, <1>2
  <2>2. a[i] = q[i - n]
    BY <1>1, <2>1 DEF EndsWith
  <2> QED
    BY <1>1, <1>2, <2>1, <2>2 DEF Contains
<1> QED
  BY <1>1, <1>2

LEMMA ArrivedStays ==
  ASSUME WorkerInv, OrderInv, [Next]_vars, UNCHANGED <<queue, arrived>>, ~Crash,
         Loop \/ loop' = loop
  PROVE  OrderInv'
<1>0. StateTypeOK
  BY DEF WorkerInv
<1>1. PICK n : /\ EndsWith(arrived, queue, n)
               /\ \A i \in 1 .. n : \/ Begun(arrived[i])
                                    \/ i = n /\ loop.current = arrived[i] /\ At({"enter"})
  BY DEF OrderInv
<1>2. ASSUME NEW i \in 1 .. n
      PROVE  Begun(arrived[i])' \/ (i = n /\ loop'.current = arrived[i] /\ At({"enter"})')
  <2>1. PICK k : k = arrived[i] /\ (Begun(k)' => Begun(arrived[i])')
    BY DEF Begun
  <2>2. CASE Begun(k)
    BY <1>0, <2>1, <2>2, BegunStays
  <2>3. CASE i = n /\ loop.current = k /\ At({"enter"})
    <3>1. CASE loop' = loop
      BY <2>1, <2>3, <3>1 DEF At
    <3>2. CASE Loop
      <4>1. CASE Enter
        <5>1. Begun(k)'
          BY <1>0, <2>3, <4>1, EnterBegins
        <5> QED
          BY <2>1, <5>1
      <4> QED
        BY <2>1, <2>3, <3>2, <4>1, LoopLeavesEnter
    <3> QED
      BY <3>1, <3>2
  <2> QED
    BY <1>1, <2>1, <2>2, <2>3
<1>3. \A k \in Keys : Begun(k)' => ~Untaken(k)'
  BY KeepBegun DEF OrderInv
<1>4. EndsWith(arrived', queue', n) /\ arrived' \in Seq(Keys)
  BY <1>1 DEF OrderInv
<1> QED
  BY <1>2, <1>3, <1>4 DEF OrderInv

LEMMA ArrivedGrows ==
  ASSUME WorkerInv, OrderInv, NEW c \in Clients, Client(c)
  PROVE  OrderInv'
<1>0. /\ StateTypeOK /\ KeyOf[c] \in Keys /\ queue \in Seq(Keys) /\ arrived \in Seq(Keys)
      /\ loop' = loop
      /\ [Next]_vars
  BY ClientChanges DEF WorkerInv, StateTypeOK, Keys, OrderInv, Next
<1>1. CASE UNCHANGED <<queue, arrived>>
  <2>1. CASE ~Crash
    BY <1>0, <1>1, <2>1, ArrivedStays
  <2>2. CASE Crash
    <3>1. "crash" \in faults' /\ "crash" \notin faults
      BY <2>2 DEF Crash, Fault
    <3> QED
      BY <3>1, ClientChanges
  <2> QED
    BY <2>1, <2>2
<1>2. CASE queue' = Append(queue, KeyOf[c]) /\ arrived' = Append(arrived, KeyOf[c])
  <2>1. PICK n : /\ EndsWith(arrived, queue, n)
                 /\ \A i \in 1 .. n : \/ Begun(arrived[i])
                                      \/ i = n /\ loop.current = arrived[i] /\ At({"enter"})
    BY DEF OrderInv
  <2>2. /\ arrived' \in Seq(Keys) /\ EndsWith(arrived', queue', n)
        /\ \A i \in 1 .. n : arrived'[i] = arrived[i]
    <3>1. PICK a \in Seq(Keys), q \in Seq(Keys), k \in Keys :
             a = arrived /\ q = queue /\ k = KeyOf[c]
      BY <1>0
    <3>2. EndsWith(a, q, n) /\ n \in Nat
      BY <2>1, <3>1 DEF EndsWith
    <3>3. /\ Append(a, k) \in Seq(Keys) /\ EndsWith(Append(a, k), Append(q, k), n)
          /\ \A i \in 1 .. n : Append(a, k)[i] = a[i]
      BY ONLY a \in Seq(Keys), q \in Seq(Keys), k \in Keys, <3>2, EndsAppend, Zenon
    <3> QED
      BY <1>2, <3>1, <3>3
  <2>3. ASSUME NEW i \in 1 .. n
        PROVE  Begun(arrived[i])' \/ (i = n /\ loop'.current = arrived'[i] /\ At({"enter"})')
    <3>1. PICK k : k = arrived[i] /\ k = arrived'[i] /\ (Begun(k)' => Begun(arrived[i])')
      BY <2>2 DEF Begun
    <3>2. CASE Begun(k)
      BY <1>0, <3>1, <3>2, BegunStays
    <3> QED
      BY <1>0, <2>1, <3>1, <3>2 DEF At
  <2>4. \A k \in Keys : Begun(k)' => ~Untaken(k)'
    BY <1>0, KeepBegun DEF OrderInv
  <2> QED
    BY <2>2, <2>3, <2>4 DEF OrderInv
<1> QED
  BY <1>1, <1>2, ArrivedClient

LEMMA ArrivedTaken ==
  ASSUME WorkerInv, OrderInv, Dequeue
  PROVE  OrderInv'
<1>0. /\ queue \in Seq(Keys) /\ arrived \in Seq(Keys) /\ loop \in LoopStates /\ queue # <<>>
      /\ loop.pc = "Invocation" /\ StateTypeOK
  BY CommandFinds DEF WorkerInv, StateTypeOK, OrderInv, Dequeue
<1>1. /\ queue' = Tail(queue) /\ arrived' = arrived /\ oplog' = oplog
      /\ loop'.current = Head(queue) /\ At({"enter"})'
  BY <1>0 DEF Dequeue, SaveThen, ghosts, LoopStates, At
<1>2. PICK n : /\ EndsWith(arrived, queue, n)
               /\ \A i \in 1 .. n : \/ Begun(arrived[i])
                                    \/ i = n /\ loop.current = arrived[i] /\ At({"enter"})
  BY DEF OrderInv
<1>3. n \in Nat /\ EndsWith(arrived, Tail(queue), n + 1) /\ arrived[n + 1] = Head(queue)
  BY <1>0, <1>2, EndsTail
<1>4. \A k : Begun(k)' <=> Begun(k)
  BY <1>1 DEF Begun, InvokedIndexes
<1>5. \A k : Untaken(k)' <=> Untaken(k)
  BY <1>1, SameOplog DEF Untaken
<1>6. ASSUME NEW i \in 1 .. n + 1
      PROVE  Begun(arrived[i])' \/ (i = n + 1 /\ loop'.current = arrived'[i] /\ At({"enter"})')
  <2>1. CASE i = n + 1
    BY <1>1, <1>3, <2>1
  <2>2. CASE i \in 1 .. n
    <3>1. Begun(arrived[i])
      BY <1>0, <1>2, <2>2 DEF At
    <3> QED
      BY <1>1, <3>1 DEF Begun, InvokedIndexes
  <2> QED
    BY <1>3, <2>1, <2>2
<1> QED
  BY <1>0, <1>1, <1>3, <1>4, <1>5, <1>6 DEF OrderInv

(* When the queue is dropped or recomputed, those that are begun are kept. *)
KeptBefore(b, a, S, q) == b = Only(a, S) \o q
ComeFrom(b, n, a, S) == \A i \in 1 .. n : \E j \in 1 .. Len(a) : b[i] = a[j] /\ a[j] \in S

LEMMA ArrivedKept ==
  ASSUME NEW a \in Seq(Keys), NEW q \in Seq(Keys), NEW t \in Seq(Keys), NEW b \in Seq(Keys),
         NEW S, t = Only(a, S), KeptBefore(b, a, S, q)
  PROVE  EndsWith(b, q, Len(t)) /\ ComeFrom(b, Len(t), a, S)
<1>1. PICK e : t \in Seq(Keys) /\ Picks(e, t, a, Len(a), S)
  BY OnlyPicks
<1>2. PICK n \in Nat, l \in Nat : n = Len(t) /\ l = Len(q)
  BY <1>1
<1>3. b = t \o q
  BY DEF KeptBefore
<1>4. /\ b \in Seq(Keys) /\ Len(b) = n + l /\ \A i \in 1 .. n : b[i] = t[i]
      /\ \A i \in 1 .. l : b[n + i] = q[i]
  BY <1>1, <1>2, <1>3
<1>5. \A i \in 1 .. n : e[i] \in 1 .. Len(a) /\ t[i] = a[e[i]] /\ a[e[i]] \in S
  BY <1>1, <1>2 DEF Picks
<1>6. EndsWith(b, q, n)
  BY <1>2, <1>4 DEF EndsWith
<1>7. ASSUME NEW i \in 1 .. n PROVE \E j \in 1 .. Len(a) : b[i] = a[j] /\ a[j] \in S
  <2>1. e[i] \in 1 .. Len(a) /\ b[i] = a[e[i]] /\ a[e[i]] \in S
    BY ONLY <1>4, <1>5, <1>7
  <2> QED
    BY ONLY <2>1, Zenon
<1> QED
  BY <1>2, <1>6, <1>7 DEF ComeFrom

LEMMA ArrivedDropped ==
  ASSUME WorkerInv, OrderInv, Stop, queue' # queue \/ arrived' # arrived
  PROVE  OrderInv'
<1>0. queue \in Seq(Keys) /\ arrived \in Seq(Keys) /\ <<>> \in Seq(Keys)
  BY DEF WorkerInv, StateTypeOK, OrderInv
<1>1. /\ queue' = <<>> /\ arrived' = Only(arrived, Keys \ Range(queue)) /\ oplog' = oplog
      /\ loop.pc = "unload"
  BY DEF Stop, ghosts
<1>2. PICK n : /\ EndsWith(arrived, queue, n)
               /\ \A i \in 1 .. n : \/ Begun(arrived[i])
                                    \/ i = n /\ loop.current = arrived[i] /\ At({"enter"})
  BY DEF OrderInv
<1>3. \A i \in 1 .. n : Begun(arrived[i])
  BY <1>1, <1>2 DEF At
<1>4. PICK kept \in Seq(Keys) : kept = Only(arrived, Keys \ Range(queue))
  BY <1>0, OnlyPicks
<1>5. kept \o <<>> = kept
  OBVIOUS
<1>6. /\ EndsWith(kept, <<>>, Len(kept))
      /\ \A i \in 1 .. Len(kept) :
           \E j \in 1 .. Len(arrived) : kept[i] = arrived[j] /\ arrived[j] \in Keys \ Range(queue)
  <2>1. PICK a, q, S :
           a \in Seq(Keys) /\ q \in Seq(Keys) /\ a = arrived /\ S = Keys \ Range(queue) /\ q = <<>>
    BY <1>0
  <2>2. kept = Only(a, S) /\ KeptBefore(kept, a, S, q)
    BY <1>4, <1>5, <2>1 DEF KeptBefore
  <2>3. EndsWith(kept, q, Len(kept)) /\ ComeFrom(kept, Len(kept), a, S)
    BY ONLY <2>1, kept \in Seq(Keys), <2>2, ArrivedKept, Zenon
  <2> QED
    BY ONLY <2>1, <2>3 DEF ComeFrom
<1>7. ASSUME NEW i \in 1 .. Len(kept) PROVE Begun(kept[i])
  <2>1. PICK j \in 1 .. Len(arrived) : kept[i] = arrived[j] /\ arrived[j] \notin Range(queue)
    BY <1>6
  <2>2. ~Contains(queue, arrived[j])
    BY <1>0, <2>1 DEF Contains, Range
  <2>3. j \in 1 .. n
    BY <1>0, <1>2, <2>2, EndsSplit
  <2> QED
    BY <1>3, <2>1, <2>3
<1>8. \A k : Begun(k)' <=> Begun(k)
  BY <1>1 DEF Begun, InvokedIndexes
<1>9. \A k : Untaken(k)' <=> Untaken(k)
  BY <1>1, SameOplog DEF Untaken
<1>10. \A i \in 1 .. Len(kept) : Begun(arrived[i])'
  BY <1>1, <1>4, <1>7 DEF Begun, InvokedIndexes
<1> QED
  BY <1>1, <1>4, <1>6, <1>8, <1>9, <1>10 DEF OrderInv

LEMMA ArrivedAfterCrash ==
  ASSUME WorkerInv, RecoveryTyped, OrderInv, Crash
  PROVE  OrderInv'
<1>0. arrived \in Seq(Keys) /\ queue' \in Seq(Keys)
  BY DEF OrderInv, RecoveryTyped, Crash
<1>1. /\ arrived' = Only(arrived, {oplog[i].key : i \in InvokedIndexes}) \o queue'
      /\ oplog' = oplog
  BY DEF Crash
<1>2. PICK S : S = {oplog[i].key : i \in InvokedIndexes}
  OBVIOUS
<1>3. \A k \in S : Begun(k)
  BY <1>2 DEF Begun
<1>4. /\ arrived' \in Seq(Keys) /\ EndsWith(arrived', queue', Len(Only(arrived, S)))
      /\ \A i \in 1 .. Len(Only(arrived, S)) : arrived'[i] \in S
  <2>1. PICK a \in Seq(Keys), q \in Seq(Keys), t \in Seq(Keys) :
           a = arrived /\ q = queue' /\ t = Only(a, S)
    BY <1>0, OnlyPicks
  <2>2. PICK b \in Seq(Keys) : b = t \o q /\ KeptBefore(b, a, S, q)
    <3>1. t \o q \in Seq(Keys)
      OBVIOUS
    <3> QED
      BY ONLY <2>1, <3>1, Zenon DEF KeptBefore
  <2>3. EndsWith(b, q, Len(t)) /\ ComeFrom(b, Len(t), a, S)
    BY ONLY a \in Seq(Keys), q \in Seq(Keys), t \in Seq(Keys), b \in Seq(Keys), <2>1, <2>2,
       ArrivedKept, Zenon
  <2>4. b = arrived' /\ t = Only(arrived, S)
    BY <1>1, <1>2, <2>1, <2>2
  <2> QED
    BY ONLY <2>1, <2>3, <2>4, b \in Seq(Keys) DEF ComeFrom
<1>5. \A k : Begun(k)' <=> Begun(k)
  BY <1>1 DEF Begun, InvokedIndexes
<1>6. \A k : Untaken(k)' <=> Untaken(k)
  BY <1>1, SameOplog DEF Untaken
<1>7. \A i \in 1 .. Len(Only(arrived, S)) : Begun(arrived[i])'
  BY <1>1, <1>3, <1>4 DEF Begun, InvokedIndexes
<1>8. \A k \in Keys : Begun(k)' => ~Untaken(k)'
  BY <1>5, <1>6 DEF OrderInv
<1> QED
  BY <1>4, <1>7, <1>8 DEF OrderInv

LEMMA KeepOrder ==
  ASSUME WorkerInv, RecoveryTyped, OrderInv, [Next]_vars
  PROVE  OrderInv'
<1>1. CASE \E c \in Clients : Client(c)
  BY <1>1, ArrivedGrows
<1>2. CASE Crash
  BY <1>2, ArrivedAfterCrash
<1>3. CASE Loop /\ ~Crash
  <2>1. CASE Dequeue
    BY <2>1, ArrivedTaken
  <2>2. CASE ~Dequeue
    BY <1>3, <2>2, ArrivedLoop, ArrivedStays, ArrivedDropped
  <2> QED
    BY <2>1, <2>2
<1>4. ASSUME NEW kind, ~Crash, \/ Interrupt(kind) \/ SetInterrupting \/ StopIfIdle \/ Evicted
                               \/ Activate \/ UNCHANGED vars
      PROVE  OrderInv'
  <2>1. UNCHANGED <<queue, arrived, loop>>
    BY <1>4 DEF Interrupt, SetInterrupting, StopIfIdle, Evicted, Activate, vars, ghosts
  <2> QED
    BY <1>4, <2>1, ArrivedStays
<1> QED
  BY <1>1, <1>2, <1>3, <1>4 DEF Next

LEMMA InitOrder == Init => OrderInv
<1> SUFFICES ASSUME Init PROVE OrderInv
  OBVIOUS
<1>1. oplog = <<Entry("Create", None)>> /\ arrived = <<>> /\ queue = <<>>
  BY DEF Init
<1>2. DOMAIN oplog = {1} /\ oplog[1].kind = "Create"
  BY <1>1 DEF Entry
<1>3. \A k : ~Begun(k)
  BY <1>2 DEF Begun, InvokedIndexes
<1>4. EndsWith(arrived, queue, 0) /\ arrived \in Seq(Keys) /\ 1 .. 0 = {}
  BY <1>1 DEF EndsWith
<1> QED
  BY <1>3, <1>4 DEF OrderInv

LEMMA OrderIsInOrder ==
  ASSUME WorkerInv, OnceInv, OrderInv
  PROVE  InOrder
<1>0. queue \in Seq(Keys) /\ arrived \in Seq(Keys) /\ DOMAIN arrived = 1 .. Len(arrived)
  BY DEF WorkerInv, StateTypeOK, OrderInv
<1>1. PICK n : /\ EndsWith(arrived, queue, n)
               /\ \A i \in 1 .. n : \/ Begun(arrived[i])
                                    \/ i = n /\ loop.current = arrived[i] /\ At({"enter"})
  BY DEF OrderInv
<1>2. SUFFICES ASSUME NEW i \in 1 .. Len(arrived), NEW j \in 1 .. Len(arrived), i < j,
                      Begun(arrived[j])
               PROVE  Begun(arrived[i])
  BY <1>0 DEF InOrder
<1>3. arrived[j] \in Keys /\ ~Untaken(arrived[j])
  BY <1>0, <1>2 DEF OrderInv
<1>4. ~Contains(queue, arrived[j])
  BY <1>3 DEF OnceInv, Taken, Untaken
<1>5. j \in 1 .. n /\ n \in Nat
  BY <1>0, <1>1, <1>4, EndsSplit DEF EndsWith
<1> QED
  BY <1>1, <1>2, <1>5

(* With a key for every client, invocations are begun in the order in      *)
(* which they were enqueued, whether an invocation was enqueued in memory, *)
(* recorded first or recorded last, and over restarts and crashes.         *)
THEOREM WorkerBeginsInOrder ==
  ASSUME \A c, d \in Clients : KeyOf[c] = KeyOf[d] => c = d
  PROVE  Spec => []InOrder
<1>1. WorkerInv /\ RecordTypeOK /\ OrderInv /\ [Next]_vars => OrderInv'
  BY KeepOrder, RecordTyped
<1>2. WorkerInv /\ OnceInv /\ OrderInv => InOrder
  BY OrderIsInOrder
<1> QED
  BY <1>1, <1>2, InitOrder, WorkerInvariant, OnceInvariant, PTL DEF Spec
=============================================================================
