------------------------ MODULE MultiLayerOplogProofs ------------------------
(***************************************************************************)
(* Proofs about the layered oplog, for every number of archives and every  *)
(* limit.                                                                  *)
(***************************************************************************)
EXTENDS MultiLayerOplog, IndexLemmas

(* The part of the state that writing and moving entries is about.         *)
StateTypeOK ==
  /\ log \in Seq(Entries) /\ buffer \in Seq(Entries)
  /\ open \in BOOLEAN /\ enqueuing \in BOOLEAN
  /\ writing \in {"no", "add", "flush", "commit"}
  /\ last_oplog_idx \in Nat /\ last_committed_idx \in Nat
  /\ queue \in Seq(Messages) /\ msg \in Messages
  /\ fiber \in {"idle", "append", "drop", "measure", "count", "panicked"}
  /\ DOMAIN archive = Archives

(* The indexes under which the layers store rows and chunks.               *)
Keys == [l \in Layers |-> IF l = 0 THEN DOMAIN primary ELSE DOMAIN archive[l]]

(* A copy of written entries.                                              *)
CopyOfLog(f) == \A i \in DOMAIN f : i \in 1..Len(log) /\ f[i] = log[i]

CopiesRight ==
  /\ CopyOfLog(primary)
  /\ \A l \in Archives : \A k \in DOMAIN archive[l] :
       k \in 1..Len(log) /\ CopyOfLog(archive[l][k])
  /\ CopyOfLog(moving)

(* The rows of the primary oplog reach to the end of the log.              *)
PrimaryToEnd == \A i \in DOMAIN primary : i .. Len(log) \subseteq DOMAIN primary

(* The last index is stored, and a layer that is not empty reaches as far  *)
(* as every layer below it.                                                *)
EndStored(K, n) == n # 0 => \E l \in Layers : n \in K[l]
UpperReachesFurther(K) == \A s, t \in Layers : s < t /\ K[s] # {} =>
  \A k \in K[t] : \E j \in K[s] : k <= j

(* No layer below s reaches further than k.                                *)
BelowUpTo(K, s, k) == \A t \in Layers : t > s => \A j \in K[t] : j <= k

(* Later messages of a source ask for k and more.                          *)
LaterAskMore(q, s, k) == \A x \in DOMAIN q : q[x].source = s => k <= q[x].upto

(* Messages of a source ask for more and more, never for less than the     *)
(* layers below it have already.                                           *)
QueueOK(q, K, last) ==
  /\ \A x \in DOMAIN q : BelowUpTo(K, q[x].source, q[x].upto)
  /\ \A x, y \in DOMAIN q : x < y /\ q[x].source = q[y].source => q[x].upto <= q[y].upto
  /\ \A x \in DOMAIN q : q[x].source = 0 => q[x].upto <= last
  /\ \A x \in DOMAIN q : q[x].source # 0 =>
       \E t \in Layers : t >= q[x].source /\ \E k \in K[t] : q[x].upto <= k

(* What is being moved reaches as far as the layers below, not further     *)
(* than its source, nor further than what later messages ask for.          *)
MovingInv ==
  fiber \in {"append", "drop"} =>
    /\ msg.source < NumLower
    /\ DroppedIndex \in DOMAIN moving /\ \A i \in DOMAIN moving : i <= DroppedIndex
    /\ LaterAskMore(queue, msg.source, DroppedIndex)
    /\ fiber = "append" => /\ BelowUpTo(Keys, msg.source, DroppedIndex)
                           /\ \E k \in Keys[msg.source] : DroppedIndex <= k
    /\ fiber = "drop" => DroppedIndex \in Keys[msg.source + 1]

OpenInv ==
  /\ open => last_committed_idx = Len(log) /\ last_oplog_idx = Len(log) + Len(buffer)
  /\ ~open => buffer = <<>> /\ queue = <<>> /\ fiber = "idle" /\ writing = "no" /\ ~enqueuing

IndexInv ==
  /\ StateTypeOK /\ OpenInv /\ CopiesRight /\ PrimaryToEnd
  /\ EndStored(Keys, Len(log)) /\ UpperReachesFurther(Keys)
  /\ QueueOK(queue, Keys, last_oplog_idx) /\ MovingInv

-----------------------------------------------------------------------------
(* The greatest index of a set.                                            *)
LEMMA LastOfIsGreatest ==
  ASSUME NEW n \in Nat, NEW S \in SUBSET (1..n)
  PROVE  /\ LastOf(S) \in Nat /\ LastOf(S) <= n
         /\ S = {} <=> LastOf(S) = 0
         /\ S # {} => LastOf(S) \in S
         /\ \A i \in S : i <= LastOf(S)
<1>1. CASE S = {}
  BY <1>1 DEF LastOf
<1>2. CASE S # {}
  <2>1. S \in SUBSET Nat /\ \A i \in S : i \in Nat /\ i <= n /\ i # 0
    OBVIOUS
  <2>2. \E m \in S : \A i \in S : i <= m
    BY <1>2, <2>1, GreatestIndex
  <2>3. LastOf(S) = CHOOSE m \in S : \A i \in S : i <= m
    BY <1>2 DEF LastOf
  <2>4. LastOf(S) \in S /\ \A i \in S : i <= LastOf(S)
    BY <2>2, <2>3
  <2> QED
    BY <1>2, <2>1, <2>4
<1> QED
  BY <1>1, <1>2

(* The greatest index is the one that is at least as great as all others.  *)
LEMMA LastOfUnique ==
  ASSUME NEW n \in Nat, NEW S \in SUBSET (1..n), NEW m \in S, \A i \in S : i <= m
  PROVE  LastOf(S) = m
<1>1. LastOf(S) \in S /\ \A i \in S : i <= LastOf(S)
  BY LastOfIsGreatest
<1>2. LastOf(S) \in Nat /\ m \in Nat
  <2>1. S \subseteq Nat
    OBVIOUS
  <2> QED
    BY <1>1, <2>1
<1>3. m <= LastOf(S) /\ LastOf(S) <= m
  BY <1>1
<1> QED
  BY <1>2, <1>3

LEMMA LayersAre ==
  /\ NumLower \in Nat \ {0} /\ Layers \subseteq Nat /\ 0 \in Layers
  /\ Archives \subseteq Layers /\ \A l \in Layers : l # 0 => l \in Archives
  /\ \A l \in Layers : l < NumLower => l + 1 \in Archives /\ l + 1 \in Layers
BY OplogAssumption DEF Layers, Archives

(* What a message of the queue is.                                         *)
LEMMA MessageFields ==
  ASSUME NEW q \in Seq(Messages), NEW x \in DOMAIN q
  PROVE  /\ q[x] \in Messages
         /\ q[x].source \in Layers /\ q[x].source \in Nat /\ q[x].upto \in Nat
<1>1. q[x] \in Messages
  OBVIOUS
<1>2. q[x].source \in Layers /\ q[x].upto \in Nat
  BY <1>1 DEF Messages
<1> QED
  BY <1>1, <1>2, LayersAre

KeySets(n) == [Layers -> SUBSET (1..n)]

-----------------------------------------------------------------------------
(* What writing, appending and dropping do to the keys of the layers.      *)

(* A row is written.                                                       *)
LEMMA WriteKeys ==
  ASSUME NEW n \in Nat, NEW K \in KeySets(n), UpperReachesFurther(K),
         NEW q \in Seq(Messages), NEW last \in Nat, QueueOK(q, K, last),
         NEW K2 \in KeySets(n + 1), K2[0] = K[0] \cup {n + 1},
         \A l \in Layers : l # 0 => K2[l] = K[l]
  PROVE  /\ UpperReachesFurther(K2) /\ EndStored(K2, n + 1)
         /\ QueueOK(q, K2, last)
         /\ \A s \in Layers : K[s] \subseteq K2[s]
         /\ \A s \in Layers : \A k : BelowUpTo(K, s, k) => BelowUpTo(K2, s, k)
<1>1. n + 1 \in K2[0]
  OBVIOUS
<1>2. /\ \A l \in Layers : K[l] \subseteq K2[l]
      /\ \A l \in Layers : l # 0 => K2[l] = K[l]
  BY LayersAre DEF KeySets
<1>3. EndStored(K2, n + 1)
  BY <1>1, LayersAre DEF EndStored
<1>4. UpperReachesFurther(K2)
  <2> SUFFICES ASSUME NEW s \in Layers, NEW t \in Layers, s < t, K2[s] # {}, NEW k \in K2[t]
               PROVE  \E j \in K2[s] : k <= j
    BY DEF UpperReachesFurther
  <2>1. t # 0 /\ k \in K[t] /\ k <= n + 1
    BY <1>2, LayersAre DEF KeySets
  <2>2. CASE s = 0
    BY <1>1, <2>1, <2>2
  <2>3. CASE s # 0
    BY <1>2, <2>1, <2>3 DEF UpperReachesFurther
  <2> QED
    BY <2>2, <2>3
<1>5. ASSUME NEW s \in Layers, NEW k, BelowUpTo(K, s, k) PROVE BelowUpTo(K2, s, k)
  BY <1>2, <1>5, LayersAre DEF BelowUpTo
<1>6. QueueOK(q, K2, last)
  <2>1. \A x \in DOMAIN q : q[x].source \in Layers
    BY MessageFields
  <2>2. \A x \in DOMAIN q : BelowUpTo(K2, q[x].source, q[x].upto)
    BY <1>5, <2>1 DEF QueueOK
  <2>3. \A x \in DOMAIN q : q[x].source # 0 =>
          \E t \in Layers : t >= q[x].source /\ \E k \in K2[t] : q[x].upto <= k
    BY <1>2 DEF QueueOK
  <2> QED
    BY <2>2, <2>3 DEF QueueOK
<1> QED
  BY <1>1, <1>2, <1>3, <1>4, <1>5, <1>6

(* A chunk is appended below the layer s.                                  *)
LEMMA AppendKeys ==
  ASSUME NEW n \in Nat, NEW K \in KeySets(n), UpperReachesFurther(K), EndStored(K, n),
         NEW q \in Seq(Messages), NEW last \in Nat, QueueOK(q, K, last),
         NEW s \in Layers, s < NumLower, NEW k \in 1..n,
         BelowUpTo(K, s, k), \E j \in K[s] : k <= j, LaterAskMore(q, s, k),
         NEW K2 \in KeySets(n), K2[s + 1] = K[s + 1] \cup {k},
         \A l \in Layers : l # s + 1 => K2[l] = K[l]
  PROVE  /\ UpperReachesFurther(K2) /\ EndStored(K2, n)
         /\ QueueOK(q, K2, last) /\ k \in K2[s + 1]
         /\ BelowUpTo(K2, s + 1, k)
         /\ LaterAskMore(q, s + 1, 0)
         /\ \A x \in DOMAIN q : q[x].source = s + 1 => q[x].upto <= k
<1>0. s \in Nat /\ s + 1 \in Layers /\ s + 1 # 0
  BY LayersAre
<1>1. K2 \in KeySets(n) /\ k \in K2[s + 1]
  BY <1>0 DEF KeySets
<1>2. /\ \A l \in Layers : K[l] \subseteq K2[l]
      /\ \A l \in Layers : l # s + 1 => K2[l] = K[l]
      /\ K2[s + 1] = K[s + 1] \cup {k}
  BY <1>0 DEF KeySets
<1>3. EndStored(K2, n)
  BY <1>2 DEF EndStored
<1>4. UpperReachesFurther(K2)
  <2> SUFFICES ASSUME NEW u \in Layers, NEW t \in Layers, u < t, K2[u] # {}, NEW i \in K2[t]
               PROVE  \E j \in K2[u] : i <= j
    BY DEF UpperReachesFurther
  <2>0. u \in Nat /\ t \in Nat /\ i \in Nat
    BY <1>1, LayersAre DEF KeySets
  <2>1. CASE u = s + 1
    <3>1. i \in K[t] /\ t > s
      BY <1>0, <1>2, <2>0, <2>1
    <3>2. i <= k
      BY <3>1 DEF BelowUpTo
    <3> QED
      BY <1>1, <2>1, <3>2
  <2>2. CASE u # s + 1 /\ i \in K[t]
    BY <1>2, <2>2 DEF UpperReachesFurther
  <2>3. CASE u # s + 1 /\ t = s + 1 /\ i = k
    <3>1. PICK j \in K[s] : k <= j
      OBVIOUS
    <3>2. K[u] # {} /\ u <= s
      BY <1>0, <1>2, <2>0, <2>3
    <3>3. CASE u = s
      BY <1>2, <2>3, <3>1, <3>3
    <3>4. CASE u < s
      <4>1. PICK h \in K[u] : j <= h
        BY <3>1, <3>2, <3>4 DEF UpperReachesFurther
      <4>2. h \in Nat /\ j \in Nat /\ k \in Nat
        BY <3>1, <4>1 DEF KeySets
      <4> QED
        BY <1>2, <2>3, <3>1, <4>1, <4>2
    <3> QED
      BY <1>0, <2>0, <3>2, <3>3, <3>4
  <2> QED
    BY <1>2, <2>1, <2>2, <2>3
<1>5. BelowUpTo(K2, s + 1, k)
  BY <1>0, <1>2, LayersAre DEF BelowUpTo
<1>6. QueueOK(q, K2, last)
  <2>1. ASSUME NEW x \in DOMAIN q PROVE BelowUpTo(K2, q[x].source, q[x].upto)
    <3> SUFFICES ASSUME NEW t \in Layers, t > q[x].source, NEW j \in K2[t]
                 PROVE  j <= q[x].upto
      BY DEF BelowUpTo
    <3>0. q[x].source \in Nat /\ q[x].source \in Layers /\ q[x].upto \in Nat /\ t \in Nat
      BY MessageFields, LayersAre
    <3>1. CASE j \in K[t]
      BY <3>1 DEF QueueOK, BelowUpTo
    <3>2. CASE t = s + 1 /\ j = k /\ q[x].source = s
      BY <3>2 DEF LaterAskMore
    <3>3. CASE t = s + 1 /\ j = k /\ q[x].source < s
      <4>1. PICK h \in K[s] : k <= h
        OBVIOUS
      <4>2. h <= q[x].upto /\ h \in Nat
        BY <3>3, <4>1 DEF QueueOK, BelowUpTo, KeySets
      <4> QED
        BY <3>0, <3>3, <4>1, <4>2
    <3> QED
      BY <1>0, <1>2, <3>0, <3>1, <3>2, <3>3
  <2>2. \A x \in DOMAIN q : q[x].source # 0 =>
          \E t \in Layers : t >= q[x].source /\ \E j \in K2[t] : q[x].upto <= j
    BY <1>2 DEF QueueOK
  <2> QED
    BY <2>1, <2>2 DEF QueueOK
<1>7. \A x \in DOMAIN q : q[x].upto \in Nat
  BY MessageFields
<1>8. ASSUME NEW x \in DOMAIN q, q[x].source = s + 1 PROVE q[x].upto <= k
  <2>1. PICK t \in Layers : t >= s + 1 /\ \E j \in K[t] : q[x].upto <= j
    BY <1>0, <1>8 DEF QueueOK
  <2>2. PICK j \in K[t] : q[x].upto <= j
    BY <2>1
  <2>3. t > s /\ j \in Nat
    <3>1. t \in Nat /\ K[t] \subseteq 1..n
      BY LayersAre DEF KeySets
    <3> QED
      BY <1>0, <2>1, <2>2, <3>1
  <2>4. j <= k
    BY <2>2, <2>3 DEF BelowUpTo
  <2> QED
    BY <1>7, <2>2, <2>3, <2>4
<1>9. LaterAskMore(q, s + 1, 0)
  BY <1>7 DEF LaterAskMore
<1> QED
  BY <1>1, <1>3, <1>4, <1>5, <1>6, <1>8, <1>9

(* The keys up to d are dropped from a layer whose next one has d.         *)
LEMMA DropKeys ==
  ASSUME NEW n \in Nat, NEW K \in KeySets(n), UpperReachesFurther(K), EndStored(K, n),
         NEW q \in Seq(Messages), NEW last \in Nat, QueueOK(q, K, last),
         NEW s \in Layers, s < NumLower, NEW d \in K[s + 1],
         NEW K2 \in KeySets(n), K2[s] = {j \in K[s] : j > d},
         \A l \in Layers : l # s => K2[l] = K[l]
  PROVE  /\ UpperReachesFurther(K2) /\ EndStored(K2, n)
         /\ QueueOK(q, K2, last)
<1>0. s \in Nat /\ s + 1 \in Layers /\ s + 1 # s /\ d \in Nat /\ d <= n
  BY LayersAre DEF KeySets
<1>1. /\ K2 \in KeySets(n)
      /\ \A l \in Layers : K2[l] \subseteq K[l]
      /\ \A l \in Layers : l # s => K2[l] = K[l]
      /\ \A j \in K[s] : j > d => j \in K2[s]
  BY DEF KeySets
<1>2. EndStored(K2, n)
  <2> SUFFICES ASSUME n # 0 PROVE \E l \in Layers : n \in K2[l]
    BY DEF EndStored
  <2>1. PICK l \in Layers : n \in K[l]
    BY DEF EndStored
  <2>2. CASE l = s /\ n <= d
    <3>1. d = n
      BY <1>0, <2>2
    <3> QED
      BY <1>0, <1>1, <3>1
  <2>3. CASE l # s \/ n > d
    BY <1>1, <2>1, <2>3
  <2> QED
    BY <1>0, <2>2, <2>3
<1>3. UpperReachesFurther(K2)
  <2> SUFFICES ASSUME NEW u \in Layers, NEW t \in Layers, u < t, K2[u] # {}, NEW i \in K2[t]
               PROVE  \E j \in K2[u] : i <= j
    BY DEF UpperReachesFurther
  <2>1. PICK j \in K[u] : i <= j
    BY <1>1 DEF UpperReachesFurther
  <2>2. PICK h \in K2[u] : TRUE
    OBVIOUS
  <2>3. i \in Nat /\ j \in Nat /\ h \in Nat
    BY <1>1, <2>1, <2>2 DEF KeySets
  <2>4. CASE u # s \/ j > d
    BY <1>1, <2>1, <2>4
  <2>5. CASE u = s /\ j <= d
    <3>1. h > d
      BY <2>2, <2>5 DEF KeySets
    <3> QED
      BY <1>0, <2>1, <2>2, <2>3, <2>5, <3>1
  <2> QED
    BY <1>0, <2>3, <2>4, <2>5
<1>4. QueueOK(q, K2, last)
  <2>1. \A x \in DOMAIN q : BelowUpTo(K2, q[x].source, q[x].upto)
    BY <1>1 DEF QueueOK, BelowUpTo
  <2>2. ASSUME NEW x \in DOMAIN q, q[x].source # 0
        PROVE  \E t \in Layers : t >= q[x].source /\ \E j \in K2[t] : q[x].upto <= j
    <3>0. q[x].source \in Nat /\ q[x].upto \in Nat
      BY MessageFields
    <3>1. PICK t \in Layers : t >= q[x].source /\ \E j \in K[t] : q[x].upto <= j
      BY <2>2 DEF QueueOK
    <3>2. PICK j \in K[t] : q[x].upto <= j
      BY <3>1
    <3>3. j \in Nat /\ t \in Nat
      BY <3>2, LayersAre DEF KeySets
    <3>4. CASE t # s \/ j > d
      BY <1>1, <3>1, <3>2, <3>4
    <3>5. CASE t = s /\ j <= d
      <4>1. s + 1 >= q[x].source /\ q[x].upto <= d
        BY <1>0, <3>0, <3>1, <3>2, <3>3, <3>5
      <4> QED
        BY <1>0, <1>1, <4>1
    <3> QED
      BY <1>0, <3>3, <3>4, <3>5
  <2> QED
    BY <2>1, <2>2 DEF QueueOK
<1> QED
  BY <1>1, <1>2, <1>3, <1>4

-----------------------------------------------------------------------------
(* What sending and taking a message does to the queue.                    *)

LEMMA EmptyQueue ==
  ASSUME NEW K, NEW last PROVE QueueOK(<<>>, K, last)
BY DEF QueueOK

LEMMA QueueWithLater ==
  ASSUME NEW q \in Seq(Messages), NEW K, NEW last \in Nat, NEW later \in Nat,
         last <= later, QueueOK(q, K, last)
  PROVE  QueueOK(q, K, later)
<1>1. \A x \in DOMAIN q : q[x].source = 0 => q[x].upto <= later
  <2> SUFFICES ASSUME NEW x \in DOMAIN q, q[x].source = 0 PROVE q[x].upto <= later
    OBVIOUS
  <2>1. q[x].upto <= last /\ q[x].upto \in Nat
    BY MessageFields DEF QueueOK
  <2> QED
    BY <2>1
<1> QED
  BY <1>1 DEF QueueOK

LEMMA SendQueue ==
  ASSUME NEW q \in Seq(Messages), NEW K, NEW last \in Nat, QueueOK(q, K, last),
         NEW m \in Messages, BelowUpTo(K, m.source, m.upto),
         \A x \in DOMAIN q : q[x].source = m.source => q[x].upto <= m.upto,
         m.source = 0 => m.upto <= last,
         m.source # 0 => \E t \in Layers : t >= m.source /\ \E k \in K[t] : m.upto <= k
  PROVE  QueueOK(Append(q, m), K, last)
<1> DEFINE r == Append(q, m)
<1>1. /\ Len(q) \in Nat /\ DOMAIN q = 1..Len(q)
      /\ DOMAIN r = DOMAIN q \cup {Len(q) + 1}
      /\ \A x \in DOMAIN q : r[x] = q[x]
      /\ r[Len(q) + 1] = m
  BY AppendEntries
<1> HIDE DEF r
<1>2. \A x \in DOMAIN r : BelowUpTo(K, r[x].source, r[x].upto)
  BY <1>1 DEF QueueOK
<1>3. ASSUME NEW x \in DOMAIN r, NEW y \in DOMAIN r, x < y, r[x].source = r[y].source
      PROVE  r[x].upto <= r[y].upto
  <2>1. x \in DOMAIN q
    BY <1>1, <1>3
  <2> QED
    BY <1>1, <1>3, <2>1 DEF QueueOK
<1>4. \A x \in DOMAIN r : r[x].source = 0 => r[x].upto <= last
  BY <1>1 DEF QueueOK
<1>5. \A x \in DOMAIN r : r[x].source # 0 =>
        \E t \in Layers : t >= r[x].source /\ \E k \in K[t] : r[x].upto <= k
  BY <1>1 DEF QueueOK
<1>6. QueueOK(r, K, last)
  BY <1>2, <1>3, <1>4, <1>5 DEF QueueOK
<1> QED
  BY <1>6 DEF r

LEMMA SendAsksMore ==
  ASSUME NEW q \in Seq(Messages), NEW s, NEW k, LaterAskMore(q, s, k),
         NEW m \in Messages, m.source = s => k <= m.upto
  PROVE  LaterAskMore(Append(q, m), s, k)
BY AppendEntries DEF LaterAskMore

LEMMA TakeQueue ==
  ASSUME NEW q \in Seq(Messages), q # <<>>, NEW K, NEW last \in Nat, QueueOK(q, K, last)
  PROVE  /\ Head(q) \in Messages /\ Head(q).source \in Layers
         /\ Head(q).source \in Nat /\ Head(q).upto \in Nat
         /\ Tail(q) \in Seq(Messages) /\ QueueOK(Tail(q), K, last)
         /\ BelowUpTo(K, Head(q).source, Head(q).upto)
         /\ LaterAskMore(Tail(q), Head(q).source, Head(q).upto)
<1> DEFINE r == Tail(q)
<1>1. /\ r \in Seq(Messages) /\ Head(q) = q[1] /\ 1 \in DOMAIN q
      /\ \A x \in DOMAIN r : x + 1 \in DOMAIN q /\ r[x] = q[x + 1]
  BY TailEntries
<1>2. \A x \in DOMAIN r : x \in Nat /\ x >= 1
  BY <1>1
<1> HIDE DEF r
<1>3. /\ Head(q) \in Messages /\ Head(q).source \in Layers
      /\ Head(q).source \in Nat /\ Head(q).upto \in Nat
  BY <1>1, MessageFields
<1>4. QueueOK(r, K, last)
  <2>1. \A x \in DOMAIN r : BelowUpTo(K, r[x].source, r[x].upto)
    BY <1>1 DEF QueueOK
  <2>2. ASSUME NEW x \in DOMAIN r, NEW y \in DOMAIN r, x < y, r[x].source = r[y].source
        PROVE  r[x].upto <= r[y].upto
    <3>1. x + 1 < y + 1 /\ x + 1 \in DOMAIN q /\ y + 1 \in DOMAIN q
      BY <1>1, <1>2, <2>2
    <3> QED
      BY <1>1, <2>2, <3>1 DEF QueueOK
  <2>3. \A x \in DOMAIN r : r[x].source = 0 => r[x].upto <= last
    BY <1>1 DEF QueueOK
  <2>4. \A x \in DOMAIN r : r[x].source # 0 =>
          \E t \in Layers : t >= r[x].source /\ \E k \in K[t] : r[x].upto <= k
    BY <1>1 DEF QueueOK
  <2> QED
    BY <2>1, <2>2, <2>3, <2>4 DEF QueueOK
<1>5. BelowUpTo(K, Head(q).source, Head(q).upto)
  BY <1>1 DEF QueueOK
<1>6. LaterAskMore(r, Head(q).source, Head(q).upto)
  <2> SUFFICES ASSUME NEW x \in DOMAIN r, r[x].source = Head(q).source
               PROVE  Head(q).upto <= r[x].upto
    BY DEF LaterAskMore
  <2>1. 1 < x + 1 /\ x + 1 \in DOMAIN q
    BY <1>1, <1>2
  <2> QED
    BY <1>1, <2>1 DEF QueueOK
<1>7. r \in Seq(Messages) /\ QueueOK(r, K, last) /\ LaterAskMore(r, Head(q).source, Head(q).upto)
  BY <1>1, <1>4, <1>6
<1> QED
  BY <1>3, <1>5, <1>7 DEF r

-----------------------------------------------------------------------------
(* The invariant holds at first, and what it says of a state.              *)

LEMMA InitIndex == Init => IndexInv
<1> SUFFICES ASSUME Init PROVE IndexInv
  OBVIOUS
<1>1. StateTypeOK
  <2>1. NoMessage \in Messages
    BY LayersAre DEF NoMessage, Messages
  <2>2. log \in Seq(Entries) /\ buffer \in Seq(Entries) /\ queue \in Seq(Messages)
    BY DEF Init
  <2>3. DOMAIN archive = Archives /\ last_oplog_idx \in Nat /\ last_committed_idx \in Nat
    BY DEF Init
  <2> QED
    BY <2>1, <2>2, <2>3 DEF Init, StateTypeOK
<1>2. \A l \in Layers : Keys[l] = {}
  BY LayersAre DEF Keys, Init, Nothing
<1>3. OpenInv /\ MovingInv
  BY DEF OpenInv, MovingInv, Init
<1>4. CopiesRight /\ PrimaryToEnd
  BY DEF CopiesRight, CopyOfLog, PrimaryToEnd, Init, Nothing
<1>5. EndStored(Keys, Len(log)) /\ UpperReachesFurther(Keys)
  BY <1>2 DEF EndStored, UpperReachesFurther, Init
<1>6. QueueOK(queue, Keys, last_oplog_idx)
  BY EmptyQueue DEF Init
<1> QED
  BY <1>1, <1>3, <1>4, <1>5, <1>6 DEF IndexInv

LEMMA KeysAre ==
  /\ DOMAIN Keys = Layers /\ Keys[0] = DOMAIN primary
  /\ \A l \in Archives : Keys[l] = DOMAIN archive[l]
  /\ \A l \in Layers : LastIndexOf(l) = LastOf(Keys[l])
<1>1. \A l \in Archives : l # 0 /\ l \in Layers
  BY DEF Archives, Layers
<1> QED
  BY <1>1, LayersAre DEF Keys, LastIndexOf

LEMMA KeysBounded ==
  ASSUME StateTypeOK, CopiesRight
  PROVE  Keys \in KeySets(Len(log)) /\ Len(log) \in Nat
<1>1. Len(log) \in Nat
  BY DEF StateTypeOK
<1>2. \A l \in Layers : Keys[l] \subseteq 1..Len(log)
  BY KeysAre, LayersAre DEF CopiesRight, CopyOfLog
<1>3. Keys = [l \in Layers |-> Keys[l]]
  BY DEF Keys
<1> QED
  BY <1>1, <1>2, <1>3 DEF KeySets

(* The layers end where the log does.                                      *)
LEMMA LastIndexIsEnd ==
  ASSUME IndexInv
  PROVE  /\ Exists => LastIndex = Len(log)
         /\ ~Exists => Len(log) = 0 /\ \A l \in Layers : Keys[l] = {}
<1> DEFINE n == Len(log)
<1>1. Keys \in KeySets(n) /\ n \in Nat
  BY KeysBounded DEF IndexInv
<1>2. \A l \in Layers : /\ Keys[l] = {} <=> LastIndexOf(l) = 0
                        /\ Keys[l] # {} => LastIndexOf(l) \in Keys[l]
                        /\ \A i \in Keys[l] : i <= LastIndexOf(l)
                        /\ LastIndexOf(l) \in Nat /\ LastIndexOf(l) <= n
  BY <1>1, KeysAre, LastOfIsGreatest DEF KeySets
<1> HIDE DEF n
<1>3. EndStored(Keys, n) /\ UpperReachesFurther(Keys)
  BY DEF IndexInv, n
<1>4. ~Exists => n = 0 /\ \A l \in Layers : Keys[l] = {}
  BY <1>2, <1>3 DEF Exists, EndStored
<1>5. ASSUME Exists PROVE LastIndex = n
  <2> DEFINE S == {l \in Layers : LastIndexOf(l) # 0}
  <2>1. S # {} /\ S \in SUBSET Nat
    BY <1>5, LayersAre DEF Exists
  <2>2. PICK l \in S : \A m \in S : l <= m
    BY <2>1, LeastIndex
  <2>3. l \in Layers /\ IsFirstNonEmpty(l)
    <3>1. \A m \in 0 .. l - 1 : m \in Layers /\ m < l
      BY <2>1, <2>2, LayersAre DEF Layers
    <3>2. \A m \in 0 .. l - 1 : LastIndexOf(m) = 0
      BY <2>1, <2>2, <3>1, LayersAre
    <3> QED
      BY <2>2, <3>2 DEF IsFirstNonEmpty
  <2> DEFINE f == CHOOSE x \in Layers : IsFirstNonEmpty(x)
  <2>4. f \in Layers /\ IsFirstNonEmpty(f)
    BY <2>3
  <2>5. LastIndex = LastIndexOf(f)
    BY DEF LastIndex
  <2> HIDE DEF f
  <2>6. LastIndexOf(f) # 0 /\ Keys[f] # {} /\ f \in Nat
    BY <1>2, <2>4, LayersAre DEF IsFirstNonEmpty
  <2>7. n # 0
    BY <1>1, <1>2, <2>4, <2>6
  <2>8. PICK t \in Layers : n \in Keys[t]
    BY <1>3, <2>7 DEF EndStored
  <2>9. t \in Nat /\ t >= f
    <3>1. t \in Nat /\ LastIndexOf(t) # 0
      BY <1>2, <2>8, LayersAre
    <3>2. t \notin 0 .. f - 1
      BY <2>4, <3>1 DEF IsFirstNonEmpty
    <3> QED
      BY <2>6, <3>1, <3>2
  <2>10. n <= LastIndexOf(f)
    <3>1. CASE t = f
      BY <1>2, <2>8, <3>1
    <3>2. CASE t > f
      <4>1. PICK j \in Keys[f] : n <= j
        BY <1>3, <2>4, <2>6, <2>8, <3>2 DEF UpperReachesFurther
      <4>2. j <= LastIndexOf(f) /\ j \in Nat
        BY <1>1, <1>2, <2>4, <4>1 DEF KeySets
      <4> QED
        BY <1>1, <1>2, <2>4, <4>1, <4>2
    <3> QED
      BY <2>6, <2>9, <3>1, <3>2
  <2> QED
    BY <1>1, <1>2, <2>4, <2>5, <2>10
<1> QED
  BY <1>4, <1>5 DEF n

(* The last index of an archive, and of what it and the layers below have. *)
LEMMA ArchiveEnd ==
  ASSUME NEW n \in Nat, NEW K \in KeySets(n), UpperReachesFurther(K),
         NEW l \in Layers, K[l] # {}
  PROVE  /\ LastOf(K[l]) \in K[l] /\ LastOf(K[l]) \in 1..n
         /\ \A i \in K[l] : i <= LastOf(K[l])
         /\ \A t \in Layers : t >= l => \A k \in K[t] : k <= LastOf(K[l])
<1>1. /\ K[l] \in SUBSET (1..n) /\ LastOf(K[l]) \in K[l] /\ LastOf(K[l]) \in Nat
      /\ \A i \in K[l] : i <= LastOf(K[l])
  BY LastOfIsGreatest DEF KeySets
<1>2. ASSUME NEW t \in Layers, t >= l, NEW k \in K[t] PROVE k <= LastOf(K[l])
  <2>1. CASE t = l
    BY <1>1, <1>2, <2>1
  <2>2. CASE t # l
    <3>1. l < t
      BY <1>2, <2>2, LayersAre
    <3>2. PICK j \in K[l] : k <= j
      BY <1>2, <3>1 DEF UpperReachesFurther
    <3>3. j <= LastOf(K[l]) /\ j \in Nat /\ k \in Nat
      BY <1>1, <1>2, <3>2 DEF KeySets
    <3> QED
      BY <1>1, <3>2, <3>3
  <2> QED
    BY <2>1, <2>2
<1> QED
  BY <1>1, <1>2

-----------------------------------------------------------------------------
(* Every step keeps it.                                                    *)

(* Steps that leave the layers, the queue and the transfer alone.          *)
LEMMA RestIndex ==
  ASSUME IndexInv, StateTypeOK', OpenInv',
         UNCHANGED <<storage, log, queue, fiber, msg, moving>>,
         last_oplog_idx <= last_oplog_idx' \/ queue = <<>>
  PROVE  IndexInv'
<1>1. /\ primary' = primary /\ archive' = archive /\ log' = log /\ queue' = queue
      /\ fiber' = fiber /\ msg' = msg /\ moving' = moving /\ Keys' = Keys
  BY DEF storage, Keys
<1>2. CopiesRight' /\ PrimaryToEnd'
  BY <1>1 DEF IndexInv, CopiesRight, CopyOfLog, PrimaryToEnd
<1>3. EndStored(Keys', Len(log')) /\ UpperReachesFurther(Keys')
  BY <1>1 DEF IndexInv
<1>4. QueueOK(queue', Keys', last_oplog_idx')
  <2>1. CASE queue = <<>>
    BY <1>1, <2>1, EmptyQueue
  <2>2. CASE last_oplog_idx <= last_oplog_idx'
    <3>1. queue \in Seq(Messages) /\ last_oplog_idx \in Nat /\ last_oplog_idx' \in Nat
      BY DEF IndexInv, StateTypeOK
    <3> QED
      BY <1>1, <2>2, <3>1, QueueWithLater DEF IndexInv
  <2> QED
    BY <2>1, <2>2
<1>5. MovingInv'
  BY <1>1 DEF IndexInv, MovingInv, DroppedIndex
<1> QED
  BY <1>2, <1>3, <1>4, <1>5 DEF IndexInv

(* Steps after which nothing is being moved.                               *)
LEMMA IdleIndex ==
  ASSUME IndexInv, StateTypeOK', OpenInv', UNCHANGED <<storage, log>>,
         fiber' \notin {"append", "drop"}, moving' = Nothing \/ moving' = moving,
         (queue' = queue /\ last_oplog_idx' = last_oplog_idx) \/ queue' = <<>>
  PROVE  IndexInv'
<1>1. /\ primary' = primary /\ archive' = archive /\ log' = log /\ Keys' = Keys
  BY DEF storage, Keys
<1>2. CopiesRight' /\ PrimaryToEnd'
  BY <1>1 DEF IndexInv, CopiesRight, CopyOfLog, PrimaryToEnd, Nothing
<1>3. EndStored(Keys', Len(log')) /\ UpperReachesFurther(Keys')
  BY <1>1 DEF IndexInv
<1>4. QueueOK(queue', Keys', last_oplog_idx')
  BY <1>1, EmptyQueue DEF IndexInv
<1>5. MovingInv'
  BY DEF MovingInv
<1> QED
  BY <1>2, <1>3, <1>4, <1>5 DEF IndexInv

(* A row is written.                                                       *)
LEMMA RowIndex ==
  ASSUME IndexInv, StateTypeOK', OpenInv', NEW e \in Entries,
         primary' = [i \in DOMAIN primary \cup {Len(log) + 1} |->
                       IF i \in DOMAIN primary THEN primary[i] ELSE e],
         log' = Append(log, e), UNCHANGED <<archive, queue, fiber, msg, moving>>,
         last_oplog_idx' = last_oplog_idx \/ queue = <<>>
  PROVE  IndexInv'
<1> DEFINE n == Len(log)
<1>1. Keys \in KeySets(n) /\ n \in Nat
  BY KeysBounded DEF IndexInv
<1>2. /\ Len(log') = n + 1 /\ \A i \in 1..n : log'[i] = log[i] /\ log'[n + 1] = e
  BY DEF IndexInv, StateTypeOK
<1>3. /\ Keys'[0] = Keys[0] \cup {n + 1}
      /\ \A l \in Layers : l # 0 => Keys'[l] = Keys[l]
      /\ Keys' \in KeySets(n + 1)
  <2>1. /\ Keys'[0] = Keys[0] \cup {n + 1}
        /\ \A l \in Layers : l # 0 => Keys'[l] = Keys[l]
    BY LayersAre DEF Keys
  <2>2. \A l \in Layers : Keys'[l] \in SUBSET (1..(n + 1))
    BY <1>1, <2>1, LayersAre DEF KeySets
  <2>3. Keys' = [l \in Layers |-> Keys'[l]]
    BY DEF Keys
  <2> QED
    BY <2>1, <2>2, <2>3 DEF KeySets
<1>4. queue \in Seq(Messages) /\ last_oplog_idx \in Nat /\ queue' = queue
  BY DEF IndexInv, StateTypeOK
<1>5. /\ UpperReachesFurther(Keys') /\ EndStored(Keys', n + 1)
      /\ QueueOK(queue, Keys', last_oplog_idx)
      /\ \A s \in Layers : Keys[s] \subseteq Keys'[s]
      /\ \A s \in Layers : \A k : BelowUpTo(Keys, s, k) => BelowUpTo(Keys', s, k)
  <2>1. UpperReachesFurther(Keys) /\ QueueOK(queue, Keys, last_oplog_idx)
    BY DEF IndexInv
  <2> HIDE DEF n
  <2> QED
    BY ONLY <1>1, <1>3, <1>4, <2>1, WriteKeys
<1>6. \A f : CopyOfLog(f) => \A i \in DOMAIN f : i \in 1..(n + 1) /\ f[i] = log'[i]
  BY <1>1, <1>2 DEF CopyOfLog
<1>7. CopiesRight'
  <2>1. CopyOfLog(primary)'
    <3>1. \A i \in DOMAIN primary : i # n + 1
      BY <1>1 DEF IndexInv, CopiesRight, CopyOfLog
    <3> QED
      BY <1>1, <1>2, <1>6, <3>1 DEF IndexInv, CopiesRight, CopyOfLog
  <2>2. CopyOfLog(moving)'
    BY <1>2, <1>6 DEF IndexInv, CopiesRight, CopyOfLog
  <2>3. \A l \in Archives : \A k \in DOMAIN archive[l] :
          k \in 1..(n + 1) /\ CopyOfLog(archive[l][k])'
    BY <1>1, <1>2, <1>6 DEF IndexInv, CopiesRight, CopyOfLog
  <2> QED
    BY <1>2, <2>1, <2>2, <2>3 DEF CopiesRight
<1>8. PrimaryToEnd'
  BY <1>1, <1>2 DEF IndexInv, PrimaryToEnd
<1>9. QueueOK(queue', Keys', last_oplog_idx')
  BY <1>4, <1>5, EmptyQueue
<1>10. MovingInv'
  <2> SUFFICES ASSUME fiber \in {"append", "drop"} PROVE MovingInv'
    BY DEF MovingInv
  <2>1. msg.source \in Layers /\ msg.source + 1 \in Layers
    BY LayersAre DEF IndexInv, StateTypeOK, MovingInv, Messages
  <2>2. fiber = "append" => /\ BelowUpTo(Keys', msg.source, DroppedIndex)
                            /\ \E k \in Keys'[msg.source] : DroppedIndex <= k
    BY <1>5, <2>1 DEF IndexInv, MovingInv
  <2>3. fiber = "drop" => DroppedIndex \in Keys'[msg.source + 1]
    BY <1>5, <2>1 DEF IndexInv, MovingInv
  <2>4. DroppedIndex' = DroppedIndex
    BY DEF DroppedIndex
  <2> QED
    BY <1>4, <2>2, <2>3, <2>4 DEF IndexInv, MovingInv
<1> QED
  BY <1>2, <1>5, <1>7, <1>8, <1>9, <1>10 DEF IndexInv

(* A message is sent.                                                      *)
LEMMA SendIndex ==
  ASSUME IndexInv, StateTypeOK', OpenInv',
         UNCHANGED <<storage, log, fiber, msg, moving, last_oplog_idx>>,
         NEW m \in Messages, queue' = Append(queue, m),
         BelowUpTo(Keys, m.source, m.upto),
         \A x \in DOMAIN queue : queue[x].source = m.source => queue[x].upto <= m.upto,
         m.source = 0 => m.upto <= last_oplog_idx,
         m.source # 0 => \E t \in Layers : t >= m.source /\ \E k \in Keys[t] : m.upto <= k,
         fiber \in {"append", "drop"} /\ m.source = msg.source => DroppedIndex <= m.upto
  PROVE  IndexInv'
<1>1. /\ primary' = primary /\ archive' = archive /\ log' = log /\ fiber' = fiber
      /\ msg' = msg /\ moving' = moving /\ Keys' = Keys
      /\ last_oplog_idx' = last_oplog_idx /\ DroppedIndex' = DroppedIndex
  BY DEF storage, Keys, DroppedIndex
<1>2. CopiesRight' /\ PrimaryToEnd'
  BY <1>1 DEF IndexInv, CopiesRight, CopyOfLog, PrimaryToEnd
<1>3. EndStored(Keys', Len(log')) /\ UpperReachesFurther(Keys')
  BY <1>1 DEF IndexInv
<1>4. queue \in Seq(Messages) /\ last_oplog_idx \in Nat
  BY DEF IndexInv, StateTypeOK
<1>5. QueueOK(queue', Keys', last_oplog_idx')
  BY <1>1, <1>4, SendQueue DEF IndexInv
<1>6. fiber \in {"append", "drop"} => LaterAskMore(queue', msg.source, DroppedIndex)
  BY <1>4, SendAsksMore DEF IndexInv, MovingInv
<1>7. MovingInv'
  BY <1>1, <1>6 DEF IndexInv, MovingInv
<1> QED
  BY <1>2, <1>3, <1>5, <1>7 DEF IndexInv

(* What a layer holds is what was written.                                 *)
LEMMA HeldIsCopy ==
  ASSUME IndexInv, NEW l \in Layers, NEW i, Holds(l, i)
  PROVE  i \in 1..Len(log) /\ EntryAt(l, i) = log[i]
<1>1. CASE l = 0
  BY <1>1 DEF Holds, EntryAt, IndexInv, CopiesRight, CopyOfLog
<1>2. CASE l # 0
  <2> DEFINE c == CHOOSE k \in DOMAIN archive[l] : InChunk(l, i, k)
  <2>1. c \in DOMAIN archive[l] /\ InChunk(l, i, c)
    BY <1>2 DEF Holds
  <2>2. EntryAt(l, i) = archive[l][c][i]
    BY <1>2 DEF EntryAt
  <2> HIDE DEF c
  <2>3. i \in DOMAIN archive[l][c] /\ l \in Archives
    BY <1>2, <2>1, LayersAre DEF InChunk, Cached
  <2> QED
    BY <2>1, <2>2, <2>3 DEF IndexInv, CopiesRight, CopyOfLog
<1> QED
  BY <1>1, <1>2

(* A message is taken and its prefix is read.                              *)
LEMMA ReadIsCopy ==
  ASSUME IndexInv, NEW l \in Layers, NEW first, NEW last, NEW i \in Found(l, first, last),
         first \in Nat, last \in Nat
  PROVE  Holds(l, i) /\ i \in 1..Len(log) /\ EntryAt(l, i) = log[i]
<1>1. Holds(l, i)
  <2>1. CASE l = 0
    BY <2>1 DEF Found
  <2>2. CASE l # 0
    <3>1. LastIndexOf(l) \in Nat
      BY KeysBounded, KeysAre, LastOfIsGreatest DEF KeySets, IndexInv
    <3>2. PICK end \in Nat : i \in first .. end /\ \A j \in i .. end : Holds(l, j)
      BY <2>2, <3>1 DEF Found
    <3> QED
      BY <3>2
  <2> QED
    BY <2>1, <2>2
<1> QED
  BY <1>1, HeldIsCopy

(* The last entry that is read is as late as the queue and the layers      *)
(* below the source allow.                                                 *)
LEMMA ReadReaches ==
  ASSUME IndexInv, NEW s \in Layers, NEW upto \in Nat, BelowUpTo(Keys, s, upto),
         NEW S, S = Found(s, 1, upto), S # {}
  PROVE  /\ S \in SUBSET (1..Len(log)) /\ LastOf(S) \in S /\ \A i \in S : i <= LastOf(S)
         /\ LastOf(S) <= upto
         /\ BelowUpTo(Keys, s, LastOf(S)) /\ \E k \in Keys[s] : LastOf(S) <= k
<1> DEFINE n == Len(log)
<1>1. /\ Keys \in KeySets(n) /\ n \in Nat /\ UpperReachesFurther(Keys)
      /\ \A i \in DOMAIN primary : i .. n \subseteq DOMAIN primary
  BY KeysBounded DEF IndexInv, PrimaryToEnd
<1>2. S \in SUBSET (1..n)
  BY ReadIsCopy
<1> HIDE DEF n
<1>3. LastOf(S) \in S /\ LastOf(S) \in Nat /\ \A i \in S : i <= LastOf(S)
  BY <1>1, <1>2, LastOfIsGreatest
<1>4. CASE s = 0
  <2>1. S = {i \in 1 .. upto : i \in DOMAIN primary}
    BY <1>4 DEF Found, Holds
  <2>2. LastOf(S) \in Keys[0] /\ LastOf(S) <= upto
    BY <1>3, <2>1, KeysAre
  <2>3. ASSUME NEW t \in Layers, t > s, NEW j \in Keys[t], j > LastOf(S) PROVE FALSE
    <3>1. j \in 1..n /\ j <= upto
      BY <1>1, <2>3 DEF BelowUpTo, KeySets
    <3>2. j \in LastOf(S) .. n
      BY <1>1, <1>3, <2>3, <3>1
    <3>3. j \in DOMAIN primary
      BY <1>1, <2>2, <3>2, KeysAre
    <3>4. j \in S
      BY <2>1, <3>1, <3>3
    <3> QED
      BY <1>3, <2>3, <3>1, <3>4
  <2>4. \A t \in Layers : t > s => \A j \in Keys[t] : j <= LastOf(S)
    <3>1. \A t \in Layers : \A j \in Keys[t] : j \in Nat
      BY <1>1 DEF KeySets
    <3> QED
      BY <1>3, <2>3, <3>1
  <2> QED
    BY <1>2, <1>3, <1>4, <2>2, <2>4 DEF BelowUpTo, n
<1>5. CASE s # 0
  <2> DEFINE top == LastOf(Keys[s])
             end == IF upto <= top THEN upto ELSE top
  <2>1. top \in Nat /\ (Keys[s] = {} <=> top = 0)
    BY <1>1, LastOfIsGreatest DEF KeySets
  <2>2. S = {i \in 1 .. end : \A j \in i .. end : Holds(s, j)}
    BY <1>5, KeysAre DEF Found
  <2>3. end \in Nat /\ end <= upto /\ end <= top
    BY <2>1
  <2> HIDE DEF end
  <2>4. end \in S
    BY <1>3, <2>2, <2>3
  <2>5. LastOf(S) = end
    <3>1. \A i \in S : i <= end
      BY <2>2, <2>3
    <3> QED
      BY ONLY <1>1, <1>2, <2>4, <3>1, LastOfUnique
  <2>6. Keys[s] # {}
    BY <1>2, <2>1, <2>3, <2>4
  <2>7. /\ top \in Keys[s]
        /\ \A t \in Layers : t >= s => \A k \in Keys[t] : k <= top
    BY <1>1, <2>6, ArchiveEnd
  <2>8. BelowUpTo(Keys, s, end)
    <3> SUFFICES ASSUME NEW t \in Layers, t > s, NEW j \in Keys[t] PROVE j <= end
      BY DEF BelowUpTo
    <3>1. t \in Nat /\ s \in Nat
      BY LayersAre
    <3>2. j <= upto /\ j <= top
      BY <2>7, <3>1 DEF BelowUpTo
    <3> QED
      BY <3>2 DEF end
  <2> QED
    BY <1>2, <1>3, <2>3, <2>5, <2>7, <2>8 DEF n
<1> QED
  BY <1>4, <1>5

LEMMA TakeIndex == IndexInv /\ TakeMessage => IndexInv'
<1> SUFFICES ASSUME IndexInv, TakeMessage PROVE IndexInv'
  OBVIOUS
<1>1. /\ primary' = primary /\ archive' = archive /\ log' = log /\ Keys' = Keys
      /\ UNCHANGED <<storage, log, writer>> /\ last_oplog_idx' = last_oplog_idx
      /\ fiber = "idle" /\ queue # <<>> /\ open
  BY DEF TakeMessage, storage, writer, Keys
<1>2. StateTypeOK
  BY DEF IndexInv
<1>3. /\ Head(queue) \in Messages /\ Head(queue).source \in Layers
      /\ Head(queue).source \in Nat /\ Head(queue).upto \in Nat
      /\ Tail(queue) \in Seq(Messages) /\ QueueOK(Tail(queue), Keys, last_oplog_idx)
      /\ BelowUpTo(Keys, Head(queue).source, Head(queue).upto)
      /\ LaterAskMore(Tail(queue), Head(queue).source, Head(queue).upto)
  BY <1>1, <1>2, TakeQueue DEF StateTypeOK, IndexInv
<1>4. OpenInv'
  BY <1>1 DEF writer, IndexInv, OpenInv
<1>5. NoMessage \in Messages
  BY LayersAre DEF NoMessage, Messages
<1>6. ASSUME Panic PROVE IndexInv'
  <2>1. StateTypeOK'
    BY <1>1, <1>2, <1>5, <1>6 DEF StateTypeOK, Panic, writer
  <2> QED
    BY <1>1, <1>4, <1>6, <2>1, IdleIndex DEF Panic
<1>7. ASSUME Head(queue).source # NumLower,
             moving' = ReadLayer(Head(queue).source, 1, Head(queue).upto),
             queue' = Tail(queue),
             IF DOMAIN moving' = {}
               THEN fiber' = "idle" /\ msg' = NoMessage
               ELSE fiber' = "append" /\ msg' = Head(queue)
      PROVE  IndexInv'
  <2>1. PICK s \in Layers, upto \in Nat : s = Head(queue).source /\ upto = Head(queue).upto
    BY <1>3
  <2>2. PICK S : S = Found(s, 1, upto)
    OBVIOUS
  <2>3. DOMAIN moving' = S /\ \A i \in S : moving'[i] = EntryAt(s, i)
    BY <1>7, <2>1, <2>2 DEF ReadLayer
  <2>4. CopyOfLog(moving)'
    BY <1>1, <2>2, <2>3, ReadIsCopy DEF CopyOfLog
  <2>5. StateTypeOK'
    BY <1>1, <1>2, <1>3, <1>5, <1>7 DEF StateTypeOK, writer
  <2>6. CopiesRight' /\ PrimaryToEnd'
    BY <1>1, <2>4 DEF IndexInv, CopiesRight, CopyOfLog, PrimaryToEnd
  <2>7. /\ EndStored(Keys', Len(log')) /\ UpperReachesFurther(Keys')
        /\ QueueOK(queue', Keys', last_oplog_idx')
    BY <1>1, <1>3, <1>7 DEF IndexInv
  <2>8. MovingInv'
    <3> SUFFICES ASSUME S # {} PROVE MovingInv'
      BY <1>7, <2>3 DEF MovingInv
    <3>1. fiber' = "append" /\ msg' = Head(queue) /\ DroppedIndex' = LastOf(S)
      BY <1>7, <2>3 DEF DroppedIndex
    <3>2. PICK d : d = LastOf(S)
      OBVIOUS
    <3>3. /\ S \in SUBSET (1..Len(log)) /\ d \in S /\ \A i \in S : i <= d
          /\ d <= upto
          /\ BelowUpTo(Keys, s, d) /\ \E k \in Keys[s] : d <= k
      BY <1>3, <2>1, <2>2, <3>2, ReadReaches
    <3>4. s < NumLower
      BY <1>7, <2>1, LayersAre DEF Layers
    <3>5. LaterAskMore(queue', s, d)
      <4>1. d \in Nat
        BY <3>3
      <4>2. \A x \in DOMAIN queue' : queue'[x].upto \in Nat
        BY <2>5, MessageFields DEF StateTypeOK
      <4>3. LaterAskMore(queue', s, upto)
        BY <1>3, <1>7, <2>1
      <4> QED
        BY <2>1, <3>3, <4>1, <4>2, <4>3 DEF LaterAskMore
    <3> QED
      BY <1>1, <2>1, <2>3, <3>1, <3>2, <3>3, <3>4, <3>5 DEF MovingInv
  <2> QED
    BY <1>4, <2>5, <2>6, <2>7, <2>8 DEF IndexInv
<1> QED
  BY <1>6, <1>7 DEF TakeMessage

(* The chunk is appended to the next layer.                                *)
LEMMA AppendIndex == IndexInv /\ AppendTarget => IndexInv'
<1> SUFFICES ASSUME IndexInv, AppendTarget PROVE IndexInv'
  OBVIOUS
<1> DEFINE n == Len(log)
<1>1. PICK s, d : s = msg.source /\ d = DroppedIndex
  OBVIOUS
<1>2. /\ primary' = primary /\ log' = log /\ UNCHANGED writer
      /\ last_oplog_idx' = last_oplog_idx /\ fiber = "append"
  BY DEF AppendTarget, writer
<1>3. /\ StateTypeOK /\ CopiesRight /\ UpperReachesFurther(Keys) /\ EndStored(Keys, n)
      /\ queue \in Seq(Messages) /\ last_oplog_idx \in Nat /\ msg \in Messages
      /\ QueueOK(queue, Keys, last_oplog_idx)
      /\ Keys \in KeySets(n) /\ n \in Nat
  BY KeysBounded DEF IndexInv, StateTypeOK
<1>4. /\ s \in Layers /\ s < NumLower /\ s \in Nat /\ s + 1 \in Archives /\ s + 1 \in Layers
      /\ s + 1 # 0 /\ s + 1 # s
  BY <1>1, <1>2, <1>3, LayersAre DEF IndexInv, MovingInv, Messages
<1>5. /\ d \in DOMAIN moving /\ \A i \in DOMAIN moving : i <= d
      /\ LaterAskMore(queue, s, d)
      /\ BelowUpTo(Keys, s, d) /\ \E k \in Keys[s] : d <= k
  BY <1>1, <1>2 DEF IndexInv, MovingInv
<1>6. d \in 1..n
  BY <1>3, <1>5 DEF CopiesRight, CopyOfLog
<1>7. OpenInv'
  BY <1>2 DEF writer, IndexInv, OpenInv
<1>8. NoMessage \in Messages
  BY LayersAre DEF NoMessage, Messages
<1>9. ASSUME Panic, archive' = archive PROVE IndexInv'
  <2>1. StateTypeOK'
    BY <1>2, <1>3, <1>8, <1>9 DEF StateTypeOK, Panic, writer
  <2> QED
    BY <1>2, <1>7, <1>9, <2>1, IdleIndex DEF Panic, storage
<1>10. ASSUME StoreChunk(s + 1, moving), fiber' = "drop", msg' = msg, moving' = moving,
              NEW m \in Messages, m.source = s + 1, m.upto = d,
              queue' = queue \/ queue' = Append(queue, m)
       PROVE  IndexInv'
  <2>1. /\ DOMAIN archive' = Archives
        /\ \A l \in Archives : l # s + 1 => archive'[l] = archive[l]
        /\ archive'[s + 1] = [i \in DOMAIN archive[s + 1] \cup {d} |->
                                IF i = d THEN moving ELSE archive[s + 1][i]]
    BY <1>1, <1>3, <1>4, <1>10 DEF StoreChunk, StateTypeOK, DroppedIndex
  <2>2. /\ Keys'[s + 1] = Keys[s + 1] \cup {d}
        /\ \A l \in Layers : l # s + 1 => Keys'[l] = Keys[l]
        /\ Keys' \in KeySets(n)
    <3>1. /\ Keys'[s + 1] = Keys[s + 1] \cup {d}
          /\ \A l \in Layers : l # s + 1 => Keys'[l] = Keys[l]
      BY <1>2, <1>4, <2>1, LayersAre DEF Keys
    <3>2. \A l \in Layers : Keys'[l] \in SUBSET (1..n)
      BY <1>3, <1>6, <3>1 DEF KeySets
    <3>3. Keys' = [l \in Layers |-> Keys'[l]]
      BY DEF Keys
    <3> QED
      BY <3>1, <3>2, <3>3 DEF KeySets
  <2> HIDE DEF n
  <2>3. /\ UpperReachesFurther(Keys') /\ EndStored(Keys', n)
        /\ QueueOK(queue, Keys', last_oplog_idx) /\ d \in Keys'[s + 1]
        /\ BelowUpTo(Keys', s + 1, d)
        /\ \A x \in DOMAIN queue : queue[x].source = s + 1 => queue[x].upto <= d
    BY ONLY <1>3, <1>4, <1>5, <1>6, <2>2, AppendKeys
  <2>4. queue' \in Seq(Messages) /\ QueueOK(queue', Keys', last_oplog_idx')
    <3>1. CASE queue' = queue
      BY <1>2, <1>3, <2>3, <3>1
    <3>2. CASE queue' = Append(queue, m)
      <4>1. d <= d /\ s + 1 >= s + 1
        BY <1>4, <1>6, <1>3
      <4>2. \E t \in Layers : t >= m.source /\ \E k \in Keys'[t] : m.upto <= k
        BY <1>4, <1>10, <2>3, <4>1
      <4>3. QueueOK(Append(queue, m), Keys', last_oplog_idx)
        BY ONLY <1>3, <1>4, <1>10, <2>3, <4>2, SendQueue
      <4> QED
        BY <1>2, <1>3, <3>2, <4>3
    <3> QED
      BY <1>10, <3>1, <3>2
  <2>5. LaterAskMore(queue', s, d)
    BY <1>3, <1>4, <1>5, <1>10, SendAsksMore
  <2>6. StateTypeOK'
    BY <1>2, <1>3, <1>10, <2>1, <2>4 DEF StateTypeOK, writer
  <2>7. CopiesRight' /\ PrimaryToEnd'
    <3>2. CopyOfLog(primary)' /\ CopyOfLog(moving)' /\ PrimaryToEnd'
      BY <1>2, <1>3, <1>10 DEF CopiesRight, CopyOfLog, IndexInv, PrimaryToEnd
    <3>3. ASSUME NEW l \in Archives, NEW k \in DOMAIN archive'[l]
          PROVE  /\ k \in 1..n
                 /\ \A i \in DOMAIN archive'[l][k] : i \in 1..n /\ archive'[l][k][i] = log[i]
      <4>1. CASE l = s + 1 /\ k = d
        BY <1>3, <1>6, <2>1, <4>1 DEF CopiesRight, CopyOfLog, n
      <4>2. CASE l # s + 1 \/ k # d
        <5>1. k \in DOMAIN archive[l] /\ archive'[l][k] = archive[l][k]
          BY <2>1, <3>3, <4>2
        <5> QED
          BY <1>3, <5>1 DEF CopiesRight, CopyOfLog, n
      <4> QED
        BY <4>1, <4>2
    <3> QED
      BY <1>2, <3>2, <3>3 DEF CopiesRight, CopyOfLog, n
  <2>8. MovingInv'
    <3>1. DroppedIndex' = d
      BY <1>1, <1>10 DEF DroppedIndex
    <3> QED
      BY <1>1, <1>4, <1>5, <1>10, <2>3, <2>5, <3>1 DEF MovingInv
  <2> QED
    BY <1>2, <1>7, <2>3, <2>4, <2>6, <2>7, <2>8 DEF IndexInv, n
<1>11. CASE Refuses(s + 1, d)
  BY <1>1, <1>9, <1>11 DEF AppendTarget, DroppedIndex
<1>12. CASE ~Refuses(s + 1, d)
  <2> DEFINE m == [source |-> s + 1, upto |-> d, keep |-> FALSE]
  <2>1. m \in Messages /\ m.source = s + 1 /\ m.upto = d
    BY <1>3, <1>4, <1>6 DEF Messages
  <2>2. /\ StoreChunk(s + 1, moving) /\ fiber' = "drop" /\ msg' = msg /\ moving' = moving
        /\ queue' = queue \/ Send(m)
    BY <1>1, <1>12 DEF AppendTarget, DroppedIndex
  <2>3. queue' = queue \/ queue' = Append(queue, m)
    BY <1>2, <2>2 DEF Send
  <2> HIDE DEF m
  <2> QED
    BY <1>10, <2>1, <2>2, <2>3
<1> QED
  BY <1>11, <1>12

(* The prefix is dropped from its source.                                  *)
LEMMA DropIndex == IndexInv /\ DropSource => IndexInv'
<1> SUFFICES ASSUME IndexInv, DropSource PROVE IndexInv'
  OBVIOUS
<1> DEFINE n == Len(log)
<1>1. PICK s, d : s = msg.source /\ d = DroppedIndex
  OBVIOUS
<1>2. /\ log' = log /\ UNCHANGED writer /\ queue' = queue /\ msg' = msg /\ moving' = moving
      /\ last_oplog_idx' = last_oplog_idx /\ fiber = "drop" /\ fiber' = "measure"
  BY DEF DropSource, writer
<1>3. /\ StateTypeOK /\ CopiesRight /\ UpperReachesFurther(Keys) /\ EndStored(Keys, n)
      /\ queue \in Seq(Messages) /\ last_oplog_idx \in Nat /\ msg \in Messages
      /\ QueueOK(queue, Keys, last_oplog_idx)
      /\ Keys \in KeySets(n) /\ n \in Nat
  BY KeysBounded DEF IndexInv, StateTypeOK
<1>4. s \in Layers /\ s < NumLower /\ s \in Nat /\ d \in Keys[s + 1]
  BY <1>1, <1>2, <1>3, LayersAre DEF IndexInv, MovingInv, Messages
<1>5. OpenInv'
  BY <1>2 DEF writer, IndexInv, OpenInv
<1>6. /\ DOMAIN archive' = Archives
      /\ s = 0 => archive' = archive /\ primary' = Above(primary, d)
      /\ s # 0 => /\ primary' = primary /\ s \in Archives
                  /\ archive'[s] = Above(archive[s], d)
                  /\ \A l \in Archives : l # s => archive'[l] = archive[l]
  <2>1. s # 0 => s \in Archives
    BY <1>4, LayersAre
  <2> QED
    BY <1>1, <1>3, <2>1 DEF DropSource, StateTypeOK
<1>7. /\ Keys'[s] = {j \in Keys[s] : j > d}
      /\ \A l \in Layers : l # s => Keys'[l] = Keys[l]
      /\ Keys' \in KeySets(n)
  <2>1. /\ Keys'[s] = {j \in Keys[s] : j > d}
        /\ \A l \in Layers : l # s => Keys'[l] = Keys[l]
    <3>1. CASE s = 0
      BY <1>4, <1>6, <3>1, LayersAre DEF Keys, Above
    <3>2. CASE s # 0
      BY <1>4, <1>6, <3>2, LayersAre DEF Keys, Above
    <3> QED
      BY <3>1, <3>2
  <2>2. \A l \in Layers : Keys'[l] \in SUBSET (1..n)
    BY <1>3, <2>1 DEF KeySets
  <2>3. Keys' = [l \in Layers |-> Keys'[l]]
    BY DEF Keys
  <2> QED
    BY <2>1, <2>2, <2>3 DEF KeySets
<1>8. StateTypeOK'
  BY <1>2, <1>3, <1>6 DEF StateTypeOK, writer
<1> HIDE DEF n
<1>9. /\ UpperReachesFurther(Keys') /\ EndStored(Keys', n)
      /\ QueueOK(queue, Keys', last_oplog_idx)
  BY ONLY <1>3, <1>4, <1>7, DropKeys
<1>10. CopiesRight' /\ PrimaryToEnd'
  <2>1. CASE s = 0
    <3>1. /\ DOMAIN primary' = {j \in DOMAIN primary : j > d}
          /\ \A i \in DOMAIN primary' : primary'[i] = primary[i]
      BY <1>6, <2>1 DEF Above
    <3>2. CopiesRight'
      BY <1>2, <1>3, <1>6, <2>1, <3>1 DEF CopiesRight, CopyOfLog
    <3>3. PrimaryToEnd'
      <4>1. d \in Nat
        BY <1>3, <1>4, LayersAre DEF KeySets
      <4>2. \A i \in DOMAIN primary : i \in Nat /\ i .. n \subseteq DOMAIN primary
        BY <1>3 DEF IndexInv, CopiesRight, CopyOfLog, PrimaryToEnd, n
      <4> QED
        BY <1>2, <1>3, <3>1, <4>1, <4>2 DEF PrimaryToEnd, n
    <3> QED
      BY <3>2, <3>3
  <2>2. CASE s # 0
    <3>1. \A l \in Archives : \A k \in DOMAIN archive'[l] :
            k \in DOMAIN archive[l] /\ archive'[l][k] = archive[l][k]
      BY <1>6, <2>2 DEF Above
    <3>2. CopiesRight'
      BY <1>2, <1>3, <1>6, <2>2, <3>1 DEF CopiesRight, CopyOfLog
    <3>3. PrimaryToEnd'
      BY <1>2, <1>6, <2>2 DEF IndexInv, PrimaryToEnd
    <3> QED
      BY <3>2, <3>3
  <2> QED
    BY <2>1, <2>2
<1>11. MovingInv'
  BY <1>2 DEF MovingInv
<1> QED
  BY <1>2, <1>5, <1>8, <1>9, <1>10, <1>11 DEF IndexInv, n

(* Opening, closing and writing.                                           *)
LEMMA WriterIndex ==
  ASSUME IndexInv,
         \/ \E e \in Entries : Create(e) \/ Add(e)
         \/ Open \/ Close \/ Crash \/ WriteEntry \/ WriteDone
         \/ \E kind \in {"flush", "commit"} : StartWriting(kind)
  PROVE  IndexInv'
<1> DEFINE n == Len(log)
<1>1. /\ StateTypeOK /\ OpenInv /\ n \in Nat /\ Keys \in KeySets(n)
      /\ queue \in Seq(Messages) /\ buffer \in Seq(Entries)
      /\ last_oplog_idx \in Nat /\ last_committed_idx \in Nat
  BY KeysBounded DEF IndexInv, StateTypeOK
<1>2. NoMessage \in Messages
  BY LayersAre DEF NoMessage, Messages
<1>3. ASSUME NEW e \in Entries, Create(e) PROVE IndexInv'
  <2>1. n = 0 /\ \A l \in Layers : Keys[l] = {}
    BY <1>3, LastIndexIsEnd DEF Create
  <2>2. log = <<>> /\ DOMAIN primary = {}
    <3>1. log \in Seq(Entries)
      BY <1>1 DEF StateTypeOK
    <3>2. log = <<>>
      BY ONLY <2>1, <3>1
    <3>3. DOMAIN primary = {}
      BY <2>1, KeysAre, LayersAre
    <3> QED
      BY <3>2, <3>3
  <2>3. /\ log' = Append(log, e)
        /\ primary' = [i \in DOMAIN primary \cup {n + 1} |->
                         IF i \in DOMAIN primary THEN primary[i] ELSE e]
    BY <1>3, <2>1, <2>2 DEF Create
  <2>4. /\ UNCHANGED <<archive, queue, fiber, msg, moving, buffer, writing, enqueuing>>
        /\ open' = TRUE /\ last_oplog_idx' = 1 /\ last_committed_idx' = 1 /\ ~open
        /\ log' = <<e>>
    BY <1>3 DEF Create, transfer
  <2>5. buffer = <<>> /\ queue = <<>>
    BY <1>1, <2>4 DEF OpenInv
  <2>6. OpenInv'
    BY <2>4, <2>5 DEF OpenInv
  <2>7. StateTypeOK'
    BY <1>1, <2>4 DEF StateTypeOK
  <2> QED
    BY <2>3, <2>4, <2>5, <2>6, <2>7, RowIndex
<1>4. ASSUME NEW e \in Entries, Add(e) PROVE IndexInv'
  <2>1. /\ UNCHANGED <<storage, open, last_committed_idx, enqueuing, log, queue, fiber,
                       msg, moving>>
        /\ open /\ buffer' = Append(buffer, e) /\ last_oplog_idx' = last_oplog_idx + 1
        /\ writing' \in {"add", writing}
    BY <1>4 DEF Add, transfer
  <2>2. buffer' \in Seq(Entries) /\ Len(buffer') = Len(buffer) + 1 /\ Len(buffer) \in Nat
    BY <1>1, <2>1, AppendEntries
  <2>3. OpenInv'
    BY <1>1, <2>1, <2>2 DEF OpenInv
  <2>4. StateTypeOK'
    BY <1>1, <2>1, <2>2 DEF StateTypeOK, storage
  <2>5. last_oplog_idx <= last_oplog_idx'
    BY <1>1, <2>1
  <2> QED
    BY <2>1, <2>3, <2>4, <2>5, RestIndex
<1>5. ASSUME Open PROVE IndexInv'
  <2>1. /\ UNCHANGED <<storage, buffer, writing, enqueuing, log, queue, fiber, msg, moving>>
        /\ ~open /\ open' = TRUE /\ Exists
        /\ last_oplog_idx' = LastIndex /\ last_committed_idx' = LastIndex
    BY <1>5 DEF Open, transfer
  <2>2. LastIndex = n
    BY <2>1, LastIndexIsEnd
  <2>3. buffer = <<>> /\ queue = <<>>
    BY <1>1, <2>1 DEF OpenInv
  <2>4. OpenInv'
    BY <1>1, <2>1, <2>2, <2>3 DEF OpenInv
  <2>5. StateTypeOK'
    BY <1>1, <2>1, <2>2 DEF StateTypeOK, storage
  <2> QED
    BY <2>1, <2>3, <2>4, <2>5, RestIndex
<1>6. ASSUME DropOpen PROVE IndexInv'
  <2>1. StateTypeOK'
    <3>1. buffer' \in Seq(Entries) /\ queue' \in Seq(Messages) /\ msg' \in Messages
      BY <1>2, <1>6 DEF DropOpen
    <3>2. /\ last_oplog_idx' \in Nat /\ last_committed_idx' \in Nat
          /\ DOMAIN archive' = Archives /\ log' \in Seq(Entries)
      BY <1>1, <1>6 DEF DropOpen, StateTypeOK, storage
    <3> QED
      BY <1>6, <3>1, <3>2 DEF DropOpen, StateTypeOK
  <2>2. OpenInv'
    BY <1>6 DEF DropOpen, OpenInv
  <2> QED
    BY <1>6, <2>1, <2>2, IdleIndex DEF DropOpen
<1>7. ASSUME NEW kind \in {"flush", "commit"}, StartWriting(kind) PROVE IndexInv'
  <2>1. /\ UNCHANGED <<storage, open, buffer, last_oplog_idx, last_committed_idx, enqueuing,
                       log, queue, fiber, msg, moving>>
        /\ open /\ writing' = kind
    BY <1>7 DEF StartWriting, transfer
  <2>2. StateTypeOK' /\ OpenInv'
    BY <1>1, <1>7, <2>1 DEF StateTypeOK, OpenInv, storage
  <2> QED
    BY <1>1, <2>1, <2>2, RestIndex
<1>8. ASSUME WriteEntry PROVE IndexInv'
  <2>1. /\ UNCHANGED <<archive, open, last_oplog_idx, writing, enqueuing, queue, fiber, msg,
                       moving>>
        /\ writing # "no" /\ buffer # <<>>
        /\ last_committed_idx' = last_committed_idx + 1
        /\ buffer' = Tail(buffer) /\ log' = Append(log, Head(buffer))
        /\ primary' = [i \in DOMAIN primary \cup {last_committed_idx + 1} |->
                         IF i \in DOMAIN primary THEN primary[i] ELSE Head(buffer)]
    BY <1>8 DEF WriteEntry, transfer
  <2>2. open
    BY <1>1, <2>1 DEF OpenInv
  <2>3. /\ last_committed_idx = n /\ last_oplog_idx = n + Len(buffer)
    BY <1>1, <2>2 DEF OpenInv
  <2>4. /\ Head(buffer) \in Entries /\ Tail(buffer) \in Seq(Entries)
        /\ Len(Tail(buffer)) = Len(buffer) - 1 /\ Len(buffer) \in Nat
    BY <1>1, <2>1, TailEntries
  <2>5. log' \in Seq(Entries) /\ Len(log') = n + 1
    BY <1>1, <2>1, <2>4, AppendEntries DEF StateTypeOK
  <2>6. StateTypeOK' /\ OpenInv'
    BY <1>1, <2>1, <2>2, <2>3, <2>4, <2>5 DEF StateTypeOK, OpenInv
  <2> QED
    BY <2>1, <2>3, <2>4, <2>6, RowIndex
<1>9. ASSUME WriteDone PROVE IndexInv'
  <2>1. /\ UNCHANGED <<storage, open, buffer, last_oplog_idx, last_committed_idx,
                       log, queue, fiber, msg, moving>>
        /\ writing # "no" /\ writing' = "no" /\ enqueuing' \in BOOLEAN
    BY <1>1, <1>9 DEF WriteDone, transfer, StateTypeOK
  <2>2. StateTypeOK' /\ OpenInv'
    BY <1>1, <2>1 DEF StateTypeOK, OpenInv, storage
  <2> QED
    BY <1>1, <2>1, <2>2, RestIndex
<1> QED
  BY <1>3, <1>4, <1>5, <1>6, <1>7, <1>8, <1>9 DEF Close, Crash

(* Asking for a transfer.                                                  *)
LEMMA AskIndex == IndexInv /\ (EnqueueTransfer \/ Archive) => IndexInv'
<1> SUFFICES ASSUME IndexInv, EnqueueTransfer \/ Archive PROVE IndexInv'
  OBVIOUS
<1> DEFINE n == Len(log)
<1>1. /\ StateTypeOK /\ OpenInv /\ n \in Nat /\ Keys \in KeySets(n) /\ UpperReachesFurther(Keys)
      /\ QueueOK(queue, Keys, last_oplog_idx) /\ MovingInv /\ CopiesRight
      /\ queue \in Seq(Messages) /\ last_oplog_idx \in Nat /\ buffer \in Seq(Entries)
  BY KeysBounded DEF IndexInv, StateTypeOK
<1>2. /\ UNCHANGED <<storage, log, fiber, msg, moving, last_oplog_idx, last_committed_idx>>
      /\ UNCHANGED <<open, buffer, writing>> /\ enqueuing' \in BOOLEAN
      /\ open
  BY <1>1 DEF EnqueueTransfer, Archive, writer, StateTypeOK, OpenInv
<1>3. ASSUME queue' \in Seq(Messages) PROVE StateTypeOK' /\ OpenInv'
  BY <1>1, <1>2, <1>3 DEF StateTypeOK, OpenInv, storage
<1>4. n <= last_oplog_idx
  BY <1>1, <1>2 DEF OpenInv
<1>5. \A l \in Layers : \A k \in Keys[l] : k \in 1..n
  BY <1>1 DEF KeySets
<1>6. ASSUME NEW keep \in BOOLEAN, Send([source |-> 0, upto |-> last_oplog_idx, keep |-> keep])
      PROVE  IndexInv'
  <2> DEFINE m == [source |-> 0, upto |-> last_oplog_idx, keep |-> keep]
  <2>1. m \in Messages /\ m.source = 0 /\ m.upto = last_oplog_idx
    BY <1>1, LayersAre DEF Messages
  <2>2. queue' = IF fiber = "panicked" THEN <<>> ELSE Append(queue, m)
    BY <1>6 DEF Send
  <2> HIDE DEF m
  <2>3. CASE fiber = "panicked"
    BY <1>2, <1>3, <2>2, <2>3, IdleIndex
  <2>4. CASE fiber # "panicked"
    <3>1. queue' \in Seq(Messages)
      BY <1>1, <2>1, <2>2, <2>4, AppendEntries
    <3>2. BelowUpTo(Keys, m.source, m.upto)
      BY <1>1, <1>4, <1>5, <2>1 DEF BelowUpTo
    <3>3. \A x \in DOMAIN queue : queue[x].source = m.source => queue[x].upto <= m.upto
      BY <1>1, <2>1 DEF QueueOK
    <3>4. fiber \in {"append", "drop"} => DroppedIndex <= m.upto
      BY <1>1, <1>4, <2>1 DEF MovingInv, CopiesRight, CopyOfLog
    <3>5. m.source = 0 => m.upto <= last_oplog_idx
      BY <1>1, <2>1
    <3>6. StateTypeOK' /\ OpenInv' /\ queue' = Append(queue, m)
      BY <1>3, <2>2, <2>4, <3>1
    <3> QED
      BY <1>2, <2>1, <3>2, <3>3, <3>4, <3>5, <3>6, SendIndex
  <2> QED
    BY <2>3, <2>4
<1>7. ASSUME NEW l \in Archives, LastIndexOf(l) # 0, fiber # "panicked",
             Send([source |-> l, upto |-> LastIndexOf(l), keep |-> TRUE])
      PROVE  IndexInv'
  <2> DEFINE m == [source |-> l, upto |-> LastIndexOf(l), keep |-> TRUE]
  <2>1. l \in Layers /\ l \in Nat /\ l # 0 /\ LastIndexOf(l) = LastOf(Keys[l])
    BY KeysAre, LayersAre DEF Archives
  <2>2. Keys[l] # {}
    BY <1>1, <1>7, <2>1, LastOfIsGreatest DEF KeySets
  <2>3. PICK top : top = LastIndexOf(l)
    OBVIOUS
  <2>4. /\ top \in Keys[l] /\ top \in 1..n
        /\ \A t \in Layers : t >= l => \A k \in Keys[t] : k <= top
    BY <1>1, <2>1, <2>2, <2>3, ArchiveEnd
  <2>5. m \in Messages /\ m.source = l /\ m.upto = top
    BY <1>1, <2>1, <2>3, <2>4 DEF Messages
  <2>6. queue' = Append(queue, m)
    BY <1>7 DEF Send
  <2> HIDE DEF m
  <2>7. BelowUpTo(Keys, m.source, m.upto)
    <3>1. \A t \in Layers : t > l => t >= l
      BY <2>1, LayersAre
    <3> QED
      BY ONLY <2>4, <2>5, <3>1 DEF BelowUpTo
  <2>8. ASSUME NEW x \in DOMAIN queue, queue[x].source = l PROVE queue[x].upto <= top
    <3>1. PICK t \in Layers : t >= l /\ \E k \in Keys[t] : queue[x].upto <= k
      BY <1>1, <2>1, <2>8 DEF QueueOK
    <3>2. PICK k \in Keys[t] : queue[x].upto <= k
      BY <3>1
    <3>3. k <= top /\ k \in Nat /\ top \in Nat /\ queue[x].upto \in Nat
      BY <1>1, <1>5, <2>4, <3>1, <3>2, MessageFields
    <3> QED
      BY <3>2, <3>3
  <2>9. ASSUME fiber \in {"append", "drop"}, l = msg.source PROVE DroppedIndex <= top
    <3>1. \E t \in Layers : t >= l /\ \E k \in Keys[t] : DroppedIndex <= k
      <4>1. CASE fiber = "append"
        BY <1>1, <2>1, <2>9, <4>1 DEF MovingInv
      <4>2. CASE fiber = "drop"
        <5>1. l + 1 \in Layers /\ l + 1 >= l
          BY <1>1, <2>1, <2>9, LayersAre DEF MovingInv
        <5>2. DroppedIndex \in Keys[l + 1]
          BY <1>1, <2>9, <4>2 DEF MovingInv
        <5>3. DroppedIndex <= DroppedIndex
          BY <1>5, <5>1, <5>2
        <5> QED
          BY <5>1, <5>2, <5>3
      <4> QED
        BY <2>9, <4>1, <4>2
    <3>2. PICK t \in Layers : t >= l /\ \E k \in Keys[t] : DroppedIndex <= k
      BY <3>1
    <3>3. PICK k \in Keys[t] : DroppedIndex <= k
      BY <3>2
    <3>4. k <= top /\ k \in Nat /\ top \in Nat
      BY <1>1, <1>5, <2>4, <3>2, <3>3
    <3>5. DroppedIndex \in Nat
      BY <1>1, <2>9 DEF MovingInv, CopiesRight, CopyOfLog
    <3> QED
      BY <3>3, <3>4, <3>5
  <2>10. m.source # 0 => \E t \in Layers : t >= m.source /\ \E k \in Keys[t] : m.upto <= k
    <3>1. l >= l /\ top <= top
      BY <2>1, <2>4
    <3> QED
      BY <2>1, <2>4, <2>5, <3>1
  <2>11. StateTypeOK' /\ OpenInv'
    BY <1>1, <1>3, <2>5, <2>6, AppendEntries
  <2> QED
    BY <1>2, <2>1, <2>5, <2>6, <2>7, <2>8, <2>9, <2>10, <2>11, SendIndex
<1>8. ASSUME Archive PROVE IndexInv'
  BY <1>6, <1>7, <1>8 DEF Archive, Candidates
<1>9. ASSUME EnqueueTransfer PROVE IndexInv'
  BY <1>6, <1>9 DEF EnqueueTransfer
<1> QED
  BY <1>8, <1>9

(* Steps that only count or read.                                          *)
LEMMA CountIndex ==
  IndexInv /\ (MeasureSource \/ AdjustCount \/ Reading \/ UNCHANGED vars) => IndexInv'
<1> SUFFICES ASSUME IndexInv, MeasureSource \/ AdjustCount \/ Reading \/ UNCHANGED vars
             PROVE  IndexInv'
  OBVIOUS
<1>1. StateTypeOK /\ OpenInv
  BY DEF IndexInv
<1>2. NoMessage \in Messages
  BY LayersAre DEF NoMessage, Messages
<1>3. ASSUME UNCHANGED <<storage, writer, log, queue, msg, moving>>,
             fiber' = fiber \/ (fiber = "measure" /\ fiber' = "count")
      PROVE  IndexInv'
  <2>1. /\ UNCHANGED <<archive, open, buffer, last_oplog_idx, last_committed_idx, writing,
                       enqueuing>>
        /\ last_oplog_idx \in Nat
    BY <1>1, <1>3 DEF storage, writer, StateTypeOK
  <2>2. fiber = "measure" => open
    BY <1>1 DEF OpenInv
  <2>3. StateTypeOK' /\ OpenInv'
    BY <1>1, <1>3, <2>1, <2>2 DEF StateTypeOK, OpenInv
  <2>4. CASE fiber' = fiber
    BY <1>3, <2>1, <2>3, <2>4, RestIndex
  <2>5. CASE fiber' = "count"
    BY <1>3, <2>1, <2>3, <2>5, IdleIndex
  <2> QED
    BY <1>3, <2>4, <2>5
<1>4. ASSUME AdjustCount PROVE IndexInv'
  <2>1. /\ UNCHANGED <<storage, writer, log, queue>> /\ fiber = "count" /\ fiber' = "idle"
        /\ msg' = NoMessage /\ moving' = Nothing
    BY <1>4 DEF AdjustCount
  <2>2. /\ UNCHANGED <<archive, open, buffer, last_oplog_idx, last_committed_idx, writing,
                       enqueuing>>
        /\ open
    BY <1>1, <2>1 DEF storage, writer, OpenInv
  <2>3. StateTypeOK' /\ OpenInv'
    BY <1>1, <1>2, <2>1, <2>2 DEF StateTypeOK, OpenInv
  <2> QED
    BY <2>1, <2>2, <2>3, IdleIndex
<1>5. MeasureSource => /\ UNCHANGED <<storage, writer, log, queue, msg, moving>>
                       /\ fiber = "measure" /\ fiber' = "count"
  BY DEF MeasureSource
<1>6. Reading => UNCHANGED <<storage, writer, log, queue, msg, moving, fiber>>
  BY DEF Reading, ReadPrimary, ReadChunk, ReadGap, ReadReturn, ReadStart, transfer
<1>7. UNCHANGED vars => UNCHANGED <<storage, writer, log, queue, msg, moving, fiber>>
  BY DEF vars, transfer
<1> QED
  BY <1>3, <1>4, <1>5, <1>6, <1>7

LEMMA KeepIndex == IndexInv /\ [Next]_vars => IndexInv'
<1> SUFFICES ASSUME IndexInv, [Next]_vars PROVE IndexInv'
  OBVIOUS
<1> QED
  BY WriterIndex, AskIndex, TakeIndex, AppendIndex, DropIndex, CountIndex
  DEF Next, Writing, Transfer

(* An oplog goes on exactly where its stored layers end, whatever has been *)
(* moved, dropped, closed or lost in a crash: last_oplog_idx and           *)
(* last_committed_idx count the entries that were written, whatever the    *)
(* number and the kind of the layers and the limits.                       *)
THEOREM OplogIndexesDense == Spec => []IndexesDense
<1>1. IndexInv => IndexesDense
  BY DEF IndexInv, OpenInv, IndexesDense
<1> QED
  BY <1>1, InitIndex, KeepIndex, PTL DEF Spec

-----------------------------------------------------------------------------
(* What holds besides if the chunks of the archives fit the cache and none *)
(* is overwritten by a smaller one.  P is the set of indexes in the        *)
(* primary oplog, C gives the indexes in the chunks of each archive, K the *)
(* keys.                                                                   *)

Indexes == [l \in Archives |-> [k \in DOMAIN archive[l] |-> DOMAIN archive[l][k]]]

InBounds(P, C, K, n) ==
  /\ P \subseteq 1..n /\ K \in KeySets(n) /\ K[0] = P
  /\ \A l \in Archives : /\ DOMAIN C[l] \subseteq 1..n /\ K[l] = DOMAIN C[l]
                         /\ \A k \in DOMAIN C[l] : C[l][k] \subseteq 1..n

Stores(P, C, l, i) ==
  IF l = 0 THEN i \in P ELSE \E k \in DOMAIN C[l] : i \in C[l][k]

(* A chunk ends in its key and has no gap, and no chunk leaves out what a  *)
(* later one has; between two keys nothing is missing.                     *)
ChunksWhole(C) == \A l \in Archives : \A k \in DOMAIN C[l] :
  k \in C[l][k] /\ \A i \in C[l][k] : i <= k /\ i .. k \subseteq C[l][k]
ChunksNested(C) == \A l \in Archives : \A j, k \in DOMAIN C[l] : j < k =>
  \A i \in C[l][k] : i <= j => i \in C[l][j]
ChunksTouch(C) == \A l \in Archives : \A j, k \in DOMAIN C[l] : j < k =>
  \A i \in j + 1 .. k : \E m \in DOMAIN C[l] : m > j /\ i \in C[l][m]

(* A chunk has everything up to its key that is still in a layer above.    *)
LowerHasAll(P, C) == \A s \in Layers : \A t \in Archives : s < t =>
  \A k \in DOMAIN C[t] : \A i \in 1..k : Stores(P, C, s, i) => i \in C[t][k]

(* From every layer down, nothing is missing below a stored entry.         *)
TailsComplete(P, C) == \A s, l \in Layers : l >= s =>
  \A i \in Nat : Stores(P, C, l, i) =>
    \A j \in 1..i : \E m \in Layers : m >= s /\ Stores(P, C, m, j)

LayersWhole(P, C) ==
  ChunksWhole(C) /\ ChunksNested(C) /\ ChunksTouch(C) /\ LowerHasAll(P, C) /\ TailsComplete(P, C)

(* What is being moved is everything its source has up to its last entry.  *)
MovingWhole ==
  fiber \in {"append", "drop"} =>
    /\ \A i \in DOMAIN moving : i .. DroppedIndex \subseteq DOMAIN moving
    /\ \A i \in 1..DroppedIndex : Stores(DOMAIN primary, Indexes, msg.source, i)
                                    => i \in DOMAIN moving
    /\ fiber = "append" =>
         \A i \in DOMAIN moving : Stores(DOMAIN primary, Indexes, msg.source, i)
    /\ fiber = "drop" => Indexes[msg.source + 1][DroppedIndex] = DOMAIN moving

WholeInv == LayersWhole(DOMAIN primary, Indexes) /\ MovingWhole

(* Every chunk fits the cache through which it is read.                    *)
ChunksFit == \A l \in Archives : \A k \in DOMAIN archive[l] :
  \A i \in DOMAIN archive[l][k] : k - i < CacheSize

(* The blob storage overwrites a chunk that is appended once more, which   *)
(* the repetition of a transfer does; it is the same chunk or a larger one *)
(* as long as no layer is damaged.                                         *)
NoChunkShrinks ==
  fiber = "append" /\ msg.source + 1 \in BlobLayers
                   /\ DroppedIndex \in DOMAIN archive[msg.source + 1]
    => DOMAIN archive[msg.source + 1][DroppedIndex] \subseteq DOMAIN moving

-----------------------------------------------------------------------------
(* Everything up to the end of the log is stored.                          *)
LEMMA AllStored ==
  ASSUME NEW n \in Nat, NEW P, NEW C, NEW K, InBounds(P, C, K, n), EndStored(K, n),
         LayersWhole(P, C), NEW i \in 1..n
  PROVE  \E m \in Layers : m >= 0 /\ Stores(P, C, m, i)
<1>1. PICK l \in Layers : n \in K[l]
  BY DEF EndStored
<1>2. Stores(P, C, l, n)
  <2>1. CASE l = 0
    BY <1>1, <2>1 DEF InBounds, Stores
  <2>2. CASE l # 0
    BY <1>1, <2>2, LayersAre DEF InBounds, Stores, LayersWhole, ChunksWhole
  <2> QED
    BY <2>1, <2>2
<1>3. l >= 0 /\ 0 \in Layers /\ i \in 1..n /\ TailsComplete(P, C)
  BY LayersAre DEF LayersWhole
<1> QED
  BY ONLY <1>2, <1>3, n \in Nat, l \in Layers DEF TailsComplete

(* A row is written.                                                       *)
LEMMA WriteWhole ==
  ASSUME NEW n \in Nat, NEW P, NEW C, NEW K, InBounds(P, C, K, n), EndStored(K, n),
         LayersWhole(P, C), NEW P2, P2 = P \cup {n + 1}
  PROVE  LayersWhole(P2, C)
<1>1. \A l \in Layers : \A i : Stores(P, C, l, i) => Stores(P2, C, l, i)
  BY DEF Stores
<1>2. \A l \in Layers : \A i : Stores(P2, C, l, i) => Stores(P, C, l, i) \/ (l = 0 /\ i = n + 1)
  BY DEF Stores
<1>3. LowerHasAll(P2, C)
  <2> SUFFICES ASSUME NEW s \in Layers, NEW t \in Archives, s < t, NEW k \in DOMAIN C[t],
                      NEW i \in 1..k, Stores(P2, C, s, i)
               PROVE  i \in C[t][k]
    BY DEF LowerHasAll
  <2>1. k \in 1..n /\ i # n + 1
    BY DEF InBounds
  <2> QED
    BY <1>2, <2>1 DEF LayersWhole, LowerHasAll
<1>4. TailsComplete(P2, C)
  <2> SUFFICES ASSUME NEW s \in Layers, NEW l \in Layers, l >= s, NEW i \in Nat,
                      Stores(P2, C, l, i), NEW j \in 1..i
               PROVE  \E m \in Layers : m >= s /\ Stores(P2, C, m, j)
    BY DEF TailsComplete
  <2>1. CASE Stores(P, C, l, i)
    BY <1>1, <2>1 DEF LayersWhole, TailsComplete
  <2>2. CASE l = 0 /\ i = n + 1 /\ j = n + 1
    BY <2>2
  <2>3. CASE l = 0 /\ i = n + 1 /\ j # n + 1
    <3>1. j \in 1..n /\ s = 0
      BY <2>3, LayersAre
    <3>2. \E m \in Layers : m >= 0 /\ Stores(P, C, m, j)
      BY <3>1, AllStored
    <3> QED
      BY <1>1, <3>1, <3>2
  <2> QED
    BY <1>2, <2>1, <2>2, <2>3
<1> QED
  BY <1>3, <1>4 DEF LayersWhole

(* The entries M of the layer s up to d are appended to the next layer.    *)
LEMMA AppendWhole ==
  ASSUME NEW n \in Nat, NEW P, NEW C, NEW K, InBounds(P, C, K, n), LayersWhole(P, C),
         UpperReachesFurther(K),
         NEW s \in Layers, NEW t \in Archives, t = s + 1, NEW d \in 1..n,
         NEW M \in SUBSET (1..d), d \in M, \A i \in M : i .. d \subseteq M,
         \A i \in 1..d : Stores(P, C, s, i) => i \in M,
         \A i \in M : Stores(P, C, s, i),
         \E k \in K[s] : d <= k,
         \A k \in DOMAIN C[t] : k < d,
         NEW C2, DOMAIN C2[t] = DOMAIN C[t] \cup {d}, C2[t][d] = M,
         \A k \in DOMAIN C[t] : C2[t][k] = C[t][k],
         \A l \in Archives : l # t => C2[l] = C[l]
  PROVE  LayersWhole(P, C2)
<1>0. /\ s \in Nat /\ t \in Nat /\ t \in Layers /\ t # 0 /\ s < t /\ d \in Nat
      /\ \A l \in Layers : l \in Nat /\ (l # 0 => l \in Archives)
      /\ \A l \in Archives : l \in Nat /\ l # 0 /\ l \in Layers
  BY LayersAre DEF Archives
<1>1. /\ \A l \in Layers : l \in Nat /\ l # 0 => \A k \in DOMAIN C[l] : k \in Nat
      /\ \A l \in Archives : K[l] = DOMAIN C[l]
      /\ \A l \in Archives : \A k \in DOMAIN C[l] : k \in Nat /\ C[l][k] \subseteq Nat
      /\ M \subseteq Nat
  BY <1>0 DEF InBounds
<1>2. ASSUME NEW l \in Layers, NEW i, Stores(P, C, l, i) PROVE Stores(P, C2, l, i)
  BY <1>0, <1>2 DEF Stores
<1>3. ASSUME NEW l \in Layers, NEW i, Stores(P, C2, l, i)
      PROVE  Stores(P, C, l, i) \/ (l = t /\ i \in M)
  BY <1>0, <1>3 DEF Stores
<1>4. \A i \in M : Stores(P, C2, t, i)
  BY <1>0 DEF Stores
<1>5. ChunksWhole(C2)
  <2> SUFFICES ASSUME NEW l \in Archives, NEW k \in DOMAIN C2[l]
               PROVE  k \in C2[l][k] /\ \A i \in C2[l][k] : i <= k /\ i .. k \subseteq C2[l][k]
    BY DEF ChunksWhole
  <2>1. CASE l = t /\ k = d
    <3>1. d \in M /\ \A i \in M : i <= d /\ i .. d \subseteq M
      <4>1. \A i \in M : i \in 1..d
        OBVIOUS
      <4> QED
        BY <1>0, <4>1
    <3>2. C2[l][k] = M
      BY <2>1
    <3> QED
      BY ONLY <2>1, <3>1, <3>2
  <2>2. CASE k \in DOMAIN C[l] /\ C2[l][k] = C[l][k]
    BY <2>2 DEF LayersWhole, ChunksWhole
  <2> QED
    BY <2>1, <2>2
<1>6. ChunksNested(C2)
  <2> SUFFICES ASSUME NEW l \in Archives, NEW j \in DOMAIN C2[l], NEW k \in DOMAIN C2[l],
                      j < k, NEW i \in C2[l][k], i <= j
               PROVE  i \in C2[l][j]
    BY DEF ChunksNested
  <2>1. CASE l = t /\ k = d
    <3>1. j \in DOMAIN C[t] /\ C2[t][j] = C[t][j] /\ i \in M
      BY <1>0, <2>1
    <3>2. Stores(P, C, s, i) /\ i \in 1..j
      BY <1>1, <3>1
    <3> QED
      BY <1>0, <2>1, <3>1, <3>2 DEF LayersWhole, LowerHasAll
  <2>2. CASE l = t /\ k # d
    <3>1. k \in DOMAIN C[t] /\ k < d /\ k \in Nat /\ C2[t][k] = C[t][k]
      BY <1>1, <2>2
    <3>2. j # d
      BY <1>0, <3>1
    <3>3. j \in DOMAIN C[t] /\ C2[t][j] = C[t][j]
      BY <2>2, <3>2
    <3> QED
      BY <2>2, <3>1, <3>3 DEF LayersWhole, ChunksNested
  <2>3. CASE l # t
    BY <2>3 DEF LayersWhole, ChunksNested
  <2> QED
    BY <2>1, <2>2, <2>3
<1>7. ChunksTouch(C2)
  <2> SUFFICES ASSUME NEW l \in Archives, NEW j \in DOMAIN C2[l], NEW k \in DOMAIN C2[l],
                      j < k, NEW i \in j + 1 .. k
               PROVE  \E m \in DOMAIN C2[l] : m > j /\ i \in C2[l][m]
    BY DEF ChunksTouch
  <2>0. ASSUME l = t, \E m \in DOMAIN C[t] : m > j /\ i \in C[t][m]
        PROVE  \E m \in DOMAIN C2[l] : m > j /\ i \in C2[l][m]
    BY <2>0
  <2>1. CASE l = t /\ k = d
    <3>1. j \in DOMAIN C[t] /\ j \in Nat /\ i \in Nat /\ i > j /\ i \in 1..d
      BY <1>0, <1>1, <2>1
    <3>2. Stores(P, C, s, d)
      OBVIOUS
    <3>3. s >= s /\ d \in Nat /\ TailsComplete(P, C)
      BY <1>0 DEF LayersWhole
    <3>4. PICK m \in Layers : m >= s /\ Stores(P, C, m, i)
      BY ONLY <3>1, <3>2, <3>3, s \in Layers DEF TailsComplete
    <3>5. CASE m = s
      <4>1. i \in M
        BY <3>1, <3>4, <3>5
      <4> QED
        BY <2>1, <4>1
    <3>6. CASE m # s
      <4>1. m \in Nat /\ m \in Archives /\ m >= t
        <5>1. m \in Nat /\ m >= s /\ m # s
          BY <1>0, <3>4, <3>6
        <5>2. m >= t /\ m # 0
          BY <1>0, <5>1
        <5> QED
          BY <1>0, <5>1, <5>2
      <4>2. PICK h \in DOMAIN C[m] : i \in C[m][h]
        BY <1>0, <3>4, <4>1 DEF Stores
      <4>3. i <= h /\ h \in Nat
        BY <1>1, <4>1, <4>2 DEF LayersWhole, ChunksWhole
      <4>4. CASE m = t
        BY <2>0, <2>1, <3>1, <4>2, <4>3, <4>4
      <4>5. CASE m > t
        <5>1. PICK j2 \in DOMAIN C[t] : h <= j2
          <6>1. K[t] # {} /\ h \in K[m] /\ K[t] = DOMAIN C[t]
            BY <1>1, <3>1, <4>1, <4>2
          <6> QED
            BY <1>0, <4>1, <4>5, <6>1 DEF UpperReachesFurther
        <5>2. j2 \in Nat /\ j < j2 /\ i \in j + 1 .. j2
          BY <1>1, <3>1, <4>3, <5>1
        <5> QED
          BY <2>0, <2>1, <3>1, <5>1, <5>2 DEF LayersWhole, ChunksTouch
      <4> QED
        BY <1>0, <4>1, <4>4, <4>5
    <3> QED
      BY <3>5, <3>6
  <2>2. CASE l = t /\ k # d
    <3>1. k \in DOMAIN C[t] /\ k < d /\ k \in Nat
      BY <1>1, <2>2
    <3>2. j # d
      BY <1>0, <3>1
    <3>3. j \in DOMAIN C[t]
      BY <2>2, <3>2
    <3> QED
      BY <2>0, <2>2, <3>1, <3>3 DEF LayersWhole, ChunksTouch
  <2>3. CASE l # t
    BY <2>3 DEF LayersWhole, ChunksTouch
  <2> QED
    BY <2>1, <2>2, <2>3
<1>8. LowerHasAll(P, C2)
  <2> SUFFICES ASSUME NEW u \in Layers, NEW v \in Archives, u < v, NEW k \in DOMAIN C2[v],
                      NEW i \in 1..k, Stores(P, C2, u, i)
               PROVE  i \in C2[v][k]
    BY DEF LowerHasAll
  <2>1. CASE v = t /\ k = d
    <3>1. u \in Nat /\ u <= s /\ u # t /\ i \in 1..d
      BY <1>0, <2>1
    <3>2. Stores(P, C, u, i)
      BY <1>3, <3>1
    <3>3. CASE u = s
      BY <2>1, <3>1, <3>2, <3>3
    <3>4. CASE u < s
      <4>1. PICK h \in K[s] : d <= h
        OBVIOUS
      <4>2. s \in Archives /\ h \in DOMAIN C[s] /\ h \in Nat
        BY <1>0, <1>1, <3>1, <3>4, <4>1
      <4>3. i \in 1..h
        BY <1>0, <3>1, <4>1, <4>2
      <4>4. i \in C[s][h]
        BY <3>2, <3>4, <4>2, <4>3 DEF LayersWhole, LowerHasAll
      <4>5. Stores(P, C, s, i)
        BY <1>0, <4>2, <4>4 DEF Stores
      <4> QED
        BY <2>1, <3>1, <4>5
    <3> QED
      BY <1>0, <3>1, <3>3, <3>4
  <2>2. CASE k \in DOMAIN C[v] /\ C2[v][k] = C[v][k]
    <3>1. CASE Stores(P, C, u, i)
      BY <2>2, <3>1 DEF LayersWhole, LowerHasAll
    <3>2. CASE u = t /\ i \in M
      <4>1. s < v /\ Stores(P, C, s, i)
        BY <1>0, <3>2
      <4> QED
        BY <2>2, <4>1 DEF LayersWhole, LowerHasAll
    <3> QED
      BY <1>3, <3>1, <3>2
  <2> QED
    BY <2>1, <2>2
<1>9. TailsComplete(P, C2)
  <2> SUFFICES ASSUME NEW u \in Layers, NEW l \in Layers, l >= u, NEW i \in Nat,
                      Stores(P, C2, l, i), NEW j \in 1..i
               PROVE  \E m \in Layers : m >= u /\ Stores(P, C2, m, j)
    BY DEF TailsComplete
  <2>1. ASSUME NEW x \in Layers, x >= u, Stores(P, C, x, i)
        PROVE  \E m \in Layers : m >= u /\ Stores(P, C2, m, j)
    BY <1>2, <2>1 DEF LayersWhole, TailsComplete
  <2>2. CASE l = t /\ i \in M
    <3>1. Stores(P, C, s, i)
      BY <2>2
    <3>2. CASE u <= s
      BY <1>0, <2>1, <3>1, <3>2
    <3>3. CASE u = t
      <4>1. s >= s /\ TailsComplete(P, C)
        BY <1>0 DEF LayersWhole
      <4>2. PICK m \in Layers : m >= s /\ Stores(P, C, m, j)
        BY <3>1, <4>1 DEF TailsComplete
      <4>3. CASE m = s
        <5>1. j \in 1..d
          BY <1>0, <2>2
        <5>2. j \in M
          BY <4>2, <4>3, <5>1
        <5> QED
          BY <1>0, <1>4, <3>3, <5>2
      <4>4. CASE m # s
        <5>1. m >= u
          BY <1>0, <3>3, <4>2, <4>4
        <5> QED
          BY <1>2, <4>2, <5>1
      <4> QED
        BY <4>3, <4>4
    <3> QED
      BY <1>0, <2>2, <3>2, <3>3
  <2> QED
    BY <1>3, <2>1, <2>2
<1> QED
  BY <1>5, <1>6, <1>7, <1>8, <1>9 DEF LayersWhole

(* What the next layer has in its chunk d is dropped from the layer s.     *)
LEMMA DropWhole ==
  ASSUME NEW n \in Nat, NEW P, NEW C, NEW K, InBounds(P, C, K, n), LayersWhole(P, C),
         NEW s \in Layers, NEW t \in Archives, t = s + 1, NEW d \in DOMAIN C[t],
         \A i \in 1..d : Stores(P, C, s, i) => i \in C[t][d],
         NEW P2, NEW C2, P2 = IF s = 0 THEN {i \in P : i > d} ELSE P,
         \A l \in Archives : l # s => C2[l] = C[l],
         s # 0 => /\ DOMAIN C2[s] = {k \in DOMAIN C[s] : k > d}
                  /\ \A k \in DOMAIN C2[s] : C2[s][k] = C[s][k]
  PROVE  LayersWhole(P2, C2)
<1>0. /\ s \in Nat /\ t \in Nat /\ t \in Layers /\ t # 0 /\ t # s
      /\ \A l \in Layers : l \in Nat /\ (l # 0 => l \in Archives)
      /\ \A l \in Archives : l \in Nat /\ l # 0 /\ l \in Layers
  BY LayersAre DEF Archives
<1>1. /\ d \in Nat /\ P \subseteq Nat /\ \A i \in P : i >= 1
      /\ \A l \in Archives : \A k \in DOMAIN C[l] :
           /\ k \in Nat /\ C[l][k] \subseteq Nat
           /\ \A i \in C[l][k] : i >= 1 /\ i <= k
  <2>1. d \in 1..n
    BY DEF InBounds
  <2>2. \A l \in Archives : \A k \in DOMAIN C[l] : k \in 1..n /\ C[l][k] \subseteq 1..n
    BY DEF InBounds
  <2>3. \A l \in Archives : \A k \in DOMAIN C[l] : \A i \in C[l][k] : i <= k
    BY DEF LayersWhole, ChunksWhole
  <2> QED
    BY <2>1, <2>2, <2>3 DEF InBounds
<1>2. \A l \in Archives : \A k \in DOMAIN C2[l] : k \in DOMAIN C[l] /\ C2[l][k] = C[l][k]
  BY <1>0
<1>3. ASSUME NEW l \in Layers, NEW i, Stores(P2, C2, l, i) PROVE Stores(P, C, l, i)
  BY <1>0, <1>2, <1>3 DEF Stores
<1>4. ASSUME NEW l \in Layers, NEW i, Stores(P, C, l, i)
      PROVE  Stores(P2, C2, l, i) \/ (l = s /\ i \in 1..d)
  <2>1. CASE l # s
    BY <1>0, <1>4, <2>1 DEF Stores
  <2>2. CASE l = s /\ s = 0
    <3>1. i \in P /\ i \in Nat /\ i >= 1
      BY <1>1, <1>4, <2>2 DEF Stores
    <3>2. i > d => i \in P2
      BY <2>2, <3>1
    <3> QED
      BY <1>1, <2>2, <3>1, <3>2 DEF Stores
  <2>3. CASE l = s /\ s # 0
    <3>1. PICK k \in DOMAIN C[s] : i \in C[s][k]
      BY <1>4, <2>3 DEF Stores
    <3>2. s \in Archives /\ k \in Nat /\ i \in Nat /\ i >= 1 /\ i <= k
      BY <1>0, <1>1, <2>3, <3>1
    <3>3. CASE k > d
      <4>1. k \in DOMAIN C2[s] /\ C2[s][k] = C[s][k]
        BY <2>3, <3>1, <3>3
      <4> QED
        BY <2>3, <3>1, <4>1 DEF Stores
    <3>4. CASE k <= d
      BY <1>1, <2>3, <3>2, <3>4
    <3> QED
      BY <1>1, <3>2, <3>3, <3>4
  <2> QED
    BY <2>1, <2>2, <2>3
<1>5. \A i \in C[t][d] : Stores(P2, C2, t, i)
  BY <1>0 DEF Stores
<1>6. ChunksWhole(C2) /\ ChunksNested(C2)
  BY <1>2 DEF LayersWhole, ChunksWhole, ChunksNested
<1>7. ChunksTouch(C2)
  <2> SUFFICES ASSUME NEW l \in Archives, NEW j \in DOMAIN C2[l], NEW k \in DOMAIN C2[l],
                      j < k, NEW i \in j + 1 .. k
               PROVE  \E m \in DOMAIN C2[l] : m > j /\ i \in C2[l][m]
    BY DEF ChunksTouch
  <2>1. PICK m \in DOMAIN C[l] : m > j /\ i \in C[l][m]
    BY <1>2 DEF LayersWhole, ChunksTouch
  <2>2. CASE l # s
    BY <2>1, <2>2
  <2>3. CASE l = s
    <3>1. j > d /\ j \in Nat /\ m \in Nat /\ s # 0
      BY <1>0, <1>1, <1>2, <2>1, <2>3
    <3>2. m \in DOMAIN C2[s] /\ C2[s][m] = C[s][m]
      BY <1>1, <2>1, <2>3, <3>1
    <3> QED
      BY <2>1, <2>3, <3>2
  <2> QED
    BY <2>2, <2>3
<1>8. LowerHasAll(P2, C2)
  BY <1>2, <1>3 DEF LayersWhole, LowerHasAll
<1>9. TailsComplete(P2, C2)
  <2> SUFFICES ASSUME NEW u \in Layers, NEW l \in Layers, l >= u, NEW i \in Nat,
                      Stores(P2, C2, l, i), NEW j \in 1..i
               PROVE  \E m \in Layers : m >= u /\ Stores(P2, C2, m, j)
    BY DEF TailsComplete
  <2>1. PICK m \in Layers : m >= u /\ Stores(P, C, m, j)
    BY <1>3 DEF LayersWhole, TailsComplete
  <2>2. CASE Stores(P2, C2, m, j)
    BY <2>1, <2>2
  <2>3. CASE m = s /\ j \in 1..d
    <3>1. Stores(P2, C2, t, j)
      BY <1>5, <2>1, <2>3
    <3>2. t >= u
      BY <1>0, <2>1, <2>3
    <3> QED
      BY <1>0, <3>1, <3>2
  <2> QED
    BY <1>4, <2>1, <2>2, <2>3
<1> QED
  BY <1>6, <1>7, <1>8, <1>9 DEF LayersWhole

-----------------------------------------------------------------------------
(* The same of the state.                                                  *)

LEMMA IndexesAre ==
  \A l \in Archives : /\ DOMAIN Indexes[l] = DOMAIN archive[l]
                      /\ \A k \in DOMAIN archive[l] : Indexes[l][k] = DOMAIN archive[l][k]
BY DEF Indexes

LEMMA IndexesInBounds ==
  ASSUME IndexInv
  PROVE  /\ InBounds(DOMAIN primary, Indexes, Keys, Len(log)) /\ Len(log) \in Nat
         /\ EndStored(Keys, Len(log)) /\ UpperReachesFurther(Keys)
<1>1. Keys \in KeySets(Len(log)) /\ Len(log) \in Nat
  BY KeysBounded DEF IndexInv
<1>2. ASSUME NEW l \in Archives
      PROVE  /\ DOMAIN Indexes[l] \subseteq 1..Len(log) /\ Keys[l] = DOMAIN Indexes[l]
             /\ \A k \in DOMAIN Indexes[l] : Indexes[l][k] \subseteq 1..Len(log)
  BY IndexesAre, KeysAre DEF IndexInv, CopiesRight, CopyOfLog
<1>3. DOMAIN primary \subseteq 1..Len(log) /\ Keys[0] = DOMAIN primary
  BY KeysAre DEF IndexInv, CopiesRight, CopyOfLog
<1> QED
  BY <1>1, <1>2, <1>3 DEF InBounds, IndexInv

(* An entry that is stored is found by a lookup.                           *)
LEMMA StoredIsHeld ==
  ASSUME IndexInv, WholeInv, ChunksFit, NEW l \in Layers, NEW i
  PROVE  Holds(l, i) <=> Stores(DOMAIN primary, Indexes, l, i)
<1>1. CASE l = 0
  BY <1>1 DEF Holds, Stores
<1>2. CASE l # 0
  <2>0. l \in Archives
    BY <1>2, LayersAre
  <2>1. Holds(l, i) <=> \E k \in DOMAIN archive[l] : InChunk(l, i, k)
    BY <1>2 DEF Holds
  <2>2. Stores(DOMAIN primary, Indexes, l, i)
          <=> \E k \in DOMAIN archive[l] : i \in DOMAIN archive[l][k]
    BY <1>2, <2>0, IndexesAre DEF Stores
  <2>3. \A k \in DOMAIN archive[l] : InChunk(l, i, k) => i \in DOMAIN archive[l][k]
    BY DEF InChunk, Cached
  <2>4. ASSUME NEW c \in DOMAIN archive[l], i \in DOMAIN archive[l][c]
        PROVE  \E k \in DOMAIN archive[l] : InChunk(l, i, k)
    <3> DEFINE S == {k \in DOMAIN archive[l] : k >= i}
    <3>1. /\ \A k \in DOMAIN archive[l] : k \in Nat
          /\ i \in Nat
      BY <2>0, <2>4 DEF IndexInv, CopiesRight, CopyOfLog
    <3>2. i <= c
      BY <2>0, <2>4, IndexesAre DEF WholeInv, LayersWhole, ChunksWhole
    <3>3. S # {} /\ S \in SUBSET Nat /\ c \in S
      BY <2>4, <3>1, <3>2
    <3>4. PICK k \in S : \A j \in S : k <= j
      BY <3>3, LeastIndex
    <3>5. IsClosest(k, i, DOMAIN archive[l])
      BY <3>4 DEF IsClosest
    <3>6. i \in DOMAIN archive[l][k]
      <4>1. CASE k = c
        BY <2>4, <4>1
      <4>2. CASE k # c
        <5>1. k < c /\ i <= k
          BY <3>1, <3>3, <3>4, <4>2
        <5>2. ChunksNested(Indexes)
          BY DEF WholeInv, LayersWhole
        <5> QED
          BY <2>0, <2>4, <3>4, <5>1, <5>2, IndexesAre DEF ChunksNested
      <4> QED
        BY <4>1, <4>2
    <3>7. i \in Cached(l, k)
      BY <2>0, <3>4, <3>6 DEF Cached, ChunksFit
    <3> QED
      BY <3>4, <3>5, <3>7 DEF InChunk
  <2> QED
    BY <2>1, <2>2, <2>3, <2>4
<1> QED
  BY <1>1, <1>2

LEMMA InitWhole == Init => WholeInv
<1> SUFFICES ASSUME Init PROVE WholeInv
  OBVIOUS
<1>1. DOMAIN primary = {} /\ \A l \in Archives : DOMAIN Indexes[l] = {}
  BY IndexesAre DEF Init, Nothing
<1>2. ~ \E l \in Layers, i \in Nat : Stores(DOMAIN primary, Indexes, l, i)
  BY <1>1, LayersAre DEF Stores
<1>3. LayersWhole(DOMAIN primary, Indexes)
  BY <1>1, <1>2 DEF LayersWhole, ChunksWhole, ChunksNested, ChunksTouch, LowerHasAll,
                    TailsComplete
<1>4. MovingWhole
  BY DEF Init, MovingWhole
<1> QED
  BY <1>3, <1>4 DEF WholeInv

(* Steps that leave the layers alone.                                      *)
LEMMA RestWhole ==
  ASSUME WholeInv, UNCHANGED storage,
         UNCHANGED <<fiber, msg, moving>> \/ fiber' \notin {"append", "drop"}
  PROVE  WholeInv'
<1>1. primary' = primary /\ archive' = archive /\ Indexes' = Indexes
  BY DEF storage, Indexes
<1>2. MovingWhole'
  <2>1. CASE fiber' \notin {"append", "drop"}
    BY <2>1 DEF MovingWhole
  <2>2. CASE UNCHANGED <<fiber, msg, moving>>
    BY <1>1, <2>2 DEF WholeInv, MovingWhole, DroppedIndex
  <2> QED
    BY <2>1, <2>2
<1> QED
  BY <1>1, <1>2 DEF WholeInv

LEMMA RowWhole ==
  ASSUME IndexInv, WholeInv, DOMAIN primary' = DOMAIN primary \cup {Len(log) + 1},
         UNCHANGED <<archive, fiber, msg, moving>>
  PROVE  WholeInv'
<1>1. Indexes' = Indexes /\ DroppedIndex' = DroppedIndex
  BY DEF Indexes, DroppedIndex
<1>2. LayersWhole(DOMAIN primary', Indexes)
  BY IndexesInBounds, WriteWhole DEF WholeInv
<1>3. MovingWhole'
  <2> SUFFICES ASSUME fiber \in {"append", "drop"} PROVE MovingWhole'
    BY DEF MovingWhole
  <2>1. DroppedIndex \in 1..Len(log) /\ Len(log) \in Nat
    BY IndexesInBounds DEF IndexInv, MovingInv, CopiesRight, CopyOfLog
  <2>2. \A i : Stores(DOMAIN primary', Indexes, msg.source, i) =>
                 Stores(DOMAIN primary, Indexes, msg.source, i) \/ i = Len(log) + 1
    BY DEF Stores
  <2>3. \A i : Stores(DOMAIN primary, Indexes, msg.source, i) =>
                 Stores(DOMAIN primary', Indexes, msg.source, i)
    BY DEF Stores
  <2>4. MovingWhole
    BY DEF WholeInv
  <2>5. \A i \in 1..DroppedIndex : Stores(DOMAIN primary', Indexes, msg.source, i)
                                     => i \in DOMAIN moving
    <3>1. \A i \in 1..DroppedIndex : i # Len(log) + 1
      BY ONLY <2>1
    <3>2. \A i \in 1..DroppedIndex : Stores(DOMAIN primary, Indexes, msg.source, i)
                                       => i \in DOMAIN moving
      BY <2>4 DEF MovingWhole
    <3> QED
      BY ONLY <2>2, <3>1, <3>2
  <2> QED
    BY <1>1, <2>3, <2>4, <2>5 DEF MovingWhole
<1> QED
  BY <1>1, <1>2, <1>3 DEF WholeInv

(* What is taken is all that the source has up to its last entry.          *)
LEMMA TakeWhole ==
  ASSUME IndexInv, IndexInv', WholeInv, ChunksFit, TakeMessage
  PROVE  WholeInv'
<1>1. /\ primary' = primary /\ archive' = archive /\ log' = log /\ Indexes' = Indexes
      /\ UNCHANGED storage
  BY DEF TakeMessage, storage, Indexes
<1> DEFINE P == DOMAIN primary
<1>2. CASE fiber' \notin {"append", "drop"}
  BY <1>1, <1>2, RestWhole
<1>3. CASE fiber' \in {"append", "drop"}
  <2>1. /\ fiber' = "append" /\ msg' = Head(queue) /\ DOMAIN moving' # {}
        /\ moving' = ReadLayer(Head(queue).source, 1, Head(queue).upto)
    BY <1>3 DEF TakeMessage, Panic
  <2>2. PICK s, upto : s = Head(queue).source /\ upto = Head(queue).upto
    OBVIOUS
  <2>3. PICK M : M = DOMAIN moving'
    OBVIOUS
  <2>4. M = Found(s, 1, upto) /\ M # {}
    BY <2>1, <2>2, <2>3 DEF ReadLayer
  <2>5. PICK d : d = DroppedIndex'
    OBVIOUS
  <2>6. s \in Layers /\ upto \in Nat
    BY <2>1, <2>2 DEF IndexInv, StateTypeOK, Messages
  <2>7. d \in M /\ d \in Nat /\ M \subseteq Nat /\ \A i \in M : i <= d
    BY <1>3, <2>3, <2>5 DEF IndexInv, MovingInv, CopiesRight, CopyOfLog
  <2>8. \A i : Holds(s, i) <=> Stores(P, Indexes, s, i)
    BY <2>6, StoredIsHeld
  <2>9. /\ \A i \in M : i .. d \subseteq M
        /\ \A i \in 1..d : Stores(P, Indexes, s, i) => i \in M
        /\ \A i \in M : Stores(P, Indexes, s, i)
    <3>1. CASE s = 0
      <4>1. M = {i \in 1 .. upto : i \in P}
        BY <2>4, <3>1 DEF Found, Holds
      <4>2. \A i \in P : i .. Len(log) \subseteq P
        BY DEF IndexInv, PrimaryToEnd
      <4>3. d <= upto /\ d <= Len(log) /\ Len(log) \in Nat
        BY <2>7, <4>1, IndexesInBounds DEF InBounds
      <4>4. ASSUME NEW i \in M, NEW j \in i .. d PROVE j \in M
        <5>1. i \in Nat /\ i >= 1 /\ i \in P
          BY <4>1, <4>4
        <5>2. j \in 1 .. upto /\ j \in i .. Len(log)
          BY <2>6, <2>7, <4>3, <4>4, <5>1
        <5> QED
          BY <4>1, <4>2, <5>1, <5>2
      <4>5. \A i \in 1..d : i \in P => i \in M
        BY <2>6, <2>7, <4>1, <4>3
      <4> QED
        BY <3>1, <4>1, <4>4, <4>5 DEF Stores
    <3>2. CASE s # 0
      <4>0. s \in Archives
        BY <2>6, <3>2, LayersAre
      <4>1. PICK top : top = LastIndexOf(s)
        OBVIOUS
      <4>2. PICK end : end = IF upto <= top THEN upto ELSE top
        OBVIOUS
      <4>3. M = {i \in 1 .. end : \A j \in i .. end : Stores(P, Indexes, s, j)}
        BY <2>4, <2>8, <3>2, <4>1, <4>2 DEF Found
      <4>4. top = LastOf(Keys[s]) /\ Keys[s] = DOMAIN Indexes[s]
        BY <2>6, <4>0, <4>1, KeysAre, IndexesAre
      <4>5. top \in Nat
        BY <2>6, <4>4, IndexesInBounds, LastOfIsGreatest DEF InBounds, KeySets
      <4>6. end \in Nat /\ end <= top
        BY <2>6, <4>2, <4>5
      <4>7. end \in M /\ d = end
        <5>1. end \in M
          BY <2>7, <4>3, <4>6
        <5>2. d <= end
          BY <2>7, <4>3, <4>6
        <5> QED
          BY <2>7, <4>6, <5>1, <5>2
      <4>8. ASSUME NEW i \in 1..d, Stores(P, Indexes, s, i), NEW j \in i .. d
            PROVE  Stores(P, Indexes, s, j)
        <5>1. PICK k \in DOMAIN Indexes[s] : i \in Indexes[s][k]
          BY <3>2, <4>8 DEF Stores
        <5>2. k \in Nat /\ i \in Nat /\ j \in Nat
          BY <2>7, <4>0, <4>8, <5>1, IndexesInBounds DEF InBounds
        <5>3. CASE j <= k
          <6>1. j \in i .. k
            BY <4>8, <5>2, <5>3
          <6>2. i .. k \subseteq Indexes[s][k]
            BY <4>0, <5>1 DEF WholeInv, LayersWhole, ChunksWhole
          <6> QED
            BY <3>2, <5>1, <6>1, <6>2 DEF Stores
        <5>4. CASE k < j
          <6>1. top \in DOMAIN Indexes[s]
            <7>1. Keys[s] # {}
              BY <4>4, <5>1
            <7> QED
              BY <2>6, <4>4, <7>1, IndexesInBounds, LastOfIsGreatest DEF InBounds, KeySets
          <6>2. k < top /\ j \in k + 1 .. top
            BY <2>7, <4>5, <4>6, <4>7, <4>8, <5>2, <5>4
          <6>3. ChunksTouch(Indexes)
            BY DEF WholeInv, LayersWhole
          <6>4. \E m \in DOMAIN Indexes[s] : m > k /\ j \in Indexes[s][m]
            BY ONLY <4>0, <5>1, <6>1, <6>2, <6>3 DEF ChunksTouch
          <6> QED
            BY <3>2, <6>4 DEF Stores
        <5> QED
          BY <5>2, <5>3, <5>4
      <4>9. \A i \in 1..d : Stores(P, Indexes, s, i) => i \in M
        BY <4>3, <4>7, <4>8
      <4>10. ASSUME NEW i \in M, NEW j \in i .. d PROVE j \in M
        <5>1. /\ i \in Nat /\ i >= 1 /\ j \in Nat /\ j >= i /\ j <= d
              /\ \A x \in i .. d : Stores(P, Indexes, s, x)
          BY <2>7, <4>3, <4>7, <4>10
        <5>2. \A x \in j .. d : Stores(P, Indexes, s, x)
          BY <2>7, <5>1
        <5> QED
          BY <2>7, <4>3, <4>7, <5>1, <5>2
      <4>11. \A i \in M : Stores(P, Indexes, s, i)
        BY <2>7, <4>3, <4>7
      <4> QED
        BY <4>9, <4>10, <4>11
    <3> QED
      BY <3>1, <3>2
  <2>10. MovingWhole'
    BY <1>1, <2>1, <2>2, <2>3, <2>5, <2>9 DEF MovingWhole
  <2> QED
    BY <1>1, <2>10 DEF WholeInv
<1> QED
  BY <1>2, <1>3

LEMMA AppendTargetWhole ==
  ASSUME IndexInv, IndexInv', WholeInv, NoChunkShrinks, AppendTarget
  PROVE  WholeInv'
<1> DEFINE P == DOMAIN primary
<1>1. PICK s, d, M : s = msg.source /\ d = DroppedIndex /\ M = DOMAIN moving
  OBVIOUS
<1>2. primary' = primary /\ log' = log /\ fiber = "append"
  BY DEF AppendTarget
<1>3. s \in Layers /\ s < NumLower
  BY <1>1, <1>2 DEF IndexInv, StateTypeOK, MovingInv, Messages
<1>4. PICK t \in Archives : t = s + 1
  BY <1>3, LayersAre
<1>5. t \in Layers /\ t # s /\ t # 0 /\ s \in Nat
  BY <1>3, <1>4, LayersAre
<1>6. CASE Refuses(t, d)
  <2>1. fiber' = "panicked" /\ UNCHANGED storage
    BY <1>1, <1>2, <1>4, <1>6 DEF AppendTarget, Panic, DroppedIndex, storage
  <2> QED
    BY <2>1, RestWhole
<1>7. CASE ~Refuses(t, d)
  <2>1. StoreChunk(t, moving) /\ fiber' = "drop" /\ msg' = msg /\ moving' = moving
    BY <1>1, <1>4, <1>7 DEF AppendTarget, DroppedIndex
  <2>2. /\ DOMAIN archive = Archives
        /\ \A l \in Archives : l # t => archive'[l] = archive[l]
        /\ archive'[t] = [i \in DOMAIN archive[t] \cup {d} |->
                            IF i = d THEN moving ELSE archive[t][i]]
    BY <1>1, <1>4, <2>1 DEF StoreChunk, IndexInv, StateTypeOK, DroppedIndex
  <2>3. \A k \in DOMAIN Indexes[t] : k <= d /\ k \in Nat
    <3>1. BelowUpTo(Keys, s, d) /\ t > s
      BY <1>1, <1>2, <1>4, <1>5 DEF IndexInv, MovingInv
    <3>2. Keys[t] = DOMAIN Indexes[t] /\ Keys[t] \subseteq Nat
      BY IndexesInBounds DEF InBounds
    <3> QED
      BY <1>5, <3>1, <3>2 DEF BelowUpTo
  <2>4. /\ DOMAIN Indexes'[t] = DOMAIN Indexes[t] \cup {d} /\ Indexes'[t][d] = M
        /\ \A k \in DOMAIN Indexes[t] : k # d => Indexes'[t][k] = Indexes[t][k]
        /\ \A l \in Archives : l # t => Indexes'[l] = Indexes[l]
    <3>1. \A l \in Archives : l # t => Indexes'[l] = Indexes[l]
      BY <2>2 DEF Indexes
    <3>2. Indexes'[t] = [k \in DOMAIN archive'[t] |-> DOMAIN archive'[t][k]]
      BY DEF Indexes
    <3>3. Indexes[t] = [k \in DOMAIN archive[t] |-> DOMAIN archive[t][k]]
      BY DEF Indexes
    <3> QED
      BY <1>1, <2>2, <3>1, <3>2, <3>3
  <2>5. d \in 1..Len(log) /\ M \in SUBSET (1..d) /\ d \in M /\ \E k \in Keys[s] : d <= k
    <3>1. d \in M /\ M \subseteq 1..Len(log) /\ \A i \in M : i <= d
      BY <1>1, <1>2 DEF IndexInv, MovingInv, CopiesRight, CopyOfLog
    <3>2. M \subseteq 1..d
      BY <3>1
    <3>3. \E k \in Keys[s] : d <= k
      BY <1>1, <1>2 DEF IndexInv, MovingInv
    <3> QED
      BY <3>1, <3>2, <3>3
  <2>6. /\ \A i \in M : i .. d \subseteq M
        /\ \A i \in 1..d : Stores(P, Indexes, s, i) => i \in M
        /\ \A i \in M : Stores(P, Indexes, s, i)
    BY <1>1, <1>2 DEF WholeInv, MovingWhole
  <2>7. LayersWhole(P, Indexes) /\ InBounds(P, Indexes, Keys, Len(log)) /\ Len(log) \in Nat
        /\ UpperReachesFurther(Keys)
    BY IndexesInBounds DEF WholeInv
  <2> HIDE DEF P
  <2>8. LayersWhole(P, Indexes') /\ \A i : Stores(P, Indexes', s, i) => Stores(P, Indexes, s, i)
    <3>1. CASE d \in DOMAIN Indexes[t]
      <4>1. M \subseteq Indexes[t][d]
        <5>1. \A i \in M : i \in 1..d /\ Stores(P, Indexes, s, i)
          BY <2>5, <2>6
        <5>2. LowerHasAll(P, Indexes) /\ s < t
          BY <1>4, <1>5, <2>7 DEF LayersWhole
        <5> QED
          BY <1>3, <1>4, <3>1, <5>1, <5>2 DEF LowerHasAll
      <4>2. Indexes[t][d] \subseteq M
        <5>1. d \in DOMAIN archive[t] /\ Indexes[t][d] = DOMAIN archive[t][d]
          BY <3>1, IndexesAre
        <5>2. t \in BlobLayers
          <6>1. d <= LastIndexOf(t)
            <7>1. LastIndexOf(t) = LastOf(Keys[t]) /\ d \in Keys[t]
              BY <1>5, <5>1, KeysAre
            <7>2. Keys[t] \in SUBSET (1..Len(log)) /\ Len(log) \in Nat
              BY <1>5, <2>7 DEF InBounds, KeySets
            <7> QED
              BY <7>1, <7>2, LastOfIsGreatest
          <6> QED
            BY <1>7, <6>1 DEF Refuses
        <5> QED
          BY <1>1, <1>2, <1>4, <5>1, <5>2 DEF NoChunkShrinks
      <4>3. DOMAIN Indexes'[t] = DOMAIN Indexes[t]
            /\ \A k \in DOMAIN Indexes[t] : Indexes'[t][k] = Indexes[t][k]
        BY <2>4, <3>1, <4>1, <4>2
      <4>4. Indexes'[t] = Indexes[t]
        <5>1. /\ Indexes'[t] = [k \in DOMAIN Indexes'[t] |-> Indexes'[t][k]]
              /\ Indexes[t] = [k \in DOMAIN Indexes[t] |-> Indexes[t][k]]
          BY DEF Indexes
        <5> QED
          BY ONLY <4>3, <5>1
      <4>5. Indexes' = Indexes
        <5>1. /\ Indexes' = [l \in Archives |-> Indexes'[l]]
              /\ Indexes = [l \in Archives |-> Indexes[l]]
          BY DEF Indexes
        <5>2. \A l \in Archives : Indexes'[l] = Indexes[l]
          BY ONLY <2>4, <4>4
        <5> QED
          BY ONLY <5>1, <5>2
      <4> QED
        BY <2>7, <4>5
    <3>2. CASE d \notin DOMAIN Indexes[t]
      <4>1. PICK n, C, C2, K : n = Len(log) /\ C = Indexes /\ C2 = Indexes' /\ K = Keys
        OBVIOUS
      <4>2. /\ n \in Nat /\ InBounds(P, C, K, n) /\ LayersWhole(P, C) /\ UpperReachesFurther(K)
            /\ d \in 1..n /\ M \in SUBSET (1..d) /\ d \in M /\ \E k \in K[s] : d <= k
        BY ONLY <2>5, <2>7, <4>1
      <4>3. \A k \in DOMAIN C[t] : k # d /\ k < d
        BY <2>3, <2>5, <3>2, <4>1
      <4>4. /\ DOMAIN C2[t] = DOMAIN C[t] \cup {d} /\ C2[t][d] = M
            /\ \A k \in DOMAIN C[t] : C2[t][k] = C[t][k]
            /\ \A l \in Archives : l # t => C2[l] = C[l]
        BY ONLY <2>4, <4>1, <4>3
      <4>5. /\ \A i \in M : i .. d \subseteq M
            /\ \A i \in 1..d : Stores(P, C, s, i) => i \in M
            /\ \A i \in M : Stores(P, C, s, i)
        BY ONLY <2>6, <4>1
      <4>6. LayersWhole(P, C2)
        BY ONLY <1>3, <1>4, t \in Archives, <4>2, <4>3, <4>4, <4>5, AppendWhole
      <4>7. \A i : Stores(P, Indexes', s, i) => Stores(P, Indexes, s, i)
        BY <1>3, <1>5, <2>4, LayersAre DEF Stores
      <4> QED
        BY <4>1, <4>6, <4>7
    <3> QED
      BY <3>1, <3>2
  <2>9. DroppedIndex' = d /\ msg'.source = s /\ DOMAIN moving' = M /\ DOMAIN primary' = P
    BY <1>1, <1>2, <2>1 DEF DroppedIndex, P
  <2>11. MovingWhole'
    <3>1. \A i \in 1..d : Stores(P, Indexes', s, i) => i \in M
      BY <2>6, <2>8
    <3>2. Indexes'[s + 1][d] = M
      BY <1>4, <2>4
    <3> QED
      BY <2>1, <2>6, <2>9, <3>1, <3>2 DEF MovingWhole
  <2> QED
    BY <2>8, <2>9, <2>11 DEF WholeInv
<1> QED
  BY <1>6, <1>7

LEMMA DropSourceWhole ==
  ASSUME IndexInv, WholeInv, DropSource
  PROVE  WholeInv'
<1> DEFINE P == DOMAIN primary
<1>1. PICK s, d : s = msg.source /\ d = DroppedIndex
  OBVIOUS
<1>2. fiber = "drop" /\ fiber' = "measure"
  BY DEF DropSource
<1>3. s \in Layers /\ s < NumLower /\ d \in Keys[s + 1]
  BY <1>1, <1>2 DEF IndexInv, StateTypeOK, MovingInv, Messages
<1>4. PICK t \in Archives : t = s + 1
  BY <1>3, LayersAre
<1>5. s # 0 => s \in Archives
  BY <1>3, LayersAre
<1>6. /\ s = 0 => archive' = archive /\ primary' = Above(primary, d)
      /\ s # 0 => /\ primary' = primary
                  /\ archive'[s] = Above(archive[s], d)
                  /\ \A l \in Archives : l # s => archive'[l] = archive[l]
  BY <1>1, <1>5 DEF DropSource, IndexInv, StateTypeOK
<1>7. DOMAIN primary' = IF s = 0 THEN {i \in P : i > d} ELSE P
  BY <1>6 DEF Above
<1>8. \A l \in Archives : l # s => Indexes'[l] = Indexes[l]
  BY <1>6 DEF Indexes
<1>9. s # 0 => /\ DOMAIN Indexes'[s] = {k \in DOMAIN Indexes[s] : k > d}
               /\ \A k \in DOMAIN Indexes'[s] : Indexes'[s][k] = Indexes[s][k]
  BY <1>5, <1>6 DEF Indexes, Above
<1>10. d \in DOMAIN Indexes[t]
  BY <1>3, <1>4, IndexesInBounds DEF InBounds
<1>11. \A i \in 1..d : Stores(P, Indexes, s, i) => i \in Indexes[t][d]
  BY <1>1, <1>2, <1>4 DEF WholeInv, MovingWhole
<1>12. LayersWhole(P, Indexes) /\ InBounds(P, Indexes, Keys, Len(log)) /\ Len(log) \in Nat
  BY IndexesInBounds DEF WholeInv
<1> HIDE DEF P
<1>13. LayersWhole(DOMAIN primary', Indexes')
  BY ONLY <1>3, <1>4, <1>7, <1>8, <1>9, <1>10, <1>11, <1>12, DropWhole
<1> QED
  BY <1>2, <1>13 DEF WholeInv, MovingWhole

(* What a chunk that damages nothing takes the place of, it contains.      *)
LEMMA ChunkKept ==
  ASSUME IndexInv, AppendTarget, ~damaged'
  PROVE  NoChunkShrinks
<1> SUFFICES ASSUME msg.source + 1 \in BlobLayers
             PROVE  DroppedIndex \in DOMAIN archive[msg.source + 1]
                      => DOMAIN archive[msg.source + 1][DroppedIndex] \subseteq DOMAIN moving
  BY DEF NoChunkShrinks
<1>1. ~Refuses(msg.source + 1, LastOf(DOMAIN moving))
  BY DEF Refuses
<1>2. ~Damages(msg.source + 1, moving)
  BY <1>1 DEF AppendTarget
<1> QED
  BY <1>2 DEF Damages, DroppedIndex

LEMMA DamageStays == [Next]_vars /\ damaged => damaged'
<1> SUFFICES ASSUME [Next]_vars, damaged PROVE damaged'
  OBVIOUS
<1>1. ASSUME NEW e \in Entries, Create(e) \/ Add(e) PROVE damaged'
  BY <1>1 DEF Create, Add
<1>2. ASSUME NEW kind, StartWriting(kind) PROVE damaged'
  BY <1>2 DEF StartWriting
<1>3. Open \/ Close \/ Crash \/ Writing \/ Archive => damaged'
  BY DEF Open, Close, Crash, DropOpen, Writing, WriteEntry, WriteDone, EnqueueTransfer, Archive
<1>4. Transfer => damaged'
  BY DEF Transfer, TakeMessage, AppendTarget, DropSource, MeasureSource, AdjustCount
<1>5. Reading \/ UNCHANGED vars => damaged'
  BY DEF Reading, ReadPrimary, ReadChunk, ReadGap, ReadReturn, ReadStart, vars
<1> QED
  BY <1>1, <1>2, <1>3, <1>4, <1>5 DEF Next

(* The chunks fit the cache as long as no layer is damaged.                *)
LEMMA KeepFit ==
  IndexInv /\ ChunksFit /\ ~damaged' /\ [Next]_vars => ChunksFit'
<1> SUFFICES ASSUME IndexInv, ChunksFit, ~damaged', [Next]_vars PROVE ChunksFit'
  OBVIOUS
<1>1. ASSUME archive' = archive PROVE ChunksFit'
  BY <1>1 DEF ChunksFit
<1>2. ASSUME NEW e \in Entries, Create(e) \/ Add(e) PROVE ChunksFit'
  BY <1>1, <1>2 DEF Create, Add, storage
<1>3. ASSUME NEW kind, StartWriting(kind) PROVE ChunksFit'
  BY <1>1, <1>3 DEF StartWriting, storage
<1>4. Open \/ Close \/ Crash \/ Writing \/ Archive => ChunksFit'
  BY <1>1 DEF Open, Close, Crash, DropOpen, Writing, WriteEntry, WriteDone,
              EnqueueTransfer, Archive, storage
<1>5. TakeMessage \/ MeasureSource \/ AdjustCount => ChunksFit'
  BY <1>1 DEF TakeMessage, MeasureSource, AdjustCount, storage
<1>6. Reading \/ UNCHANGED vars => ChunksFit'
  BY <1>1 DEF Reading, ReadPrimary, ReadChunk, ReadGap, ReadReturn, ReadStart, vars, storage
<1>7. ASSUME AppendTarget PROVE ChunksFit'
  <2>1. PICK t, d : t = msg.source + 1 /\ d = LastOf(DOMAIN moving)
    OBVIOUS
  <2>2. CASE Refuses(t, d)
    BY <1>1, <1>7, <2>1, <2>2 DEF AppendTarget
  <2>3. CASE ~Refuses(t, d)
    <3>1. StoreChunk(t, moving) /\ ~Damages(t, moving)
      BY <1>7, <2>1, <2>3 DEF AppendTarget
    <3>2. \A i \in DOMAIN moving : ~(d - i >= CacheSize)
      BY <2>1, <3>1 DEF Damages
    <3>3. \A i \in DOMAIN moving : i \in 1..Len(log) /\ Len(log) \in Nat
      BY DEF IndexInv, CopiesRight, CopyOfLog, StateTypeOK
    <3>4. d \in Int
      <4>1. DOMAIN moving \in SUBSET (1..Len(log)) /\ Len(log) \in Nat
        BY <3>3 DEF IndexInv, StateTypeOK
      <4>2. d = 0 \/ d \in DOMAIN moving
        BY <2>1, <4>1, LastOfIsGreatest DEF LastOf
      <4> QED
        BY <4>1, <4>2
    <3>5. \A i \in DOMAIN moving : d - i < CacheSize
      BY <3>2, <3>3, <3>4, OplogAssumption
    <3>6. ASSUME NEW l \in Archives PROVE
            \/ archive'[l] = archive[l]
            \/ archive'[l] = [i \in DOMAIN archive[t] \cup {d} |->
                                 IF i = d THEN moving ELSE archive[t][i]] /\ l = t
      BY <2>1, <3>1, <3>6 DEF StoreChunk, IndexInv, StateTypeOK
    <3>7. ASSUME NEW l \in Archives, NEW k \in DOMAIN archive'[l]
          PROVE  \/ k \in DOMAIN archive[l] /\ archive'[l][k] = archive[l][k]
                 \/ k = d /\ archive'[l][k] = moving
      <4>1. CASE archive'[l] = archive[l]
        BY <3>7, <4>1
      <4>2. ASSUME archive'[l] = [i \in DOMAIN archive[t] \cup {d} |->
                                    IF i = d THEN moving ELSE archive[t][i]], l = t
            PROVE  \/ k \in DOMAIN archive[l] /\ archive'[l][k] = archive[l][k]
                   \/ k = d /\ archive'[l][k] = moving
        <5>1. k \in DOMAIN archive[t] \cup {d}
          BY <3>7, <4>2
        <5>2. archive'[l][k] = IF k = d THEN moving ELSE archive[t][k]
          BY <4>2, <5>1
        <5> QED
          BY <4>2, <5>1, <5>2
      <4> QED
        BY <3>6, <4>1, <4>2
    <3>8. ASSUME NEW l \in Archives, NEW k \in DOMAIN archive'[l],
                 NEW i \in DOMAIN archive'[l][k]
          PROVE  k - i < CacheSize
      <4>1. CASE k \in DOMAIN archive[l] /\ archive'[l][k] = archive[l][k]
        BY <3>8, <4>1 DEF ChunksFit
      <4>2. CASE k = d /\ archive'[l][k] = moving
        BY <3>5, <3>8, <4>2
      <4> QED
        BY <3>7, <3>8, <4>1, <4>2
    <3> QED
      BY <3>8 DEF ChunksFit
  <2> QED
    BY <2>2, <2>3
<1>8. ASSUME DropSource PROVE ChunksFit'
  <2>1. \A l \in Archives : \A k \in DOMAIN archive'[l] :
          k \in DOMAIN archive[l] /\ archive'[l][k] = archive[l][k]
    BY <1>8 DEF DropSource, Above, IndexInv, StateTypeOK
  <2> QED
    BY <2>1 DEF ChunksFit
<1> QED
  BY <1>2, <1>3, <1>4, <1>5, <1>6, <1>7, <1>8 DEF Next, Transfer

LEMMA KeepWhole ==
  IndexInv /\ WholeInv /\ ChunksFit /\ ~damaged' /\ [Next]_vars => WholeInv'
<1> SUFFICES ASSUME IndexInv, WholeInv, ChunksFit, ~damaged', [Next]_vars
             PROVE  WholeInv'
  OBVIOUS
<1>0. IndexInv' /\ (AppendTarget => NoChunkShrinks)
  BY KeepIndex, ChunkKept
<1>1. ASSUME NEW e \in Entries, Create(e) PROVE WholeInv'
  <2>1. Len(log) = 0 /\ \A l \in Layers : Keys[l] = {}
    BY <1>1, LastIndexIsEnd DEF Create
  <2>2. DOMAIN primary = {}
    BY <2>1, KeysAre, LayersAre
  <2>3. /\ DOMAIN primary' = DOMAIN primary \cup {Len(log) + 1}
        /\ UNCHANGED <<archive, fiber, msg, moving>>
    BY <1>1, <2>1, <2>2 DEF Create, transfer
  <2> QED
    BY <2>3, RowWhole
<1>2. ASSUME WriteEntry PROVE WholeInv'
  <2>1. /\ DOMAIN primary' = DOMAIN primary \cup {last_committed_idx + 1}
        /\ UNCHANGED <<archive, fiber, msg, moving>> /\ writing # "no"
    BY <1>2 DEF WriteEntry, transfer
  <2>2. last_committed_idx = Len(log)
    BY <2>1 DEF IndexInv, OpenInv
  <2> QED
    BY <2>1, <2>2, RowWhole
<1>3. ASSUME NEW e \in Entries, Add(e) PROVE WholeInv'
  BY <1>3, RestWhole DEF Add, transfer
<1>4. ASSUME NEW kind, StartWriting(kind) PROVE WholeInv'
  BY <1>4, RestWhole DEF StartWriting, transfer
<1>5. Open \/ WriteDone \/ EnqueueTransfer \/ Archive => WholeInv'
  BY RestWhole DEF Open, WriteDone, EnqueueTransfer, Archive, transfer
<1>6. Close \/ Crash \/ MeasureSource \/ AdjustCount => WholeInv'
  BY RestWhole DEF Close, Crash, DropOpen, MeasureSource, AdjustCount
<1>7. Reading => WholeInv'
  BY RestWhole DEF Reading, ReadPrimary, ReadChunk, ReadGap, ReadReturn, ReadStart, transfer
<1>8. UNCHANGED vars => WholeInv'
  BY RestWhole DEF vars, transfer
<1> QED
  BY <1>0, <1>1, <1>2, <1>3, <1>4, <1>5, <1>6, <1>7, <1>8,
     TakeWhole, AppendTargetWhole, DropSourceWhole DEF Next, Writing, Transfer

-----------------------------------------------------------------------------
(* Whatever the layers hold is the entry that was written at its index:    *)
(* transfers, their repetition after a crash and the overwriting of chunks *)
(* in the blob storage mix up nothing.                                     *)
THEOREM OplogCopiesRight == Spec => []CopiesRight
<1>1. IndexInv => CopiesRight
  BY DEF IndexInv
<1> QED
  BY <1>1, InitIndex, KeepIndex, PTL DEF Spec

(* As long as no layer is damaged.                                         *)
Intact == ChunksFit /\ WholeInv

LEMMA KeepIntact ==
  IndexInv /\ (damaged \/ Intact) /\ [Next]_vars => (damaged \/ Intact)'
BY DamageStays, KeepFit, KeepWhole DEF Intact

LEMMA LayersIntact == Spec => [](IndexInv /\ (damaged \/ Intact))
<1>1. Init => damaged \/ Intact
  <2> SUFFICES ASSUME Init PROVE ChunksFit
    BY InitWhole DEF Intact
  <2> QED
    BY DEF Init, Nothing, ChunksFit
<1> QED
  BY <1>1, InitIndex, KeepIndex, KeepIntact, PTL DEF Spec

LEMMA AllMoved ==
  ASSUME IndexInv, WholeInv, ChunksFit
  PROVE  EntriesMoved
<1>1. DOMAIN log = 1..Len(log)
  BY DEF IndexInv, StateTypeOK
<1>2. ASSUME NEW i \in DOMAIN log PROVE \E l \in Layers : Holds(l, i)
  <2>1. \E m \in Layers : m >= 0 /\ Stores(DOMAIN primary, Indexes, m, i)
    BY <1>1, <1>2, IndexesInBounds, AllStored DEF WholeInv
  <2> QED
    BY <2>1, StoredIsHeld
<1> QED
  BY <1>2 DEF EntriesMoved

(* No entry is lost: however transfers, closing and crashes interleave,    *)
(* every written entry is found in some layer, as it was written, unless a *)
(* chunk was stored that is longer than the cache it is read through, or   *)
(* that took the place of a larger one in the blob storage.                *)
THEOREM OplogLosesNothing == Spec => []NothingLost
<1>1. IndexInv /\ (damaged \/ Intact) => NothingLost
  <2> SUFFICES ASSUME IndexInv, damaged \/ Intact PROVE NothingLost
    OBVIOUS
  <2>1. DOMAIN log = 1..Len(log)
    BY DEF IndexInv, StateTypeOK
  <2>2. ~damaged => EntriesMoved
    BY AllMoved DEF Intact
  <2> QED
    BY <2>1, <2>2 DEF NothingLost, IndexInv, CopiesRight, CopyOfLog
<1> QED
  BY <1>1, LayersIntact, PTL

-----------------------------------------------------------------------------
(* What get_last_index and a read of all layers give is the log.           *)
LEMMA StoredIsLog ==
  ASSUME IndexInv, WholeInv, ChunksFit
  PROVE  StoredLog = log
<1>1. log \in Seq(Entries) /\ Len(log) \in Nat /\ DOMAIN log = 1..Len(log)
  BY DEF IndexInv, StateTypeOK
<1>2. CASE ~Exists
  <2>1. Len(log) = 0
    BY <1>2, LastIndexIsEnd
  <2>2. log = <<>>
    BY ONLY <1>1, <2>1
  <2> QED
    BY <1>2, <2>2 DEF StoredLog
<1>3. CASE Exists
  <2> DEFINE Uppermost(i) == CHOOSE l \in Layers : Holds(l, i) /\ \A m \in 0 .. l - 1 : ~Holds(m, i)
  <2>1. StoredLog = [i \in 1 .. LastIndex |-> EntryAt(Uppermost(i), i)]
    BY <1>3 DEF StoredLog
  <2>2. LastIndex = Len(log)
    BY <1>3, LastIndexIsEnd
  <2>3. ASSUME NEW i \in 1..Len(log) PROVE EntryAt(Uppermost(i), i) = log[i]
    <3> DEFINE S == {l \in Layers : Holds(l, i)}
    <3>1. S # {} /\ S \in SUBSET Nat
      BY <1>1, AllMoved, LayersAre DEF EntriesMoved
    <3>2. PICK l \in S : \A m \in S : l <= m
      BY <3>1, LeastIndex
    <3>3. l \in Layers /\ l \in Nat /\ Holds(l, i)
      BY <3>1, <3>2
    <3>4. ASSUME NEW m \in 0 .. l - 1 PROVE ~Holds(m, i)
      <4>1. m \in Layers /\ m \in Nat /\ m < l
        BY <3>3, LayersAre DEF Layers
      <4> QED
        BY <3>2, <3>3, <4>1
    <3>5. Uppermost(i) \in Layers /\ Holds(Uppermost(i), i)
      BY <3>3, <3>4
    <3> HIDE DEF Uppermost
    <3> QED
      BY <3>5, HeldIsCopy
  <2> HIDE DEF Uppermost
  <2>4. StoredLog = [i \in 1..Len(log) |-> log[i]]
    BY <2>1, <2>2, <2>3
  <2>5. log = [i \in 1..Len(log) |-> log[i]]
    BY <1>1
  <2> QED
    BY <2>4, <2>5
<1> QED
  BY <1>2, <1>3

ReadsGiveLog == damaged \/ PromisedLog = log

(* Every step is a step of the abstract log or changes nothing of it.      *)
LEMMA StepIsLogStep ==
  IndexInv /\ [Next]_vars /\ ReadsGiveLog /\ ReadsGiveLog'
    => [Abstract!Next]_<<PromisedLog, buffer, ~damaged>>
<1>0. damaged' => Abstract!Next
  BY DEF Abstract!Next
<1> SUFFICES ASSUME IndexInv, [Next]_vars, ~damaged, ~damaged',
                    PromisedLog = log, PromisedLog' = log'
             PROVE  [Abstract!Next]_<<PromisedLog, buffer, ~damaged>>
  BY <1>0, DamageStays DEF ReadsGiveLog
<1>1. ASSUME log' = log, buffer' = buffer
      PROVE  [Abstract!Next]_<<PromisedLog, buffer, ~damaged>>
  BY <1>1
<1>2. ASSUME NEW e \in Entries, Create(e) PROVE Abstract!Create
  <2>1. Len(log) = 0 /\ log \in Seq(Entries) /\ ~open
    BY <1>2, LastIndexIsEnd DEF Create, IndexInv, StateTypeOK
  <2>2. log = <<>>
    BY ONLY <2>1
  <2>3. buffer = <<>>
    BY <2>1 DEF IndexInv, OpenInv
  <2> QED
    BY <1>2, <2>2, <2>3 DEF Create, Abstract!Create
<1>3. ASSUME NEW e \in Entries, Add(e) PROVE Abstract!Add
  BY <1>3 DEF Add, Abstract!Add
<1>4. WriteEntry => Abstract!Write
  BY DEF WriteEntry, Abstract!Write
<1>5. Close \/ Crash => Abstract!Lose
  BY DEF Close, Crash, DropOpen, Abstract!Lose
<1>6. ASSUME NEW kind, StartWriting(kind) PROVE log' = log /\ buffer' = buffer
  BY <1>6 DEF StartWriting
<1>7. Open \/ WriteDone \/ EnqueueTransfer => log' = log /\ buffer' = buffer
  BY DEF Open, WriteDone, EnqueueTransfer
<1>8. Archive \/ Transfer => log' = log /\ buffer' = buffer
  BY DEF Archive, Transfer, TakeMessage, AppendTarget, DropSource, MeasureSource,
         AdjustCount, writer
<1>9. Reading \/ UNCHANGED vars => log' = log /\ buffer' = buffer
  <2>1. Reading \/ UNCHANGED vars => UNCHANGED <<writer, log>>
    BY DEF Reading, ReadPrimary, ReadChunk, ReadGap, ReadReturn, ReadStart, vars
  <2> QED
    BY <2>1 DEF writer
<1> QED
  BY <1>1, <1>2, <1>3, <1>4, <1>5, <1>6, <1>7, <1>8, <1>9 DEF Next, Writing, Abstract!Next

(* The layers together behave as one append-only log: what get_last_index  *)
(* and a read of all layers give is created, extended by what was added in *)
(* its order, and never anything else, until a stored chunk damages its    *)
(* layer.                                                                  *)
THEOREM OplogImplementsLog == Spec => ImplementsLog
<1>1. Init => Abstract!Init
  <2> SUFFICES ASSUME Init PROVE Abstract!Init
    OBVIOUS
  <2>1. \A l \in Layers : LastIndexOf(l) = 0
    BY LayersAre DEF Init, Nothing, LastIndexOf, LastOf
  <2>2. PromisedLog = <<>>
    BY <2>1 DEF Init, PromisedLog, StoredLog, Exists
  <2> QED
    BY <2>2 DEF Init, Abstract!Init
<1>2. IndexInv /\ (damaged \/ Intact) => ReadsGiveLog
  BY StoredIsLog DEF ReadsGiveLog, PromisedLog, Intact
<1> QED
  BY <1>1, <1>2, LayersIntact, StepIsLogStep, PTL DEF Spec, ImplementsLog, Abstract!Spec

-----------------------------------------------------------------------------
(* The fiber.  As long as nothing has crashed, the rows of the primary     *)
(* oplog come after the chunks of the first archive, but while the rows of *)
(* a chunk that was just appended are still to be dropped.                 *)

DroppingRows == fiber = "drop" /\ msg.source = 0

FiberInv ==
  /\ crashes \in Nat
  /\ \A x \in DOMAIN queue : queue[x].source < NumLower
  /\ crashes = 0 =>
       /\ fiber # "panicked"
       /\ ~DroppingRows => \A k \in Keys[1], i \in Keys[0] : k < i
       /\ DroppingRows => \A k \in Keys[1] : k <= DroppedIndex
       /\ fiber = "append" /\ msg.source = 0 => DroppedIndex \in Keys[0]

(* Steps that leave the layers alone and have the fiber drop no rows.      *)
LEMMA RestFiber ==
  ASSUME FiberInv, UNCHANGED <<crashes, storage>>,
         \A x \in DOMAIN queue' : queue'[x].source < NumLower,
         \/ UNCHANGED <<fiber, msg, moving>>
         \/ fiber' \in {"idle", "measure", "count"} /\ (crashes = 0 => ~DroppingRows)
  PROVE  FiberInv'
<1>1. Keys' = Keys
  BY DEF Keys, storage
<1> QED
  BY <1>1 DEF FiberInv, DroppingRows, DroppedIndex

LEMMA KeepFiber ==
  ASSUME NumLower >= 2, 2 .. NumLower \subseteq BlobLayers
  PROVE  IndexInv /\ IndexInv' /\ FiberInv /\ [Next]_vars => FiberInv'
<1> SUFFICES ASSUME IndexInv, IndexInv', FiberInv, [Next]_vars PROVE FiberInv'
  OBVIOUS
<1>1. /\ queue \in Seq(Messages) /\ Keys \in KeySets(Len(log)) /\ Len(log) \in Nat
      /\ NumLower \in Nat /\ 1 \in Archives /\ 1 \in Layers /\ 0 \in Layers
      /\ NoMessage.source = 0
  BY KeysBounded, LayersAre DEF IndexInv, StateTypeOK, Archives, NoMessage
<1>2. ASSUME NEW m \in Messages, m.source < NumLower, Send(m)
      PROVE  \A x \in DOMAIN queue' : queue'[x].source < NumLower
  <2>1. queue' = <<>> \/ queue' = Append(queue, m)
    BY <1>2 DEF Send
  <2> QED
    BY <1>1, <1>2, <2>1, AppendEntries DEF FiberInv
<1>3. \A x \in DOMAIN queue : queue[x].source < NumLower
  BY DEF FiberInv
<1>4. ASSUME NEW e \in Entries, Create(e) PROVE FiberInv'
  <2>1. \A l \in Layers : Keys[l] = {}
    BY <1>4, LastIndexIsEnd DEF Create
  <2>2. Keys'[1] = {} /\ UNCHANGED <<queue, fiber, msg, moving, crashes>> /\ fiber = "idle"
    BY <1>1, <1>4, <2>1 DEF Create, transfer, Keys, IndexInv, OpenInv
  <2> QED
    BY <1>3, <2>2 DEF FiberInv, DroppingRows
<1>5. ASSUME WriteEntry PROVE FiberInv'
  <2>1. /\ DOMAIN primary' = DOMAIN primary \cup {last_committed_idx + 1}
        /\ UNCHANGED <<archive, queue, fiber, msg, moving, crashes>> /\ writing # "no"
    BY <1>5 DEF WriteEntry, transfer
  <2>2. last_committed_idx = Len(log)
    BY <2>1 DEF IndexInv, OpenInv
  <2>3. Keys'[0] = Keys[0] \cup {Len(log) + 1} /\ Keys'[1] = Keys[1] /\ DroppedIndex' = DroppedIndex
    BY <1>1, <2>1, <2>2 DEF Keys, DroppedIndex
  <2>4. \A k \in Keys[1] : k \in Nat /\ k < Len(log) + 1
    BY <1>1 DEF KeySets
  <2> QED
    BY <1>3, <2>1, <2>3, <2>4 DEF FiberInv, DroppingRows
<1>6. ASSUME NEW e \in Entries, Add(e) PROVE FiberInv'
  BY <1>3, <1>6, RestFiber DEF Add, transfer
<1>7. ASSUME NEW kind, StartWriting(kind) PROVE FiberInv'
  BY <1>3, <1>7, RestFiber DEF StartWriting, transfer
<1>8. Open \/ WriteDone \/ Reading \/ UNCHANGED vars => FiberInv'
  <2>1. Open \/ WriteDone \/ Reading \/ UNCHANGED vars
          => UNCHANGED <<storage, queue, fiber, msg, moving, crashes>>
    BY DEF Open, WriteDone, Reading, ReadPrimary, ReadChunk, ReadGap, ReadReturn, ReadStart,
           vars, transfer
  <2> QED
    BY <1>3, <2>1, RestFiber
<1>9. ASSUME EnqueueTransfer \/ Archive PROVE FiberInv'
  <2>1. UNCHANGED <<storage, fiber, msg, moving, crashes>>
    BY <1>9 DEF EnqueueTransfer, Archive
  <2>2. \A x \in DOMAIN queue' : queue'[x].source < NumLower
    <3>1. ASSUME NEW keep \in BOOLEAN, Send([source |-> 0, upto |-> last_oplog_idx, keep |-> keep])
          PROVE  \A x \in DOMAIN queue' : queue'[x].source < NumLower
      <4>1. [source |-> 0, upto |-> last_oplog_idx, keep |-> keep] \in Messages
        BY <1>1 DEF Messages, IndexInv, StateTypeOK
      <4> QED
        BY <1>1, <1>2, <3>1, <4>1
    <3>2. ASSUME NEW l \in Candidates, Send([source |-> l, upto |-> LastIndexOf(l), keep |-> TRUE])
          PROVE  \A x \in DOMAIN queue' : queue'[x].source < NumLower
      <4>1. l \in Layers /\ l < NumLower
        BY <1>1, LayersAre DEF Candidates
      <4>2. LastIndexOf(l) \in Nat
        BY <1>1, <4>1, KeysAre, LastOfIsGreatest DEF KeySets
      <4>3. [source |-> l, upto |-> LastIndexOf(l), keep |-> TRUE] \in Messages
        BY <4>1, <4>2 DEF Messages
      <4> QED
        BY <1>2, <3>2, <4>1, <4>3
    <3> QED
      BY <1>9, <3>1, <3>2 DEF EnqueueTransfer, Archive
  <2> QED
    BY <2>1, <2>2, RestFiber
<1>10. ASSUME Close \/ Crash PROVE FiberInv'
  <2>1. UNCHANGED storage /\ queue' = <<>> /\ fiber' = "idle"
    BY <1>10 DEF Close, Crash, DropOpen
  <2>2. CASE Crash
    <3>1. crashes' \in Nat /\ crashes' # 0
      BY <2>2 DEF Crash, FiberInv
    <3> QED
      BY <2>1, <3>1 DEF FiberInv
  <2>3. CASE Close
    <3>1. ~DroppingRows /\ crashes' = crashes
      BY <2>3 DEF Close, DroppingRows
    <3> QED
      BY <2>1, <3>1, RestFiber
  <2> QED
    BY <1>10, <2>2, <2>3
<1>11. ASSUME MeasureSource \/ AdjustCount PROVE FiberInv'
  <2>1. /\ UNCHANGED <<storage, queue, crashes>> /\ fiber' \in {"count", "idle"}
        /\ fiber \in {"measure", "count"}
    BY <1>11 DEF MeasureSource, AdjustCount
  <2> QED
    BY <1>3, <2>1, RestFiber DEF DroppingRows
<1>12. ASSUME TakeMessage PROVE FiberInv'
  <2>1. /\ UNCHANGED <<storage, crashes>> /\ fiber = "idle" /\ queue # <<>> /\ Keys' = Keys
    BY <1>12 DEF TakeMessage, storage, Keys
  <2>2. Head(queue).source < NumLower /\ Head(queue).source \in Nat
    BY <1>1, <2>1, TailEntries, MessageFields DEF FiberInv
  <2>3. /\ queue' = Tail(queue)
        /\ moving' = ReadLayer(Head(queue).source, 1, Head(queue).upto)
        /\ fiber' = "idle" \/ (fiber' = "append" /\ msg' = Head(queue))
    BY <1>1, <1>12, <2>2 DEF TakeMessage
  <2>4. \A x \in DOMAIN queue' : queue'[x].source < NumLower
    BY <1>1, <2>1, <2>3, TailEntries DEF FiberInv
  <2>5. ASSUME fiber' = "append", msg'.source = 0 PROVE DroppedIndex' \in Keys'[0]
    <3>1. DroppedIndex' \in DOMAIN moving'
      BY <2>5 DEF IndexInv, MovingInv
    <3>2. DOMAIN moving' = Found(0, 1, Head(queue).upto)
      BY <2>3, <2>5 DEF ReadLayer
    <3> QED
      BY <2>1, <3>1, <3>2, KeysAre DEF Found, Holds
  <2> QED
    BY <2>1, <2>3, <2>4, <2>5 DEF FiberInv, DroppingRows
<1>13. ASSUME AppendTarget PROVE FiberInv'
  <2>1. PICK s, d : s = msg.source /\ d = DroppedIndex
    OBVIOUS
  <2>2. /\ UNCHANGED <<primary, crashes>> /\ fiber = "append"
    BY <1>13 DEF AppendTarget
  <2>3. /\ s \in Layers /\ s \in Nat /\ s < NumLower /\ s + 1 \in Archives
        /\ s + 1 \in Layers /\ d \in Nat
    BY <2>1, <2>2, LayersAre
    DEF IndexInv, StateTypeOK, Messages, MovingInv, CopiesRight, CopyOfLog
  <2>4. CASE Refuses(s + 1, d)
    <3>1. queue' = <<>>
      BY <1>13, <2>1, <2>2, <2>4 DEF AppendTarget, Panic, DroppedIndex
    <3>2. s = 0
      <4>1. s + 1 \notin 2 .. NumLower
        BY <2>4 DEF Refuses
      <4> QED
        BY <1>1, <2>3, <4>1
    <3>3. Keys[1] # {} /\ LastOf(Keys[1]) \in Keys[1] /\ d <= LastOf(Keys[1])
      <4>1. d <= LastOf(Keys[1])
        BY <1>1, <2>4, <3>2, KeysAre DEF Refuses
      <4>2. d # 0
        BY <2>1, <2>2 DEF IndexInv, MovingInv, CopiesRight, CopyOfLog
      <4>3. Keys[1] \in SUBSET (1..Len(log))
        BY <1>1 DEF KeySets
      <4> QED
        BY <1>1, <2>3, <4>1, <4>2, <4>3, LastOfIsGreatest
    <3>4. LastOf(Keys[1]) \in Nat
      BY <1>1, <3>3 DEF KeySets
    <3>5. crashes # 0
      <4> SUFFICES ASSUME crashes = 0 PROVE FALSE
        OBVIOUS
      <4>1. d \in Keys[0] /\ LastOf(Keys[1]) < d
        BY <2>1, <2>2, <3>2, <3>3 DEF FiberInv, DroppingRows
      <4> QED
        BY <2>3, <3>3, <3>4, <4>1
    <3> QED
      BY <2>2, <3>1, <3>5 DEF FiberInv
  <2>5. CASE ~Refuses(s + 1, d)
    <3> DEFINE m == [source |-> s + 1, upto |-> d, keep |-> FALSE]
    <3>1. /\ StoreChunk(s + 1, moving) /\ fiber' = "drop" /\ msg' = msg /\ moving' = moving
          /\ queue' = queue \/ (s + 1 < NumLower /\ Send(m))
      BY <1>13, <2>1, <2>5 DEF AppendTarget, DroppedIndex
    <3>2. m \in Messages /\ m.source = s + 1
      BY <2>3 DEF Messages
    <3> HIDE DEF m
    <3>3. \A x \in DOMAIN queue' : queue'[x].source < NumLower
      BY <1>2, <1>3, <3>1, <3>2
    <3>4. /\ \A l \in Archives : l # s + 1 => archive'[l] = archive[l]
          /\ DOMAIN archive'[s + 1] = DOMAIN archive[s + 1] \cup {d}
      BY <2>1, <2>3, <3>1 DEF StoreChunk, IndexInv, StateTypeOK, DroppedIndex
    <3>5. /\ Keys'[0] = Keys[0] /\ DroppedIndex' = d
          /\ s # 0 => Keys'[1] = Keys[1]
          /\ s = 0 => Keys'[1] = Keys[1] \cup {d}
      BY <1>1, <2>1, <2>2, <2>3, <3>1, <3>4 DEF Keys, DroppedIndex
    <3>6. BelowUpTo(Keys, s, d)
      BY <2>1, <2>2 DEF IndexInv, MovingInv
    <3>7. s = 0 => \A k \in Keys'[1] : k <= d
      BY <1>1, <2>3, <3>5, <3>6 DEF BelowUpTo
    <3> QED
      BY <2>1, <2>2, <3>1, <3>3, <3>5, <3>7 DEF FiberInv, DroppingRows
  <2> QED
    BY <2>4, <2>5
<1>14. ASSUME DropSource PROVE FiberInv'
  <2>1. PICK s, d : s = msg.source /\ d = DroppedIndex
    OBVIOUS
  <2>2. /\ UNCHANGED <<queue, crashes>> /\ fiber = "drop" /\ fiber' = "measure"
    BY <1>14 DEF DropSource
  <2>3. d \in Nat
    BY <2>1, <2>2 DEF IndexInv, MovingInv, CopiesRight, CopyOfLog
  <2>4. CASE s = 0
    <3>1. Keys'[0] = {i \in Keys[0] : i > d} /\ Keys'[1] = Keys[1]
      BY <1>1, <1>14, <2>1, <2>4 DEF DropSource, Keys, Above
    <3>2. \A k \in Keys[1], i \in Keys[0] : k \in Nat /\ i \in Nat
      BY <1>1 DEF KeySets
    <3> QED
      BY <1>3, <2>1, <2>2, <2>3, <2>4, <3>1, <3>2 DEF FiberInv, DroppingRows
  <2>5. CASE s # 0
    <3>1. Keys'[0] = Keys[0] /\ Keys'[1] \subseteq Keys[1]
      BY <1>1, <1>14, <2>1, <2>5 DEF DropSource, Keys, Above, IndexInv, StateTypeOK
    <3> QED
      BY <1>3, <2>1, <2>2, <2>5, <3>1 DEF FiberInv, DroppingRows
  <2> QED
    BY <2>4, <2>5
<1> QED
  BY <1>4, <1>5, <1>6, <1>7, <1>8, <1>9, <1>10, <1>11, <1>12, <1>13, <1>14
  DEF Next, Writing, Transfer

(* As long as the executor has not crashed the fiber does not fail, where  *)
(* there are two archives or more and all but the first are in the blob    *)
(* storage: closing the oplog in the middle of a transfer does not make    *)
(* append refuse a chunk later.                                            *)
THEOREM FiberSurvivesWithoutCrash ==
  ASSUME NumLower >= 2, 2 .. NumLower \subseteq BlobLayers
  PROVE  Spec => []FiberSurvives
<1>1. Init => FiberInv
  <2> SUFFICES ASSUME Init PROVE FiberInv
    OBVIOUS
  <2>1. Keys[0] = {}
    BY KeysAre DEF Init, Nothing
  <2> QED
    BY <2>1 DEF Init, FiberInv, DroppingRows
<1>2. FiberInv => FiberSurvives
  BY DEF FiberInv, FiberSurvives
<1>3. Spec => []IndexInv
  BY InitIndex, KeepIndex, PTL DEF Spec
<1> QED
  BY <1>1, <1>2, <1>3, KeepFiber, PTL DEF Spec

-----------------------------------------------------------------------------
(* Readers.  What a read still has to find is in the layers it has yet to  *)
(* ask, because entries only move down; if a layer has given it a chunk,   *)
(* some layer from there on reaches past the position of the reader.       *)

ReadFits(r, P, C, K) ==
  r.first # 0 =>
    /\ r.next = -1 => r.first .. r.written \subseteq DOMAIN r.result
    /\ r.next # -1 => \A i \in r.first .. r.written :
         \/ i \in DOMAIN r.result
         \/ /\ i <= r.last /\ i <= r.at
            /\ \E m \in Layers : m >= r.next /\ Stores(P, C, m, i)
    /\ r.found => \E m \in Layers : m >= r.next /\ \E k \in K[m] : k >= r.at

ReadTypeOK(r) ==
  /\ r = [next |-> r.next, first |-> r.first, last |-> r.last, at |-> r.at,
          found |-> r.found, result |-> r.result, written |-> r.written]
  /\ r.next \in Layers \cup {-1} /\ r.first \in Nat /\ r.last \in Nat /\ r.at \in Nat
  /\ r.found \in BOOLEAN /\ r.written \in Nat

ReadInv ==
  /\ ReadTypeOK(reader) /\ CopyOfLog(reader.result) /\ reader.written <= Len(log)
  /\ reader.first = 0 => reader.next = 0
  /\ ReadFits(reader, DOMAIN primary, Indexes, Keys)

(* Entries and keys move down only.                                        *)
MoveDown(P, C, K, P2, C2, K2) ==
  /\ \A m \in Layers : \A i : Stores(P, C, m, i) =>
       \E h \in Layers : h >= m /\ Stores(P2, C2, h, i)
  /\ \A m \in Layers : \A k \in K[m] : \E h \in Layers : h >= m /\ \E j \in K2[h] : j >= k

LEMMA ReadGoesOn ==
  ASSUME NEW r, ReadTypeOK(r), NEW P, NEW C, NEW P2, NEW C2, NEW n \in Nat,
         NEW K \in KeySets(n), NEW K2 \in KeySets(n + 1),
         ReadFits(r, P, C, K), MoveDown(P, C, K, P2, C2, K2)
  PROVE  ReadFits(r, P2, C2, K2)
<1> SUFFICES ASSUME r.first # 0 PROVE ReadFits(r, P2, C2, K2)
  BY DEF ReadFits
<1>0. r.next \in Int /\ r.at \in Nat /\ \A m \in Layers : m \in Nat
  BY LayersAre DEF ReadTypeOK
<1>1. r.next = -1 => r.first .. r.written \subseteq DOMAIN r.result
  BY DEF ReadFits
<1>2. ASSUME r.next # -1, NEW i \in r.first .. r.written, i \notin DOMAIN r.result
      PROVE  /\ i <= r.last /\ i <= r.at
             /\ \E m \in Layers : m >= r.next /\ Stores(P2, C2, m, i)
  <2>1. /\ i <= r.last /\ i <= r.at
        /\ \E m \in Layers : m >= r.next /\ Stores(P, C, m, i)
    BY <1>2 DEF ReadFits
  <2>2. PICK m \in Layers : m >= r.next /\ Stores(P, C, m, i)
    BY <2>1
  <2>3. PICK h \in Layers : h >= m /\ Stores(P2, C2, h, i)
    BY <2>2 DEF MoveDown
  <2>4. h >= r.next
    BY <1>0, <2>2, <2>3
  <2> QED
    BY <2>1, <2>3, <2>4
<1>3. ASSUME r.found PROVE \E m \in Layers : m >= r.next /\ \E k \in K2[m] : k >= r.at
  <2>1. PICK m \in Layers : m >= r.next /\ \E k \in K[m] : k >= r.at
    BY <1>3 DEF ReadFits
  <2>2. PICK k \in K[m] : k >= r.at
    BY <2>1
  <2>3. PICK h \in Layers : h >= m /\ \E j \in K2[h] : j >= k
    BY <2>2 DEF MoveDown
  <2>4. PICK j \in K2[h] : j >= k
    BY <2>3
  <2>5. k \in Nat /\ j \in Nat
    BY <2>2, <2>4 DEF KeySets
  <2>6. h >= r.next /\ j >= r.at
    BY <1>0, <2>1, <2>2, <2>3, <2>4, <2>5
  <2> QED
    BY <2>4, <2>6
<1> QED
  BY <1>1, <1>2, <1>3 DEF ReadFits

LEMMA WritesGoDown ==
  ASSUME IndexInv, WholeInv, UNCHANGED archive, DOMAIN primary \subseteq DOMAIN primary'
  PROVE  MoveDown(DOMAIN primary, Indexes, Keys, DOMAIN primary', Indexes', Keys')
<1>1. Indexes' = Indexes /\ \A m \in Layers : Keys[m] \subseteq Keys'[m]
  BY DEF Indexes, Keys
<1>2. \A m \in Layers : m >= m
  BY LayersAre
<1>3. \A m \in Layers : \A i : Stores(DOMAIN primary, Indexes, m, i) =>
        Stores(DOMAIN primary', Indexes', m, i)
  BY <1>1 DEF Stores
<1>4. \A m \in Layers : \A k \in Keys[m] : k >= k
  BY IndexesInBounds DEF InBounds, KeySets
<1> QED
  BY <1>1, <1>2, <1>3, <1>4 DEF MoveDown

LEMMA AppendGoesDown ==
  ASSUME IndexInv, WholeInv, NoChunkShrinks, AppendTarget
  PROVE  MoveDown(DOMAIN primary, Indexes, Keys, DOMAIN primary', Indexes', Keys')
<1>1. PICK s, d : s = msg.source /\ d = DroppedIndex
  OBVIOUS
<1>2. primary' = primary /\ fiber = "append"
  BY DEF AppendTarget
<1>3. s \in Layers /\ s < NumLower
  BY <1>1, <1>2 DEF IndexInv, StateTypeOK, MovingInv, Messages
<1>4. PICK t \in Archives : t = s + 1
  BY <1>3, LayersAre
<1>5. CASE Refuses(t, d)
  <2>1. archive' = archive
    BY <1>1, <1>2, <1>4, <1>5 DEF AppendTarget, DroppedIndex
  <2> QED
    BY <1>2, <2>1, WritesGoDown
<1>6. CASE ~Refuses(t, d)
  <2>1. StoreChunk(t, moving)
    BY <1>1, <1>4, <1>6 DEF AppendTarget, DroppedIndex
  <2>2. /\ \A l \in Archives : l # t => archive'[l] = archive[l]
        /\ archive'[t] = [i \in DOMAIN archive[t] \cup {d} |->
                            IF i = d THEN moving ELSE archive[t][i]]
    BY <1>1, <1>4, <2>1 DEF StoreChunk, IndexInv, StateTypeOK, DroppedIndex
  <2>3. d \in DOMAIN archive[t] => DOMAIN archive[t][d] \subseteq DOMAIN moving
    <3> SUFFICES ASSUME d \in DOMAIN archive[t]
                 PROVE  DOMAIN archive[t][d] \subseteq DOMAIN moving
      OBVIOUS
    <3>1. d <= LastIndexOf(t)
      <4>1. LastIndexOf(t) = LastOf(Keys[t]) /\ d \in Keys[t] /\ t \in Layers
        BY KeysAre, LayersAre
      <4>2. Keys[t] \in SUBSET (1..Len(log)) /\ Len(log) \in Nat
        BY <4>1, IndexesInBounds DEF InBounds, KeySets
      <4> QED
        BY <4>1, <4>2, LastOfIsGreatest
    <3>2. t \in BlobLayers
      BY <1>6, <3>1 DEF Refuses
    <3> QED
      BY <1>1, <1>2, <1>4, <3>2 DEF NoChunkShrinks
  <2>4. \A l \in Archives : \A k \in DOMAIN Indexes[l] :
          k \in DOMAIN Indexes'[l] /\ Indexes[l][k] \subseteq Indexes'[l][k]
    <3>1. \A l \in Archives : \A k \in DOMAIN archive[l] :
            k \in DOMAIN archive'[l] /\ DOMAIN archive[l][k] \subseteq DOMAIN archive'[l][k]
      BY <2>2, <2>3
    <3> QED
      BY <3>1 DEF Indexes
  <2>5. \A m \in Layers : \A i : Stores(DOMAIN primary, Indexes, m, i) =>
          Stores(DOMAIN primary', Indexes', m, i)
    BY <1>2, <2>4, LayersAre DEF Stores
  <2>6. \A m \in Layers : m >= m /\ Keys[m] \subseteq Keys'[m] /\ Keys[m] \subseteq Nat
    <3>1. \A l \in Archives : DOMAIN archive[l] \subseteq DOMAIN archive'[l]
      BY <2>2
    <3>2. \A m \in Layers : Keys[m] \subseteq Keys'[m]
      BY <1>2, <3>1, LayersAre DEF Keys
    <3> QED
      BY <3>2, LayersAre, IndexesInBounds DEF InBounds, KeySets
  <2>7. \A m \in Layers : \A k \in Keys[m] : k >= k
    BY <2>6
  <2> QED
    BY <2>5, <2>6, <2>7 DEF MoveDown
<1> QED
  BY <1>5, <1>6

LEMMA DropGoesDown ==
  ASSUME IndexInv, WholeInv, DropSource
  PROVE  MoveDown(DOMAIN primary, Indexes, Keys, DOMAIN primary', Indexes', Keys')
<1> DEFINE P == DOMAIN primary
<1>1. PICK s, d : s = msg.source /\ d = DroppedIndex
  OBVIOUS
<1>2. fiber = "drop"
  BY DEF DropSource
<1>3. s \in Layers /\ s < NumLower /\ d \in Keys[s + 1]
  BY <1>1, <1>2 DEF IndexInv, StateTypeOK, MovingInv, Messages
<1>4. PICK t \in Archives : t = s + 1
  BY <1>3, LayersAre
<1>5. /\ t \in Layers /\ t # s /\ t # 0 /\ t >= s /\ s \in Nat /\ (s # 0 => s \in Archives)
      /\ \A m \in Layers : m >= m
  BY <1>3, <1>4, LayersAre
<1>6. /\ s = 0 => archive' = archive /\ primary' = Above(primary, d)
      /\ s # 0 => /\ primary' = primary
                  /\ archive'[s] = Above(archive[s], d)
                  /\ \A l \in Archives : l # s => archive'[l] = archive[l]
  BY <1>1, <1>5 DEF DropSource, IndexInv, StateTypeOK
<1>7. \A l \in Archives :
        l # s => Indexes'[l] = Indexes[l] /\ DOMAIN archive'[l] = DOMAIN archive[l]
  BY <1>6 DEF Indexes
<1>8. s # 0 => /\ DOMAIN Indexes'[s] = {k \in DOMAIN Indexes[s] : k > d}
               /\ \A k \in DOMAIN Indexes'[s] : Indexes'[s][k] = Indexes[s][k]
  BY <1>5, <1>6 DEF Indexes, Above
<1>9. d \in DOMAIN Indexes[t] /\ d \in Nat /\ d \in DOMAIN archive[t]
  <2>1. d \in DOMAIN Indexes[t] /\ Keys[t] \subseteq Nat
    BY <1>3, <1>4, IndexesInBounds DEF InBounds
  <2> QED
    BY <1>3, <1>4, <2>1, IndexesAre
<1>10. \A i \in 1..d : Stores(P, Indexes, s, i) => i \in Indexes[t][d]
  BY <1>1, <1>2, <1>4 DEF WholeInv, MovingWhole
<1>11. ASSUME NEW m \in Layers, NEW i, Stores(P, Indexes, m, i)
       PROVE  \E h \in Layers : h >= m /\ Stores(DOMAIN primary', Indexes', h, i)
  <2>1. CASE m # s
    <3>1. Stores(DOMAIN primary', Indexes', m, i)
      BY <1>6, <1>7, <1>11, <2>1, LayersAre DEF Stores
    <3> QED
      BY <1>5, <3>1
  <2>2. CASE m = s /\ i \in 1..d
    <3>1. i \in Indexes'[t][d] /\ d \in DOMAIN Indexes'[t]
      BY <1>5, <1>7, <1>9, <1>10, <1>11, <2>2
    <3>2. Stores(DOMAIN primary', Indexes', t, i)
      BY <1>5, <3>1 DEF Stores
    <3> QED
      BY <1>5, <2>2, <3>2
  <2>3. CASE m = s /\ i \notin 1..d
    <3>1. Stores(DOMAIN primary', Indexes', s, i)
      <4>1. CASE s = 0
        <5>1. i \in P /\ i \in Nat /\ i >= 1
          BY <1>11, <2>3, <4>1, IndexesInBounds DEF Stores, InBounds
        <5>2. i > d
          BY <1>9, <2>3, <5>1
        <5> QED
          BY <1>6, <4>1, <5>1, <5>2 DEF Stores, Above
      <4>2. CASE s # 0
        <5>1. PICK k \in DOMAIN Indexes[s] : i \in Indexes[s][k]
          BY <1>11, <2>3, <4>2 DEF Stores
        <5>2. k \in Nat /\ i \in Nat /\ i >= 1
          BY <1>5, <4>2, <5>1, IndexesInBounds DEF InBounds
        <5>3. i <= k
          BY <1>5, <4>2, <5>1 DEF WholeInv, LayersWhole, ChunksWhole
        <5>4. k > d
          BY <1>9, <2>3, <5>2, <5>3
        <5> QED
          BY <1>8, <4>2, <5>1, <5>4 DEF Stores
      <4> QED
        BY <4>1, <4>2
    <3> QED
      BY <1>5, <2>3, <3>1
  <2> QED
    BY <2>1, <2>2, <2>3
<1>12. /\ Keys'[s] = {j \in Keys[s] : j > d}
       /\ \A l \in Layers : l # s => Keys'[l] = Keys[l]
  <2>1. CASE s = 0
    BY <1>3, <1>6, <2>1, LayersAre DEF Keys, Above
  <2>2. CASE s # 0
    BY <1>3, <1>6, <2>2, LayersAre DEF Keys, Above
  <2> QED
    BY <2>1, <2>2
<1>13. ASSUME NEW m \in Layers, NEW k \in Keys[m]
       PROVE  \E h \in Layers : h >= m /\ \E j \in Keys'[h] : j >= k
  <2>1. k \in Nat /\ k >= k
    BY <1>13, IndexesInBounds DEF InBounds, KeySets
  <2>2. CASE m # s \/ k > d
    <3>1. k \in Keys'[m]
      BY <1>12, <1>13, <2>2
    <3> QED
      BY <1>5, <2>1, <3>1
  <2>3. CASE m = s /\ k <= d
    <3>1. d \in Keys'[t]
      BY <1>3, <1>4, <1>5, <1>12
    <3> QED
      BY <1>5, <1>9, <2>1, <2>3, <3>1
  <2> QED
    BY <1>9, <2>1, <2>2, <2>3
<1> QED
  BY <1>11, <1>13 DEF MoveDown

(* The layer has nothing of what is still to be found.                     *)
LEMMA NoMoreFits ==
  ASSUME IndexInv, ReadInv, reader.first # 0, reader.next \in Layers,
         \A i \in reader.first .. reader.written : i \notin DOMAIN reader.result =>
           ~Stores(DOMAIN primary, Indexes, reader.next, i)
  PROVE  /\ ReadTypeOK(NoMore) /\ NoMore.result = reader.result
         /\ NoMore.written = reader.written /\ NoMore.first = reader.first
         /\ ReadFits(NoMore, DOMAIN primary, Indexes, Keys)
<1>1. ReadTypeOK(reader) /\ ReadFits(reader, DOMAIN primary, Indexes, Keys)
  BY DEF ReadInv
<1>2. PICK next : next = NextLayer(reader.next)
  OBVIOUS
<1>3. /\ next \in Layers \cup {-1} /\ reader.next \in Nat /\ NumLower \in Nat
      /\ next # -1 => next = reader.next + 1
      /\ next = -1 => reader.next >= NumLower
  BY <1>2, LayersAre DEF NextLayer, Layers
<1>4. NoMore = [next |-> next, first |-> reader.first, last |-> reader.last,
                at |-> reader.last, found |-> FALSE, result |-> reader.result,
                written |-> reader.written]
  <2>1. PICK a, b, c, d, e, g, w :
        reader = [next |-> a, first |-> b, last |-> c, at |-> d, found |-> e,
                  result |-> g, written |-> w]
    BY <1>1 DEF ReadTypeOK
  <2>2. PICK last : last = reader.last
    OBVIOUS
  <2>3. NoMore = [reader EXCEPT !.next = next, !.at = last, !.found = FALSE]
    BY ONLY <1>2, <2>2, Zenon DEF NoMore
  <2>4. NoMore = [next |-> next, first |-> reader.first, last |-> last, at |-> last,
                  found |-> FALSE, result |-> reader.result, written |-> reader.written]
    BY ONLY <2>1, <2>2, <2>3
  <2> QED
    BY ONLY <2>2, <2>4
<1>5. ReadTypeOK(NoMore)
  BY <1>1, <1>3, <1>4 DEF ReadTypeOK
<1>6. ASSUME NEW i \in reader.first .. reader.written, i \notin DOMAIN reader.result
      PROVE  i <= reader.last /\ next # -1
             /\ \E m \in Layers : m >= next /\ Stores(DOMAIN primary, Indexes, m, i)
  <2>1. reader.next # -1
    BY <1>3
  <2>2. i <= reader.last /\ \E m \in Layers :
          m >= reader.next /\ Stores(DOMAIN primary, Indexes, m, i)
    BY <1>1, <1>6, <2>1 DEF ReadFits
  <2>3. PICK m \in Layers : m >= reader.next /\ Stores(DOMAIN primary, Indexes, m, i)
    BY <2>2
  <2>4. m # reader.next
    BY <1>6, <2>3
  <2>5. m > reader.next /\ m <= NumLower /\ m \in Nat
    BY <1>3, <2>3, <2>4 DEF Layers
  <2>6. next # -1 /\ m >= next
    BY <1>3, <2>5
  <2> QED
    BY <2>2, <2>3, <2>6
<1>7. ReadFits(NoMore, DOMAIN primary, Indexes, Keys)
  BY <1>4, <1>6 DEF ReadFits
<1> QED
  BY <1>4, <1>5, <1>7

(* The layer has given some of it, up to the position of the reader.       *)
LEMMA GotFits ==
  ASSUME IndexInv, ReadInv, reader.first # 0, reader.next \in Layers,
         NEW f, DOMAIN f # {}, CopyOfLog(f), \A i \in DOMAIN f : i >= reader.first,
         NEW next \in Layers, next >= reader.next,
         \A i \in DOMAIN f : \A j \in Nat :
           i <= j /\ j <= reader.last /\ j <= reader.at /\ j <= reader.written => j \in DOMAIN f,
         \A i \in reader.first .. reader.written :
           i \notin DOMAIN reader.result /\ i \notin DOMAIN f =>
             \E m \in Layers : m >= next /\ Stores(DOMAIN primary, Indexes, m, i),
         next = reader.next => \E k \in Keys[next] : \A i \in DOMAIN f : i <= k
  PROVE  /\ ReadTypeOK(Got(f, next)) /\ CopyOfLog(Got(f, next).result)
         /\ Got(f, next).written = reader.written /\ Got(f, next).first = reader.first
         /\ ReadFits(Got(f, next), DOMAIN primary, Indexes, Keys)
<1>1. ReadTypeOK(reader) /\ ReadFits(reader, DOMAIN primary, Indexes, Keys)
      /\ CopyOfLog(reader.result) /\ reader.next \in Nat /\ next \in Nat
      /\ reader.written \in Nat /\ reader.first \in Nat
  BY LayersAre DEF ReadInv, ReadTypeOK
<1>2. DOMAIN f \in SUBSET Nat
  BY DEF CopyOfLog
<1>3. \E i \in DOMAIN f : \A j \in DOMAIN f : i <= j
  BY <1>2, LeastIndex
<1>4. PICK least : least = CHOOSE i \in DOMAIN f : \A j \in DOMAIN f : i <= j
  OBVIOUS
<1>5. least \in DOMAIN f /\ \A j \in DOMAIN f : least <= j
  BY <1>3, <1>4
<1>6. least \in Nat /\ least >= 1 /\ least - 1 \in Nat
  BY <1>2, <1>5 DEF CopyOfLog
<1>7. PICK res, n2 : /\ res = [i \in DOMAIN reader.result \cup DOMAIN f |->
                                 IF i \in DOMAIN f THEN f[i] ELSE reader.result[i]]
                     /\ n2 = IF reader.first \in DOMAIN f THEN -1 ELSE next
  OBVIOUS
<1>8. Got(f, next) = [next |-> n2, first |-> reader.first, last |-> least - 1,
                      at |-> least - 1, found |-> (next = reader.next), result |-> res,
                      written |-> reader.written]
  <2>1. PICK a, b, c, d, e, g, w :
        reader = [next |-> a, first |-> b, last |-> c, at |-> d, found |-> e,
                  result |-> g, written |-> w]
    BY <1>1 DEF ReadTypeOK
  <2>2. PICK k : k = (next = reader.next)
    OBVIOUS
  <2>3. PICK before : before = least - 1
    OBVIOUS
  <2>4. Got(f, next) = [reader EXCEPT !.result = res, !.last = before, !.at = before,
                                      !.found = k, !.next = n2]
    BY ONLY <1>4, <1>7, <2>2, <2>3, Zenon DEF Got
  <2>5. Got(f, next) = [next |-> n2, first |-> reader.first, last |-> before,
                        at |-> before, found |-> k, result |-> res,
                        written |-> reader.written]
    BY ONLY <2>1, <2>4
  <2> QED
    BY ONLY <2>2, <2>3, <2>5
<1>9. ReadTypeOK(Got(f, next))
  BY <1>1, <1>6, <1>7, <1>8 DEF ReadTypeOK
<1>10. CopyOfLog(res)
  BY <1>1, <1>7 DEF CopyOfLog
<1>11. DOMAIN res = DOMAIN reader.result \cup DOMAIN f
  BY <1>7
<1>12. ASSUME NEW i \in reader.first .. reader.written, i \notin DOMAIN res
       PROVE  /\ i <= least - 1 /\ reader.first \notin DOMAIN f
              /\ \E m \in Layers : m >= next /\ Stores(DOMAIN primary, Indexes, m, i)
  <2>1. i \notin DOMAIN reader.result /\ i \notin DOMAIN f /\ i \in Nat
        /\ reader.first <= i /\ i <= reader.written /\ reader.next # -1
    BY <1>1, <1>11, <1>12
  <2>2. i <= reader.last /\ i <= reader.at
    BY <1>1, <1>12, <2>1 DEF ReadFits
  <2>3. \A j \in DOMAIN f : ~ (j <= i)
    BY <2>1, <2>2
  <2>4. i <= least - 1
    BY <1>5, <1>6, <2>1, <2>3
  <2> QED
    BY <1>12, <2>1, <2>3, <2>4
<1>13. ASSUME next = reader.next
       PROVE  \E m \in Layers : m >= n2 /\ \E k \in Keys[m] : k >= least - 1
  <2>1. PICK k \in Keys[next] : \A i \in DOMAIN f : i <= k
    BY <1>13
  <2>2. k \in Nat
    BY <2>1, IndexesInBounds DEF InBounds, KeySets
  <2>3. k >= least - 1 /\ next >= n2
    BY <1>1, <1>5, <1>6, <1>7, <2>1, <2>2
  <2> QED
    BY <2>1, <2>3
<1>14. ReadFits(Got(f, next), DOMAIN primary, Indexes, Keys)
  <2>1. n2 = -1 => reader.first .. reader.written \subseteq DOMAIN res
    BY <1>1, <1>7, <1>12
  <2>2. n2 # -1 => n2 = next
    BY <1>7
  <2>3. PICK g : g = Got(f, next)
    OBVIOUS
  <2>4. /\ g.next = n2 /\ g.first = reader.first /\ g.last = least - 1
        /\ g.at = least - 1 /\ g.found = (next = reader.next) /\ g.result = res
        /\ g.written = reader.written
    BY ONLY <1>8, <2>3
  <2>5. g.next = -1 => g.first .. g.written \subseteq DOMAIN g.result
    BY ONLY <2>1, <2>4
  <2>6. ASSUME g.next # -1, NEW i \in g.first .. g.written, i \notin DOMAIN g.result
        PROVE  /\ i <= g.last /\ i <= g.at
               /\ \E m \in Layers : m >= g.next /\ Stores(DOMAIN primary, Indexes, m, i)
    BY <1>12, <2>2, <2>4, <2>6
  <2>7. g.found => \E m \in Layers : m >= g.next /\ \E k \in Keys[m] : k >= g.at
    BY ONLY <1>13, <2>4
  <2> QED
    BY <2>3, <2>5, <2>6, <2>7, Zenon DEF ReadFits
<1> QED
  BY <1>8, <1>9, <1>10, <1>14

(* The closest chunk has the position of the reader if the archive has     *)
(* anything up to it.                                                      *)
LEMMA ClosestHasPosition ==
  ASSUME NEW n \in Nat, NEW P, NEW C, NEW K, InBounds(P, C, K, n), LayersWhole(P, C),
         NEW l \in Archives, NEW k, NEW at \in Nat, IsClosest(k, at, DOMAIN C[l]),
         NEW i \in Nat, i <= at, Stores(P, C, l, i)
  PROVE  at \in C[l][k]
<1>1. /\ k \in DOMAIN C[l] /\ k >= at /\ \A j \in DOMAIN C[l] : j >= at => k <= j
      /\ \A j \in DOMAIN C[l] : j \in Nat
      /\ l # 0 /\ l \in Layers
  BY LayersAre DEF IsClosest, InBounds, Archives
<1>2. ChunksWhole(C) /\ ChunksNested(C) /\ ChunksTouch(C)
  BY DEF LayersWhole
<1>3. PICK c \in DOMAIN C[l] : i \in C[l][c]
  BY <1>1 DEF Stores
<1>4. ASSUME NEW m \in DOMAIN C[l], at \in C[l][m] PROVE at \in C[l][k]
  <2>1. at <= m
    BY <1>2, <1>4 DEF ChunksWhole
  <2>2. k <= m /\ k \in Nat /\ m \in Nat
    BY <1>1, <1>4, <2>1
  <2> QED
    BY <1>1, <1>2, <1>4, <2>2 DEF ChunksNested
<1>5. CASE c >= at
  <2>1. at \in C[l][c]
    BY <1>1, <1>2, <1>3, <1>5 DEF ChunksWhole
  <2> QED
    BY <1>4, <2>1
<1>6. CASE c < at
  <2>1. c < k /\ at \in c + 1 .. k /\ c \in Nat /\ k \in Nat
    BY <1>1, <1>6
  <2>2. \E m \in DOMAIN C[l] : at \in C[l][m]
    BY <1>1, <1>2, <2>1 DEF ChunksTouch
  <2> QED
    BY <1>4, <2>2
<1> QED
  BY <1>1, <1>5, <1>6

(* An archive reaches as far as everything in it and below it.             *)
LEMMA StoredUpToEnd ==
  ASSUME IndexInv, WholeInv, NEW l \in Archives, Keys[l] # {},
         NEW m \in Layers, m >= l, NEW i, Stores(DOMAIN primary, Indexes, m, i)
  PROVE  i \in Nat /\ i <= LastIndexOf(l)
<1>1. InBounds(DOMAIN primary, Indexes, Keys, Len(log)) /\ Len(log) \in Nat
      /\ UpperReachesFurther(Keys)
  BY IndexesInBounds
<1>2. m \in Archives /\ m # 0 /\ l \in Layers
  BY LayersAre DEF Archives
<1>3. PICK k \in DOMAIN Indexes[m] : i \in Indexes[m][k]
  BY <1>2 DEF Stores
<1>4. i <= k /\ i \in Nat /\ k \in Nat /\ k \in Keys[m]
  <2>1. ChunksWhole(Indexes)
    BY DEF WholeInv, LayersWhole
  <2> QED
    BY <1>1, <1>2, <1>3, <2>1 DEF InBounds, ChunksWhole
<1>5. k <= LastOf(Keys[l]) /\ LastOf(Keys[l]) \in Nat
  <2>1. Keys \in KeySets(Len(log))
    BY <1>1 DEF InBounds
  <2> QED
    BY <1>1, <1>2, <1>4, <2>1, ArchiveEnd
<1> QED
  BY <1>2, <1>4, <1>5, KeysAre

(* A step of the reader leaves the layers alone.                           *)
LEMMA ReaderStep ==
  ASSUME UNCHANGED <<storage, log>>, NEW r, reader' = r, ReadTypeOK(r),
         CopyOfLog(r.result), r.written <= Len(log), r.first = 0 => r.next = 0,
         ReadFits(r, DOMAIN primary, Indexes, Keys)
  PROVE  ReadInv'
<1>1. Indexes' = Indexes /\ Keys' = Keys /\ primary' = primary /\ log' = log
  BY DEF Indexes, Keys, storage
<1>2. CopyOfLog(reader.result)' /\ (reader.written <= Len(log))'
  BY <1>1 DEF CopyOfLog
<1>3. ReadFits(reader', DOMAIN primary', Indexes', Keys')
  BY ONLY <1>1, ReadFits(r, DOMAIN primary, Indexes, Keys), reader' = r
<1> QED
  BY <1>2, <1>3 DEF ReadInv

(* The reader goes on to the next layer, or has got something.             *)
LEMMA NoMoreStep ==
  ASSUME IndexInv, ReadInv, UNCHANGED <<storage, log>>, reader.first # 0,
         reader.next \in Layers, reader' = NoMore,
         \A i \in reader.first .. reader.written : i \notin DOMAIN reader.result =>
           ~Stores(DOMAIN primary, Indexes, reader.next, i)
  PROVE  ReadInv'
<1>1. PICK r : r = NoMore
  OBVIOUS
<1>2. /\ ReadTypeOK(r) /\ r.result = reader.result /\ r.written = reader.written
      /\ r.first = reader.first /\ ReadFits(r, DOMAIN primary, Indexes, Keys)
  BY <1>1, NoMoreFits
<1>3. CopyOfLog(reader.result) /\ reader.written <= Len(log)
  BY DEF ReadInv
<1> QED
  BY <1>1, <1>2, <1>3, ReaderStep

LEMMA PrimaryRead == IndexInv /\ WholeInv /\ ReadInv /\ ReadPrimary => ReadInv'
<1> SUFFICES ASSUME IndexInv, WholeInv, ReadInv, ReadPrimary PROVE ReadInv'
  OBVIOUS
<1>1. /\ reader.first # 0 /\ reader.next = 0 /\ UNCHANGED <<storage, log>>
      /\ reader' = IF Found(0, reader.first, reader.last) = {} THEN NoMore
                     ELSE Got(ReadLayer(0, reader.first, reader.last), 1)
  BY DEF ReadPrimary
<1>2. /\ reader.first \in Nat /\ reader.last \in Nat /\ reader.written \in Nat
      /\ reader.written <= Len(log) /\ reader.next \in Layers /\ Len(log) \in Nat
  BY <1>1, LayersAre, IndexesInBounds DEF ReadInv, ReadTypeOK
<1>3. \A i : i \in Found(0, reader.first, reader.last)
        <=> i \in reader.first .. reader.last /\ i \in DOMAIN primary
  BY DEF Found, Holds
<1>4. ASSUME NEW i \in reader.first .. reader.written, i \notin DOMAIN reader.result
      PROVE  /\ i <= reader.last
             /\ \E m \in Layers : m >= 0 /\ Stores(DOMAIN primary, Indexes, m, i)
  BY <1>1, <1>4 DEF ReadInv, ReadFits
<1>5. CASE Found(0, reader.first, reader.last) = {}
  <2>1. ASSUME NEW i \in reader.first .. reader.written, i \notin DOMAIN reader.result
        PROVE  ~Stores(DOMAIN primary, Indexes, reader.next, i)
    <3>1. i \in reader.first .. reader.last
      BY <1>2, <1>4, <2>1
    <3> QED
      BY <1>1, <1>3, <1>5, <3>1 DEF Stores
  <2> QED
    BY <1>1, <1>2, <1>5, <2>1, NoMoreStep
<1>6. CASE Found(0, reader.first, reader.last) # {}
  <2>1. PICK f : f = ReadLayer(0, reader.first, reader.last)
    OBVIOUS
  <2>2. DOMAIN f = Found(0, reader.first, reader.last) /\ DOMAIN f # {}
    BY <1>6, <2>1 DEF ReadLayer
  <2>3. CopyOfLog(f)
    <3>1. \A i \in DOMAIN f : f[i] = EntryAt(0, i)
      BY <2>1 DEF ReadLayer
    <3>2. 0 \in Layers
      BY LayersAre
    <3> QED
      BY <1>2, <2>2, <3>1, <3>2, ReadIsCopy DEF CopyOfLog
  <2>4. \A i \in DOMAIN f : i >= reader.first /\ i \in Nat
    BY <1>2, <1>3, <2>2
  <2>5. 1 \in Layers /\ 1 >= reader.next /\ 1 # reader.next
    BY <1>1, LayersAre DEF Layers
  <2>6. ASSUME NEW i \in DOMAIN f, NEW j \in Nat, i <= j, j <= reader.last,
               j <= reader.at, j <= reader.written
        PROVE  j \in DOMAIN f
    <3>1. i \in DOMAIN primary
      BY <1>3, <2>2, <2>6
    <3>2. j \in i .. Len(log) /\ j \in reader.first .. reader.last
      BY <1>2, <2>4, <2>6
    <3>3. j \in DOMAIN primary
      BY <3>1, <3>2 DEF IndexInv, PrimaryToEnd
    <3> QED
      BY <1>3, <2>2, <3>2, <3>3
  <2>7. ASSUME NEW i \in reader.first .. reader.written,
               i \notin DOMAIN reader.result, i \notin DOMAIN f
        PROVE  \E m \in Layers : m >= 1 /\ Stores(DOMAIN primary, Indexes, m, i)
    <3>1. i <= reader.last
      BY <1>4, <2>7
    <3>2. PICK m \in Layers : m >= 0 /\ Stores(DOMAIN primary, Indexes, m, i)
      BY <1>4, <2>7
    <3>3. i \notin DOMAIN primary
      BY <1>2, <1>3, <2>2, <2>7, <3>1
    <3>4. m # 0 /\ m \in Nat
      BY <3>2, <3>3, LayersAre DEF Stores
    <3> QED
      BY <3>2, <3>4
  <2>8. PICK r : r = Got(f, 1)
    OBVIOUS
  <2>9. /\ ReadTypeOK(r) /\ CopyOfLog(r.result) /\ r.written = reader.written
        /\ r.first = reader.first /\ ReadFits(r, DOMAIN primary, Indexes, Keys)
    BY <1>1, <1>2, <2>2, <2>3, <2>4, <2>5, <2>6, <2>7, <2>8, GotFits
  <2> QED
    BY <1>1, <1>2, <1>6, <2>1, <2>8, <2>9, ReaderStep
<1> QED
  BY <1>5, <1>6

LEMMA ChunkRead == IndexInv /\ WholeInv /\ ChunksFit /\ ReadInv /\ ReadChunk => ReadInv'
<1> SUFFICES ASSUME IndexInv, WholeInv, ChunksFit, ReadInv, ReadChunk PROVE ReadInv'
  OBVIOUS
<1>1. PICK l : l = reader.next
  OBVIOUS
<1>2. PICK k \in DOMAIN archive[l] :
        /\ IsClosest(k, reader.at, DOMAIN archive[l])
        /\ reader' = IF FromChunk(k) = {} THEN NoMore
                       ELSE Got([i \in FromChunk(k) |-> archive[l][k][i]], l)
  BY <1>1 DEF ReadChunk
<1>3. l \in Archives /\ l # 0 /\ l \in Layers /\ l \in Nat /\ UNCHANGED <<storage, log>>
  BY <1>1, LayersAre DEF ReadChunk, ReadingArchive, Archives
<1>4. /\ reader.first \in Nat /\ reader.first # 0 /\ reader.at \in Nat
      /\ reader.written \in Nat /\ reader.written <= Len(log) /\ reader.next # -1
  BY <1>1, <1>3 DEF ReadInv, ReadTypeOK
<1>5. /\ InBounds(DOMAIN primary, Indexes, Keys, Len(log)) /\ Len(log) \in Nat
      /\ LayersWhole(DOMAIN primary, Indexes)
  BY IndexesInBounds DEF WholeInv
<1>6. /\ DOMAIN Indexes[l] = DOMAIN archive[l] /\ Indexes[l][k] = DOMAIN archive[l][k]
      /\ k \in Nat /\ k >= reader.at
  BY <1>2, <1>3, <1>5, IndexesAre DEF InBounds, IsClosest
<1>7. Cached(l, k) = DOMAIN archive[l][k]
  BY <1>2, <1>3 DEF Cached, ChunksFit
<1>8. \A i : i \in FromChunk(k) <=> /\ i \in reader.first .. reader.at
                                    /\ i .. reader.at \subseteq DOMAIN archive[l][k]
  BY <1>1, <1>7 DEF FromChunk
<1>9. ASSUME NEW i \in reader.first .. reader.written, i \notin DOMAIN reader.result
      PROVE  /\ i <= reader.at
             /\ \E m \in Layers : m >= l /\ Stores(DOMAIN primary, Indexes, m, i)
  BY <1>1, <1>4, <1>9 DEF ReadInv, ReadFits
<1>10. CASE FromChunk(k) = {}
  <2>1. ASSUME NEW i \in reader.first .. reader.written, i \notin DOMAIN reader.result,
               Stores(DOMAIN primary, Indexes, l, i)
        PROVE  FALSE
    <3>1. i <= reader.at /\ i \in Nat /\ reader.first <= i
      BY <1>4, <1>9, <2>1
    <3>2. IsClosest(k, reader.at, DOMAIN Indexes[l])
      BY <1>2, <1>6
    <3>3. reader.at \in Indexes[l][k]
      BY <1>3, <1>4, <1>5, <2>1, <3>1, <3>2, ClosestHasPosition
    <3>4. reader.at \in reader.first .. reader.at
          /\ reader.at .. reader.at \subseteq DOMAIN archive[l][k]
      BY <1>4, <1>6, <3>1, <3>3
    <3> QED
      BY <1>8, <1>10, <3>4
  <2> QED
    BY <1>1, <1>2, <1>3, <1>4, <1>10, <2>1, NoMoreStep
<1>11. CASE FromChunk(k) # {}
  <2>1. PICK f : f = [i \in FromChunk(k) |-> archive[l][k][i]]
    OBVIOUS
  <2>2. DOMAIN f = FromChunk(k) /\ DOMAIN f # {}
    BY <1>11, <2>1
  <2>3. \A i \in DOMAIN f : /\ i >= reader.first /\ i \in Nat /\ i <= reader.at
                            /\ i \in DOMAIN archive[l][k] /\ f[i] = archive[l][k][i]
    <3>1. \A i \in DOMAIN f : i \in reader.first .. reader.at
                              /\ i .. reader.at \subseteq DOMAIN archive[l][k]
      BY <1>8, <2>2
    <3>2. \A i \in DOMAIN f : i >= reader.first /\ i \in Nat /\ i <= reader.at
                              /\ i \in i .. reader.at
      BY <1>4, <3>1
    <3>3. \A i \in DOMAIN f : f[i] = archive[l][k][i]
      BY <2>1
    <3> QED
      BY <3>1, <3>2, <3>3
  <2>4. CopyOfLog(f)
    BY <1>2, <1>3, <2>3 DEF CopyOfLog, IndexInv, CopiesRight
  <2>5. ASSUME NEW i \in DOMAIN f, NEW j \in Nat, i <= j, j <= reader.at
        PROVE  j \in DOMAIN f
    <3>1. i \in reader.first .. reader.at /\ i .. reader.at \subseteq DOMAIN archive[l][k]
      BY <1>8, <2>2, <2>5
    <3>2. j \in reader.first .. reader.at /\ j .. reader.at \subseteq i .. reader.at
      BY <1>4, <2>3, <2>5
    <3> QED
      BY <1>8, <2>2, <3>1, <3>2
  <2>6. \E h \in Keys[l] : \A i \in DOMAIN f : i <= h
    <3>1. k \in Keys[l]
      BY <1>2, <1>3, KeysAre
    <3>2. \A i \in DOMAIN f : i <= k
      BY <1>4, <1>6, <2>3
    <3> QED
      BY <3>1, <3>2
  <2>7. PICK r : r = Got(f, l)
    OBVIOUS
  <2>8. l >= reader.next /\ reader.next \in Layers
    BY <1>1, <1>3
  <2>9. /\ ReadTypeOK(r) /\ CopyOfLog(r.result) /\ r.written = reader.written
        /\ r.first = reader.first /\ ReadFits(r, DOMAIN primary, Indexes, Keys)
    BY <1>3, <1>4, <1>9, <2>2, <2>3, <2>4, <2>5, <2>6, <2>7, <2>8, GotFits
  <2> QED
    BY <1>2, <1>3, <1>4, <1>11, <2>1, <2>7, <2>9, ReaderStep
<1> QED
  BY <1>10, <1>11

LEMMA GapRead == IndexInv /\ WholeInv /\ ReadInv /\ ReadGap => ReadInv'
<1> SUFFICES ASSUME IndexInv, WholeInv, ReadInv, ReadGap PROVE ReadInv'
  OBVIOUS
<1>1. PICK l, last : l = reader.next /\ last = LastIndexOf(l)
  OBVIOUS
<1>2. /\ l \in Archives /\ l # 0 /\ l \in Layers /\ l \in Nat /\ UNCHANGED <<storage, log>>
      /\ last < reader.at
      /\ reader' = IF reader.found \/ last < reader.first THEN NoMore
                     ELSE [reader EXCEPT !.at = last]
  BY <1>1, LayersAre DEF ReadGap, ReadingArchive, Archives
<1>3. /\ ReadTypeOK(reader) /\ reader.first \in Nat /\ reader.first # 0 /\ reader.at \in Nat
      /\ reader.written \in Nat /\ reader.written <= Len(log) /\ reader.next # -1
      /\ CopyOfLog(reader.result) /\ ReadFits(reader, DOMAIN primary, Indexes, Keys)
  BY <1>1, <1>2 DEF ReadInv, ReadTypeOK
<1>4. /\ Keys \in KeySets(Len(log)) /\ Len(log) \in Nat /\ UpperReachesFurther(Keys)
      /\ Keys[l] = DOMAIN Indexes[l]
  BY <1>2, IndexesInBounds DEF InBounds
<1>5. last = LastOf(Keys[l]) /\ last \in Nat /\ (Keys[l] = {} <=> last = 0)
  <2>1. Keys[l] \in SUBSET (1 .. Len(log)) /\ last = LastOf(Keys[l])
    BY <1>1, <1>2, <1>4, KeysAre DEF KeySets
  <2> QED
    BY <1>4, <2>1, LastOfIsGreatest
<1>6. ASSUME NEW m \in Layers, m >= l, NEW i, Stores(DOMAIN primary, Indexes, m, i),
             Keys[l] # {}
      PROVE  i <= last /\ i \in Nat
  BY <1>1, <1>2, <1>6, StoredUpToEnd
<1>7. Keys[l] = {} => \A i : ~Stores(DOMAIN primary, Indexes, l, i)
  BY <1>2, <1>4 DEF Stores
<1>8. CASE reader.found
  <2>1. PICK m \in Layers : m >= l /\ \E k \in Keys[m] : k >= reader.at
    BY <1>1, <1>3, <1>8 DEF ReadFits
  <2>2. PICK k \in Keys[m] : k >= reader.at
    BY <2>1
  <2>3. k \in Nat
    BY <1>4, <2>2 DEF KeySets
  <2>4. Keys[l] # {} => k <= last
    BY <1>2, <1>4, <1>5, <2>1, <2>2, ArchiveEnd
  <2>5. Keys[l] = {}
    BY <1>2, <1>3, <1>5, <2>2, <2>3, <2>4
  <2> QED
    BY <1>1, <1>2, <1>3, <1>7, <1>8, <2>5, NoMoreStep
<1>9. CASE last < reader.first
  <2>1. ASSUME NEW i \in reader.first .. reader.written,
               Stores(DOMAIN primary, Indexes, l, i)
        PROVE  FALSE
    <3>1. Keys[l] # {} /\ l >= l
      BY <1>2, <1>7, <2>1
    <3>2. i <= last /\ i \in Nat /\ i >= reader.first
      BY <1>2, <1>3, <1>6, <2>1, <3>1
    <3> QED
      BY <1>3, <1>5, <1>9, <3>2
  <2> QED
    BY <1>1, <1>2, <1>3, <1>9, <2>1, NoMoreStep
<1>10. CASE ~reader.found /\ ~(last < reader.first)
  <2>1. Keys[l] # {}
    BY <1>3, <1>5, <1>10
  <2>2. PICK r : r = [reader EXCEPT !.at = last]
    OBVIOUS
  <2>3. r = [next |-> reader.next, first |-> reader.first, last |-> reader.last,
             at |-> last, found |-> reader.found, result |-> reader.result,
             written |-> reader.written]
    <3>1. PICK a, b, c, d, e, g, w :
            reader = [next |-> a, first |-> b, last |-> c, at |-> d, found |-> e,
                      result |-> g, written |-> w]
      BY <1>3 DEF ReadTypeOK
    <3> QED
      BY ONLY <2>2, <3>1
  <2>4. /\ r.next = reader.next /\ r.first = reader.first /\ r.last = reader.last
        /\ r.at = last /\ r.found = reader.found /\ r.result = reader.result
        /\ r.written = reader.written
    BY ONLY <2>3
  <2>5. ReadTypeOK(r)
    BY <1>3, <1>5, <2>3, <2>4 DEF ReadTypeOK
  <2>6. ASSUME NEW i \in r.first .. r.written, i \notin DOMAIN r.result
        PROVE  /\ i <= r.last /\ i <= r.at
               /\ \E m \in Layers : m >= r.next /\ Stores(DOMAIN primary, Indexes, m, i)
    <3>1. i <= r.last /\ \E m \in Layers :
            m >= r.next /\ Stores(DOMAIN primary, Indexes, m, i)
      BY <1>3, <2>4, <2>6 DEF ReadFits
    <3>2. i <= last
      BY <1>1, <1>6, <2>1, <2>4, <3>1
    <3> QED
      BY <2>4, <3>1, <3>2
  <2>7. ReadFits(r, DOMAIN primary, Indexes, Keys)
    <3>1. ~r.found /\ r.next # -1
      BY <1>3, <1>10, <2>4
    <3> QED
      BY <2>6, <3>1, Zenon DEF ReadFits
  <2> QED
    BY <1>2, <1>3, <1>10, <2>2, <2>4, <2>5, <2>7, ReaderStep
<1> QED
  BY <1>8, <1>9, <1>10

(* No read is in progress.                                                 *)
LEMMA NoReadFits ==
  /\ ReadTypeOK(NoRead) /\ DOMAIN NoRead.result = {} /\ NoRead.first = 0
  /\ NoRead.next = 0 /\ NoRead.written = 0
BY LayersAre DEF NoRead, Nothing, ReadTypeOK

LEMMA NotReading ==
  ASSUME StateTypeOK', reader' = NoRead
  PROVE  ReadInv'
<1>1. Len(log') \in Nat
  BY DEF StateTypeOK
<1>2. CopyOfLog(reader.result)'
  BY NoReadFits DEF CopyOfLog
<1>3. ReadFits(reader', DOMAIN primary', Indexes', Keys')
  BY NoReadFits DEF ReadFits
<1> QED
  BY <1>1, <1>2, <1>3, NoReadFits DEF ReadInv

LEMMA InitRead == Init => ReadInv
<1> SUFFICES ASSUME Init PROVE ReadInv
  OBVIOUS
<1>1. reader = NoRead /\ Len(log) = 0
  BY DEF Init
<1>2. CopyOfLog(reader.result) /\ ReadFits(reader, DOMAIN primary, Indexes, Keys)
  BY <1>1, NoReadFits DEF CopyOfLog, ReadFits
<1> QED
  BY <1>1, <1>2, NoReadFits DEF ReadInv

(* A read begins: everything written is stored in some layer.              *)
LEMMA StartRead ==
  ASSUME IndexInv, WholeInv, ReadInv, NEW range \in Reads, ReadStart(range)
  PROVE  ReadInv'
<1>1. PICK a, b : a = range[1] /\ b = range[2]
  OBVIOUS
<1>2. a \in Nat /\ a # 0 /\ b \in Nat
  <2>1. range \in (Nat \ {0}) \X Nat
    BY OplogAssumption
  <2> QED
    BY <1>1, <2>1
<1>3. Len(log) \in Nat
  BY IndexesInBounds
<1>4. PICK w : w = AtMost(Len(log), b)
  OBVIOUS
<1>5. w \in Nat /\ w <= Len(log) /\ w <= b
  BY <1>2, <1>3, <1>4 DEF AtMost
<1>6. PICK r : r = [next |-> 0, first |-> a, last |-> b, at |-> b, found |-> FALSE,
                    result |-> Nothing, written |-> w]
  OBVIOUS
<1>7. reader' = r /\ UNCHANGED <<storage, log>>
  <2>1. reader' = [NoRead EXCEPT !.first = a, !.last = b, !.at = b, !.written = w]
    BY <1>1, <1>4, Zenon DEF ReadStart
  <2>2. PICK f : f = Nothing
    OBVIOUS
  <2>3. NoRead = [next |-> 0, first |-> 0, last |-> 0, at |-> 0, found |-> FALSE,
                  result |-> f, written |-> 0]
    BY <2>2, Zenon DEF NoRead
  <2>4. reader' = [next |-> 0, first |-> a, last |-> b, at |-> b, found |-> FALSE,
                   result |-> f, written |-> w]
    BY ONLY <2>1, <2>3
  <2> QED
    BY <1>6, <2>2, <2>4 DEF ReadStart
<1>8. /\ r.next = 0 /\ r.first = a /\ r.last = b /\ r.at = b /\ r.found = FALSE
      /\ r.result = Nothing /\ r.written = w
  BY ONLY <1>6
<1>9. ReadTypeOK(r)
  BY <1>2, <1>5, <1>6, <1>8, LayersAre DEF ReadTypeOK
<1>10. CopyOfLog(r.result)
  BY <1>8 DEF CopyOfLog, Nothing
<1>11. ASSUME NEW i \in a .. w
       PROVE  /\ i <= b
              /\ \E m \in Layers : m >= 0 /\ Stores(DOMAIN primary, Indexes, m, i)
  <2>1. i \in 1 .. Len(log) /\ i <= b
    BY <1>2, <1>3, <1>5, <1>11
  <2> QED
    BY <2>1, IndexesInBounds, AllStored DEF WholeInv
<1>12. ReadFits(r, DOMAIN primary, Indexes, Keys)
  BY <1>8, <1>11 DEF ReadFits
<1> QED
  BY <1>2, <1>5, <1>7, <1>8, <1>9, <1>10, <1>12, ReaderStep

(* The layers change while the reader is between two of its steps.         *)
LEMMA StorageStep ==
  ASSUME IndexInv, IndexInv', ReadInv, UNCHANGED reader,
         Len(log') = Len(log) \/ Len(log') = Len(log) + 1,
         \A i \in 1 .. Len(log) : log'[i] = log[i],
         MoveDown(DOMAIN primary, Indexes, Keys, DOMAIN primary', Indexes', Keys')
  PROVE  ReadInv'
<1>1. Keys \in KeySets(Len(log)) /\ Len(log) \in Nat
  BY IndexesInBounds DEF InBounds
<1>2. Keys' \in KeySets(Len(log) + 1)
  <2>1. 1 .. Len(log') \subseteq 1 .. Len(log) + 1
    BY <1>1
  <2>2. Keys' = [l \in Layers |-> IF l = 0 THEN DOMAIN primary' ELSE DOMAIN archive'[l]]
    BY DEF Keys
  <2>3. DOMAIN primary' \subseteq 1 .. Len(log) + 1
        /\ \A l \in Archives : DOMAIN archive'[l] \subseteq 1 .. Len(log) + 1
    BY <2>1 DEF IndexInv, CopiesRight, CopyOfLog
  <2> QED
    BY <2>2, <2>3, LayersAre DEF KeySets
<1>3. ReadTypeOK(reader) /\ ReadFits(reader, DOMAIN primary, Indexes, Keys)
      /\ CopyOfLog(reader.result) /\ reader.written <= Len(log) /\ reader.written \in Nat
  BY DEF ReadInv, ReadTypeOK
<1>4. ReadFits(reader, DOMAIN primary', Indexes', Keys')
  BY ONLY <1>1, <1>2, <1>3, ReadGoesOn,
          MoveDown(DOMAIN primary, Indexes, Keys, DOMAIN primary', Indexes', Keys')
<1>5. CopyOfLog(reader.result)' /\ (reader.written <= Len(log))'
  BY <1>1, <1>3 DEF CopyOfLog
<1> QED
  BY <1>3, <1>4, <1>5 DEF ReadInv

LEMMA KeepRead ==
  IndexInv /\ WholeInv /\ ChunksFit /\ ~damaged' /\ ReadInv /\ [Next]_vars => ReadInv'
<1> SUFFICES ASSUME IndexInv, WholeInv, ChunksFit, ~damaged', ReadInv, [Next]_vars
             PROVE  ReadInv'
  OBVIOUS
<1>0. IndexInv' /\ Len(log) \in Nat
  BY KeepIndex, IndexesInBounds
<1>1. ASSUME UNCHANGED <<storage, log, reader>> PROVE ReadInv'
  <2>1. UNCHANGED <<primary, archive, log, reader>>
    BY <1>1 DEF storage
  <2>2. MoveDown(DOMAIN primary, Indexes, Keys, DOMAIN primary', Indexes', Keys')
    BY <2>1, WritesGoDown
  <2> QED
    BY <1>0, <2>1, <2>2, StorageStep
<1>2. ASSUME NEW e \in Entries, Create(e) PROVE ReadInv'
  <2>1. Len(log) = 0 /\ \A l \in Layers : Keys[l] = {}
    BY <1>2, LastIndexIsEnd DEF Create
  <2>2. DOMAIN primary = {}
    BY <2>1, KeysAre, LayersAre
  <2>3. UNCHANGED archive /\ UNCHANGED reader /\ Len(log') = Len(log) + 1
    BY <1>2, <2>1 DEF Create
  <2>4. MoveDown(DOMAIN primary, Indexes, Keys, DOMAIN primary', Indexes', Keys')
    BY <2>2, <2>3, WritesGoDown
  <2>5. \A i \in 1 .. Len(log) : log'[i] = log[i]
    BY <2>1
  <2> QED
    BY <1>0, <2>3, <2>4, <2>5, StorageStep
<1>3. ASSUME WriteEntry PROVE ReadInv'
  <2>1. /\ UNCHANGED archive /\ UNCHANGED reader /\ log' = Append(log, Head(buffer))
        /\ DOMAIN primary \subseteq DOMAIN primary'
    BY <1>3 DEF WriteEntry
  <2>2. Len(log') = Len(log) + 1 /\ \A i \in 1 .. Len(log) : log'[i] = log[i]
    BY <2>1 DEF IndexInv, StateTypeOK
  <2>3. MoveDown(DOMAIN primary, Indexes, Keys, DOMAIN primary', Indexes', Keys')
    BY <2>1, WritesGoDown
  <2> QED
    BY <1>0, <2>1, <2>2, <2>3, StorageStep
<1>4. ASSUME AppendTarget PROVE ReadInv'
  <2>1. UNCHANGED reader /\ UNCHANGED log
    BY <1>4 DEF AppendTarget
  <2>2. MoveDown(DOMAIN primary, Indexes, Keys, DOMAIN primary', Indexes', Keys')
    BY <1>4, AppendGoesDown, ChunkKept
  <2> QED
    BY <1>0, <2>1, <2>2, StorageStep
<1>5. ASSUME DropSource PROVE ReadInv'
  <2>1. UNCHANGED reader /\ UNCHANGED log
    BY <1>5 DEF DropSource
  <2>2. MoveDown(DOMAIN primary, Indexes, Keys, DOMAIN primary', Indexes', Keys')
    BY <1>5, DropGoesDown
  <2> QED
    BY <1>0, <2>1, <2>2, StorageStep
<1>6. ASSUME NEW e \in Entries, Add(e) PROVE ReadInv'
  BY <1>1, <1>6 DEF Add
<1>7. ASSUME NEW kind, StartWriting(kind) PROVE ReadInv'
  BY <1>1, <1>7 DEF StartWriting
<1>8. Open \/ WriteDone \/ EnqueueTransfer \/ Archive => ReadInv'
  BY <1>1 DEF Open, WriteDone, EnqueueTransfer, Archive
<1>9. Close \/ MeasureSource \/ AdjustCount \/ TakeMessage => ReadInv'
  BY <1>1 DEF Close, DropOpen, MeasureSource, AdjustCount, TakeMessage
<1>10. Crash \/ ReadReturn => ReadInv'
  BY <1>0, NotReading DEF Crash, ReadReturn, IndexInv
<1>11. ASSUME NEW range \in Reads, ReadStart(range) PROVE ReadInv'
  BY <1>11, StartRead
<1>12. UNCHANGED vars => ReadInv'
  BY <1>1 DEF vars
<1> QED
  BY <1>2, <1>3, <1>4, <1>5, <1>6, <1>7, <1>8, <1>9, <1>10, <1>11, <1>12,
     PrimaryRead, ChunkRead, GapRead DEF Next, Writing, Transfer, Reading

(* Whatever a read has found is what was written, in damaged layers too.   *)
ResultInv ==
  /\ reader = [next |-> reader.next, first |-> reader.first, last |-> reader.last,
               at |-> reader.at, found |-> reader.found, result |-> reader.result,
               written |-> reader.written]
  /\ CopyOfLog(reader.result)

LEMMA GotCopies ==
  ASSUME ResultInv, NEW f, CopyOfLog(f), NEW next, reader' = Got(f, next), log' = log
  PROVE  ResultInv'
<1>1. PICK res : res = [i \in DOMAIN reader.result \cup DOMAIN f |->
                          IF i \in DOMAIN f THEN f[i] ELSE reader.result[i]]
  OBVIOUS
<1>2. CopyOfLog(res)
  BY <1>1 DEF ResultInv, CopyOfLog
<1>3. PICK at, found, to :
        reader' = [reader EXCEPT !.result = res, !.last = at, !.at = at,
                                 !.found = found, !.next = to]
  BY <1>1 DEF Got
<1>4. reader' = [next |-> to, first |-> reader.first, last |-> at, at |-> at,
                 found |-> found, result |-> res, written |-> reader.written]
  BY <1>3 DEF ResultInv
<1> QED
  BY <1>2, <1>4 DEF ResultInv, CopyOfLog

LEMMA KeepResult == IndexInv /\ ResultInv /\ [Next]_vars => ResultInv'
<1> SUFFICES ASSUME IndexInv, ResultInv, [Next]_vars PROVE ResultInv'
  OBVIOUS
<1>0. Len(log) \in Nat /\ log \in Seq(Entries)
  BY DEF IndexInv, StateTypeOK
<1>1. ASSUME UNCHANGED <<log, reader>> PROVE ResultInv'
  BY <1>1 DEF ResultInv, CopyOfLog
<1>2. ASSUME NEW e \in Entries, Create(e) PROVE ResultInv'
  <2>1. Len(log) = 0
    BY <1>2, LastIndexIsEnd DEF Create
  <2>2. DOMAIN reader.result = {} /\ reader' = reader
    BY <1>2, <2>1 DEF Create, ResultInv, CopyOfLog
  <2> QED
    BY <2>2 DEF ResultInv, CopyOfLog
<1>3. ASSUME WriteEntry PROVE ResultInv'
  <2>1. /\ reader' = reader /\ log' = Append(log, Head(buffer))
    BY <1>3 DEF WriteEntry
  <2>2. Len(log') = Len(log) + 1 /\ \A i \in 1 .. Len(log) : log'[i] = log[i]
    BY <1>0, <2>1
  <2> QED
    BY <1>0, <2>1, <2>2 DEF ResultInv, CopyOfLog
<1>4. ASSUME NEW e \in Entries, Add(e) PROVE ResultInv'
  BY <1>1, <1>4 DEF Add
<1>5. ASSUME NEW kind, StartWriting(kind) PROVE ResultInv'
  BY <1>1, <1>5 DEF StartWriting
<1>6. Open \/ Close \/ WriteDone \/ EnqueueTransfer \/ Archive => ResultInv'
  BY <1>1 DEF Open, Close, DropOpen, WriteDone, EnqueueTransfer, Archive
<1>7. Transfer => ResultInv'
  BY <1>1 DEF Transfer, TakeMessage, AppendTarget, DropSource, MeasureSource, AdjustCount
<1>8. Crash \/ ReadReturn => ResultInv'
  BY DEF Crash, DropOpen, ReadReturn, NoRead, Nothing, ResultInv, CopyOfLog
<1>9. ASSUME NEW range \in Reads, ReadStart(range) PROVE ResultInv'
  BY <1>9 DEF ReadStart, NoRead, Nothing, ResultInv, CopyOfLog
<1>10. ASSUME reader' = NoMore, log' = log PROVE ResultInv'
  BY <1>10 DEF NoMore, ResultInv, CopyOfLog
<1>11. ASSUME ReadPrimary PROVE ResultInv'
  <2>1. CASE reader' = NoMore
    BY <1>10, <1>11, <2>1 DEF ReadPrimary
  <2>2. CASE reader' = Got(ReadLayer(0, reader.first, reader.last), 1)
    <3>1. PICK f : f = ReadLayer(0, reader.first, reader.last)
      OBVIOUS
    <3>2. CopyOfLog(f)
      BY <3>1 DEF ReadLayer, Found, Holds, EntryAt, IndexInv, CopiesRight, CopyOfLog
    <3> QED
      BY <1>11, <2>2, <3>1, <3>2, GotCopies DEF ReadPrimary
  <2> QED
    BY <1>11, <2>1, <2>2 DEF ReadPrimary
<1>12. ASSUME ReadChunk PROVE ResultInv'
  <2>1. PICK l, k : /\ l = reader.next /\ l \in Archives /\ k \in DOMAIN archive[l]
                    /\ reader' = IF FromChunk(k) = {} THEN NoMore
                          ELSE Got([i \in FromChunk(k) |-> archive[reader.next][k][i]], l)
    BY <1>12 DEF ReadChunk, ReadingArchive
  <2>2. log' = log
    BY <1>12 DEF ReadChunk
  <2>3. PICK f : f = [i \in FromChunk(k) |-> archive[reader.next][k][i]]
    OBVIOUS
  <2>4. CopyOfLog(f)
    <3>1. CopyOfLog(archive[l][k])
      BY <2>1 DEF IndexInv, CopiesRight
    <3>2. \A i \in FromChunk(k) : i \in DOMAIN archive[l][k]
      BY <2>1 DEF FromChunk, Cached
    <3> QED
      BY <2>1, <2>3, <3>1, <3>2 DEF CopyOfLog
  <2>5. reader' = NoMore \/ reader' = Got(f, l)
    BY <2>1, <2>3
  <2> QED
    BY <1>10, <2>2, <2>4, <2>5, GotCopies
<1>13. ASSUME ReadGap PROVE ResultInv'
  <2>1. reader' = NoMore \/ \E at : reader' = [reader EXCEPT !.at = at]
    BY <1>13 DEF ReadGap
  <2>2. ASSUME NEW at, reader' = [reader EXCEPT !.at = at], log' = log PROVE ResultInv'
    BY <2>2 DEF ResultInv, CopyOfLog
  <2> QED
    BY <1>10, <1>13, <2>1, <2>2 DEF ReadGap
<1>14. UNCHANGED vars => ResultInv'
  BY <1>1 DEF vars
<1> QED
  BY <1>2, <1>3, <1>4, <1>5, <1>6, <1>7, <1>8, <1>9, <1>11, <1>12, <1>13, <1>14
     DEF Next, Writing, Reading

(* A read that asks one layer after the other, and an archive chunk by     *)
(* chunk, while entries are written, moved down and dropped under it,      *)
(* misses no entry that was written when it began, unless a stored chunk   *)
(* has damaged its layer, and returns each as it was written.              *)
THEOREM ReadsMissNothing == Spec => []ReadsComplete
<1>1. IndexInv /\ ResultInv /\ (damaged \/ ReadInv) => ReadsComplete
  <2> SUFFICES ASSUME IndexInv, ResultInv, damaged \/ ReadInv PROVE ReadsComplete
    OBVIOUS
  <2>1. DOMAIN log = 1 .. Len(log)
    BY DEF IndexInv, StateTypeOK
  <2>2. ASSUME ReadInv, reader.next = -1
        PROVE  reader.first .. reader.written \subseteq DOMAIN reader.result
    BY <2>2 DEF ReadInv, ReadFits
  <2> QED
    BY <2>1, <2>2 DEF ResultInv, CopyOfLog, ReadsComplete
<1>2. /\ IndexInv /\ (damaged \/ Intact) /\ (damaged \/ ReadInv) /\ [Next]_vars
      => (damaged \/ ReadInv)'
  BY KeepRead, DamageStays DEF Intact
<1>3. Init => ResultInv
  BY DEF Init, NoRead, Nothing, ResultInv, CopyOfLog
<1> QED
  BY <1>1, <1>2, <1>3, InitRead, KeepResult, LayersIntact, PTL DEF Spec
=============================================================================
