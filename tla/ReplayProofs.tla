---------------------------- MODULE ReplayProofs ----------------------------
(***************************************************************************)
(* Proofs about the replay of an invocation, for every program, any number *)
(* of crashes and jumps, and requests at any moment: until a host call has *)
(* taken the entry of a request for its own, misread, and, where regions   *)
(* and writes are concerned, for programs without a mixed batch.           *)
(***************************************************************************)
EXTENDS Replay, IndexLemmas, FiniteSetTheorems, TLAPS

Entries ==
  [kind : {"Create", "Invoked", "Completed", "Pending", "NoOp", "BeginAtomic", "BeginWrite"}]
  \cup [kind : {"call", "part", "Write"}, value : Nat, boot : Nat]
  \cup [kind : {"EndAtomic", "EndWrite"}, begin : Nat]
  \cup [kind : {"Jump"}, start : Nat, end : Nat]

-----------------------------------------------------------------------------
(* The position of the replay.  An entry is visible if it is not deleted   *)
(* and no hint.                                                            *)

Vis(D, R, i) == i \in 2 .. Len(D) /\ i \notin R /\ D[i].kind # "Pending"

(* Nothing is visible after a up to b.                                     *)
Clear(D, R, a, b) == \A i \in a + 1 .. b : ~Vis(D, R, i)

(* The first visible entry after a is b.                                   *)
NextVis(D, R, a, b) == a < b /\ Vis(D, R, b) /\ Clear(D, R, a, b - 1)

LEMMA RegionEndIs ==
  ASSUME NEW R, NEW T \in Nat, R \subseteq 1 .. T, NEW i \in R
  PROVE  /\ RegionEnd(R, i) \in i .. T
         /\ i .. RegionEnd(R, i) \subseteq R
         /\ RegionEnd(R, i) + 1 \notin R
<1> DEFINE S == {j \in i .. T : i .. j \subseteq R}
<1>1. i \in Nat /\ i <= T /\ i \in S
  OBVIOUS
<1>2. PICK m \in S : \A j \in S : j <= m
  <2>1. S \in SUBSET Nat /\ S # {} /\ \A j \in S : j <= T
    BY <1>1
  <2> HIDE DEF S
  <2> QED
    BY <2>1, GreatestIndex
<1>3. m + 1 \notin R
  <2> SUFFICES ASSUME m + 1 \in R PROVE FALSE
    OBVIOUS
  <2>1. m + 1 \in i .. T /\ i .. m + 1 \subseteq R
    BY <1>2
  <2>2. m + 1 \in S
    BY <2>1
  <2> QED
    BY <1>1, <1>2, <2>2
<1>4. m \in R /\ m >= i /\ i .. m \subseteq R /\ m \in i .. T
  BY <1>2
<1>5. RegionEnd(R, i) \in R /\ RegionEnd(R, i) >= i /\ i .. RegionEnd(R, i) \subseteq R
      /\ RegionEnd(R, i) + 1 \notin R
  BY <1>3, <1>4 DEF RegionEnd
<1>6. RegionEnd(R, i) \in 1 .. T
  BY <1>5
<1> QED
  BY <1>1, <1>5, <1>6

(* The oplog is read up to a target, and the regions are before it; after  *)
(* it there are only requests that were recorded meanwhile.                *)
OnlyHints(D, t) == \A i \in t + 1 .. Len(D) : D[i].kind = "Pending"

Reading ==
  /\ oplog \in Seq(Entries) /\ target \in 1 .. Len(oplog)
  /\ regions \subseteq 2 .. target /\ OnlyHints(oplog, target)

LEMMA ClearToEnd ==
  ASSUME NEW D, NEW R, NEW t \in Nat, Len(D) \in Nat, t <= Len(D), OnlyHints(D, t)
  PROVE  /\ \A i \in Nat : Vis(D, R, i) => i <= t
         /\ \A a \in Nat : Clear(D, R, a, t) => Clear(D, R, a, Len(D))
         /\ Clear(D, R, t, Len(D))
<1>1. \A i \in Nat : Vis(D, R, i) => i <= t
  BY DEF OnlyHints, Vis
<1>2. ASSUME NEW a \in Nat, Clear(D, R, a, t), NEW i \in a + 1 .. Len(D)
      PROVE  ~Vis(D, R, i)
  BY <1>1, <1>2 DEF Clear
<1> QED
  BY <1>1, <1>2 DEF Clear

LEMMA ClearEnd ==
  ASSUME NEW D, NEW R, NEW t \in Nat, Len(D) \in Nat, t <= Len(D), OnlyHints(D, t),
         NEW a \in Nat, Clear(D, R, a, t)
  PROVE  Clear(D, R, a, Len(D))
BY ClearToEnd

(* Moving on to an entry leaves the region after it behind.                *)
LEMMA MoveToIs ==
  ASSUME Reading, NEW e \in 1 .. target, e \notin regions
  PROVE  /\ MoveTo(e) \in e .. target
         /\ MoveTo(e) = target \/ MoveTo(e) + 1 \notin regions
         /\ \A i \in e + 1 .. MoveTo(e) : i \in regions
<1>1. target \in Nat /\ e \in Nat /\ e <= target /\ regions \subseteq 1 .. target
  BY DEF Reading
<1>2. CASE e # target /\ e + 1 \in regions
  <2>1. MoveTo(e) = RegionEnd(regions, e + 1)
    BY <1>2 DEF MoveTo
  <2>2. /\ RegionEnd(regions, e + 1) \in e + 1 .. target
        /\ e + 1 .. RegionEnd(regions, e + 1) \subseteq regions
        /\ RegionEnd(regions, e + 1) + 1 \notin regions
    BY <1>1, <1>2, RegionEndIs
  <2> QED
    BY <1>1, <2>1, <2>2
<1>3. CASE ~(e # target /\ e + 1 \in regions)
  <2>1. MoveTo(e) = e
    BY <1>3 DEF MoveTo
  <2> QED
    BY <1>1, <1>3, <2>1
<1> QED
  BY <1>2, <1>3

(* The loop over the hints comes to its end.                               *)
Skips(f, m) ==
  /\ f \in [m .. target -> Nat]
  /\ \A j \in m .. target :
       f[j] = IF j = target \/ ~IsHint(oplog[j + 1]) THEN j ELSE f[MoveTo(j + 1)]

LEMMA SkipExists ==
  ASSUME Reading
  PROVE  \E f : Skips(f, 1)
<1> DEFINE Bad == {m \in 1 .. target : ~ \E f : Skips(f, m)}
<1>0. target \in Nat \ {0}
  BY DEF Reading
<1>1. SUFFICES ASSUME Bad # {} PROVE FALSE
  BY <1>0
<1>2. PICK m \in Bad : \A i \in Bad : i <= m
  <2>1. Bad \in SUBSET Nat /\ \A i \in Bad : i <= target
    BY <1>0
  <2> HIDE DEF Bad
  <2> QED
    BY <1>0, <1>1, <2>1, GreatestIndex
<1>3. m \in 1 .. target /\ ~ \E f : Skips(f, m)
  BY <1>2
<1>4. m # target
  <2>1. Skips([j \in target .. target |-> j], target)
    BY <1>0 DEF Skips
  <2> QED
    BY <1>3, <2>1
<1>5. m + 1 \in 1 .. target /\ m + 1 \notin Bad
  BY <1>0, <1>2, <1>3, <1>4
<1>6. PICK f : Skips(f, m + 1)
  BY <1>5
<1>7. \A j \in m .. target - 1 : MoveTo(j + 1) \in j + 1 .. target
  <2> SUFFICES ASSUME NEW j \in m .. target - 1 PROVE MoveTo(j + 1) \in j + 1 .. target
    OBVIOUS
  <2>1. j + 1 \in 1 .. target
    BY <1>0, <1>3
  <2>2. CASE j + 1 \in regions
    BY <1>0, <1>3, <2>1, <2>2 DEF MoveTo
  <2>3. CASE j + 1 \notin regions
    BY <2>1, <2>3, MoveToIs
  <2> QED
    BY <2>2, <2>3
<1> DEFINE v == IF ~IsHint(oplog[m + 1]) THEN m ELSE f[MoveTo(m + 1)]
           h == [j \in m .. target |-> IF j = m THEN v ELSE f[j]]
<1>8. v \in Nat
  <2>1. MoveTo(m + 1) \in m + 1 .. target
    BY <1>0, <1>3, <1>4, <1>7
  <2> QED
    BY <1>3, <1>6, <2>1 DEF Skips
<1>9. h \in [m .. target -> Nat]
  <2>1. \A j \in m .. target : j # m => f[j] \in Nat
    BY <1>0, <1>3, <1>6 DEF Skips
  <2> HIDE DEF v
  <2> QED
    BY <1>8, <2>1
<1>10. ASSUME NEW j \in m .. target
       PROVE  h[j] = IF j = target \/ ~IsHint(oplog[j + 1]) THEN j ELSE h[MoveTo(j + 1)]
  <2>1. j # target => MoveTo(j + 1) \in m .. target /\ MoveTo(j + 1) # m
                      /\ h[MoveTo(j + 1)] = f[MoveTo(j + 1)]
    <3>1. j # target => MoveTo(j + 1) \in j + 1 .. target
      BY <1>0, <1>3, <1>7
    <3> HIDE DEF v
    <3> QED
      BY <1>0, <1>3, <3>1
  <2>2. CASE j = m
    <3>1. h[j] = v /\ j # target
      BY <1>4, <2>2
    <3> HIDE DEF h
    <3> QED
      BY <2>1, <2>2, <3>1
  <2>3. CASE j # m
    <3>1. j \in m + 1 .. target /\ h[j] = f[j]
      BY <1>0, <1>3, <2>3
    <3> HIDE DEF h
    <3> QED
      BY <1>6, <2>1, <3>1 DEF Skips
  <2> QED
    BY <2>2, <2>3
<1>11. Skips(h, m)
  <2> HIDE DEF h
  <2> QED
    BY <1>9, <1>10 DEF Skips
<1> QED
  BY <1>3, <1>11

LEMMA SkipHintsIs ==
  ASSUME Reading, NEW a \in 1 .. target, a = target \/ a + 1 \notin regions
  PROVE  /\ SkipHints(a) \in a .. target
         /\ SkipHints(a) = target \/ Vis(oplog, regions, SkipHints(a) + 1)
         /\ Clear(oplog, regions, a, SkipHints(a))
         /\ a = target \/ Vis(oplog, regions, a + 1) => SkipHints(a) = a
<1> DEFINE Eq(f) == [j \in 1 .. target |-> IF j = target \/ ~IsHint(oplog[j + 1]) THEN j
                                           ELSE f[MoveTo(j + 1)]]
           skip == CHOOSE f : f = Eq(f)
<1>0. target \in Nat \ {0} /\ Len(oplog) \in Nat /\ target <= Len(oplog)
  BY DEF Reading
<1>1. \E f : f = Eq(f)
  <2>1. PICK f : Skips(f, 1)
    BY SkipExists
  <2>2. f = [j \in 1 .. target |-> f[j]]
    BY <2>1 DEF Skips
  <2>3. f = Eq(f)
    BY <2>1, <2>2 DEF Skips
  <2> QED
    BY <2>3
<1>2. skip = Eq(skip)
  <2> HIDE DEF Eq
  <2> QED
    BY <1>1
<1>3. \A i : SkipHints(i) = skip[i]
  BY DEF SkipHints
<1> HIDE DEF skip
<1>4. \A j \in 1 .. target :
         skip[j] = IF j = target \/ ~IsHint(oplog[j + 1]) THEN j ELSE skip[MoveTo(j + 1)]
  BY <1>2
<1> DEFINE Out(i) == i = target \/ i + 1 \notin regions
           P(i) == /\ skip[i] \in i .. target
                   /\ skip[i] = target \/ Vis(oplog, regions, skip[i] + 1)
                   /\ Clear(oplog, regions, i, skip[i])
                   /\ i = target \/ Vis(oplog, regions, i + 1) => skip[i] = i
           Bad == {i \in 1 .. target : Out(i) /\ ~P(i)}
<1>5. Bad = {}
  <2> SUFFICES ASSUME Bad # {} PROVE FALSE
    OBVIOUS
  <2>1. PICK i \in Bad : \A k \in Bad : k <= i
    <3>1. Bad \in SUBSET Nat /\ \A k \in Bad : k <= target
      BY <1>0
    <3> HIDE DEF Bad
    <3> QED
      BY <1>0, <3>1, GreatestIndex
  <2>2. i \in 1 .. target /\ Out(i) /\ ~P(i) /\ i \in Nat
    BY <1>0, <2>1
  <2>3. i # target /\ IsHint(oplog[i + 1])
    <3> SUFFICES ASSUME i = target \/ ~IsHint(oplog[i + 1]) PROVE P(i)
      BY <2>2
    <3>1. skip[i] = i
      BY <1>4, <2>2
    <3>2. i = target \/ Vis(oplog, regions, i + 1)
      BY <1>0, <2>2 DEF Vis, IsHint
    <3>3. Clear(oplog, regions, i, i)
      BY <2>2 DEF Clear
    <3> QED
      BY <1>0, <2>2, <3>1, <3>2, <3>3
  <2>4. i + 1 \in 1 .. target /\ i + 1 \notin regions
    BY <1>0, <2>2, <2>3
  <2>5. PICK b \in Nat : b = MoveTo(i + 1) /\ b \in i + 1 .. target /\ Out(b)
                         /\ \A k \in i + 2 .. b : k \in regions
    <3>1. /\ MoveTo(i + 1) \in i + 1 .. target /\ Out(MoveTo(i + 1))
          /\ \A k \in i + 2 .. MoveTo(i + 1) : k \in regions
      BY <2>2, <2>4, MoveToIs
    <3> QED
      BY <1>0, <2>2, <3>1
  <2>6. P(b)
    <3>1. b \notin Bad
      BY <1>0, <2>1, <2>2, <2>5
    <3> HIDE DEF P
    <3> QED
      BY <1>0, <2>2, <2>5, <3>1
  <2>7. skip[i] = skip[b]
    BY <1>4, <2>2, <2>3, <2>5
  <2>8. ~Vis(oplog, regions, i + 1)
    BY <2>3 DEF Vis, IsHint
  <2>9. Clear(oplog, regions, i, skip[i])
    <3> SUFFICES ASSUME NEW k \in i + 1 .. skip[i] PROVE ~Vis(oplog, regions, k)
      BY DEF Clear
    <3>1. CASE k = i + 1
      BY <2>8, <3>1
    <3>2. CASE k \in i + 2 .. b
      BY <2>5, <3>2 DEF Vis
    <3>3. CASE k \in b + 1 .. skip[b]
      BY <2>6, <3>3 DEF Clear
    <3>4. skip[i] \in Nat
      BY <1>0, <2>5, <2>6, <2>7
    <3> QED
      BY <2>2, <2>5, <2>7, <3>1, <3>2, <3>3, <3>4
  <2>10. P(i)
    BY <1>0, <2>2, <2>3, <2>5, <2>6, <2>7, <2>8, <2>9
  <2> QED
    BY <2>2, <2>10
<1>6. P(a)
  <2> HIDE DEF P
  <2> QED
    BY <1>5
<1> QED
  BY <1>3, <1>6

-----------------------------------------------------------------------------
(* What the visible entries of a log say: the invocation, then the entries *)
(* of one host call after the other.                                       *)

Answers == [value : Nat, boot : Nat]

(* The entry of a call that has one entry, and the one a call begins with. *)
Records(op, kind) ==
  \/ op = "call" /\ kind = "call"
  \/ op = "part" /\ kind = "part"
  \/ op = "end" /\ kind = "EndAtomic"
  \/ op = "close" /\ kind = "EndWrite"

Marks(op, kind) ==
  \/ op = "save" /\ kind = "NoOp"
  \/ op = "begin" /\ kind = "BeginAtomic"
  \/ op = "open" /\ kind = "BeginWrite"

AnswerOf(op, e) ==
  IF op \in {"call", "part"} THEN Answer(e.value, e.boot) ELSE Nothing

(* A write that must not be repeated has three entries.                    *)
Once(D, R, a, x, y, b) ==
  /\ NextVis(D, R, a, x) /\ D[x].kind = "BeginWrite"
  /\ NextVis(D, R, x, y) /\ D[y].kind = "Write"
  /\ NextVis(D, R, y, b) /\ D[b].kind = "EndWrite"

(* The entries after a up to b are those of a call that was answered so.   *)
Link(D, R, op, a, b, answer) ==
  \/ op = "back" /\ b = a /\ answer = Nothing
  \/ NextVis(D, R, a, b) /\ Records(op, D[b].kind) /\ answer = AnswerOf(op, D[b])
  \/ NextVis(D, R, a, b) /\ Marks(op, D[b].kind) /\ answer = Answer(b, 0)
  \/ op = "once" /\ \E x \in Nat, y \in Nat :
                      /\ Once(D, R, a, x, y, b)
                      /\ answer = Answer(D[y].value, D[y].boot)

(* The last invocation before the calls is at a.                           *)
Begins(D, R, a) ==
  /\ a \in 2 .. Len(D) /\ D[a].kind = "Invoked"
  /\ \A i \in 2 .. a : i \notin R /\ D[i].kind \in {"Invoked", "Pending"}

(* The entries of the k-th call end at at[k], for the first n calls, whose *)
(* answers are in tl.                                                      *)
Chain(D, R, p, tl, at, n) ==
  /\ n \in Nat /\ n <= Len(p) /\ n <= Len(tl)
  /\ at \in [0 .. n -> 2 .. Len(D)]
  /\ Begins(D, R, at[0])
  /\ \A k \in 1 .. n : Link(D, R, p[k], at[k - 1], at[k], tl[k])
  /\ \A j, k \in 0 .. n : j <= k => at[j] <= at[k]

(* A region that is deleted begins after something that is not.            *)
Anchored(D, R, a) ==
  \A d \in R : \E v \in Nat : a < v /\ v < d /\ Vis(D, R, v)

(* After the calls: nothing, the completion, or the first entry of a call  *)
(* that was not answered.                                                  *)
Unanswered(p, n, kind) ==
  \/ n = Len(p) /\ kind = "Completed"
  \/ n < Len(p) /\ (Marks(p[n + 1], kind) \/ (p[n + 1] = "once" /\ kind = "BeginWrite"))

Rest(D, R, p, a, n) ==
  \/ Clear(D, R, a, Len(D))
  \/ \E x \in Nat : /\ NextVis(D, R, a, x) /\ Clear(D, R, x, Len(D))
                    /\ Unanswered(p, n, D[x].kind)

Fresh(D, R) == R = {} /\ \A i \in 2 .. Len(D) : D[i].kind = "Pending"

Recorded(D, R, p, tl, at, n) ==
  Chain(D, R, p, tl, at, n) /\ Anchored(D, R, at[0]) /\ Rest(D, R, p, at[n], n)

LogOK(D, R, p, tl) == Fresh(D, R) \/ \E n, at : Recorded(D, R, p, tl, at, n)

(* Two logs say the same up to b.                                          *)
Same(D, R, E, S, b) ==
  /\ b \in Nat /\ b <= Len(D) /\ b <= Len(E)
  /\ \A i \in 1 .. b : E[i] = D[i] /\ (i \in S <=> i \in R)

LEMMA SameVis ==
  ASSUME NEW D \in Seq(Entries), NEW E \in Seq(Entries), NEW R, NEW S, NEW b,
         Same(D, R, E, S, b), NEW i \in Nat, i <= b
  PROVE  Vis(D, R, i) <=> Vis(E, S, i)
BY DEF Same, Vis

LEMMA SameClear ==
  ASSUME NEW D \in Seq(Entries), NEW E \in Seq(Entries), NEW R, NEW S, NEW b,
         Same(D, R, E, S, b), NEW a \in Nat, NEW c \in Int, c <= b, Clear(D, R, a, c)
  PROVE  Clear(E, S, a, c)
<1>1. ASSUME NEW i \in a + 1 .. c PROVE ~Vis(E, S, i)
  <2>1. i \in Nat /\ i <= b
    BY DEF Same
  <2>2. ~Vis(D, R, i)
    BY DEF Clear
  <2> QED
    BY <2>1, <2>2, SameVis
<1> QED
  BY <1>1 DEF Clear

LEMMA SameNext ==
  ASSUME NEW D \in Seq(Entries), NEW E \in Seq(Entries), NEW R, NEW S, NEW b,
         Same(D, R, E, S, b), NEW a \in Nat, NEW c \in Nat, c <= b, NextVis(D, R, a, c)
  PROVE  NextVis(E, S, a, c) /\ E[c] = D[c]
<1>0. b \in Nat
  BY DEF Same
<1>1. Vis(E, S, c)
  BY SameVis DEF NextVis
<1>2. Clear(E, S, a, c - 1)
  BY <1>0, SameClear DEF NextVis
<1>3. c \in 1 .. b
  BY <1>0 DEF NextVis
<1> QED
  BY <1>1, <1>2, <1>3 DEF NextVis, Same

LEMMA SameLink ==
  ASSUME NEW D \in Seq(Entries), NEW E \in Seq(Entries), NEW R, NEW S, NEW b,
         Same(D, R, E, S, b), NEW op, NEW a \in Nat, NEW c \in Nat, c <= b, NEW answer,
         Link(D, R, op, a, c, answer)
  PROVE  Link(E, S, op, a, c, answer)
<1>0. b \in Nat
  BY DEF Same
<1>1. CASE op = "back" /\ c = a /\ answer = Nothing
  BY <1>1 DEF Link
<1>2. CASE NextVis(D, R, a, c) /\ Records(op, D[c].kind) /\ answer = AnswerOf(op, D[c])
  <2>1. NextVis(E, S, a, c) /\ E[c] = D[c]
    BY <1>2, SameNext
  <2> QED
    BY <1>2, <2>1 DEF Link
<1>3. CASE NextVis(D, R, a, c) /\ Marks(op, D[c].kind) /\ answer = Answer(c, 0)
  <2>1. NextVis(E, S, a, c) /\ E[c] = D[c]
    BY <1>3, SameNext
  <2> QED
    BY <1>3, <2>1 DEF Link
<1>4. CASE op = "once" /\ \E x \in Nat, y \in Nat :
                            /\ Once(D, R, a, x, y, c)
                            /\ answer = Answer(D[y].value, D[y].boot)
  <2>1. PICK x \in Nat, y \in Nat : /\ Once(D, R, a, x, y, c)
                                    /\ answer = Answer(D[y].value, D[y].boot)
    BY <1>4
  <2>2. a < x /\ x < y /\ y < c
    BY <2>1 DEF Once, NextVis
  <2>3. x <= b /\ y <= b
    BY <1>0, <2>2
  <2>4. NextVis(E, S, a, x) /\ E[x] = D[x]
    BY <2>1, <2>3, SameNext DEF Once
  <2>5. NextVis(E, S, x, y) /\ E[y] = D[y]
    BY <2>1, <2>3, SameNext DEF Once
  <2>6. NextVis(E, S, y, c) /\ E[c] = D[c]
    BY <2>1, <2>3, SameNext DEF Once
  <2>7. Once(E, S, a, x, y, c)
    BY <2>1, <2>4, <2>5, <2>6 DEF Once
  <2> QED
    BY <1>4, <2>1, <2>5, <2>7 DEF Link
<1> QED
  BY <1>1, <1>2, <1>3, <1>4 DEF Link

(* The calls up to the k-th are the same in a log that agrees with it up   *)
(* to their end.                                                           *)
LEMMA ChainSame ==
  ASSUME NEW D \in Seq(Entries), NEW E \in Seq(Entries), NEW R, NEW S, NEW p, NEW tl, NEW ul,
         NEW at, NEW n, NEW k \in 0 .. n, Chain(D, R, p, tl, at, n),
         Same(D, R, E, S, at[k]), k <= Len(ul), \A j \in 1 .. k : ul[j] = tl[j],
         Len(p) \in Nat
  PROVE  Chain(E, S, p, ul, [j \in 0 .. k |-> at[j]], k)
<1>0. n \in Nat /\ k \in Nat /\ k <= n /\ Len(D) \in Nat /\ Len(E) \in Nat
  BY DEF Chain
<1>1. \A j \in 0 .. k : at[j] \in 2 .. Len(E) /\ at[j] <= at[k] /\ at[j] \in Nat
  BY <1>0 DEF Chain, Same
<1> DEFINE to == [j \in 0 .. k |-> at[j]]
<1>2. to \in [0 .. k -> 2 .. Len(E)]
  BY <1>1
<1>3. Begins(E, S, at[0])
  <2>1. at[0] \in 2 .. Len(E) /\ at[0] <= at[k]
    BY <1>0, <1>1
  <2>2. \A i \in 2 .. at[0] : i \in 1 .. at[k]
    BY <1>0, <1>1, <2>1
  <2>3. Begins(D, R, at[0])
    BY DEF Chain
  <2>4. \A i \in 1 .. at[k] : E[i] = D[i] /\ (i \in S <=> i \in R)
    BY DEF Same
  <2>5. at[0] \in 2 .. at[0]
    BY <1>0, <2>1
  <2>6. E[at[0]] = D[at[0]]
    BY <2>2, <2>4, <2>5
  <2> QED
    BY <2>1, <2>2, <2>3, <2>4, <2>6 DEF Begins
<1>4. ASSUME NEW j \in 1 .. k PROVE Link(E, S, p[j], at[j - 1], at[j], ul[j])
  <2>1. j \in 1 .. n /\ j - 1 \in 0 .. k /\ j \in 0 .. k
    BY <1>0
  <2>2. Link(D, R, p[j], at[j - 1], at[j], ul[j])
    BY <2>1 DEF Chain
  <2> QED
    BY <1>1, <2>1, <2>2, SameLink
<1>5. \A i, j \in 0 .. k : i <= j => at[i] <= at[j]
  BY <1>0 DEF Chain
<1>6. k <= Len(p)
  BY <1>0 DEF Chain
<1>7. to[0] = at[0] /\ \A j \in 0 .. k : to[j] = at[j]
  BY <1>0
<1>8. \A j \in 1 .. k : j - 1 \in 0 .. k /\ j \in 0 .. k
  BY <1>0
<1> HIDE DEF to
<1>9. Chain(E, S, p, ul, to, k)
  BY <1>0, <1>2, <1>3, <1>4, <1>5, <1>6, <1>7, <1>8 DEF Chain
<1> QED
  BY <1>9 DEF to

(* One call more.                                                          *)
Extends(D, R, p, tl, ul, at, n, b, answer) ==
  /\ D \in Seq(Entries) /\ Chain(D, R, p, tl, at, n) /\ Len(p) \in Nat /\ n < Len(p)
  /\ b \in 2 .. Len(D) /\ Link(D, R, p[n + 1], at[n], b, answer)
  /\ n + 1 <= Len(ul) /\ (\A j \in 1 .. n : ul[j] = tl[j]) /\ ul[n + 1] = answer

LEMMA ChainAdds ==
  ASSUME NEW D, NEW R, NEW p, NEW tl, NEW ul, NEW at, NEW n, NEW b, NEW answer,
         Extends(D, R, p, tl, ul, at, n, b, answer)
  PROVE  Chain(D, R, p, ul, [j \in 0 .. n + 1 |-> IF j = n + 1 THEN b ELSE at[j]], n + 1)
<1>9. /\ D \in Seq(Entries) /\ Chain(D, R, p, tl, at, n) /\ Len(p) \in Nat /\ n < Len(p)
      /\ b \in 2 .. Len(D) /\ Link(D, R, p[n + 1], at[n], b, answer)
      /\ n + 1 <= Len(ul) /\ (\A j \in 1 .. n : ul[j] = tl[j]) /\ ul[n + 1] = answer
  BY DEF Extends
<1> USE <1>9
<1>0. n \in Nat /\ Len(D) \in Nat /\ b \in Nat
  BY DEF Chain
<1> DEFINE to == [j \in 0 .. n + 1 |-> IF j = n + 1 THEN b ELSE at[j]]
<1>1. \A j \in 0 .. n : j \in 0 .. n + 1 /\ to[j] = at[j] /\ at[j] \in 2 .. Len(D)
  BY <1>0 DEF Chain
<1>2. to[n + 1] = b /\ n + 1 \in 0 .. n + 1
  BY <1>0
<1>3. to \in [0 .. n + 1 -> 2 .. Len(D)]
  <2>1. \A j \in 0 .. n + 1 : j = n + 1 \/ j \in 0 .. n
    BY <1>0
  <2> QED
    BY <1>0, <1>1, <2>1
<1>4. at[n] <= b
  <2>0. n \in 0 .. n
    BY <1>0
  <2>1. at[n] \in Nat
    <3> HIDE DEF to
    <3>1. at[n] \in 2 .. Len(D)
      BY <1>1, <2>0
    <3> QED
      BY <1>0, <3>1
  <2>2. \A x \in Nat, y \in Nat : Once(D, R, at[n], x, y, b) => at[n] <= b
    BY <1>0, <2>1 DEF Once, NextVis
  <2>3. NextVis(D, R, at[n], b) => at[n] <= b
    BY <1>0, <2>1 DEF NextVis
  <2> QED
    BY <1>0, <2>1, <2>2, <2>3 DEF Link
<1> HIDE DEF to
<1>5. ASSUME NEW k \in 1 .. n + 1 PROVE Link(D, R, p[k], to[k - 1], to[k], ul[k])
  <2>1. CASE k = n + 1
    <3>1. to[k - 1] = at[n] /\ to[k] = b /\ ul[k] = answer
      BY <1>0, <1>1, <1>2, <2>1
    <3> QED
      BY <2>1, <3>1
  <2>2. CASE k # n + 1
    <3>1. k \in 1 .. n /\ k \in 0 .. n /\ k - 1 \in 0 .. n
      BY <1>0, <2>2
    <3>2. to[k - 1] = at[k - 1] /\ to[k] = at[k] /\ ul[k] = tl[k]
      BY <1>1, <3>1
    <3> QED
      BY <3>1, <3>2 DEF Chain
  <2> QED
    BY <2>1, <2>2
<1>6. ASSUME NEW j \in 0 .. n + 1, NEW k \in 0 .. n + 1, j <= k PROVE to[j] <= to[k]
  <2>0. n \in 0 .. n
    BY <1>0
  <2>1. CASE k \in 0 .. n
    <3>1. j \in 0 .. n
      BY <1>0, <1>6, <2>1
    <3> QED
      BY <1>1, <1>6, <2>1, <3>1 DEF Chain
  <2>2. CASE k = n + 1 /\ j \in 0 .. n
    <3>1. at[j] <= at[n]
      BY <1>0, <2>0, <2>2 DEF Chain
    <3> QED
      BY <1>0, <1>1, <1>2, <1>4, <2>0, <2>2, <3>1
  <2>3. CASE k = n + 1 /\ j = n + 1
    BY <1>0, <1>2, <2>3
  <2> QED
    BY <1>0, <2>1, <2>2, <2>3
<1>7. n + 1 \in Nat /\ n + 1 <= Len(p) /\ 0 \in 0 .. n
  BY <1>0
<1>8. Chain(D, R, p, ul, to, n + 1)
  BY <1>1, <1>3, <1>5, <1>6, <1>7 DEF Chain
<1> QED
  BY <1>8 DEF to

LEMMA ChainExtends ==
  ASSUME NEW D, NEW R, NEW p, NEW tl, NEW ul, NEW at, NEW n, NEW b, NEW answer,
         Extends(D, R, p, tl, ul, at, n, b, answer)
  PROVE  \E to : Chain(D, R, p, ul, to, n + 1) /\ to[n + 1] = b /\ to[0] = at[0]
<1> DEFINE to == [j \in 0 .. n + 1 |-> IF j = n + 1 THEN b ELSE at[j]]
<1>0. n \in Nat
  BY DEF Chain, Extends
<1>1. Chain(D, R, p, ul, to, n + 1)
  BY ChainAdds
<1>2. to[n + 1] = b /\ to[0] = at[0]
  BY <1>0
<1> HIDE DEF to
<1> QED
  BY <1>1, <1>2

LEMMA ChainNext ==
  ASSUME NEW D \in Seq(Entries), NEW R, NEW p, NEW tl, NEW ul, NEW at, NEW n,
         Chain(D, R, p, tl, at, n), Len(p) \in Nat, n < Len(p), NEW b \in 2 .. Len(D),
         NEW answer, Link(D, R, p[n + 1], at[n], b, answer),
         n + 1 <= Len(ul), \A j \in 1 .. n : ul[j] = tl[j], ul[n + 1] = answer
  PROVE  Chain(D, R, p, ul, [j \in 0 .. n + 1 |-> IF j = n + 1 THEN b ELSE at[j]], n + 1)
<1>1. Extends(D, R, p, tl, ul, at, n, b, answer)
  BY DEF Extends
<1> QED
  BY <1>1, ChainAdds

-----------------------------------------------------------------------------
(* How a log changes.                                                      *)

Deleted(D) ==
  UNION {D[j].start .. D[j].end : j \in {k \in DOMAIN D : D[k].kind = "Jump"}}

LEMMA ConcatIs ==
  ASSUME NEW D \in Seq(Entries), NEW B \in Seq(Entries)
  PROVE  /\ D \o B \in Seq(Entries) /\ Len(D \o B) = Len(D) + Len(B)
         /\ \A i \in 1 .. Len(D) : (D \o B)[i] = D[i]
         /\ \A i \in 1 .. Len(B) : (D \o B)[Len(D) + i] = B[i]
         /\ \A i \in 1 .. Len(D \o B) :
              i \in 1 .. Len(D) \/ \E j \in 1 .. Len(B) : i = Len(D) + j
<1>1. D \o B \in Seq(Entries) /\ Len(D \o B) = Len(D) + Len(B)
  OBVIOUS
<1>2. /\ \A i \in 1 .. Len(D) : (D \o B)[i] = D[i]
      /\ \A i \in 1 .. Len(B) : (D \o B)[Len(D) + i] = B[i]
  OBVIOUS
<1>3. ASSUME NEW i \in 1 .. Len(D \o B), i \notin 1 .. Len(D)
      PROVE  \E j \in 1 .. Len(B) : i = Len(D) + j
  <2>1. i - Len(D) \in 1 .. Len(B) /\ i = Len(D) + (i - Len(D))
    BY <1>1, <1>3
  <2> QED
    BY <2>1
<1> QED
  BY <1>1, <1>2, <1>3

LEMMA DeletedConcat ==
  ASSUME NEW D \in Seq(Entries), NEW B \in Seq(Entries),
         \A i \in 1 .. Len(B) : B[i].kind # "Jump"
  PROVE  Deleted(D \o B) = Deleted(D)
<1> DEFINE E == D \o B
           J(X) == {k \in DOMAIN X : X[k].kind = "Jump"}
<1>1. DOMAIN D = 1 .. Len(D) /\ DOMAIN E = 1 .. Len(E)
  BY ConcatIs
<1>2. J(E) = J(D)
  <2>1. \A i \in 1 .. Len(D) : E[i] = D[i] /\ i \in 1 .. Len(E)
    BY ConcatIs
  <2>2. \A i \in 1 .. Len(E) : i \in 1 .. Len(D) \/ E[i].kind # "Jump"
    BY ConcatIs
  <2> HIDE DEF E
  <2> QED
    BY <1>1, <2>1, <2>2
<1>3. \A i \in J(D) : E[i] = D[i]
  BY <1>1, ConcatIs
<1>4. {E[j].start .. E[j].end : j \in J(E)} = {D[j].start .. D[j].end : j \in J(D)}
  <2> HIDE DEF J, E
  <2> QED
    BY <1>2, <1>3
<1> QED
  BY <1>4 DEF Deleted

LEMMA DeletedJump ==
  ASSUME NEW D \in Seq(Entries), NEW e \in Entries, e.kind = "Jump"
  PROVE  Deleted(D \o <<e>>) = Deleted(D) \cup e.start .. e.end
<1> DEFINE E == D \o <<e>>
           J(X) == {k \in DOMAIN X : X[k].kind = "Jump"}
<1>0. <<e>> \in Seq(Entries) /\ Len(<<e>>) = 1 /\ <<e>>[1] = e
  OBVIOUS
<1>1. DOMAIN D = 1 .. Len(D) /\ DOMAIN E = 1 .. Len(E) /\ Len(E) = Len(D) + 1 /\ Len(D) \in Nat
  BY <1>0, ConcatIs
<1>2. \A i \in 1 .. Len(D) : E[i] = D[i] /\ i \in 1 .. Len(E)
  BY <1>0, <1>1, ConcatIs
<1>3. E[Len(D) + 1] = e
  BY <1>0, ConcatIs
<1> HIDE DEF E
<1>4. J(E) = J(D) \cup {Len(D) + 1}
  BY <1>1, <1>2, <1>3
<1>5. \A i \in J(D) : E[i] = D[i]
  BY <1>1, <1>2
<1>6. {E[j].start .. E[j].end : j \in J(E)}
        = {D[j].start .. D[j].end : j \in J(D)} \cup {e.start .. e.end}
  <2> HIDE DEF J
  <2> QED
    BY <1>3, <1>4, <1>5
<1>7. Deleted(E) = UNION {E[j].start .. E[j].end : j \in J(E)}
      /\ Deleted(D) = UNION {D[j].start .. D[j].end : j \in J(D)}
  BY DEF Deleted
<1> HIDE DEF J
<1>8. Deleted(E) = Deleted(D) \cup e.start .. e.end
  BY <1>6, <1>7
<1> QED
  BY <1>8 DEF E

(* A log with one entry more, and what is deleted when b cuts off all that *)
(* comes after a.                                                          *)
Longer(D, e, E) ==
  /\ E \in Seq(Entries) /\ Len(E) = Len(D) + 1 /\ E[Len(D) + 1] = e
  /\ \A i \in 1 .. Len(D) : E[i] = D[i]

CutAfter(R, a, b, S) == S = R \cup a + 1 .. b

LEMMA LongerIs ==
  ASSUME NEW D \in Seq(Entries), NEW e \in Entries
  PROVE  Longer(D, e, D \o <<e>>)
<1>0. <<e>> \in Seq(Entries) /\ Len(<<e>>) = 1 /\ <<e>>[1] = e
  OBVIOUS
<1> QED
  BY <1>0, ConcatIs DEF Longer

(* What is anchored stays so in a log that is longer.                      *)
LEMMA AnchoredSame ==
  ASSUME NEW D \in Seq(Entries), NEW E \in Seq(Entries), NEW R, NEW b, NEW a,
         Same(D, R, E, R, b), R \subseteq 2 .. b, Anchored(D, R, a)
  PROVE  Anchored(E, R, a)
<1> SUFFICES ASSUME NEW d \in R PROVE \E v \in Nat : a < v /\ v < d /\ Vis(E, R, v)
  BY DEF Anchored
<1>1. PICK v \in Nat : a < v /\ v < d /\ Vis(D, R, v)
  BY DEF Anchored
<1>2. v <= b
  BY <1>1 DEF Same
<1> QED
  BY <1>1, <1>2, SameVis

(* An entry is added.                                                      *)
LEMMA Added ==
  ASSUME NEW D \in Seq(Entries), NEW R, R \subseteq 2 .. Len(D), NEW e \in Entries,
         NEW p, Len(p) \in Nat, NEW tl, NEW at, NEW n, Chain(D, R, p, tl, at, n),
         Anchored(D, R, at[0]), NEW E, Longer(D, e, E)
  PROVE  /\ E \in Seq(Entries) /\ Len(E) = Len(D) + 1 /\ E[Len(D) + 1] = e
         /\ Same(D, R, E, R, Len(D))
         /\ Chain(E, R, p, tl, at, n) /\ Anchored(E, R, at[0])
         /\ Vis(E, R, Len(D) + 1) <=> e.kind # "Pending"
<1>1. E \in Seq(Entries) /\ Len(E) = Len(D) + 1 /\ Len(D) \in Nat
  BY DEF Longer
<1>2. E[Len(D) + 1] = e /\ \A i \in 1 .. Len(D) : E[i] = D[i]
  BY DEF Longer
<1>3. Same(D, R, E, R, Len(D))
  BY <1>1, <1>2 DEF Same
<1>4. at = [j \in 0 .. n |-> at[j]] /\ n \in 0 .. n /\ n \in Nat /\ n <= Len(tl)
      /\ at[n] \in 2 .. Len(D)
  BY DEF Chain
<1>5. Same(D, R, E, R, at[n])
  BY <1>1, <1>3, <1>4 DEF Same
<1>6. Chain(E, R, p, tl, at, n)
  <2>1. Chain(E, R, p, tl, [j \in 0 .. n |-> at[j]], n)
    BY <1>1, <1>4, <1>5, ChainSame
  <2> QED
    BY <1>4, <2>1
<1>7. Anchored(E, R, at[0])
  BY <1>1, <1>3, AnchoredSame
<1>8. Vis(E, R, Len(D) + 1) <=> e.kind # "Pending"
  <2>1. 0 \in 0 .. n
    BY <1>4
  <2>2. Len(D) + 1 \in 2 .. Len(E) /\ Len(D) + 1 \notin R
    BY <1>1, <2>1 DEF Chain
  <2> QED
    BY <1>2, <2>2 DEF Vis
<1> QED
  BY <1>1, <1>2, <1>3, <1>6, <1>7, <1>8

LEMMA AddedVisible ==
  ASSUME NEW D \in Seq(Entries), NEW R, R \subseteq 2 .. Len(D), NEW e \in Entries,
         NEW p, Len(p) \in Nat, NEW tl, NEW at, NEW n, Chain(D, R, p, tl, at, n),
         Anchored(D, R, at[0]), NEW a \in Nat, a <= Len(D), Clear(D, R, a, Len(D)),
         e.kind # "Pending", NEW E, Longer(D, e, E)
  PROVE  NextVis(E, R, a, Len(D) + 1)
<1>1. /\ E \in Seq(Entries) /\ Same(D, R, E, R, Len(D))
      /\ Vis(E, R, Len(D) + 1)
  BY Added
<1>0. Len(D) \in Nat
  OBVIOUS
<1>2. Clear(E, R, a, Len(D))
  BY <1>0, <1>1, SameClear
<1> QED
  BY <1>0, <1>1, <1>2 DEF NextVis

LEMMA AddedHint ==
  ASSUME NEW D \in Seq(Entries), NEW R, R \subseteq 2 .. Len(D), NEW e \in Entries,
         NEW p, Len(p) \in Nat, NEW tl, NEW at, NEW n, Chain(D, R, p, tl, at, n),
         Anchored(D, R, at[0]), NEW a \in Nat, a <= Len(D), Clear(D, R, a, Len(D)),
         e.kind = "Pending", NEW E, Longer(D, e, E)
  PROVE  Clear(E, R, a, Len(E))
<1>1. /\ E \in Seq(Entries) /\ Same(D, R, E, R, Len(D))
      /\ ~Vis(E, R, Len(D) + 1) /\ Len(E) = Len(D) + 1
  BY Added
<1>0. Len(D) \in Nat
  OBVIOUS
<1>2. Clear(E, R, a, Len(D))
  BY <1>0, <1>1, SameClear
<1> QED
  BY <1>0, <1>1, <1>2 DEF Clear

LEMMA RecordedHint ==
  ASSUME NEW D \in Seq(Entries), NEW R, R \subseteq 2 .. Len(D), NEW e \in Entries,
         NEW p, Len(p) \in Nat, NEW tl, NEW at, NEW n, Recorded(D, R, p, tl, at, n),
         e.kind = "Pending", NEW E, Longer(D, e, E)
  PROVE  Recorded(E, R, p, tl, at, n)
<1>0. Chain(D, R, p, tl, at, n) /\ Anchored(D, R, at[0]) /\ Rest(D, R, p, at[n], n)
  BY DEF Recorded
<1>1. /\ E \in Seq(Entries) /\ Same(D, R, E, R, Len(D))
      /\ Chain(E, R, p, tl, at, n) /\ Anchored(E, R, at[0])
  BY <1>0, Added
<1>2. \A a \in Nat : a <= Len(D) /\ Clear(D, R, a, Len(D)) => Clear(E, R, a, Len(E))
  BY <1>0, AddedHint
<1>3. at[n] \in Nat /\ at[n] <= Len(D)
  <2>1. n \in 0 .. n /\ at \in [0 .. n -> 2 .. Len(D)]
    BY <1>0 DEF Chain
  <2>2. at[n] \in 2 .. Len(D)
    BY <2>1
  <2> QED
    BY <1>1, <2>2
<1>4. CASE Clear(D, R, at[n], Len(D))
  BY <1>1, <1>2, <1>3, <1>4 DEF Recorded, Rest
<1>5. CASE \E x \in Nat : /\ NextVis(D, R, at[n], x) /\ Clear(D, R, x, Len(D))
                          /\ Unanswered(p, n, D[x].kind)
  <2>1. PICK x \in Nat : /\ NextVis(D, R, at[n], x) /\ Clear(D, R, x, Len(D))
                         /\ Unanswered(p, n, D[x].kind)
    BY <1>5
  <2>2. x <= Len(D)
    BY <2>1 DEF NextVis, Vis
  <2>3. NextVis(E, R, at[n], x) /\ E[x] = D[x]
    BY <1>1, <1>3, <2>1, <2>2, SameNext
  <2> QED
    BY <1>1, <1>2, <2>1, <2>2, <2>3 DEF Recorded, Rest
<1> QED
  BY <1>0, <1>4, <1>5 DEF Rest

(* Everything after the k-th call is deleted, by the entry that says so.   *)
LEMMA CutBack ==
  ASSUME NEW D \in Seq(Entries), NEW R, R \subseteq 2 .. Len(D), NEW e \in Entries,
         NEW p, Len(p) \in Nat, NEW tl, NEW at, NEW n, Chain(D, R, p, tl, at, n),
         Anchored(D, R, at[0]), NEW k \in 0 .. n, at[0] < at[k], Vis(D, R, at[k]),
         NEW E, Longer(D, e, E), NEW S, CutAfter(R, at[k], Len(D) + 1, S)
  PROVE  /\ Chain(E, S, p, tl, [j \in 0 .. k |-> at[j]], k)
         /\ Anchored(E, S, at[0]) /\ Clear(E, S, at[k], Len(E))
<1> DEFINE to == [j \in 0 .. k |-> at[j]]
<1>1. E \in Seq(Entries) /\ Len(E) = Len(D) + 1 /\ Len(D) \in Nat
  BY DEF Longer
<1>2. \A i \in 1 .. Len(D) : E[i] = D[i]
  BY DEF Longer
<1>3. n \in Nat /\ k \in Nat /\ k <= n /\ at[k] \in 2 .. Len(D) /\ k <= Len(tl)
      /\ at[0] \in 2 .. Len(D) /\ n <= Len(tl)
  <2>1. n \in Nat /\ at \in [0 .. n -> 2 .. Len(D)] /\ n <= Len(tl)
    BY DEF Chain
  <2>2. 0 \in 0 .. n
    BY <2>1
  <2>3. k <= Len(tl)
    BY <2>1
  <2> QED
    BY <2>1, <2>2, <2>3
<1>4. Same(D, R, E, S, at[k])
  <2>1. ASSUME NEW i \in 1 .. at[k] PROVE E[i] = D[i] /\ (i \in S <=> i \in R)
    <3>1. i \in 1 .. Len(D) /\ i \notin at[k] + 1 .. Len(D) + 1
      BY <1>1, <1>3
    <3> QED
      BY <1>2, <3>1 DEF CutAfter
  <2> QED
    BY <1>1, <1>3, <2>1 DEF Same
<1>5. Chain(E, S, p, tl, to, k)
  BY <1>1, <1>3, <1>4, ChainSame
<1>7. Anchored(E, S, at[0])
  <2> SUFFICES ASSUME NEW d \in S PROVE \E v \in Nat : at[0] < v /\ v < d /\ Vis(E, S, v)
    BY DEF Anchored
  <2>1. Vis(E, S, at[k])
    BY <1>1, <1>3, <1>4, SameVis
  <2>2. CASE d \in R
    <3>1. PICK v \in Nat : at[0] < v /\ v < d /\ Vis(D, R, v)
      BY <2>2 DEF Anchored
    <3>2. CASE v <= at[k]
      <4>1. Vis(E, S, v)
        BY <1>1, <1>3, <1>4, <3>1, <3>2, SameVis
      <4> QED
        BY <3>1, <4>1
    <3>3. CASE ~(v <= at[k])
      <4>1. at[k] < v
        BY <1>3, <3>3
      <4>2. d \in Nat
        BY <2>2
      <4>3. at[k] < d
        BY <1>3, <3>1, <4>1, <4>2
      <4> QED
        BY <1>3, <2>1, <4>3
    <3> QED
      BY <3>2, <3>3
  <2>3. CASE d \in at[k] + 1 .. Len(D) + 1
    BY <1>1, <1>3, <2>1, <2>3
  <2> QED
    BY <2>2, <2>3 DEF CutAfter
<1>8. Clear(E, S, at[k], Len(E))
  BY <1>1, <1>3 DEF Clear, Vis, CutAfter
<1> QED
  BY <1>5, <1>7, <1>8

(* Entries that wait to be committed are lost: what is left ends between   *)
(* two calls, or with the first entry of one.                              *)
Buffered(kind) == kind \in {"call", "NoOp", "BeginAtomic", "EndAtomic"}

LEMMA CutOff ==
  ASSUME NEW D \in Seq(Entries), NEW E \in Seq(Entries), NEW R, R \subseteq 2 .. Len(D),
         Same(E, R, D, R, Len(D)),
         \A i \in Len(D) + 1 .. Len(E) : Buffered(E[i].kind),
         NEW p, Len(p) \in Nat, NEW tl, NEW at, NEW n, Recorded(E, R, p, tl, at, n)
  PROVE  \E m \in 0 .. n : /\ Recorded(D, R, p, tl, [j \in 0 .. m |-> at[j]], m)
                           /\ at[m] <= Len(D) /\ \A k \in 0 .. n : at[k] <= Len(D) => k <= m
<1>0. /\ n \in Nat /\ at \in [0 .. n -> 2 .. Len(E)] /\ Len(D) \in Nat /\ Len(E) \in Nat
      /\ Len(D) <= Len(E) /\ n <= Len(tl)
      /\ Chain(E, R, p, tl, at, n) /\ Anchored(E, R, at[0]) /\ Rest(E, R, p, at[n], n)
  BY DEF Recorded, Chain, Same
<1>1. 0 \in 0 .. n /\ at[0] \in 2 .. Len(E) /\ at[0] <= Len(D)
  <2>1. 0 \in 0 .. n /\ at[0] \in 2 .. Len(E) /\ E[at[0]].kind = "Invoked"
    BY <1>0 DEF Chain, Begins
  <2>2. at[0] \notin Len(D) + 1 .. Len(E)
    BY <2>1 DEF Buffered
  <2> QED
    BY <1>0, <2>1, <2>2
<1>2. PICK m \in 0 .. n : at[m] <= Len(D) /\ \A k \in 0 .. n : at[k] <= Len(D) => k <= m
  <2> DEFINE K == {k \in 0 .. n : at[k] <= Len(D)}
  <2>1. K \in SUBSET Nat /\ 0 \in K /\ \A k \in K : k <= n
    BY <1>0, <1>1
  <2>2. PICK m \in K : \A k \in K : k <= m
    <3> HIDE DEF K
    <3> QED
      BY <1>0, <2>1, GreatestIndex
  <2> QED
    BY <2>2
<1>3. m \in Nat /\ m <= n /\ at[m] \in 2 .. Len(E) /\ at[m] \in Nat /\ m <= Len(tl)
  <2>1. m <= Len(tl)
    BY <1>0
  <2> QED
    BY <1>0, <2>1
<1> DEFINE to == [j \in 0 .. m |-> at[j]]
<1>4. Chain(D, R, p, tl, to, m)
  <2>1. Same(E, R, D, R, at[m])
    BY <1>0, <1>2, <1>3 DEF Same
  <2>2. Chain(E, R, p, tl, at, n) /\ m <= Len(tl) /\ \A j \in 1 .. m : tl[j] = tl[j]
    BY <1>0, <1>3
  <2> QED
    BY <2>1, <2>2, ChainSame
<1>5. to[0] = at[0] /\ to[m] = at[m]
  BY <1>3
<1>6. Anchored(D, R, at[0])
  BY <1>0, AnchoredSame
<1>7. Rest(D, R, p, at[m], m)
  <2>1. CASE m < n
    <3>1. m + 1 \in 0 .. n /\ m + 1 \in 1 .. n /\ at[m + 1] \in 2 .. Len(E) /\ m + 1 - 1 = m
      BY <1>0, <1>3, <2>1
    <3>2. PICK b \in Nat : b = at[m + 1] /\ b > Len(D) /\ b <= Len(E)
      <4>1. ~(at[m + 1] <= Len(D))
        BY <1>2, <1>3, <3>1
      <4> QED
        BY <1>0, <3>1, <4>1
    <3>3. Buffered(E[b].kind)
      <4>1. b \in Len(D) + 1 .. Len(E)
        BY <1>0, <3>2
      <4> QED
        BY <4>1
    <3>4. Link(E, R, p[m + 1], at[m], b, tl[m + 1])
      <4>1. Link(E, R, p[m + 1], at[m + 1 - 1], at[m + 1], tl[m + 1])
        BY <1>0, <3>1 DEF Chain
      <4> QED
        BY <3>1, <3>2, <4>1
    <3>5. NextVis(E, R, at[m], b)
      <4>1. b # at[m]
        BY <1>0, <1>2, <1>3, <3>2
      <4>2. E[b].kind # "EndWrite"
        BY <3>3 DEF Buffered
      <4> QED
        BY <3>4, <4>1, <4>2 DEF Link, Once
    <3>6. Clear(E, R, at[m], Len(D))
      <4>1. \A i \in at[m] + 1 .. Len(D) : i \in at[m] + 1 .. b - 1
        BY <1>0, <1>3, <3>2
      <4> QED
        BY <3>5, <4>1 DEF NextVis, Clear
    <3>7. Clear(D, R, at[m], Len(D))
      BY <1>0, <1>3, <3>6, SameClear
    <3> QED
      BY <3>7 DEF Rest
  <2>2. CASE m = n
    <3>1. CASE Clear(E, R, at[n], Len(E))
      <4>1. Clear(E, R, at[n], Len(D))
        BY <1>0, <1>3, <2>2, <3>1 DEF Clear
      <4>2. Clear(D, R, at[n], Len(D))
        BY <1>0, <1>3, <2>2, <4>1, SameClear
      <4> QED
        BY <2>2, <4>2 DEF Rest
    <3>2. CASE \E x \in Nat : /\ NextVis(E, R, at[n], x) /\ Clear(E, R, x, Len(E))
                              /\ Unanswered(p, n, E[x].kind)
      <4>1. PICK x \in Nat : /\ NextVis(E, R, at[n], x) /\ Clear(E, R, x, Len(E))
                             /\ Unanswered(p, n, E[x].kind)
        BY <3>2
      <4>2. CASE x <= Len(D)
        <5>1. NextVis(D, R, at[n], x) /\ D[x] = E[x]
          BY <1>0, <1>3, <2>2, <4>1, <4>2, SameNext
        <5>2. Clear(E, R, x, Len(D))
          BY <1>0, <4>1 DEF Clear
        <5>3. Clear(D, R, x, Len(D))
          BY <1>0, <5>2, SameClear
        <5> QED
          BY <2>2, <4>1, <5>1, <5>3 DEF Rest
      <4>3. CASE ~(x <= Len(D))
        <5>1. Clear(E, R, at[n], Len(D))
          <6>1. \A i \in at[n] + 1 .. Len(D) : i \in at[n] + 1 .. x - 1
            BY <1>0, <1>3, <2>2, <4>3
          <6> QED
            BY <4>1, <6>1 DEF NextVis, Clear
        <5>2. Clear(D, R, at[n], Len(D))
          BY <1>0, <1>3, <2>2, <5>1, SameClear
        <5> QED
          BY <2>2, <5>2 DEF Rest
      <4> QED
        BY <4>2, <4>3
    <3> QED
      BY <1>0, <3>1, <3>2 DEF Rest
  <2> QED
    BY <1>3, <1>0, <2>1, <2>2
<1>8. Recorded(D, R, p, tl, to, m)
  <2> HIDE DEF to
  <2> QED
    BY <1>4, <1>5, <1>6, <1>7 DEF Recorded
<1> QED
  BY <1>2, <1>8

-----------------------------------------------------------------------------
(* The invariant.                                                          *)

LogType ==
  /\ durable \in Seq(Entries) /\ buffer \in Seq(Entries) /\ Len(durable) >= 1
  /\ \A i \in 1 .. Len(buffer) : Buffered(buffer[i].kind)
  /\ DeletedRegions \subseteq 2 .. Len(durable)

GuestType ==
  /\ program \in Programs
  /\ seen \in Seq(Answers) /\ timeline \in Seq(Answers)
  /\ boots \in Nat /\ last \in Nat /\ target \in Nat /\ source \in Nat

Agrees(s, t) == Len(s) <= Len(t) /\ \A k \in 1 .. Len(s) : s[k] = t[k]

(* The worker is not running.                                              *)
Stopped == buffer = <<>> /\ LogOK(oplog, DeletedRegions, program, timeline)

(* What is replayed is what is committed.                                  *)
Replayed ==
  /\ Stopped /\ step = "none"
  /\ target \in 1 .. Len(oplog) /\ OnlyHints(oplog, target)
  /\ regions = DeletedRegions /\ regions \subseteq 2 .. target

(* Before the invocation was found in the oplog, or there is none.         *)
Loading ==
  /\ Replayed /\ seen = <<>>
  /\ last = 1 \/ (last = target /\ Fresh(oplog, DeletedRegions))

(* The next entry is the next one of the calls, or the invocation was      *)
(* recorded twice.                                                         *)
FollowAt(n, at) ==
  /\ Recorded(oplog, regions, program, timeline, at, n)
  /\ Len(seen) <= n /\ Agrees(seen, timeline)
  /\ at[Len(seen)] <= last /\ Clear(oplog, regions, at[Len(seen)], last)

Lost == seen = <<>> /\ oplog[last + 1].kind = "Invoked" /\ InvokedTwice

Following ==
  /\ Replayed
  /\ last \in 1 .. target /\ Vis(oplog, regions, last + 1)
  /\ Lost \/ \E n, at : FollowAt(n, at)

(* The oplog has what the guest has seen, and the beginning of the call    *)
(* it is in.                                                               *)
LiveAt(at) ==
  /\ Recorded(oplog, DeletedRegions, program, timeline, at, Len(seen))
  /\ step \in {"none", "jump"} =>
       Clear(oplog, DeletedRegions, at[Len(seen)], Len(oplog))
  /\ step \in {"index", "record"} =>
       \E x \in Nat :
         /\ NextVis(oplog, DeletedRegions, at[Len(seen)], x)
         /\ OnlyHints(oplog, x)
         /\ Marks(Op, oplog[x].kind) \/ (Op = "once" /\ oplog[x].kind = "BeginWrite")

Live ==
  /\ step \in {"none", "jump", "index", "record"}
  /\ step # "none" => pc <= Len(program)
  /\ Agrees(seen, timeline)
  /\ \E at : LiveAt(at)

ModeInv ==
  /\ mode \in {"down", "loading", "guest"} \cup Ended
  /\ mode \in {"down", "done"} => Stopped
  /\ mode = "loading" => Loading
  /\ mode = "guest" /\ last # target => Following
  /\ mode = "guest" /\ last = target => Live
  /\ mode = "stuck" => InvokedTwice

ReplayInv == LogType /\ GuestType /\ ModeInv

-----------------------------------------------------------------------------
(* What the actions do to the oplog.                                       *)

LEMMA ProgramIs ==
  ASSUME program \in Programs
  PROVE  program \in Seq(Ops) /\ Len(program) \in Nat
BY ProgramsAssumption

LEMMA OplogIs ==
  ASSUME LogType
  PROVE  /\ oplog \in Seq(Entries) /\ Len(oplog) = Len(durable) + Len(buffer)
         /\ Len(oplog) \in Nat /\ Len(oplog) >= Len(durable)
         /\ DeletedRegions \subseteq 2 .. Len(oplog)
         /\ Same(oplog, DeletedRegions, durable, DeletedRegions, Len(durable))
         /\ \A i \in Len(durable) + 1 .. Len(oplog) : Buffered(oplog[i].kind)
         /\ Deleted(oplog) = DeletedRegions
<1>0. durable \in Seq(Entries) /\ buffer \in Seq(Entries) /\ Len(durable) \in Nat
      /\ Len(buffer) \in Nat
  BY DEF LogType
<1>1. oplog \in Seq(Entries) /\ Len(oplog) = Len(durable) + Len(buffer)
  BY <1>0, ConcatIs DEF oplog
<1>2. Len(oplog) \in Nat /\ Len(oplog) >= Len(durable)
  BY <1>0, <1>1
<1>3. \A i \in 1 .. Len(durable) : oplog[i] = durable[i]
  BY <1>0, ConcatIs DEF oplog
<1>4. DeletedRegions \subseteq 2 .. Len(oplog)
  <2>1. 2 .. Len(durable) \subseteq 2 .. Len(oplog)
    BY <1>0, <1>2
  <2> QED
    BY <2>1 DEF LogType
<1>5. ASSUME NEW i \in Len(durable) + 1 .. Len(oplog) PROVE Buffered(oplog[i].kind)
  <2>1. i - Len(durable) \in 1 .. Len(buffer) /\ i = Len(durable) + (i - Len(durable))
    BY <1>0, <1>1
  <2>2. PICK j \in 1 .. Len(buffer) : i = Len(durable) + j
    BY <2>1
  <2>3. oplog[i] = buffer[j]
    BY <1>0, <2>2, ConcatIs DEF oplog
  <2> QED
    BY <2>3 DEF LogType
<1>6. Deleted(oplog) = DeletedRegions
  <2>1. \A i \in 1 .. Len(buffer) : buffer[i].kind # "Jump"
    BY DEF LogType, Buffered
  <2>2. Deleted(durable \o buffer) = Deleted(durable)
    BY <1>0, <2>1, DeletedConcat
  <2> QED
    BY <2>2 DEF oplog, DeletedRegions, Deleted
<1> QED
  BY <1>0, <1>1, <1>2, <1>3, <1>4, <1>5, <1>6 DEF Same

LEMMA AnswerTyped ==
  ASSUME NEW v \in Nat, NEW b \in Nat
  PROVE  Answer(v, b) \in Answers /\ Nothing \in Answers
BY DEF Answer, Answers, Nothing

LEMMA EntryTyped ==
  ASSUME NEW kind, NEW v \in Nat, NEW b \in Nat
  PROVE  /\ kind \in {"call", "part", "Write"} =>
              [kind |-> kind, value |-> v, boot |-> b] \in Entries
         /\ kind \in {"EndAtomic", "EndWrite"} => [kind |-> kind, begin |-> b] \in Entries
         /\ kind \in {"Invoked", "Completed", "Pending", "NoOp", "BeginAtomic", "BeginWrite"} =>
              [kind |-> kind] \in Entries
<1>1. ASSUME kind \in {"call", "part", "Write"}
      PROVE  [kind |-> kind, value |-> v, boot |-> b] \in Entries
  BY <1>1 DEF Entries
<1>2. ASSUME kind \in {"EndAtomic", "EndWrite"} PROVE [kind |-> kind, begin |-> b] \in Entries
  BY <1>2 DEF Entries
<1>3. ASSUME kind \in {"Invoked", "Completed", "Pending", "NoOp", "BeginAtomic", "BeginWrite"}
      PROVE  [kind |-> kind] \in Entries
  BY <1>3 DEF Entries
<1> QED
  BY <1>1, <1>2, <1>3

LEMMA EntryFields ==
  ASSUME NEW e \in Entries, e.kind \in {"call", "part", "Write"}
  PROVE  e.value \in Nat /\ e.boot \in Nat
BY DEF Entries

(* An entry is added, in the buffer or with a commit.                      *)
Grows(e) == (AddEntry(e) /\ Buffered(e.kind)) \/ AddAndCommit(<<e>>)

LEMMA GrowsIs ==
  ASSUME LogType, NEW e \in Entries, Grows(e)
  PROVE  /\ Longer(oplog, e, oplog')
         /\ e.kind # "Jump" => LogType' /\ DeletedRegions' = DeletedRegions
<1>0. /\ durable \in Seq(Entries) /\ buffer \in Seq(Entries) /\ Len(durable) \in Nat
      /\ Len(buffer) \in Nat /\ oplog \in Seq(Entries) /\ Len(oplog) \in Nat
      /\ Len(oplog) >= Len(durable) /\ Len(durable) >= 1
  BY OplogIs DEF LogType
<1>1. CASE AddEntry(e) /\ Buffered(e.kind)
  <2>1. durable' = durable /\ buffer' = Append(buffer, e)
    BY <1>1 DEF AddEntry
  <2>2. buffer' \in Seq(Entries) /\ Len(buffer') = Len(buffer) + 1 /\ buffer'[Len(buffer) + 1] = e
        /\ \A i \in 1 .. Len(buffer) : buffer'[i] = buffer[i]
    BY <1>0, <2>1
  <2>3. oplog' = durable \o buffer'
    BY <2>1 DEF oplog
  <2>4. oplog' \in Seq(Entries) /\ Len(oplog') = Len(oplog) + 1
    <3>1. oplog' \in Seq(Entries) /\ Len(oplog') = Len(durable) + Len(buffer')
      BY <1>0, <2>2, <2>3, ConcatIs
    <3>2. Len(oplog) = Len(durable) + Len(buffer)
      BY OplogIs
    <3> QED
      BY <1>0, <2>2, <3>1, <3>2
  <2>5. oplog'[Len(oplog) + 1] = e
    <3>1. Len(buffer) + 1 \in 1 .. Len(buffer')
      BY <1>0, <2>2
    <3>2. oplog'[Len(durable) + (Len(buffer) + 1)] = buffer'[Len(buffer) + 1]
      BY <1>0, <2>2, <2>3, <3>1, ConcatIs
    <3>3. Len(oplog) + 1 = Len(durable) + (Len(buffer) + 1)
      BY <1>0, ConcatIs DEF oplog
    <3> QED
      BY <2>2, <3>2, <3>3
  <2>6. ASSUME NEW i \in 1 .. Len(oplog) PROVE oplog'[i] = oplog[i]
    <3>1. CASE i \in 1 .. Len(durable)
      BY <1>0, <2>2, <2>3, <3>1, ConcatIs DEF oplog
    <3>2. CASE i \notin 1 .. Len(durable)
      <4>1. PICK j \in 1 .. Len(buffer) : i = Len(durable) + j
        BY <1>0, <3>2, ConcatIs DEF oplog
      <4>2. j \in 1 .. Len(buffer')
        BY <1>0, <2>2
      <4>3. (durable \o buffer')[Len(durable) + j] = buffer'[j]
        BY <1>0, <2>2, <4>2, ConcatIs
      <4>4. (durable \o buffer)[Len(durable) + j] = buffer[j]
        BY <1>0, ConcatIs
      <4>5. oplog'[i] = buffer'[j] /\ oplog[i] = buffer[j]
        BY <2>3, <4>1, <4>3, <4>4 DEF oplog
      <4> QED
        BY <2>2, <4>5
    <3> QED
      BY <3>1, <3>2
  <2>7. Longer(oplog, e, oplog')
    BY <2>4, <2>5, <2>6 DEF Longer
  <2>8. DeletedRegions' = DeletedRegions
    BY <2>1 DEF DeletedRegions
  <2>9. \A i \in 1 .. Len(buffer') : Buffered(buffer'[i].kind)
    <3>1. \A i \in 1 .. Len(buffer') : i \in 1 .. Len(buffer) \/ i = Len(buffer) + 1
      BY <1>0, <2>2
    <3> QED
      BY <1>1, <2>2, <3>1 DEF LogType
  <2>10. LogType'
    BY <2>1, <2>2, <2>8, <2>9 DEF LogType
  <2> QED
    BY <2>7, <2>8, <2>10
<1>2. CASE AddAndCommit(<<e>>)
  <2>0. <<e>> \in Seq(Entries) /\ Len(<<e>>) = 1 /\ <<e>>[1] = e
    OBVIOUS
  <2>1. durable' = oplog \o <<e>> /\ buffer' = <<>>
    BY <1>2 DEF AddAndCommit
  <2>2. Longer(oplog, e, durable')
    BY <1>0, <2>1, LongerIs
  <2>3. oplog' = durable' \o <<>> /\ durable' \in Seq(Entries)
    BY <2>1, <2>2 DEF oplog, Longer
  <2>4. oplog' = durable'
    BY <2>3
  <2>5. Longer(oplog, e, oplog')
    BY <2>2, <2>4
  <2>6. ASSUME e.kind # "Jump" PROVE LogType' /\ DeletedRegions' = DeletedRegions
    <3>0. \A i \in 1 .. Len(<<e>>) : <<e>>[i].kind # "Jump"
      BY <2>6
    <3>1. Deleted(oplog \o <<e>>) = Deleted(oplog)
      BY <1>0, <2>0, <3>0, DeletedConcat
    <3>2. DeletedRegions' = Deleted(durable')
      BY DEF DeletedRegions, Deleted
    <3>3. DeletedRegions' = DeletedRegions
      BY <2>1, <3>1, <3>2, OplogIs
    <3>4. Len(durable') = Len(oplog) + 1 /\ durable' \in Seq(Entries)
      BY <2>2 DEF Longer
    <3>5. DeletedRegions \subseteq 2 .. Len(durable')
      <4>1. 2 .. Len(oplog) \subseteq 2 .. Len(durable')
        BY <1>0, <3>4
      <4> QED
        BY <4>1, OplogIs
    <3>6. buffer' \in Seq(Entries) /\ Len(buffer') = 0 /\ Len(durable') >= 1
      BY <1>0, <2>1, <3>4
    <3>7. \A i \in 1 .. Len(buffer') : Buffered(buffer'[i].kind)
      BY <3>6
    <3> QED
      BY <3>3, <3>4, <3>5, <3>6, <3>7 DEF LogType
  <2> QED
    BY <2>5, <2>6
<1> QED
  BY <1>1, <1>2 DEF Grows

(* A region is deleted up to the entry that says so.                       *)
LEMMA JumpIs ==
  ASSUME LogType, NEW a \in Nat, a >= 1,
         AddAndCommit(<<[kind |-> "Jump", start |-> a + 1, end |-> Len(oplog) + 1]>>)
  PROVE  /\ LogType'
         /\ Longer(oplog, [kind |-> "Jump", start |-> a + 1, end |-> Len(oplog) + 1], oplog')
         /\ CutAfter(DeletedRegions, a, Len(oplog) + 1, DeletedRegions')
         /\ buffer' = <<>>
<1>0. oplog \in Seq(Entries) /\ Len(oplog) \in Nat
  BY OplogIs
<1>1. PICK e \in Entries : /\ e = [kind |-> "Jump", start |-> a + 1, end |-> Len(oplog) + 1]
                           /\ e.kind = "Jump" /\ e.start = a + 1 /\ e.end = Len(oplog) + 1
  BY <1>0 DEF Entries
<1>2. AddAndCommit(<<e>>)
  BY <1>1
<1>3. Longer(oplog, e, oplog')
  BY <1>2, GrowsIs DEF Grows
<1>4. durable' = oplog \o <<e>> /\ buffer' = <<>>
  BY <1>2 DEF AddAndCommit
<1>5. DeletedRegions' = Deleted(durable')
  BY DEF DeletedRegions, Deleted
<1>6. DeletedRegions' = DeletedRegions \cup a + 1 .. Len(oplog) + 1
  BY <1>0, <1>1, <1>4, <1>5, DeletedJump, OplogIs
<1>7. Longer(oplog, e, durable')
  BY <1>0, <1>4, LongerIs
<1>8. durable' \in Seq(Entries) /\ Len(durable') = Len(oplog) + 1
  BY <1>7 DEF Longer
<1>9. DeletedRegions' \subseteq 2 .. Len(durable')
  <2>1. /\ 2 .. Len(oplog) \subseteq 2 .. Len(durable')
        /\ a + 1 .. Len(oplog) + 1 \subseteq 2 .. Len(durable')
    BY <1>0, <1>8
  <2> QED
    BY <1>6, <2>1, OplogIs
<1>10. buffer' \in Seq(Entries) /\ Len(buffer') = 0 /\ Len(durable') >= 1
  BY <1>0, <1>4, <1>8
<1>11. \A i \in 1 .. Len(buffer') : Buffered(buffer'[i].kind)
  BY <1>10
<1>12. LogType'
  BY <1>8, <1>9, <1>10, <1>11 DEF LogType
<1> QED
  BY <1>1, <1>3, <1>4, <1>6, <1>12 DEF CutAfter

LEMMA CommitIs ==
  ASSUME LogType, AddAndCommit(<<>>)
  PROVE  LogType' /\ oplog' = oplog /\ DeletedRegions' = DeletedRegions /\ buffer' = <<>>
<1>0. oplog \in Seq(Entries) /\ Len(oplog) \in Nat /\ Len(oplog) >= Len(durable)
      /\ Len(durable) \in Nat /\ Len(durable) >= 1
  BY OplogIs DEF LogType
<1>1. durable' = oplog \o <<>> /\ buffer' = <<>>
  BY DEF AddAndCommit
<1>2. durable' = oplog
  BY <1>0, <1>1
<1>3. oplog' = durable' \o <<>>
  BY <1>1 DEF oplog
<1>4. oplog' = oplog
  BY <1>0, <1>2, <1>3
<1>5. DeletedRegions' = Deleted(durable')
  BY DEF DeletedRegions, Deleted
<1>6. DeletedRegions' = DeletedRegions
  BY <1>2, <1>5, OplogIs
<1>7. DeletedRegions' \subseteq 2 .. Len(durable')
  BY <1>2, <1>6, OplogIs
<1>8. buffer' \in Seq(Entries) /\ Len(buffer') = 0 /\ Len(durable') >= 1
  BY <1>0, <1>1, <1>2
<1>9. \A i \in 1 .. Len(buffer') : Buffered(buffer'[i].kind)
  BY <1>8
<1> QED
  BY <1>0, <1>1, <1>2, <1>4, <1>6, <1>7, <1>8, <1>9 DEF LogType

LEMMA DroppedIs ==
  ASSUME LogType, durable' = durable, buffer' = <<>>
  PROVE  LogType' /\ oplog' = durable /\ DeletedRegions' = DeletedRegions
<1>1. durable \in Seq(Entries) /\ oplog' = durable \o <<>>
  BY DEF LogType, oplog
<1>2. oplog' = durable
  BY <1>1
<1>3. DeletedRegions' = DeletedRegions
  BY DEF DeletedRegions
<1>4. buffer' \in Seq(Entries) /\ Len(buffer') = 0
  OBVIOUS
<1>5. \A i \in 1 .. Len(buffer') : Buffered(buffer'[i].kind)
  BY <1>4
<1> QED
  BY <1>2, <1>3, <1>4, <1>5 DEF LogType

LEMMA EmptyBuffer ==
  ASSUME LogType, buffer = <<>>
  PROVE  oplog = durable
<1>1. durable \in Seq(Entries) /\ oplog = durable \o <<>>
  BY DEF LogType, oplog
<1> QED
  BY <1>1

-----------------------------------------------------------------------------
(* Steps of a live guest.                                                  *)

LEMMA ChainEnd ==
  ASSUME NEW D \in Seq(Entries), NEW R, NEW p, NEW tl, NEW at, NEW n,
         Chain(D, R, p, tl, at, n)
  PROVE  /\ n \in Nat /\ at[n] \in 2 .. Len(D) /\ at[n] \in Nat /\ at[n] <= Len(D)
         /\ at[0] \in 2 .. Len(D) /\ at[0] \in Nat /\ at[0] <= at[n] /\ n <= Len(p)
         /\ 2 <= at[0] /\ n <= Len(tl) /\ Vis(D, R, at[0])
<1>1. n \in Nat /\ at \in [0 .. n -> 2 .. Len(D)] /\ n <= Len(p) /\ n <= Len(tl)
  BY DEF Chain
<1>2. 0 \in 0 .. n /\ n \in 0 .. n /\ 0 <= n
  BY <1>1
<1>3. at[0] <= at[n]
  BY <1>2 DEF Chain
<1>4. at[n] \in 2 .. Len(D) /\ at[0] \in 2 .. Len(D)
  BY <1>1, <1>2
<1>5. Vis(D, R, at[0])
  <2>1. Begins(D, R, at[0])
    BY DEF Chain
  <2>2. at[0] \in 2 .. at[0]
    BY <1>4
  <2> QED
    BY <1>4, <2>1, <2>2 DEF Begins, Vis
<1> QED
  BY <1>1, <1>3, <1>4, <1>5

(* An entry is recorded for the next call.                                 *)
LEMMA LiveAdds ==
  ASSUME LogType, GuestType, NEW at, LiveAt(at), step = "none",
         NEW e \in Entries, e.kind \notin {"Pending", "Jump"}, Grows(e)
  PROVE  /\ LogType' /\ DeletedRegions' = DeletedRegions
         /\ oplog' \in Seq(Entries) /\ Len(oplog') = Len(oplog) + 1 /\ Len(oplog') \in Nat
         /\ Chain(oplog', DeletedRegions, program, timeline, at, Len(seen))
         /\ Anchored(oplog', DeletedRegions, at[0])
         /\ NextVis(oplog', DeletedRegions, at[Len(seen)], Len(oplog'))
         /\ oplog'[Len(oplog')] = e /\ Len(oplog') \in 2 .. Len(oplog')
         /\ Clear(oplog', DeletedRegions, Len(oplog'), Len(oplog'))
<1>1. oplog \in Seq(Entries) /\ Len(oplog) \in Nat /\ DeletedRegions \subseteq 2 .. Len(oplog)
  BY OplogIs
<1>2. LogType' /\ DeletedRegions' = DeletedRegions /\ Longer(oplog, e, oplog')
  BY GrowsIs
<1>3. /\ Chain(oplog, DeletedRegions, program, timeline, at, Len(seen))
      /\ Anchored(oplog, DeletedRegions, at[0])
      /\ Clear(oplog, DeletedRegions, at[Len(seen)], Len(oplog))
  BY DEF LiveAt, Recorded
<1>4. Len(program) \in Nat
  BY ProgramIs DEF GuestType
<1>5. oplog' \in Seq(Entries) /\ Len(oplog') = Len(oplog) + 1 /\ oplog'[Len(oplog) + 1] = e
  BY <1>2 DEF Longer
<1>6. /\ Chain(oplog', DeletedRegions, program, timeline, at, Len(seen))
      /\ Anchored(oplog', DeletedRegions, at[0])
  BY <1>1, <1>2, <1>3, <1>4, Added
<1>7. at[Len(seen)] \in Nat /\ at[Len(seen)] <= Len(oplog) /\ at[Len(seen)] \in 2 .. Len(oplog)
  BY <1>1, <1>3, ChainEnd
<1>8. NextVis(oplog', DeletedRegions, at[Len(seen)], Len(oplog) + 1)
  BY <1>1, <1>2, <1>3, <1>4, <1>7, AddedVisible
<1>9. Clear(oplog', DeletedRegions, Len(oplog'), Len(oplog')) /\ Len(oplog') \in 2 .. Len(oplog')
  BY <1>1, <1>5, <1>7 DEF Clear
<1> QED
  BY <1>1, <1>2, <1>5, <1>6, <1>8, <1>9

(* The call returns to a guest that is live from now on.                   *)
LEMMA LiveReturns ==
  ASSUME GuestType, Agrees(seen, timeline), oplog' \in Seq(Entries),
         NEW at, Chain(oplog', DeletedRegions', program, timeline, at, Len(seen)),
         Anchored(oplog', DeletedRegions', at[0]),
         pc <= Len(program), NEW b \in 2 .. Len(oplog'), NEW answer \in Answers,
         Link(oplog', DeletedRegions', Op, at[Len(seen)], b, answer),
         Clear(oplog', DeletedRegions', b, Len(oplog')),
         Returns(answer, TRUE), step' = "none", program' = program
  PROVE  Live' /\ seen' \in Seq(Answers) /\ timeline' \in Seq(Answers)
<1>1. seen \in Seq(Answers) /\ Len(seen) \in Nat /\ pc = Len(seen) + 1 /\ Len(program) \in Nat
  BY ProgramIs DEF GuestType, pc
<1>2. /\ seen' = Append(seen, answer) /\ timeline' = seen' /\ seen' \in Seq(Answers)
      /\ Len(seen') = Len(seen) + 1 /\ seen'[Len(seen) + 1] = answer
      /\ \A j \in 1 .. Len(seen) : seen'[j] = seen[j]
  BY <1>1 DEF Returns
<1>3. \A j \in 1 .. Len(seen) : timeline'[j] = timeline[j]
  BY <1>2 DEF Agrees
<1>4. PICK n \in Nat : n = Len(seen) /\ n < Len(program) /\ n + 1 <= Len(timeline')
                      /\ timeline'[n + 1] = answer /\ n + 1 = Len(seen')
  BY <1>1, <1>2
<1>5. PICK to : /\ Chain(oplog', DeletedRegions', program, timeline', to, n + 1)
                /\ to[n + 1] = b /\ to[0] = at[0]
  <2> DEFINE tt == [j \in 0 .. n + 1 |-> IF j = n + 1 THEN b ELSE at[j]]
  <2>1. Link(oplog', DeletedRegions', program[n + 1], at[n], b, answer)
    BY <1>1, <1>4 DEF Op
  <2>2. Chain(oplog', DeletedRegions', program, timeline', tt, n + 1)
    <3>1. /\ Chain(oplog', DeletedRegions', program, timeline, at, n)
          /\ \A j \in 1 .. n : timeline'[j] = timeline[j]
      BY <1>3, <1>4
    <3>2. Len(program) \in Nat /\ n < Len(program) /\ n + 1 <= Len(timeline')
          /\ timeline'[n + 1] = answer
      BY <1>1, <1>4
    <3> QED
      BY <2>1, <3>1, <3>2, ChainNext
  <2>3. tt[n + 1] = b /\ tt[0] = at[0]
    BY <1>1
  <2> QED
    BY <2>2, <2>3
<1>6. Recorded(oplog', DeletedRegions', program, timeline', to, n + 1)
  BY <1>5 DEF Recorded, Rest
<1>7. LiveAt(to)'
  <2>1. Clear(oplog', DeletedRegions', to[Len(seen')], Len(oplog'))
    BY <1>4, <1>5
  <2>2. Recorded(oplog', DeletedRegions', program', timeline', to, Len(seen'))
    BY <1>4, <1>6
  <2> QED
    BY <2>1, <2>2 DEF LiveAt
<1>8. Agrees(seen', timeline')
  BY <1>2 DEF Agrees
<1> QED
  BY <1>2, <1>7, <1>8 DEF Live

LEMMA NextModeGuest ==
  ASSUME mode' = "guest", last' = target', Live'
  PROVE  ModeInv'
BY DEF ModeInv

LEMMA InGuest ==
  ASSUME ReplayInv, NEW op, NEW s, InCall(op, s)
  PROVE  /\ LogType /\ GuestType /\ mode = "guest" /\ step = s /\ pc <= Len(program)
         /\ Op = op /\ program[pc] = op /\ pc = Len(seen) + 1 /\ Len(seen) \in Nat
         /\ Len(program) \in Nat
         /\ last = target => Live
         /\ last # target => Following
<1>1. seen \in Seq(Answers) /\ Len(program) \in Nat
  BY ProgramIs DEF ReplayInv, GuestType
<1> QED
  BY <1>1 DEF ReplayInv, ModeInv, InCall, Op, pc

LEMMA CallLiveKeeps ==
  ASSUME ReplayInv, NEW op \in {"call", "part"}, CallLive(op)
  PROVE  ReplayInv'
<1>0. /\ LogType /\ GuestType /\ mode = "guest" /\ step = "none" /\ last = target
      /\ pc <= Len(program) /\ Op = op /\ Live
  BY InGuest DEF CallLive, IsLive
<1>1. PICK again \in {0, 1} :
        /\ LET e == [kind |-> op, value |-> again, boot |-> boots]
           IN  IF op = "part" THEN AddAndCommit(<<e>>) /\ Keep(pc)
               ELSE AddEntry(e) /\ UNCHANGED kept
        /\ Returns(Answer(again, boots), TRUE)
  BY DEF CallLive
<1>2. PICK e \in Entries : /\ e = [kind |-> op, value |-> again, boot |-> boots]
                           /\ e.kind = op /\ e.value = again /\ e.boot = boots
  <2>1. again \in Nat /\ boots \in Nat
    BY <1>0 DEF GuestType
  <2>2. [kind |-> op, value |-> again, boot |-> boots] \in Entries
    BY <2>1, EntryTyped
  <2> QED
    BY <2>2
<1>3. Grows(e)
  BY <1>1, <1>2 DEF Grows, Buffered
<1>4. PICK at : LiveAt(at)
  BY <1>0 DEF Live
<1>5. e.kind \notin {"Pending", "Jump"}
  BY <1>2
<1>6. /\ LogType' /\ DeletedRegions' = DeletedRegions
      /\ oplog' \in Seq(Entries) /\ Len(oplog') \in 2 .. Len(oplog')
      /\ Chain(oplog', DeletedRegions, program, timeline, at, Len(seen))
      /\ Anchored(oplog', DeletedRegions, at[0])
      /\ NextVis(oplog', DeletedRegions, at[Len(seen)], Len(oplog'))
      /\ oplog'[Len(oplog')] = e
      /\ Clear(oplog', DeletedRegions, Len(oplog'), Len(oplog'))
  BY <1>0, <1>3, <1>4, <1>5, LiveAdds
<1>7. PICK answer \in Answers : answer = Answer(again, boots)
  <2>1. again \in Nat /\ boots \in Nat
    BY <1>0 DEF GuestType
  <2> QED
    BY <2>1, AnswerTyped
<1>8. Link(oplog', DeletedRegions', Op, at[Len(seen)], Len(oplog'), answer)
  BY <1>0, <1>2, <1>6, <1>7 DEF Link, Records, AnswerOf
<1>9. /\ step' = "none" /\ program' = program /\ mode' = "guest" /\ last' = last
      /\ target' = target /\ boots' = boots /\ source' = source
  BY <1>0 DEF CallLive, replayVars
<1>10. Live' /\ seen' \in Seq(Answers) /\ timeline' \in Seq(Answers)
  <2>1. Agrees(seen, timeline)
    BY <1>0 DEF Live
  <2> QED
    BY <1>0, <1>1, <1>6, <1>7, <1>8, <1>9, <2>1, LiveReturns
<1> QED
  BY <1>0, <1>6, <1>9, <1>10, NextModeGuest DEF ReplayInv, GuestType

LEMMA KindsAre ==
  /\ EntryOf["save"] = "NoOp" /\ EntryOf["begin"] = "BeginAtomic"
  /\ EntryOf["open"] = "BeginWrite"
  /\ KindRead["call"] = "call" /\ KindRead["part"] = "part" /\ KindRead["save"] = "NoOp"
  /\ KindRead["end"] = "EndAtomic" /\ KindRead["close"] = "EndWrite"
BY DEF EntryOf, KindRead

(* The first entry of a call is recorded.                                  *)
LEMMA LiveBegins ==
  ASSUME LogType, GuestType, NEW at, LiveAt(at), Agrees(seen, timeline), step = "none",
         NEW e \in Entries, e.kind \notin {"Pending", "Jump"}, Grows(e), pc <= Len(program),
         Marks(Op, e.kind) \/ (Op = "once" /\ e.kind = "BeginWrite"),
         step' = "index", UNCHANGED <<seen, timeline, program>>
  PROVE  LogType' /\ Live'
<1>1. /\ LogType' /\ DeletedRegions' = DeletedRegions
      /\ oplog' \in Seq(Entries) /\ Len(oplog') \in Nat
      /\ Chain(oplog', DeletedRegions, program, timeline, at, Len(seen))
      /\ Anchored(oplog', DeletedRegions, at[0])
      /\ NextVis(oplog', DeletedRegions, at[Len(seen)], Len(oplog'))
      /\ oplog'[Len(oplog')] = e
      /\ Clear(oplog', DeletedRegions, Len(oplog'), Len(oplog'))
  BY LiveAdds
<1>2. pc = Len(seen) + 1 /\ Len(seen) \in Nat /\ Len(program) \in Nat
  BY ProgramIs DEF GuestType, pc
<1>3. Unanswered(program, Len(seen), e.kind)
  BY <1>2 DEF Unanswered, Op
<1>4. Rest(oplog', DeletedRegions, program, at[Len(seen)], Len(seen))
  BY <1>1, <1>3 DEF Rest
<1>5. Recorded(oplog', DeletedRegions, program, timeline, at, Len(seen))
  BY <1>1, <1>4 DEF Recorded
<1>6. LiveAt(at)'
  <2>1. Op' = Op
    BY DEF Op, pc
  <2>2. OnlyHints(oplog', Len(oplog'))
    BY <1>1 DEF OnlyHints
  <2> QED
    BY <1>1, <1>5, <2>1, <2>2 DEF LiveAt
<1>7. pc' = pc
  BY DEF pc
<1> QED
  BY <1>1, <1>6, <1>7 DEF Live

LEMMA AddMarkerKeeps ==
  ASSUME ReplayInv, NEW op \in {"save", "begin", "open"}, AddMarker(op)
  PROVE  ReplayInv'
<1>0. /\ LogType /\ GuestType /\ mode = "guest" /\ step = "none" /\ last = target
      /\ pc <= Len(program) /\ Op = op /\ Live
  BY InGuest DEF AddMarker, IsLive
<1>1. PICK e \in Entries : e = [kind |-> EntryOf[op]] /\ e.kind = EntryOf[op]
  <2>1. EntryOf[op] \in {"NoOp", "BeginAtomic", "BeginWrite"}
    BY KindsAre
  <2>2. [kind |-> EntryOf[op]] \in Entries
    BY <2>1, EntryTyped
  <2> QED
    BY <2>2
<1>2. e.kind \notin {"Pending", "Jump"} /\ Marks(op, e.kind) /\ (op # "open" => Buffered(e.kind))
  BY <1>1, KindsAre DEF Marks, Buffered
<1>3. Grows(e)
  BY <1>1, <1>2 DEF Grows, AddMarker
<1>4. PICK at : LiveAt(at)
  BY <1>0 DEF Live
<1>5. Agrees(seen, timeline)
  BY <1>0 DEF Live
<1>6. /\ step' = "index" /\ program' = program /\ mode' = "guest" /\ last' = last
      /\ target' = target /\ boots' = boots /\ source' = source
      /\ seen' = seen /\ timeline' = timeline
  BY <1>0 DEF AddMarker, replayVars
<1>7. LogType' /\ Live'
  BY <1>0, <1>2, <1>3, <1>4, <1>5, <1>6, LiveBegins
<1> QED
  BY <1>0, <1>6, <1>7, NextModeGuest DEF ReplayInv, GuestType

LEMMA BeginOnceKeeps ==
  ASSUME ReplayInv, BeginOnce
  PROVE  ReplayInv'
<1>0. /\ LogType /\ GuestType /\ mode = "guest" /\ step = "none" /\ last = target
      /\ pc <= Len(program) /\ Op = "once" /\ Live
  BY InGuest DEF BeginOnce, IsLive
<1>1. PICK e \in Entries : e = [kind |-> "BeginWrite"] /\ e.kind = "BeginWrite"
  <2>1. [kind |-> "BeginWrite"] \in Entries
    BY EntryTyped
  <2> QED
    BY <2>1
<1>2. Grows(e)
  BY <1>1 DEF Grows, BeginOnce
<1>3. PICK at : LiveAt(at)
  BY <1>0 DEF Live
<1>4. Agrees(seen, timeline)
  BY <1>0 DEF Live
<1>5. /\ step' = "index" /\ program' = program /\ mode' = "guest" /\ last' = last
      /\ target' = target /\ boots' = boots /\ source' = source
      /\ seen' = seen /\ timeline' = timeline
  BY <1>0 DEF BeginOnce, replayVars
<1>6. LogType' /\ Live'
  BY <1>0, <1>1, <1>2, <1>3, <1>4, <1>5, LiveBegins
<1> QED
  BY <1>0, <1>5, <1>6, NextModeGuest DEF ReplayInv, GuestType

(* A guest that is inside a host call is live.                             *)
LEMMA InsideIsLive ==
  ASSUME ReplayInv, NEW op, NEW s, s # "none", InCall(op, s)
  PROVE  Live /\ last = target
BY InGuest DEF Following, Replayed

LEMMA SameOplog ==
  ASSUME UNCHANGED oplogVars
  PROVE  oplog' = oplog /\ DeletedRegions' = DeletedRegions /\ (LogType => LogType')
<1>1. durable' = durable /\ buffer' = buffer
  BY DEF oplogVars
<1>2. oplog' = oplog /\ DeletedRegions' = DeletedRegions
  BY <1>1 DEF oplog, DeletedRegions
<1> QED
  BY <1>1, <1>2 DEF LogType

LEMMA ReadIndexKeeps ==
  ASSUME ReplayInv, NEW op \in {"save", "begin", "open"}, ReadIndex(op), ~misread'
  PROVE  ReplayInv'
<1>0. /\ LogType /\ GuestType /\ mode = "guest" /\ step = "index" /\ last = target
      /\ pc <= Len(program) /\ Op = op /\ Live
  BY InGuest, InsideIsLive DEF ReadIndex
<1>1. /\ step' = "none" /\ program' = program /\ mode' = "guest" /\ last' = last
      /\ target' = target /\ boots' = boots /\ source' = source
  BY <1>0 DEF ReadIndex, replayVars
<1>2. oplog' = oplog /\ DeletedRegions' = DeletedRegions /\ LogType'
  BY <1>0, SameOplog DEF ReadIndex
<1>3. PICK at : LiveAt(at)
  BY <1>0 DEF Live
<1>4. /\ Chain(oplog, DeletedRegions, program, timeline, at, Len(seen))
      /\ Anchored(oplog, DeletedRegions, at[0])
      /\ NextVis(oplog, DeletedRegions, at[Len(seen)], Len(oplog))
      /\ Marks(op, oplog[Len(oplog)].kind)
  <2>1. PICK x \in Nat :
          /\ NextVis(oplog, DeletedRegions, at[Len(seen)], x) /\ OnlyHints(oplog, x)
          /\ Marks(op, oplog[x].kind)
    BY <1>0, <1>3 DEF LiveAt
  <2>2. ~IsHint(oplog[Len(oplog)])
    BY DEF ReadIndex, Takes
  <2>3. x = Len(oplog)
    <3>1. x <= Len(oplog) /\ Len(oplog) \in Nat
      BY <1>0, <2>1, OplogIs DEF NextVis, Vis
    <3> QED
      BY <2>1, <2>2, <3>1 DEF OnlyHints, IsHint
  <2> QED
    BY <1>3, <2>1, <2>3 DEF LiveAt, Recorded
<1>5. oplog \in Seq(Entries) /\ Len(oplog) \in Nat
  BY <1>0, OplogIs
<1>6. PICK answer \in Answers : answer = Answer(Len(oplog), 0)
  BY <1>5, AnswerTyped
<1>7. Link(oplog, DeletedRegions, Op, at[Len(seen)], Len(oplog), answer)
  BY <1>0, <1>4, <1>6 DEF Link
<1>8. Clear(oplog, DeletedRegions, Len(oplog), Len(oplog)) /\ Len(oplog) \in 2 .. Len(oplog)
  BY <1>4, <1>5 DEF Clear, NextVis, Vis
<1>9. Agrees(seen, timeline) /\ Returns(answer, TRUE)
  BY <1>0, <1>6 DEF Live, ReadIndex
<1>10. Live' /\ seen' \in Seq(Answers) /\ timeline' \in Seq(Answers)
  BY <1>0, <1>1, <1>2, <1>4, <1>5, <1>7, <1>8, <1>9, LiveReturns
<1> QED
  BY <1>0, <1>1, <1>2, <1>10, NextModeGuest DEF ReplayInv, GuestType

(* What a call needs came before it.                                       *)
LEMMA LastOfIs ==
  ASSUME GuestType, pc <= Len(program), NEW o, <<Op, o>> \in Needs
  PROVE  LastOf(o) \in 1 .. Len(seen) /\ program[LastOf(o)] = o
<1>0. /\ program \in Seq(Ops) /\ Len(program) \in Nat /\ Len(seen) \in Nat
      /\ pc = Len(seen) + 1 /\ pc - 1 = Len(seen)
  BY ProgramIs DEF GuestType, pc
<1>1. pc \in DOMAIN program
  BY <1>0
<1>2. \E j \in 1 .. pc - 1 : program[j] = o
  <2>1. \A i \in DOMAIN program, n \in Needs :
          program[i] = n[1] => \E j \in 1 .. i - 1 : program[j] = n[2]
    BY ProgramsAssumption DEF GuestType
  <2> QED
    BY <1>1, <2>1 DEF Op
<1> DEFINE S == {j \in 1 .. pc - 1 : program[j] = o}
<1>3. S \in SUBSET Nat /\ S # {} /\ \A j \in S : j <= Len(seen)
  BY <1>0, <1>2
<1>4. PICK m \in S : \A j \in S : j <= m
  <2> HIDE DEF S
  <2> QED
    BY <1>0, <1>3, GreatestIndex
<1>5. LastOf(o) \in S
  <2>1. m \in S /\ \A j \in S : m >= j
    BY <1>3, <1>4
  <2>2. LastOf(o) = CHOOSE x \in S : \A y \in S : x >= y
    BY DEF LastOf, Max
  <2> HIDE DEF S
  <2> QED
    BY <2>1, <2>2
<1> QED
  BY <1>0, <1>5

LEMMA EndLiveKeeps ==
  ASSUME ReplayInv, NEW op \in {"end", "close"}, EndLive(op)
  PROVE  ReplayInv'
<1>0. /\ LogType /\ GuestType /\ mode = "guest" /\ step = "none" /\ last = target
      /\ pc <= Len(program) /\ Op = op /\ Live
  BY InGuest DEF EndLive, IsLive
<1> DEFINE opener == IF op = "end" THEN "begin" ELSE "open"
           begin == seen[LastOf(opener)].value
<1>1. begin \in Nat
  <2>1. <<Op, opener>> \in Needs
    BY <1>0 DEF Needs
  <2>2. LastOf(opener) \in 1 .. Len(seen)
    <3> HIDE DEF opener
    <3> QED
      BY <1>0, <2>1, LastOfIs
  <2>3. seen[LastOf(opener)] \in Answers
    <3>1. seen \in Seq(Answers)
      BY <1>0 DEF GuestType
    <3> HIDE DEF opener
    <3> QED
      BY <2>2, <3>1
  <2> HIDE DEF opener
  <2> QED
    BY <2>3 DEF Answers
<1>2. PICK e \in Entries : /\ e = [kind |-> KindRead[op], begin |-> begin]
                           /\ e.kind = KindRead[op]
  <2>1. KindRead[op] \in {"EndAtomic", "EndWrite"}
    BY KindsAre
  <2> HIDE DEF begin
  <2>2. [kind |-> KindRead[op], begin |-> begin] \in Entries
    BY <1>1, <2>1, EntryTyped
  <2> QED
    BY <2>2
<1>3. Grows(e) /\ e.kind \notin {"Pending", "Jump"} /\ Records(op, e.kind)
  <2>1. CASE op = "end"
    <3>1. AddEntry([kind |-> "EndAtomic", begin |-> begin]) /\ KindRead[op] = "EndAtomic"
      BY <2>1, KindsAre DEF EndLive
    <3> QED
      BY <1>2, <2>1, <3>1 DEF Grows, Buffered, Records
  <2>2. CASE op = "close"
    <3>1. AddAndCommit(<<[kind |-> "EndWrite", begin |-> begin]>>) /\ KindRead[op] = "EndWrite"
      BY <2>2, KindsAre DEF EndLive
    <3> QED
      BY <1>2, <2>2, <3>1 DEF Grows, Records
  <2> QED
    BY <2>1, <2>2
<1>4. PICK at : LiveAt(at)
  BY <1>0 DEF Live
<1>5. /\ LogType' /\ DeletedRegions' = DeletedRegions
      /\ oplog' \in Seq(Entries) /\ Len(oplog') \in 2 .. Len(oplog')
      /\ Chain(oplog', DeletedRegions, program, timeline, at, Len(seen))
      /\ Anchored(oplog', DeletedRegions, at[0])
      /\ NextVis(oplog', DeletedRegions, at[Len(seen)], Len(oplog'))
      /\ oplog'[Len(oplog')] = e
      /\ Clear(oplog', DeletedRegions, Len(oplog'), Len(oplog'))
  BY <1>0, <1>3, <1>4, LiveAdds
<1>6. Nothing \in Answers
  BY AnswerTyped
<1>7. Link(oplog', DeletedRegions', Op, at[Len(seen)], Len(oplog'), Nothing)
  BY <1>0, <1>3, <1>5 DEF Link, AnswerOf
<1>8. /\ step' = "none" /\ program' = program /\ mode' = "guest" /\ last' = last
      /\ target' = target /\ boots' = boots /\ source' = source
  BY <1>0 DEF EndLive, replayVars
<1>9. Agrees(seen, timeline) /\ Returns(Nothing, TRUE)
  BY <1>0 DEF Live, EndLive, IsLive, Returns
<1>10. Live' /\ seen' \in Seq(Answers) /\ timeline' \in Seq(Answers)
  BY <1>0, <1>5, <1>6, <1>7, <1>8, <1>9, LiveReturns
<1> QED
  BY <1>0, <1>5, <1>8, <1>10, NextModeGuest DEF ReplayInv, GuestType

LEMMA PerformOnceKeeps ==
  ASSUME ReplayInv, PerformOnce
  PROVE  ReplayInv'
<1>0. /\ LogType /\ GuestType /\ mode = "guest" /\ step = "index" /\ last = target
      /\ pc <= Len(program) /\ Op = "once" /\ Live
  BY InGuest, InsideIsLive DEF PerformOnce
<1>1. /\ step' = "record" /\ program' = program /\ mode' = "guest" /\ last' = last
      /\ target' = target /\ boots' = boots /\ source' = Len(oplog)
      /\ seen' = seen /\ timeline' = timeline
  BY <1>0 DEF PerformOnce, replayVars
<1>2. oplog' = oplog /\ DeletedRegions' = DeletedRegions /\ LogType' /\ Len(oplog) \in Nat
  BY <1>0, SameOplog, OplogIs DEF PerformOnce
<1>3. PICK at : LiveAt(at)
  BY <1>0 DEF Live
<1>4. pc' = pc /\ Op' = Op
  BY <1>1 DEF Op, pc
<1>5. LiveAt(at)'
  BY <1>0, <1>1, <1>2, <1>3, <1>4 DEF LiveAt
<1>6. Live'
  BY <1>0, <1>1, <1>4, <1>5 DEF Live
<1> QED
  BY <1>0, <1>1, <1>2, <1>6, NextModeGuest DEF ReplayInv, GuestType

(* Two entries are committed together.                                     *)
LEMMA TwoAre ==
  ASSUME LogType, NEW e \in Entries, NEW f \in Entries, e.kind # "Jump", f.kind # "Jump",
         AddAndCommit(<<e, f>>)
  PROVE  /\ LogType' /\ DeletedRegions' = DeletedRegions
         /\ Longer(oplog, e, oplog \o <<e>>) /\ Longer(oplog \o <<e>>, f, oplog')
<1>0. oplog \in Seq(Entries) /\ Len(oplog) \in Nat /\ DeletedRegions \subseteq 2 .. Len(oplog)
  BY OplogIs
<1>1. durable' = oplog \o <<e, f>> /\ buffer' = <<>>
  BY DEF AddAndCommit
<1>2. /\ <<e, f>> \in Seq(Entries) /\ Len(<<e, f>>) = 2 /\ <<e, f>>[1] = e /\ <<e, f>>[2] = f
  OBVIOUS
<1>3. durable' \in Seq(Entries) /\ Len(durable') = Len(oplog) + 2
  BY <1>0, <1>1, <1>2, ConcatIs
<1>4. oplog' = durable'
  <2>1. oplog' = durable' \o <<>>
    BY <1>1 DEF oplog
  <2> QED
    BY <1>3, <2>1
<1>5. Longer(oplog, e, oplog \o <<e>>)
  BY <1>0, LongerIs
<1>6. PICK mid : mid = oplog \o <<e>> /\ Longer(oplog, e, mid)
  BY <1>5
<1>7. mid \in Seq(Entries) /\ Len(mid) = Len(oplog) + 1
  BY <1>6 DEF Longer
<1>8. durable'[Len(oplog) + 1] = e /\ durable'[Len(oplog) + 2] = f
      /\ \A i \in 1 .. Len(oplog) : durable'[i] = oplog[i]
  BY <1>0, <1>1, <1>2, ConcatIs
<1>9. ASSUME NEW i \in 1 .. Len(mid) PROVE durable'[i] = mid[i]
  <2>1. i \in 1 .. Len(oplog) \/ i = Len(oplog) + 1
    BY <1>0, <1>7
  <2> QED
    BY <1>6, <1>8, <2>1 DEF Longer
<1>10. Longer(mid, f, oplog')
  <2>1. Len(mid) + 1 = Len(oplog) + 2
    BY <1>0, <1>7
  <2> QED
    BY <1>3, <1>4, <1>8, <1>9, <2>1 DEF Longer
<1>11. DeletedRegions' = DeletedRegions
  <2>1. \A i \in 1 .. Len(<<e, f>>) : <<e, f>>[i].kind # "Jump"
    BY <1>2
  <2>2. Deleted(oplog \o <<e, f>>) = Deleted(oplog)
    BY <1>0, <1>2, <2>1, DeletedConcat
  <2>3. DeletedRegions' = Deleted(durable')
    BY DEF DeletedRegions, Deleted
  <2> QED
    BY <1>1, <2>2, <2>3, OplogIs
<1>12. DeletedRegions' \subseteq 2 .. Len(durable')
  <2>1. 2 .. Len(oplog) \subseteq 2 .. Len(durable')
    BY <1>0, <1>3
  <2> QED
    BY <1>0, <1>11, <2>1
<1>13. buffer' \in Seq(Entries) /\ Len(buffer') = 0 /\ Len(durable') >= 1
  BY <1>0, <1>1, <1>3
<1>14. \A i \in 1 .. Len(buffer') : Buffered(buffer'[i].kind)
  BY <1>13
<1>15. LogType'
  BY <1>3, <1>12, <1>13, <1>14 DEF LogType
<1> QED
  BY <1>5, <1>6, <1>10, <1>11, <1>15

LEMMA RecordOnceKeeps ==
  ASSUME ReplayInv, RecordOnce
  PROVE  ReplayInv'
<1>0. /\ LogType /\ GuestType /\ mode = "guest" /\ step = "record" /\ last = target
      /\ pc <= Len(program) /\ Op = "once" /\ Live /\ Len(program) \in Nat
  BY InGuest, InsideIsLive DEF RecordOnce
<1>1. /\ step' = "none" /\ program' = program /\ mode' = "guest" /\ last' = last
      /\ target' = target /\ boots' = boots /\ source' = source
  BY <1>0 DEF RecordOnce, replayVars
<1>2. PICK e \in Entries : /\ e = [kind |-> "Write", value |-> 0, boot |-> boots]
                           /\ e.kind = "Write" /\ e.value = 0 /\ e.boot = boots
  <2>1. boots \in Nat
    BY <1>0 DEF GuestType
  <2>2. [kind |-> "Write", value |-> 0, boot |-> boots] \in Entries
    BY <2>1, EntryTyped
  <2> QED
    BY <2>2
<1>3. PICK f \in Entries : f = [kind |-> "EndWrite", begin |-> source] /\ f.kind = "EndWrite"
  <2>1. source \in Nat
    BY <1>0 DEF GuestType
  <2>2. [kind |-> "EndWrite", begin |-> source] \in Entries
    BY <2>1, EntryTyped
  <2> QED
    BY <2>2
<1>4. AddAndCommit(<<e, f>>) /\ Returns(Answer(0, boots), TRUE)
  BY <1>2, <1>3 DEF RecordOnce
<1>5. PICK mid : /\ LogType' /\ DeletedRegions' = DeletedRegions
                 /\ Longer(oplog, e, mid) /\ Longer(mid, f, oplog')
  <2>1. e.kind # "Jump" /\ f.kind # "Jump"
    BY <1>2, <1>3
  <2> QED
    BY <1>0, <1>4, <2>1, TwoAre
<1>6. PICK at : LiveAt(at)
  BY <1>0 DEF Live
<1> DEFINE R == DeletedRegions
           n == Len(seen)
           z == Len(oplog)
<1>7. PICK x \in Nat :
        /\ Chain(oplog, R, program, timeline, at, n) /\ Anchored(oplog, R, at[0])
        /\ NextVis(oplog, R, at[n], x) /\ OnlyHints(oplog, x) /\ oplog[x].kind = "BeginWrite"
  <2>1. \A x \in Nat : ~Marks("once", oplog[x].kind)
    BY DEF Marks
  <2> QED
    BY <1>0, <1>6, <2>1 DEF LiveAt, Recorded
<1>8. oplog \in Seq(Entries) /\ z \in Nat /\ R \subseteq 2 .. z /\ x \in 2 .. z /\ x <= z
  BY <1>0, <1>7, OplogIs DEF NextVis, Vis
<1>9. /\ mid \in Seq(Entries) /\ Len(mid) = z + 1 /\ mid[z + 1] = e
      /\ oplog' \in Seq(Entries) /\ Len(oplog') = Len(mid) + 1 /\ oplog'[Len(mid) + 1] = f
  BY <1>5, <1>8 DEF Longer
<1>10. Clear(oplog, R, x, z)
  <2> HIDE DEF R
  <2> QED
    BY <1>7, <1>8, ClearToEnd
<1>11. /\ Chain(mid, R, program, timeline, at, n) /\ Anchored(mid, R, at[0])
       /\ Same(oplog, R, mid, R, z)
  <2> HIDE DEF R, n
  <2> QED
    BY <1>0, <1>5, <1>7, <1>8, Added
<1>12. NextVis(mid, R, x, z + 1)
  <2>1. e.kind # "Pending"
    BY <1>2
  <2> HIDE DEF R, n
  <2> QED
    BY <1>0, <1>5, <1>7, <1>8, <1>9, <1>10, <2>1, AddedVisible
<1>13. R \subseteq 2 .. Len(mid) /\ Clear(mid, R, z + 1, Len(mid)) /\ z + 1 \in Nat
       /\ z + 1 <= Len(mid) /\ x <= Len(mid)
  BY <1>8, <1>9 DEF Clear
<1>14. /\ Chain(oplog', R, program, timeline, at, n) /\ Anchored(oplog', R, at[0])
       /\ Same(mid, R, oplog', R, Len(mid))
  <2> HIDE DEF R, n, z
  <2> QED
    BY <1>0, <1>5, <1>9, <1>11, <1>13, Added
<1>15. NextVis(oplog', R, z + 1, Len(mid) + 1)
  <2>1. f.kind # "Pending"
    BY <1>3
  <2> HIDE DEF R, n, z
  <2> QED
    BY <1>0, <1>5, <1>9, <1>11, <1>13, <2>1, AddedVisible
<1>16. at[n] \in Nat
  <2> HIDE DEF R, n, z
  <2> QED
    BY <1>7, <1>8, ChainEnd
<1>17. NextVis(oplog', R, at[n], x) /\ oplog'[x] = oplog[x]
  <2>1. NextVis(mid, R, at[n], x) /\ mid[x] = oplog[x]
    <3> HIDE DEF R, n
    <3> QED
      BY <1>7, <1>8, <1>9, <1>11, <1>16, SameNext
  <2> HIDE DEF R, n
  <2> QED
    BY <1>8, <1>9, <1>13, <1>14, <1>16, <2>1, SameNext
<1>18. NextVis(oplog', R, x, z + 1) /\ oplog'[z + 1] = e
  <2> HIDE DEF R, n
  <2> QED
    BY <1>8, <1>9, <1>12, <1>13, <1>14, SameNext
<1>19. Once(oplog', R, at[n], x, z + 1, Len(oplog'))
  BY <1>2, <1>3, <1>7, <1>9, <1>15, <1>17, <1>18 DEF Once
<1>20. PICK answer \in Answers : answer = Answer(0, boots)
  <2>1. boots \in Nat
    BY <1>0 DEF GuestType
  <2> QED
    BY <2>1, AnswerTyped
<1>21. Link(oplog', R, Op, at[n], Len(oplog'), answer)
  <2>1. answer = Answer(oplog'[z + 1].value, oplog'[z + 1].boot)
    BY <1>2, <1>18, <1>20
  <2> HIDE DEF R, n
  <2> QED
    BY <1>0, <1>8, <1>13, <1>19, <2>1 DEF Link
<1>22. Clear(oplog', R, Len(oplog'), Len(oplog')) /\ Len(oplog') \in 2 .. Len(oplog')
  BY <1>8, <1>9 DEF Clear
<1>23. Agrees(seen, timeline) /\ Returns(answer, TRUE)
  BY <1>0, <1>4, <1>20 DEF Live
<1>24. Live' /\ seen' \in Seq(Answers) /\ timeline' \in Seq(Answers)
  BY <1>0, <1>1, <1>5, <1>9, <1>14, <1>21, <1>22, <1>23, LiveReturns
<1> QED
  BY <1>0, <1>1, <1>5, <1>24, NextModeGuest DEF ReplayInv, GuestType

LEMMA StartJumpKeeps ==
  ASSUME ReplayInv, StartJump
  PROVE  ReplayInv'
<1>0. /\ LogType /\ GuestType /\ mode = "guest" /\ step = "none" /\ last = target
      /\ pc <= Len(program) /\ Live
  BY InGuest DEF StartJump, IsLive
<1>1. /\ step' = "jump" /\ program' = program /\ mode' = "guest" /\ last' = last
      /\ target' = target /\ boots' = boots /\ source' = Len(oplog) + 1
      /\ seen' = seen /\ timeline' = timeline
  BY <1>0 DEF StartJump, replayVars, ghosts
<1>2. oplog' = oplog /\ DeletedRegions' = DeletedRegions /\ LogType' /\ Len(oplog) \in Nat
  BY <1>0, SameOplog, OplogIs DEF StartJump
<1>3. PICK at : LiveAt(at)
  BY <1>0 DEF Live
<1>4. pc' = pc
  BY <1>1 DEF pc
<1>5. LiveAt(at)'
  BY <1>0, <1>1, <1>2, <1>3 DEF LiveAt
<1>6. Live'
  BY <1>0, <1>1, <1>4, <1>5 DEF Live
<1>7. source' \in Nat
  BY <1>1, <1>2
<1> QED
  BY <1>0, <1>1, <1>2, <1>6, <1>7, NextModeGuest DEF ReplayInv, GuestType

(* The saved index is that of the entry of get_oplog_index.                *)
LEMMA SavedIndex ==
  ASSUME NEW D \in Seq(Entries), NEW R, NEW p, NEW tl, NEW at, NEW n,
         Chain(D, R, p, tl, at, n), NEW k \in 1 .. n, p[k] = "save"
  PROVE  /\ tl[k] = Answer(at[k], 0) /\ Vis(D, R, at[k]) /\ at[0] < at[k]
         /\ at[k] \in Nat /\ k \in 0 .. n
<1>0. n \in Nat /\ at \in [0 .. n -> 2 .. Len(D)]
  BY DEF Chain
<1>1. k \in 0 .. n /\ k - 1 \in 0 .. n /\ 0 \in 0 .. n /\ 0 <= k - 1
  BY <1>0
<1>2. at[k] \in 2 .. Len(D) /\ at[k - 1] \in 2 .. Len(D) /\ at[0] \in 2 .. Len(D)
      /\ at[0] <= at[k - 1]
  <2>1. \A i, j \in 0 .. n : i <= j => at[i] <= at[j]
    BY DEF Chain
  <2> QED
    BY <1>0, <1>1, <2>1
<1>3. Link(D, R, "save", at[k - 1], at[k], tl[k])
  BY DEF Chain
<1>4. NextVis(D, R, at[k - 1], at[k]) /\ tl[k] = Answer(at[k], 0)
  BY <1>3 DEF Link, Records
<1> QED
  BY <1>1, <1>2, <1>4 DEF NextVis

(* The jump deletes what was recorded after the saved index.               *)
LEMMA JumpCuts ==
  ASSUME ReplayInv, Jump, ~misread', NEW at, LiveAt(at)
  PROVE  \E k \in 1 .. Len(seen), e \in Entries :
           /\ k = LastOf("save") /\ program[k] = "save" /\ e.kind = "Jump"
           /\ LogType' /\ Longer(oplog, e, oplog') /\ buffer' = <<>>
           /\ CutAfter(DeletedRegions, at[k], Len(oplog) + 1, DeletedRegions')
           /\ Recorded(oplog', DeletedRegions', program, timeline, [j \in 0 .. k |-> at[j]], k)
<1>0. /\ LogType /\ GuestType /\ mode = "guest" /\ step = "jump" /\ last = target
      /\ pc <= Len(program) /\ Op = "back" /\ Live /\ Len(program) \in Nat
  BY InGuest, InsideIsLive DEF Jump
<1>2. PICK k \in 1 .. Len(seen) : k = LastOf("save") /\ program[k] = "save"
  <2>1. <<Op, "save">> \in Needs
    BY <1>0 DEF Needs
  <2> QED
    BY <1>0, <2>1, LastOfIs
<1>3. /\ Chain(oplog, DeletedRegions, program, timeline, at, Len(seen))
      /\ Anchored(oplog, DeletedRegions, at[0])
      /\ source = Len(oplog) + 1
  BY <1>0 DEF LiveAt, Recorded, Jump, Takes
<1>4. oplog \in Seq(Entries) /\ Len(oplog) \in Nat /\ DeletedRegions \subseteq 2 .. Len(oplog)
  BY <1>0, OplogIs
<1>5. /\ timeline[k] = Answer(at[k], 0) /\ Vis(oplog, DeletedRegions, at[k])
      /\ at[0] < at[k] /\ at[k] \in Nat /\ k \in 0 .. Len(seen)
  BY <1>2, <1>3, <1>4, SavedIndex
<1>6. seen[k].value = at[k]
  <2>1. seen[k] = timeline[k]
    BY <1>0, <1>2 DEF Live, Agrees
  <2> QED
    BY <1>5, <2>1 DEF Answer
<1>7. PICK e \in Entries : /\ e = [kind |-> "Jump", start |-> at[k] + 1, end |-> Len(oplog) + 1]
                           /\ e.kind = "Jump"
  <2>1. [kind |-> "Jump", start |-> at[k] + 1, end |-> Len(oplog) + 1] \in Entries
    BY <1>4, <1>5 DEF Entries
  <2> QED
    BY <2>1
<1>8. AddAndCommit(<<[kind |-> "Jump", start |-> at[k] + 1, end |-> Len(oplog) + 1]>>)
  BY <1>2, <1>3, <1>6 DEF Jump
<1>9. /\ LogType' /\ Longer(oplog, e, oplog') /\ buffer' = <<>>
      /\ CutAfter(DeletedRegions, at[k], Len(oplog) + 1, DeletedRegions')
  <2>1. at[k] >= 1
    BY <1>5 DEF Vis
  <2> QED
    BY <1>0, <1>5, <1>7, <1>8, <2>1, JumpIs
<1>10. /\ Chain(oplog', DeletedRegions', program, timeline, [j \in 0 .. k |-> at[j]], k)
       /\ Anchored(oplog', DeletedRegions', at[0])
       /\ Clear(oplog', DeletedRegions', at[k], Len(oplog'))
  <2>1. Len(program) \in Nat
    BY <1>0
  <2>2. k \in 0 .. Len(seen) /\ at[0] < at[k] /\ Vis(oplog, DeletedRegions, at[k])
    BY <1>5
  <2>3. Longer(oplog, e, oplog') /\ CutAfter(DeletedRegions, at[k], Len(oplog) + 1, DeletedRegions')
    BY <1>9
  <2> QED
    BY <1>3, <1>4, <2>1, <2>2, <2>3, CutBack
<1> DEFINE to == [j \in 0 .. k |-> at[j]]
<1>11. to[0] = at[0] /\ to[k] = at[k]
  BY <1>5
<1>12. Recorded(oplog', DeletedRegions', program, timeline, to, k)
  <2>1. Chain(oplog', DeletedRegions', program, timeline, to, k)
    BY <1>10
  <2> HIDE DEF to
  <2> QED
    BY <1>10, <1>11, <2>1 DEF Recorded, Rest
<1> QED
  BY <1>2, <1>7, <1>9, <1>12

LEMMA JumpKeeps ==
  ASSUME ReplayInv, Jump, ~misread'
  PROVE  ReplayInv'
<1>0. LogType /\ GuestType /\ Live
  BY InGuest, InsideIsLive DEF Jump
<1>1. PICK at : LiveAt(at)
  BY <1>0 DEF Live
<1>2. LogType' /\ buffer' = <<>> /\ LogOK(oplog', DeletedRegions', program, timeline)
  BY <1>1, JumpCuts DEF LogOK
<1>3. /\ mode' = "down" /\ program' = program /\ timeline' = timeline /\ seen' = seen
      /\ last' = last /\ target' = target /\ boots' = boots /\ source' = source
  BY DEF Jump, replayVars
<1>4. Stopped'
  BY <1>2, <1>3 DEF Stopped
<1> QED
  BY <1>0, <1>2, <1>3, <1>4 DEF ReplayInv, GuestType, ModeInv

-----------------------------------------------------------------------------
(* Steps of a guest that is replayed.                                      *)

(* The entry after a position that is settled is read, and those that are  *)
(* deleted or hints are left behind.                                       *)
LEMMA EntryIs ==
  ASSUME Reading, NEW a \in 1 .. target, Vis(oplog, regions, a + 1)
  PROVE  /\ EntryAfter(a) = a + 1 /\ a + 1 \in 2 .. target /\ IndexAfter(a) \in a + 1 .. target
         /\ IndexAfter(a) = target \/ Vis(oplog, regions, IndexAfter(a) + 1)
         /\ Clear(oplog, regions, a + 1, IndexAfter(a))
<1>0. target \in Nat \ {0} /\ Len(oplog) \in Nat /\ target <= Len(oplog)
  BY DEF Reading
<1>1. a + 1 \in 2 .. target /\ a + 1 \notin regions /\ a + 1 \in 1 .. target
  <2>1. PICK v \in Nat : v = a + 1 /\ Vis(oplog, regions, v)
    BY <1>0
  <2>2. v <= target
    BY <1>0, <2>1, ClearToEnd DEF Reading
  <2> QED
    BY <1>0, <2>1, <2>2 DEF Vis
<1>2. SkipHints(a) = a
  BY <1>1, SkipHintsIs
<1>3. EntryAfter(a) = a + 1
  BY <1>2 DEF EntryAfter
<1>4. PICK c : c = MoveTo(a + 1)
  OBVIOUS
<1>5. /\ c \in a + 1 .. target /\ (c = target \/ c + 1 \notin regions)
      /\ \A i \in a + 2 .. c : i \in regions
  <2>1. PICK e \in 1 .. target : e = a + 1 /\ e \notin regions
    BY <1>1
  <2>2. /\ MoveTo(e) \in e .. target
        /\ MoveTo(e) = target \/ MoveTo(e) + 1 \notin regions
        /\ \A i \in e + 1 .. MoveTo(e) : i \in regions
    BY <2>1, MoveToIs
  <2> QED
    BY <1>0, <1>4, <2>1, <2>2
<1>6. c \in 1 .. target
  BY <1>0, <1>5
<1>7. /\ SkipHints(c) \in c .. target
      /\ SkipHints(c) = target \/ Vis(oplog, regions, SkipHints(c) + 1)
      /\ Clear(oplog, regions, c, SkipHints(c))
  BY <1>5, <1>6, SkipHintsIs
<1>8. IndexAfter(a) = SkipHints(c)
  BY <1>3, <1>4 DEF IndexAfter
<1>9. PICK d : d = SkipHints(c)
  OBVIOUS
<1>10. d \in c .. target /\ Clear(oplog, regions, c, d)
  BY <1>7, <1>9
<1>11. Clear(oplog, regions, a + 1, d)
  BY <1>0, <1>5, <1>10 DEF Clear, Vis
<1>12. d \in a + 1 .. target
  BY <1>0, <1>5, <1>10
<1> QED
  BY <1>1, <1>3, <1>7, <1>8, <1>9, <1>11, <1>12

LEMMA FollowingReads ==
  ASSUME LogType, Following
  PROVE  /\ Reading /\ oplog = durable /\ regions = DeletedRegions /\ buffer = <<>>
         /\ step = "none" /\ target \in 1 .. Len(oplog) /\ last \in 1 .. target
         /\ OnlyHints(oplog, target) /\ Vis(oplog, regions, last + 1)
         /\ EntryAfter(last) = last + 1 /\ last + 1 \in 2 .. target
         /\ IndexAfter(last) \in last + 1 .. target
         /\ IndexAfter(last) = target \/ Vis(oplog, regions, IndexAfter(last) + 1)
         /\ Clear(oplog, regions, last + 1, IndexAfter(last))
<1>1. /\ oplog \in Seq(Entries) /\ Len(oplog) \in Nat /\ DeletedRegions \subseteq 2 .. Len(oplog)
      /\ Len(oplog) >= Len(durable) /\ Len(durable) >= 1 /\ Len(durable) \in Nat
  BY OplogIs DEF LogType
<1>2. /\ buffer = <<>> /\ regions = DeletedRegions /\ target \in 1 .. Len(oplog)
      /\ step = "none" /\ OnlyHints(oplog, target) /\ regions \subseteq 2 .. target
      /\ last \in 1 .. target /\ Vis(oplog, regions, last + 1)
  BY DEF Following, Replayed, Stopped
<1>3. Reading
  BY <1>1, <1>2 DEF Reading
<1>4. oplog = durable
  BY <1>2, EmptyBuffer
<1> QED
  BY <1>2, <1>3, <1>4, EntryIs

LEMMA OneNext ==
  ASSUME NEW D, NEW R, NEW a \in Nat, NEW b \in Nat, NEW c \in Nat,
         NextVis(D, R, a, b), NextVis(D, R, a, c)
  PROVE  b = c
<1>1. ~(b < c)
  <2> SUFFICES ASSUME b < c PROVE FALSE
    OBVIOUS
  <2>1. b \in a + 1 .. c - 1
    BY DEF NextVis
  <2> QED
    BY <2>1 DEF NextVis, Clear
<1>2. ~(c < b)
  <2> SUFFICES ASSUME c < b PROVE FALSE
    OBVIOUS
  <2>1. c \in a + 1 .. b - 1
    BY DEF NextVis
  <2> QED
    BY <2>1 DEF NextVis, Clear
<1> QED
  BY <1>1, <1>2

(* The next entry is the first one of the next call.                       *)
LEMMA FollowNext ==
  ASSUME LogType, GuestType, Following, NEW n, NEW at, FollowAt(n, at)
  PROVE  /\ n \in Nat /\ Len(seen) \in 0 .. n /\ at[Len(seen)] \in Nat
         /\ Chain(oplog, regions, program, timeline, at, n) /\ Anchored(oplog, regions, at[0])
         /\ NextVis(oplog, regions, at[Len(seen)], last + 1)
         /\ \/ /\ Len(seen) < n /\ pc <= Len(program)
               /\ Link(oplog, regions, Op, at[Len(seen)], at[Len(seen) + 1],
                       timeline[Len(seen) + 1])
            \/ /\ Len(seen) = n /\ Clear(oplog, regions, last + 1, target)
               /\ Unanswered(program, n, oplog[last + 1].kind)
<1>0. /\ oplog \in Seq(Entries) /\ Len(oplog) \in Nat /\ target \in 1 .. Len(oplog)
      /\ last \in 1 .. target /\ Vis(oplog, regions, last + 1) /\ last + 1 \in 2 .. target
  BY FollowingReads, OplogIs
<1>1. /\ Chain(oplog, regions, program, timeline, at, n) /\ Anchored(oplog, regions, at[0])
      /\ Rest(oplog, regions, program, at[n], n) /\ Len(seen) <= n
      /\ at[Len(seen)] <= last /\ Clear(oplog, regions, at[Len(seen)], last)
  BY DEF FollowAt, Recorded
<1>2. n \in Nat /\ at \in [0 .. n -> 2 .. Len(oplog)] /\ Len(seen) \in Nat /\ n <= Len(program)
      /\ Len(program) \in Nat
  BY <1>1, ProgramIs DEF Chain, GuestType
<1>3. Len(seen) \in 0 .. n /\ at[Len(seen)] \in Nat
  BY <1>0, <1>1, <1>2
<1>4. NextVis(oplog, regions, at[Len(seen)], last + 1)
  BY <1>0, <1>1, <1>3 DEF NextVis, Clear
<1>5. CASE Len(seen) < n
  <2>1. PICK k \in 1 .. n : k = Len(seen) + 1 /\ k - 1 = Len(seen)
    BY <1>2, <1>5
  <2>2. Link(oplog, regions, program[k], at[k - 1], at[k], timeline[k])
    BY <1>1 DEF Chain
  <2>3. pc = k /\ pc <= Len(program)
    BY <1>2, <2>1 DEF pc
  <2> QED
    BY <1>1, <1>2, <1>3, <1>4, <1>5, <2>1, <2>2, <2>3 DEF Op
<1>6. CASE Len(seen) = n
  <2>1. ~Clear(oplog, regions, at[n], Len(oplog))
    BY <1>0, <1>3, <1>4, <1>6 DEF NextVis, Clear
  <2>2. PICK x \in Nat : /\ NextVis(oplog, regions, at[n], x)
                         /\ Clear(oplog, regions, x, Len(oplog))
                         /\ Unanswered(program, n, oplog[x].kind)
    BY <1>1, <2>1 DEF Rest
  <2>3. x = last + 1
    <3>1. last + 1 \in Nat /\ at[n] \in Nat /\ NextVis(oplog, regions, at[n], last + 1)
      BY <1>0, <1>3, <1>4, <1>6
    <3> QED
      BY <2>2, <3>1, OneNext
  <2>4. Clear(oplog, regions, last + 1, target)
    BY <1>0, <2>2, <2>3 DEF Clear
  <2> QED
    BY <1>0, <1>1, <1>2, <1>3, <1>4, <1>6, <2>2, <2>3, <2>4
<1> QED
  BY <1>1, <1>2, <1>5, <1>6

(* The call is answered from the oplog, and the position moves behind it.  *)
LEMMA FollowReturns ==
  ASSUME LogType, GuestType, Following, NEW n, NEW at, FollowAt(n, at), pc <= Len(program),
         UNCHANGED <<oplogVars, target, regions, program, step>>, mode' = "guest",
         NEW i \in 1 .. target, last' = i, i = target \/ Vis(oplog, regions, i + 1),
         NEW b \in 2 .. i, Clear(oplog, regions, b, i),
         NEW answer \in Answers, Link(oplog, regions, Op, at[Len(seen)], b, answer),
         i = target \/ (/\ Len(seen) < n /\ at[Len(seen) + 1] = b
                        /\ timeline[Len(seen) + 1] = answer),
         Returns(answer, i = target)
  PROVE  LogType' /\ ModeInv' /\ seen' \in Seq(Answers) /\ timeline' \in Seq(Answers)
<1>0. /\ oplog \in Seq(Entries) /\ Len(oplog) \in Nat /\ target \in 1 .. Len(oplog)
      /\ regions = DeletedRegions /\ buffer = <<>> /\ step = "none"
      /\ OnlyHints(oplog, target)
  BY FollowingReads, OplogIs
<1>1. LogType' /\ oplog' = oplog /\ DeletedRegions' = DeletedRegions /\ buffer' = buffer
  BY SameOplog DEF oplogVars
<1>2. /\ n \in Nat /\ Len(seen) \in 0 .. n
      /\ Chain(oplog, regions, program, timeline, at, n) /\ Anchored(oplog, regions, at[0])
  BY FollowNext
<1>3. Agrees(seen, timeline) /\ Recorded(oplog, regions, program, timeline, at, n)
  BY DEF FollowAt
<1>4. seen \in Seq(Answers) /\ timeline \in Seq(Answers) /\ Len(seen) \in Nat
      /\ Len(timeline) \in Nat
  BY DEF GuestType
<1>5. /\ seen' = Append(seen, answer) /\ seen' \in Seq(Answers) /\ Len(seen') = Len(seen) + 1
      /\ seen'[Len(seen) + 1] = answer /\ \A j \in 1 .. Len(seen) : seen'[j] = seen[j]
  BY <1>4 DEF Returns
<1>6. CASE i = target
  <2>1. Returns(answer, TRUE)
    BY <1>6
  <2>2. PICK to : /\ Chain(oplog, regions, program, timeline, to, Len(seen))
                  /\ to[0] = at[0] /\ to[Len(seen)] = at[Len(seen)]
    <3>1. PICK k \in 0 .. n : k = Len(seen) /\ k <= Len(timeline) /\ k \in 0 .. k /\ 0 \in 0 .. k
      BY <1>2, <1>3, <1>4 DEF Agrees
    <3>2. Same(oplog, regions, oplog, regions, at[k])
      <4>1. at[k] \in 2 .. Len(oplog)
        BY <1>2 DEF Chain
      <4> QED
        BY <1>0, <4>1 DEF Same
    <3>3. \A j \in 1 .. k : timeline[j] = timeline[j]
      OBVIOUS
    <3>4. Len(program) \in Nat
      BY ProgramIs DEF GuestType
    <3>5. Chain(oplog, regions, program, timeline, [j \in 0 .. k |-> at[j]], k)
      BY <1>0, <1>2, <3>1, <3>2, <3>3, <3>4, ChainSame
    <3> DEFINE to == [j \in 0 .. k |-> at[j]]
    <3>6. to[0] = at[0] /\ to[k] = at[k]
      BY <3>1
    <3> HIDE DEF to
    <3>7. Chain(oplog, regions, program, timeline, to, k)
      BY <3>5 DEF to
    <3> QED
      BY <3>1, <3>6, <3>7
  <2>3. /\ oplog' \in Seq(Entries)
        /\ Chain(oplog', DeletedRegions', program, timeline, to, Len(seen))
        /\ Anchored(oplog', DeletedRegions', to[0])
        /\ Link(oplog', DeletedRegions', Op, to[Len(seen)], b, answer)
        /\ Clear(oplog', DeletedRegions', b, Len(oplog')) /\ b \in 2 .. Len(oplog')
        /\ step' = "none" /\ program' = program
    <3>1. Clear(oplog, regions, b, Len(oplog)) /\ b \in 2 .. Len(oplog)
      <4>1. b \in Nat /\ Clear(oplog, regions, b, target) /\ target \in Nat /\ target <= Len(oplog)
        BY <1>0, <1>6
      <4> QED
        BY <1>0, <1>6, <4>1, ClearEnd
    <3> QED
      BY <1>0, <1>1, <1>2, <1>6, <2>2, <3>1
  <2>4. Live' /\ seen' \in Seq(Answers) /\ timeline' \in Seq(Answers)
    BY <1>3, <2>1, <2>3, LiveReturns
  <2>5. last' = target'
    BY <1>6
  <2> QED
    BY <1>1, <2>4, <2>5, NextModeGuest
<1>7. CASE i # target
  <2>1. timeline' = timeline
    BY <1>7 DEF Returns
  <2>2. /\ Len(seen') <= n /\ at[Len(seen')] = b /\ timeline[Len(seen) + 1] = answer
    BY <1>2, <1>4, <1>5, <1>7
  <2>3. Agrees(seen', timeline')
    <3>1. Len(seen') <= Len(timeline)
      BY <1>2, <1>4, <1>5, <2>2 DEF Chain
    <3>2. ASSUME NEW j \in 1 .. Len(seen') PROVE seen'[j] = timeline[j]
      <4>1. j = Len(seen) + 1 \/ j \in 1 .. Len(seen)
        BY <1>4, <1>5
      <4> QED
        BY <1>3, <1>5, <2>2, <4>1 DEF Agrees
    <3> QED
      BY <2>1, <3>1, <3>2 DEF Agrees
  <2>4. FollowAt(n, at)'
    <3>1. b <= i
      BY <1>0
    <3> QED
      BY <1>1, <1>3, <2>1, <2>2, <2>3, <3>1 DEF FollowAt
  <2>5. Replayed'
    BY <1>0, <1>1, <2>1 DEF Following, Replayed, Stopped
  <2>6. Following'
    BY <1>1, <1>7, <2>4, <2>5 DEF Following
  <2>7. last' # target'
    BY <1>7
  <2> QED
    BY <1>1, <1>4, <1>5, <2>1, <2>6, <2>7 DEF ModeInv
<1> QED
  BY <1>6, <1>7

LEMMA FailsIs ==
  ASSUME ReplayInv, NEW outcome \in {"stuck", "refused"}, Fails(outcome), program' = program,
         outcome = "stuck" => InvokedTwice
  PROVE  ReplayInv'
<1>1. /\ mode' = outcome /\ UNCHANGED <<oplogVars, last, target, boots, seen, source, timeline>>
  BY DEF Fails, replayVars, ghosts
<1>2. LogType' /\ durable' = durable
  BY <1>1, SameOplog DEF ReplayInv, oplogVars
<1>3. InvokedTwice' <=> InvokedTwice
  BY <1>2 DEF InvokedTwice
<1> QED
  BY <1>1, <1>2, <1>3 DEF ReplayInv, GuestType, ModeInv, Ended

LEMMA ReplayCallKeeps ==
  ASSUME ReplayInv, NEW op \in {"call", "part", "save", "end", "close"}, ReplayCall(op)
  PROVE  ReplayInv'
<1>0. /\ LogType /\ GuestType /\ mode = "guest" /\ step = "none" /\ last # target
      /\ pc <= Len(program) /\ Op = op /\ Following /\ pc = Len(seen) + 1 /\ Len(seen) \in Nat
      /\ Len(program) \in Nat
  BY InGuest DEF ReplayCall, IsLive
<1>1. /\ EntryAfter(last) = last + 1 /\ last + 1 \in 2 .. target /\ target \in Nat
      /\ IndexAfter(last) \in last + 1 .. target
      /\ IndexAfter(last) = target \/ Vis(oplog, regions, IndexAfter(last) + 1)
      /\ Clear(oplog, regions, last + 1, IndexAfter(last))
      /\ oplog \in Seq(Entries) /\ target \in 1 .. Len(oplog) /\ last \in 1 .. target
  BY <1>0, FollowingReads, OplogIs
<1> DEFINE v == last + 1
           ans == CASE op \in {"call", "part"} -> Answer(oplog[v].value, oplog[v].boot)
                    [] op = "save" -> Answer(v, 0)
                    [] OTHER -> Nothing
<1>2. CASE Lost
  <2>1. ~Found(KindRead[op])
    BY <1>1, <1>2, KindsAre DEF Found, Lost
  <2>2. Fails("stuck") /\ program' = program
    BY <2>1 DEF ReplayCall
  <2> QED
    BY <1>2, <2>2, FailsIs DEF Lost
<1>3. ASSUME NEW n, NEW at, FollowAt(n, at) PROVE ReplayInv'
  <2>1. /\ n \in Nat /\ Len(seen) \in 0 .. n /\ at[Len(seen)] \in Nat
        /\ Chain(oplog, regions, program, timeline, at, n)
        /\ NextVis(oplog, regions, at[Len(seen)], v)
        /\ \/ /\ Len(seen) < n
              /\ Link(oplog, regions, Op, at[Len(seen)], at[Len(seen) + 1],
                      timeline[Len(seen) + 1])
           \/ /\ Len(seen) = n /\ Clear(oplog, regions, v, target)
              /\ Unanswered(program, n, oplog[v].kind)
    BY <1>0, <1>3, FollowNext
  <2>2. /\ oplog[v].kind = KindRead[op]
        /\ Link(oplog, regions, Op, at[Len(seen)], v, ans)
        /\ IndexAfter(last) = target
             \/ (Len(seen) < n /\ at[Len(seen) + 1] = v /\ timeline[Len(seen) + 1] = ans)
    <3>1. CASE Len(seen) < n
      <4>1. Link(oplog, regions, op, at[Len(seen)], at[Len(seen) + 1], timeline[Len(seen) + 1])
        BY <1>0, <2>1, <3>1
      <4>2. NextVis(oplog, regions, at[Len(seen)], at[Len(seen) + 1])
        BY <4>1 DEF Link
      <4>3. at[Len(seen) + 1] = v
        <5>1. at[Len(seen) + 1] \in Nat
          <6>1. Len(seen) + 1 \in 0 .. n
            BY <2>1, <3>1
          <6> QED
            BY <1>1, <2>1, <6>1 DEF Chain
        <5>2. v \in Nat
          BY <1>1
        <5> HIDE DEF v
        <5> QED
          BY <2>1, <4>2, <5>1, <5>2, OneNext
      <4>4. oplog[v].kind = KindRead[op] /\ timeline[Len(seen) + 1] = ans
        <5> HIDE DEF v
        <5> QED
          BY <4>1, <4>3, KindsAre DEF Link, Records, Marks, AnswerOf
      <4> HIDE DEF v, ans
      <4> QED
        BY <1>0, <3>1, <4>1, <4>3, <4>4
    <3>2. CASE Len(seen) = n
      <4>1. Unanswered(program, n, oplog[v].kind) /\ Clear(oplog, regions, v, target)
        BY <2>1, <3>2
      <4>2. program[n + 1] = op /\ n < Len(program)
        BY <1>0, <3>2 DEF Op
      <4>3. op = "save" /\ oplog[v].kind = "NoOp"
        BY <4>1, <4>2 DEF Unanswered, Marks
      <4>4. IndexAfter(last) = target
        BY <1>1, <4>1 DEF Clear, Vis
      <4>5. ans = Answer(v, 0)
        BY <4>3
      <4> HIDE DEF v, ans
      <4> QED
        BY <1>0, <2>1, <4>3, <4>4, <4>5, KindsAre DEF Link, Marks
    <3> QED
      BY <2>1, <3>1, <3>2
  <2>3. ans \in Answers
    <3>1. v \in Nat /\ oplog[v] \in Entries
      BY <1>1
    <3>2. CASE op \in {"call", "part"}
      <4>1. oplog[v].value \in Nat /\ oplog[v].boot \in Nat
        BY <2>2, <3>1, <3>2, KindsAre, EntryFields
      <4>2. ans = Answer(oplog[v].value, oplog[v].boot)
        BY <3>2
      <4> HIDE DEF ans, v
      <4> QED
        BY <4>1, <4>2, AnswerTyped
    <3>3. CASE op = "save"
      BY <3>1, <3>3, AnswerTyped
    <3>4. CASE op \in {"end", "close"}
      BY <3>4, AnswerTyped
    <3> QED
      BY <3>2, <3>3, <3>4
  <2>4. Found(KindRead[op])
    BY <1>1, <2>2 DEF Found
  <2>5. /\ last' = IndexAfter(last) /\ Returns(ans, last' = target)
        /\ UNCHANGED <<oplogVars, target, regions, mode, boots, step, source, program>>
    <3> HIDE DEF v
    <3>1. EntryAfter(last) = v
      BY <1>1 DEF v
    <3> QED
      BY <2>4, <3>1 DEF ReplayCall
  <2>6. PICK i \in 1 .. target, b \in Nat, answer \in Answers :
           i = IndexAfter(last) /\ b = v /\ answer = ans /\ b \in 2 .. i
    <3>1. IndexAfter(last) \in 1 .. target /\ v \in 2 .. IndexAfter(last)
      BY <1>1
    <3> HIDE DEF ans, v
    <3> QED
      BY <2>3, <3>1
  <2>7. LogType' /\ ModeInv' /\ seen' \in Seq(Answers) /\ timeline' \in Seq(Answers)
    <3> HIDE DEF ans, v
    <3>1. /\ last' = i /\ Returns(answer, i = target) /\ mode' = "guest"
          /\ i = target \/ Vis(oplog, regions, i + 1)
          /\ i = target \/ (/\ Len(seen) < n /\ at[Len(seen) + 1] = b
                              /\ timeline[Len(seen) + 1] = answer)
          /\ Link(oplog, regions, Op, at[Len(seen)], b, answer)
          /\ Clear(oplog, regions, b, i)
          /\ UNCHANGED <<oplogVars, target, regions, program, step>>
      BY <1>0, <1>1, <2>2, <2>5, <2>6 DEF v
    <3>2. b \in 2 .. i
      BY <2>6
    <3> QED
      BY <1>0, <1>3, <3>1, <3>2, FollowReturns
  <2>8. last' \in Nat
    BY <1>1, <2>5
  <2> QED
    BY <1>0, <2>5, <2>7, <2>8 DEF ReplayInv, GuestType
<1> QED
  BY <1>0, <1>2, <1>3 DEF Following

LEMMA NoJumpKeeps ==
  ASSUME ReplayInv, NoJump
  PROVE  ReplayInv'
<1>0. /\ LogType /\ GuestType /\ mode = "guest" /\ step = "none" /\ pc <= Len(program)
      /\ Op = "back" /\ (last = target => Live) /\ (last # target => Following)
      /\ pc = Len(seen) + 1 /\ Len(seen) \in Nat /\ Len(program) \in Nat
  BY InGuest DEF NoJump
<1>1. /\ UNCHANGED <<oplogVars, target, regions, program, step>> /\ last' = last
      /\ mode' = "guest" /\ boots' = boots /\ source' = source
      /\ Returns(Nothing, last = target)
  BY <1>0 DEF NoJump, replayVars, IsLive
<1>2. oplog \in Seq(Entries) /\ Len(oplog) \in Nat /\ Nothing \in Answers
  BY <1>0, OplogIs, AnswerTyped
<1>3. CASE last = target
  <2>1. oplog' = oplog /\ DeletedRegions' = DeletedRegions /\ LogType'
    BY <1>0, <1>1, SameOplog
  <2>2. PICK at : LiveAt(at)
    BY <1>0, <1>3 DEF Live
  <2>3. /\ Chain(oplog, DeletedRegions, program, timeline, at, Len(seen))
        /\ Anchored(oplog, DeletedRegions, at[0])
        /\ Clear(oplog, DeletedRegions, at[Len(seen)], Len(oplog))
    BY <1>0, <2>2 DEF LiveAt, Recorded
  <2>4. at[Len(seen)] \in 2 .. Len(oplog)
    BY <1>2, <2>3, ChainEnd
  <2>5. Link(oplog, DeletedRegions, Op, at[Len(seen)], at[Len(seen)], Nothing)
    BY <1>0 DEF Link
  <2>6. Agrees(seen, timeline) /\ Returns(Nothing, TRUE) /\ step' = "none" /\ program' = program
    BY <1>0, <1>1, <1>3 DEF Live
  <2>7. Live' /\ seen' \in Seq(Answers) /\ timeline' \in Seq(Answers)
    BY <1>0, <1>2, <2>1, <2>3, <2>4, <2>5, <2>6, LiveReturns
  <2> QED
    BY <1>0, <1>1, <1>3, <2>1, <2>7, NextModeGuest DEF ReplayInv, GuestType
<1>4. CASE last # target
  <2>1. ~Lost
    <3>1. <<Op, "call">> \in Needs
      BY <1>0 DEF Needs
    <3>2. LastOf("call") \in 1 .. Len(seen)
      BY <1>0, <3>1, LastOfIs
    <3> QED
      BY <3>2 DEF Lost
  <2>2. PICK n, at : FollowAt(n, at)
    BY <1>0, <1>4, <2>1 DEF Following
  <2>3. /\ n \in Nat /\ Len(seen) \in 0 .. n /\ at[Len(seen)] \in Nat
        /\ Chain(oplog, regions, program, timeline, at, n)
        /\ \/ /\ Len(seen) < n
              /\ Link(oplog, regions, Op, at[Len(seen)], at[Len(seen) + 1],
                      timeline[Len(seen) + 1])
           \/ Len(seen) = n /\ Unanswered(program, n, oplog[last + 1].kind)
    BY <1>0, <1>4, <2>2, FollowNext
  <2>4. ~(Len(seen) = n /\ Unanswered(program, n, oplog[last + 1].kind))
    BY <1>0 DEF Unanswered, Marks, Op
  <2>5. /\ Len(seen) < n /\ at[Len(seen) + 1] = at[Len(seen)]
        /\ timeline[Len(seen) + 1] = Nothing
    <3>1. Link(oplog, regions, "back", at[Len(seen)], at[Len(seen) + 1], timeline[Len(seen) + 1])
          /\ Len(seen) < n
      BY <1>0, <2>3, <2>4
    <3> QED
      BY <3>1 DEF Link, Records, Marks
  <2>6. /\ at[Len(seen)] <= last /\ Clear(oplog, regions, at[Len(seen)], last)
    BY <2>2 DEF FollowAt
  <2>7. at[Len(seen)] \in 2 .. Len(oplog)
    BY <2>3 DEF Chain
  <2>8. last \in 1 .. target /\ Vis(oplog, regions, last + 1) /\ target \in 1 .. Len(oplog)
    BY <1>0, <1>4, FollowingReads
  <2>9. at[Len(seen)] \in 2 .. last
    BY <1>2, <2>6, <2>7, <2>8
  <2>10. Link(oplog, regions, Op, at[Len(seen)], at[Len(seen)], Nothing)
    BY <1>0 DEF Link
  <2>11. LogType' /\ ModeInv' /\ seen' \in Seq(Answers) /\ timeline' \in Seq(Answers)
    BY <1>0, <1>1, <1>2, <1>4, <2>2, <2>5, <2>6, <2>8, <2>9, <2>10, FollowReturns
  <2> QED
    BY <1>0, <1>1, <2>11 DEF ReplayInv, GuestType
<1> QED
  BY <1>3, <1>4

(* The region is deleted and the guest is live behind its begin.           *)
LEMMA RetryIs ==
  ASSUME LogType, GuestType, Following, target = Len(oplog), NEW n, NEW at, FollowAt(n, at),
         pc <= Len(program),
         NEW v \in Nat, v = last + 1, NEW answer \in Answers,
         Link(oplog, regions, Op, at[Len(seen)], v, answer),
         AddAndCommit(<<[kind |-> "Jump", start |-> v + 1, end |-> target + 1]>>),
         Returns(answer, TRUE), step' = "none", program' = program
  PROVE  LogType' /\ Live' /\ seen' \in Seq(Answers) /\ timeline' \in Seq(Answers)
<1>0. /\ oplog \in Seq(Entries) /\ Len(oplog) \in Nat /\ target = Len(oplog)
      /\ regions = DeletedRegions /\ DeletedRegions \subseteq 2 .. Len(oplog)
      /\ v \in 2 .. Len(oplog) /\ Vis(oplog, regions, v)
  BY FollowingReads, OplogIs
<1>1. /\ n \in Nat /\ Len(seen) \in 0 .. n /\ at[Len(seen)] \in Nat
      /\ Chain(oplog, regions, program, timeline, at, n) /\ Anchored(oplog, regions, at[0])
      /\ NextVis(oplog, regions, at[Len(seen)], v)
  BY FollowNext
<1>2. seen \in Seq(Answers) /\ timeline \in Seq(Answers) /\ Len(seen) \in Nat
      /\ Len(timeline) \in Nat /\ Len(program) \in Nat /\ Agrees(seen, timeline)
      /\ pc = Len(seen) + 1
  BY ProgramIs DEF GuestType, FollowAt, pc
<1>3. /\ seen' = Append(seen, answer) /\ timeline' = seen' /\ seen' \in Seq(Answers)
      /\ Len(seen') = Len(seen) + 1 /\ seen'[Len(seen) + 1] = answer
      /\ \A j \in 1 .. Len(seen) : seen'[j] = seen[j]
  BY <1>2 DEF Returns
<1>4. PICK m \in Nat : /\ m = Len(seen) /\ m \in 0 .. n /\ m < Len(program)
                       /\ m + 1 <= Len(timeline') /\ m <= Len(timeline)
                       /\ timeline'[m + 1] = answer /\ m + 1 = Len(seen')
                       /\ \A j \in 1 .. m : timeline'[j] = timeline[j]
  BY <1>1, <1>2, <1>3 DEF Agrees
<1>5. PICK to : /\ Chain(oplog, regions, program, timeline, to, m)
                /\ to[0] = at[0] /\ to[m] = at[m]
  <2>1. Same(oplog, regions, oplog, regions, at[m])
    <3>1. at[m] \in 2 .. Len(oplog)
      BY <1>1, <1>4 DEF Chain
    <3> QED
      BY <1>0, <3>1 DEF Same
  <2>2. \A j \in 1 .. m : timeline[j] = timeline[j]
    OBVIOUS
  <2>3. m \in 0 .. n /\ m <= Len(timeline) /\ Len(program) \in Nat
    BY <1>2, <1>4
  <2>4. Chain(oplog, regions, program, timeline, [j \in 0 .. m |-> at[j]], m)
    BY <1>0, <1>1, <2>1, <2>2, <2>3, ChainSame
  <2> DEFINE to == [j \in 0 .. m |-> at[j]]
  <2>5. to[0] = at[0] /\ to[m] = at[m]
    BY <1>4
  <2> HIDE DEF to
  <2>6. Chain(oplog, regions, program, timeline, to, m)
    BY <2>4 DEF to
  <2> QED
    BY <2>5, <2>6
<1>6. PICK tt : /\ Chain(oplog, regions, program, timeline', tt, m + 1)
                /\ tt[m + 1] = v /\ tt[0] = at[0]
  <2>1. Link(oplog, regions, program[m + 1], to[m], v, answer)
    BY <1>2, <1>4, <1>5 DEF Op
  <2>2. Len(program) \in Nat /\ m < Len(program) /\ m + 1 <= Len(timeline')
        /\ timeline'[m + 1] = answer /\ v \in 2 .. Len(oplog)
        /\ \A j \in 1 .. m : timeline'[j] = timeline[j]
    BY <1>0, <1>2, <1>4
  <2>3. oplog \in Seq(Entries) /\ Chain(oplog, regions, program, timeline, to, m)
    BY <1>0, <1>5
  <2>4. Extends(oplog, regions, program, timeline, timeline', to, m, v, answer)
    BY <2>1, <2>2, <2>3 DEF Extends
  <2> QED
    BY <1>5, <2>4, ChainExtends
<1>7. PICK k \in 0 .. m + 1 : k = m + 1 /\ k = Len(seen')
  BY <1>4
<1>8. tt[0] < tt[k] /\ Vis(oplog, regions, tt[k]) /\ tt[k] = v
  <2>1. at[0] <= at[m] /\ at[0] \in Nat /\ at[m] \in Nat
    <3>1. to[0] <= to[m] /\ to[0] \in Nat /\ to[m] \in Nat
      BY <1>0, <1>5, ChainEnd
    <3> QED
      BY <1>5, <3>1
  <2>2. at[m] < v
    BY <1>1, <1>4 DEF NextVis
  <2> QED
    BY <1>0, <1>6, <1>7, <2>1, <2>2
<1>9. PICK e \in Entries : e = [kind |-> "Jump", start |-> v + 1, end |-> Len(oplog) + 1]
  <2>1. [kind |-> "Jump", start |-> v + 1, end |-> Len(oplog) + 1] \in Entries
    BY <1>0 DEF Entries
  <2> QED
    BY <2>1
<1>10. /\ LogType' /\ Longer(oplog, e, oplog')
       /\ CutAfter(regions, tt[k], Len(oplog) + 1, DeletedRegions')
  <2>1. v >= 1
    BY <1>0
  <2>2. AddAndCommit(<<[kind |-> "Jump", start |-> v + 1, end |-> Len(oplog) + 1]>>)
    BY <1>0
  <2>3. /\ LogType' /\ Longer(oplog, e, oplog')
        /\ CutAfter(DeletedRegions, v, Len(oplog) + 1, DeletedRegions')
    BY <1>9, <2>1, <2>2, JumpIs
  <2> QED
    BY <1>0, <1>8, <2>3
<1>11. /\ Chain(oplog', DeletedRegions', program, timeline', [j \in 0 .. k |-> tt[j]], k)
       /\ Anchored(oplog', DeletedRegions', tt[0])
       /\ Clear(oplog', DeletedRegions', tt[k], Len(oplog'))
  <2>1. /\ Chain(oplog, regions, program, timeline', tt, m + 1)
        /\ Anchored(oplog, regions, tt[0]) /\ Len(program) \in Nat
        /\ regions \subseteq 2 .. Len(oplog)
    BY <1>0, <1>1, <1>2, <1>6
  <2> QED
    BY <1>0, <1>8, <1>10, <2>1, CutBack
<1>12. PICK ot : /\ Chain(oplog', DeletedRegions', program, timeline', ot, k)
                 /\ Anchored(oplog', DeletedRegions', ot[0])
                 /\ Clear(oplog', DeletedRegions', ot[k], Len(oplog'))
  <2> DEFINE ot == [j \in 0 .. k |-> tt[j]]
  <2>1. ot[0] = tt[0] /\ ot[k] = tt[k]
    BY <1>4, <1>7
  <2> HIDE DEF ot
  <2>2. Chain(oplog', DeletedRegions', program, timeline', ot, k)
    BY <1>11 DEF ot
  <2> QED
    BY <1>11, <2>1, <2>2
<1>13. LiveAt(ot)'
  BY <1>7, <1>12 DEF LiveAt, Recorded, Rest
<1>14. Agrees(seen', timeline')
  BY <1>3 DEF Agrees
<1> QED
  BY <1>3, <1>10, <1>13, <1>14 DEF Live

LEMMA ReplayBeginKeeps ==
  ASSUME ReplayInv, NEW op \in {"begin", "open"}, ReplayBegin(op), ~misread'
  PROVE  ReplayInv'
<1>0. /\ LogType /\ GuestType /\ mode = "guest" /\ step = "none" /\ last # target
      /\ pc <= Len(program) /\ Op = op /\ Following /\ pc = Len(seen) + 1 /\ Len(seen) \in Nat
      /\ Len(program) \in Nat
  BY InGuest DEF ReplayBegin, IsLive
<1>1. PICK v \in Nat, i \in 1 .. target :
        /\ v = last + 1 /\ EntryAfter(last) = v /\ i = IndexAfter(last) /\ v \in 2 .. i
        /\ i = target \/ Vis(oplog, regions, i + 1)
        /\ Clear(oplog, regions, v, i)
  <2>1. /\ EntryAfter(last) = last + 1 /\ last + 1 \in 2 .. target /\ target \in Nat
        /\ IndexAfter(last) \in last + 1 .. target /\ last \in 1 .. target
    BY <1>0, FollowingReads DEF Reading
  <2>2. last + 1 \in Nat /\ IndexAfter(last) \in 1 .. target /\ last + 1 \in 2 .. IndexAfter(last)
    BY <2>1
  <2> QED
    BY <1>0, <2>1, <2>2, FollowingReads
<1>2. target \in Nat /\ target \in 1 .. Len(oplog) /\ Len(oplog) \in Nat
  BY <1>0, FollowingReads, OplogIs DEF GuestType
<1> DEFINE ended == IF op = "begin" THEN HasEntry(i, "EndAtomic", v) ELSE HasBatchEnd(i, v)
<1>3. CASE Lost
  <2>1. ~Found(EntryOf[op])
    BY <1>1, <1>3, KindsAre DEF Found, Lost
  <2>2. Fails("stuck") /\ program' = program
    BY <2>1 DEF ReplayBegin
  <2> QED
    BY <1>3, <2>2, FailsIs DEF Lost
<1>4. ASSUME NEW n, NEW at, FollowAt(n, at) PROVE ReplayInv'
  <2>1. /\ n \in Nat /\ Len(seen) \in 0 .. n /\ at[Len(seen)] \in Nat
        /\ Chain(oplog, regions, program, timeline, at, n)
        /\ NextVis(oplog, regions, at[Len(seen)], v)
        /\ \/ /\ Len(seen) < n
              /\ Link(oplog, regions, Op, at[Len(seen)], at[Len(seen) + 1],
                      timeline[Len(seen) + 1])
           \/ /\ Len(seen) = n /\ Clear(oplog, regions, v, target)
              /\ Unanswered(program, n, oplog[v].kind)
    BY <1>0, <1>1, <1>4, FollowNext
  <2>2. PICK answer \in Answers : answer = Answer(v, 0)
    BY AnswerTyped
  <2>3. /\ oplog[v].kind = EntryOf[op]
        /\ Link(oplog, regions, Op, at[Len(seen)], v, answer)
        /\ i = target \/ (/\ Len(seen) < n /\ at[Len(seen) + 1] = v
                            /\ timeline[Len(seen) + 1] = answer)
    <3>1. CASE Len(seen) < n
      <4>1. Link(oplog, regions, op, at[Len(seen)], at[Len(seen) + 1], timeline[Len(seen) + 1])
        BY <1>0, <2>1, <3>1
      <4>2. /\ NextVis(oplog, regions, at[Len(seen)], at[Len(seen) + 1])
            /\ Marks(op, oplog[at[Len(seen) + 1]].kind)
            /\ timeline[Len(seen) + 1] = Answer(at[Len(seen) + 1], 0)
        BY <4>1 DEF Link, Records
      <4>3. at[Len(seen) + 1] = v
        <5>1. at[Len(seen) + 1] \in Nat
          <6>1. Len(seen) + 1 \in 0 .. n
            BY <2>1, <3>1
          <6> QED
            BY <1>2, <2>1, <6>1 DEF Chain
        <5> QED
          BY <2>1, <4>2, <5>1, OneNext
      <4>4. oplog[v].kind = EntryOf[op]
        BY <4>2, <4>3, KindsAre DEF Marks
      <4> QED
        BY <1>0, <2>2, <3>1, <4>1, <4>2, <4>3, <4>4
    <3>2. CASE Len(seen) = n
      <4>1. Unanswered(program, n, oplog[v].kind) /\ Clear(oplog, regions, v, target)
        BY <2>1, <3>2
      <4>2. program[n + 1] = op /\ n < Len(program)
        BY <1>0, <3>2 DEF Op
      <4>3. Marks(op, oplog[v].kind)
        BY <4>1, <4>2 DEF Unanswered
      <4>4. i = target
        BY <1>1, <1>2, <4>1 DEF Clear, Vis
      <4>5. oplog[v].kind = EntryOf[op]
        BY <4>3, KindsAre DEF Marks
      <4> QED
        BY <1>0, <2>1, <2>2, <4>3, <4>4, <4>5 DEF Link
    <3> QED
      BY <2>1, <3>1, <3>2
  <2>4. Found(EntryOf[op])
    BY <1>1, <2>3 DEF Found
  <2>5. /\ Returns(answer, ~ended)
        /\ IF ended
           THEN last' = i /\ UNCHANGED <<regions, oplogVars>>
           ELSE /\ last' = target
                /\ AddAndCommit(<<[kind |-> "Jump", start |-> v + 1, end |-> target + 1]>>)
                /\ target + 1 = Len(oplog) + 1
        /\ UNCHANGED <<target, mode, boots, step, source, program>>
    BY <1>1, <2>2, <2>4 DEF ReplayBegin, Takes
  <2>6. CASE ended
    <3>1. i # target
      BY <1>1, <1>2, <2>6 DEF HasEntry, HasBatchEnd
    <3>2. /\ last' = i /\ Returns(answer, i = target) /\ mode' = "guest"
          /\ UNCHANGED <<oplogVars, target, regions, program, step>>
      BY <1>0, <2>5, <2>6, <3>1 DEF Returns
    <3> HIDE DEF ended
    <3>3. LogType' /\ ModeInv' /\ seen' \in Seq(Answers) /\ timeline' \in Seq(Answers)
      <4>1. /\ i = target \/ Vis(oplog, regions, i + 1)
            /\ Clear(oplog, regions, v, i)
        BY <1>1
      <4>2. v \in 2 .. i
        BY <1>1
      <4> QED
        BY <1>0, <1>4, <2>3, <3>2, <4>1, <4>2, FollowReturns
    <3>4. last' \in Nat
      BY <1>2, <3>2
    <3> QED
      BY <1>0, <2>5, <3>3, <3>4 DEF ReplayInv, GuestType
  <2>7. CASE ~ended
    <3>1. /\ last' = target' /\ Returns(answer, TRUE) /\ mode' = "guest" /\ last' = target
          /\ AddAndCommit(<<[kind |-> "Jump", start |-> v + 1, end |-> target + 1]>>)
          /\ step' = "none" /\ program' = program
      BY <1>0, <2>5, <2>7
    <3> HIDE DEF ended
    <3>2. v = last + 1 /\ target = Len(oplog)
      BY <1>1, <1>2, <2>5, <2>7
    <3>3. LogType' /\ Live' /\ seen' \in Seq(Answers) /\ timeline' \in Seq(Answers)
      BY <1>0, <1>4, <2>3, <3>1, <3>2, RetryIs
    <3>4. ModeInv'
      BY <3>1, <3>3, NextModeGuest
    <3> QED
      BY <1>0, <2>5, <3>1, <3>3, <3>4 DEF ReplayInv, GuestType
  <2> QED
    BY <2>6, <2>7
<1> QED
  BY <1>0, <1>3, <1>4 DEF Following

LEMMA ReplayOnceKeeps ==
  ASSUME ReplayInv, ReplayOnce
  PROVE  ReplayInv'
<1>0. /\ LogType /\ GuestType /\ mode = "guest" /\ step = "none" /\ last # target
      /\ pc <= Len(program) /\ Op = "once" /\ Following /\ pc = Len(seen) + 1
      /\ Len(seen) \in Nat /\ Len(program) \in Nat
  BY InGuest DEF ReplayOnce, IsLive
<1>1. PICK v \in Nat, f \in 1 .. target :
        /\ v = last + 1 /\ EntryAfter(last) = v /\ f = IndexAfter(last) /\ v \in 2 .. f
        /\ f = target \/ Vis(oplog, regions, f + 1)
        /\ Clear(oplog, regions, v, f)
  <2>1. /\ EntryAfter(last) = last + 1 /\ last + 1 \in 2 .. target /\ target \in Nat
        /\ IndexAfter(last) \in last + 1 .. target /\ last \in 1 .. target
    BY <1>0, FollowingReads DEF Reading
  <2>2. last + 1 \in Nat /\ IndexAfter(last) \in 1 .. target /\ last + 1 \in 2 .. IndexAfter(last)
    BY <2>1
  <2> QED
    BY <1>0, <2>1, <2>2, FollowingReads
<1>2. target \in Nat /\ target \in 1 .. Len(oplog) /\ Reading /\ oplog \in Seq(Entries)
  BY <1>0, FollowingReads DEF GuestType, Reading
<1>3. CASE Lost
  <2>1. ~Found("BeginWrite")
    BY <1>1, <1>3 DEF Found, Lost
  <2>2. Fails("stuck") /\ program' = program
    BY <2>1 DEF ReplayOnce
  <2> QED
    BY <1>3, <2>2, FailsIs DEF Lost
<1>4. ASSUME NEW n, NEW at, FollowAt(n, at) PROVE ReplayInv'
  <2>1. /\ n \in Nat /\ Len(seen) \in 0 .. n /\ at[Len(seen)] \in Nat
        /\ Chain(oplog, regions, program, timeline, at, n)
        /\ NextVis(oplog, regions, at[Len(seen)], v)
        /\ \/ /\ Len(seen) < n
              /\ Link(oplog, regions, Op, at[Len(seen)], at[Len(seen) + 1],
                      timeline[Len(seen) + 1])
           \/ /\ Len(seen) = n /\ Clear(oplog, regions, v, target)
              /\ Unanswered(program, n, oplog[v].kind)
    BY <1>0, <1>1, <1>4, FollowNext
  <2>2. CASE Len(seen) = n
    <3>1. Unanswered(program, n, oplog[v].kind) /\ Clear(oplog, regions, v, target)
      BY <2>1, <2>2
    <3>2. program[n + 1] = "once" /\ n < Len(program)
      BY <1>0, <2>2 DEF Op
    <3>3. oplog[v].kind = "BeginWrite"
      BY <3>1, <3>2 DEF Unanswered, Marks
    <3>4. f = target
      BY <1>1, <1>2, <3>1 DEF Clear, Vis
    <3>5. Found("BeginWrite") /\ ~HasEntry(IndexAfter(last), "EndWrite", EntryAfter(last))
      BY <1>1, <1>2, <3>3, <3>4 DEF Found, HasEntry
    <3>6. Fails("refused") /\ program' = program
      BY <3>5 DEF ReplayOnce
    <3> QED
      BY <3>6, FailsIs
  <2>3. CASE Len(seen) < n
    <3>1. PICK b \in Nat : b = at[Len(seen) + 1]
      <4>1. Len(seen) + 1 \in 0 .. n
        BY <2>1, <2>3
      <4>2. at[Len(seen) + 1] \in Nat
        BY <1>2, <2>1, <4>1 DEF Chain
      <4> QED
        BY <4>2
    <3>2. Link(oplog, regions, "once", at[Len(seen)], b, timeline[Len(seen) + 1])
      BY <1>0, <2>1, <2>3, <3>1
    <3>3. PICK x \in Nat, y \in Nat :
            /\ Once(oplog, regions, at[Len(seen)], x, y, b)
            /\ timeline[Len(seen) + 1] = Answer(oplog[y].value, oplog[y].boot)
      BY <3>2 DEF Link, Records, Marks
    <3>4. /\ NextVis(oplog, regions, at[Len(seen)], x) /\ oplog[x].kind = "BeginWrite"
          /\ NextVis(oplog, regions, x, y) /\ oplog[y].kind = "Write"
          /\ NextVis(oplog, regions, y, b) /\ oplog[b].kind = "EndWrite"
      BY <3>3 DEF Once
    <3>5. x = v
      BY <2>1, <3>4, OneNext
    <3>6. Found("BeginWrite")
      BY <1>1, <3>4, <3>5 DEF Found
    <3>7. CASE ~HasEntry(f, "EndWrite", v)
      <4>1. Fails("refused") /\ program' = program
        BY <1>1, <3>6, <3>7 DEF ReplayOnce
      <4> QED
        BY <4>1, FailsIs
    <3>8. CASE HasEntry(f, "EndWrite", v)
      <4>1. f # target
        BY <1>1, <1>2, <3>8 DEF HasEntry
      <4>2. Vis(oplog, regions, f + 1) /\ f + 1 \in Nat /\ NextVis(oplog, regions, v, f + 1)
        <5>1. Vis(oplog, regions, f + 1) /\ f \in Nat /\ v <= f
          BY <1>1, <1>2, <4>1
        <5> QED
          BY <1>1, <5>1 DEF NextVis, Clear
      <4>3. y = f + 1
        BY <3>4, <3>5, <4>2, OneNext
      <4>4. PICK g \in 1 .. target :
              /\ g = IndexAfter(f) /\ EntryAfter(f) = y /\ y <= g
              /\ g = target \/ Vis(oplog, regions, g + 1)
              /\ Clear(oplog, regions, y, g)
        <5>1. /\ EntryAfter(f) = f + 1 /\ f + 1 \in 2 .. target
              /\ IndexAfter(f) \in f + 1 .. target
              /\ IndexAfter(f) = target \/ Vis(oplog, regions, IndexAfter(f) + 1)
              /\ Clear(oplog, regions, f + 1, IndexAfter(f))
          BY <1>2, <4>2, EntryIs
        <5>2. IndexAfter(f) \in 1 .. target /\ y <= IndexAfter(f)
          BY <1>2, <4>3, <5>1
        <5> QED
          BY <4>3, <5>1, <5>2
      <4>5. g # target
        <5>1. b \in Nat /\ Vis(oplog, regions, b) /\ y < b
          BY <3>4 DEF NextVis, Vis
        <5>2. b <= target
          <6>1. OnlyHints(oplog, target) /\ target \in Nat
            BY <1>2 DEF Reading
          <6> QED
            BY <5>1, <6>1 DEF OnlyHints, Vis
        <5> QED
          BY <1>2, <4>4, <5>1, <5>2 DEF Clear
      <4>6. Vis(oplog, regions, g + 1) /\ g + 1 \in Nat /\ NextVis(oplog, regions, y, g + 1)
        <5>1. Vis(oplog, regions, g + 1) /\ g \in Nat
          BY <1>2, <4>4, <4>5
        <5> QED
          BY <4>4, <5>1 DEF NextVis, Clear
      <4>7. b = g + 1
        BY <3>4, <4>6, OneNext
      <4>8. PICK h \in 1 .. target :
              /\ h = IndexAfter(g) /\ b \in 2 .. h
              /\ h = target \/ Vis(oplog, regions, h + 1)
              /\ Clear(oplog, regions, b, h)
        <5>1. /\ g + 1 \in 2 .. target
              /\ IndexAfter(g) \in g + 1 .. target
              /\ IndexAfter(g) = target \/ Vis(oplog, regions, IndexAfter(g) + 1)
              /\ Clear(oplog, regions, g + 1, IndexAfter(g))
          BY <1>2, <4>6, EntryIs
        <5>2. IndexAfter(g) \in 1 .. target /\ b \in 2 .. IndexAfter(g)
          BY <1>2, <4>7, <5>1
        <5> QED
          BY <4>7, <5>1, <5>2
      <4>9. PICK answer \in Answers : answer = Answer(oplog[y].value, oplog[y].boot)
        <5>1. oplog[y] \in Entries
          BY <1>2, <3>4 DEF NextVis, Vis
        <5>2. oplog[y].value \in Nat /\ oplog[y].boot \in Nat
          BY <3>4, <5>1, EntryFields
        <5> QED
          BY <5>2, AnswerTyped
      <4>10. /\ last' = h /\ Returns(answer, h = target) /\ mode' = "guest"
             /\ UNCHANGED <<oplogVars, target, regions, boots, source, program, step>>
        BY <1>0, <1>1, <3>4, <3>6, <3>8, <4>4, <4>8, <4>9 DEF ReplayOnce
      <4>11. /\ Link(oplog, regions, Op, at[Len(seen)], b, answer)
             /\ Len(seen) < n /\ at[Len(seen) + 1] = b /\ timeline[Len(seen) + 1] = answer
        BY <1>0, <2>3, <3>1, <3>2, <3>3, <4>9
      <4>12. LogType' /\ ModeInv' /\ seen' \in Seq(Answers) /\ timeline' \in Seq(Answers)
        <5>1. /\ h = target \/ Vis(oplog, regions, h + 1)
              /\ Clear(oplog, regions, b, h)
          BY <4>8
        <5>2. b \in 2 .. h
          BY <4>8
        <5> QED
          BY <1>0, <1>4, <4>10, <4>11, <5>1, <5>2, FollowReturns
      <4>13. last' \in Nat
        BY <1>2, <4>10
      <4> QED
        BY <1>0, <4>10, <4>12, <4>13 DEF ReplayInv, GuestType
    <3> QED
      BY <3>7, <3>8
  <2> QED
    BY <2>1, <2>2, <2>3
<1> QED
  BY <1>0, <1>3, <1>4 DEF Following

-----------------------------------------------------------------------------
(* Steps around the host calls.                                            *)

(* The entry of a log that says nothing, or a log of host calls, follows   *)
(* its first one.                                                          *)
LEMMA SecondKept ==
  ASSUME NEW D \in Seq(Entries), NEW R, NEW p, NEW tl, LogOK(D, R, p, tl)
  PROVE  2 \notin R
<1>1. CASE Fresh(D, R)
  BY <1>1 DEF Fresh
<1>2. ASSUME NEW n, NEW at, Recorded(D, R, p, tl, at, n) PROVE 2 \notin R
  <2>1. Begins(D, R, at[0]) /\ at[0] \in 2 .. Len(D)
    BY <1>2, ChainEnd DEF Recorded, Chain
  <2>2. 2 \in 2 .. at[0]
    BY <2>1
  <2> QED
    BY <2>1, <2>2 DEF Begins
<1> QED
  BY <1>1, <1>2 DEF LogOK

LEMMA CreateInstanceKeeps ==
  ASSUME ReplayInv, CreateInstance
  PROVE  ReplayInv'
<1>0. LogType /\ GuestType /\ mode = "down" /\ Stopped
  BY DEF ReplayInv, ModeInv, CreateInstance
<1>1. /\ mode' = "loading" /\ boots' = boots + 1 /\ target' = Len(durable)
      /\ regions' = DeletedRegions /\ seen' = <<>> /\ step' = "none" /\ source' = 0
      /\ UNCHANGED <<program, oplogVars, timeline>>
      /\ last' = IF 2 \in DeletedRegions THEN RegionEnd(DeletedRegions, 2) ELSE 1
  BY DEF CreateInstance, ghosts
<1>2. oplog' = oplog /\ DeletedRegions' = DeletedRegions /\ LogType' /\ buffer' = buffer
  BY <1>0, <1>1, SameOplog DEF oplogVars
<1>3. oplog \in Seq(Entries) /\ oplog = durable /\ Len(durable) \in Nat
  BY <1>0, OplogIs, EmptyBuffer DEF LogType, Stopped
<1>4. 2 \notin DeletedRegions
  BY <1>0, <1>3, SecondKept DEF Stopped
<1>5. last' = 1
  BY <1>1, <1>4
<1>6. Loading'
  <2>1. /\ target' \in 1 .. Len(oplog') /\ OnlyHints(oplog', target')
        /\ regions' = DeletedRegions' /\ regions' \subseteq 2 .. target'
    BY <1>0, <1>1, <1>2, <1>3 DEF LogType, OnlyHints
  <2>2. Stopped'
    BY <1>0, <1>1, <1>2 DEF Stopped
  <2> QED
    BY <1>1, <1>5, <2>1, <2>2 DEF Loading, Replayed
<1>7. seen' \in Seq(Answers) /\ boots' \in Nat /\ target' \in Nat
  BY <1>0, <1>1, <1>3 DEF GuestType
<1> QED
  BY <1>0, <1>1, <1>2, <1>5, <1>6, <1>7 DEF ReplayInv, GuestType, ModeInv, Ended

(* The invocation is recorded: nothing was before it but hints and, again, *)
(* the invocation.                                                         *)
Unbegun(D, R) ==
  R = {} /\ \A i \in 2 .. Len(D) : D[i].kind \in {"Invoked", "Pending"}

LEMMA InvokeIs ==
  ASSUME LogType, GuestType, Unbegun(oplog, DeletedRegions), seen = <<>>,
         AddAndCommit(<<[kind |-> "Invoked"]>>), UNCHANGED <<program, seen, timeline>>,
         step' = "none"
  PROVE  LogType' /\ Live'
<1>0. oplog \in Seq(Entries) /\ Len(oplog) \in Nat /\ Len(oplog) >= 1
  BY OplogIs DEF LogType
<1>1. PICK e \in Entries : e = [kind |-> "Invoked"] /\ e.kind = "Invoked"
  <2>1. [kind |-> "Invoked"] \in Entries
    BY EntryTyped
  <2> QED
    BY <2>1
<1>2. Longer(oplog, e, oplog') /\ LogType' /\ DeletedRegions' = DeletedRegions
  <2>1. Grows(e)
    BY <1>1 DEF Grows
  <2> QED
    BY <1>1, <2>1, GrowsIs
<1>3. /\ oplog' \in Seq(Entries) /\ Len(oplog') = Len(oplog) + 1 /\ oplog'[Len(oplog) + 1] = e
      /\ \A i \in 1 .. Len(oplog) : oplog'[i] = oplog[i]
  BY <1>2 DEF Longer
<1>4. PICK a \in Nat : a = Len(oplog') /\ a \in 2 .. Len(oplog') /\ oplog'[a].kind = "Invoked"
  BY <1>0, <1>1, <1>3
<1>5. Begins(oplog', {}, a)
  <2>1. ASSUME NEW i \in 2 .. a PROVE oplog'[i].kind \in {"Invoked", "Pending"}
    <3>1. i = a \/ (i \in 2 .. Len(oplog) /\ i \in 1 .. Len(oplog))
      BY <1>0, <1>3, <1>4
    <3> QED
      BY <1>3, <1>4, <3>1 DEF Unbegun
  <2> QED
    BY <1>4, <2>1 DEF Begins
<1> DEFINE at == [j \in 0 .. 0 |-> a]
<1>6. at[0] = a /\ at \in [0 .. 0 -> 2 .. Len(oplog')]
  BY <1>4
<1>7. timeline \in Seq(Answers) /\ Len(program) \in Nat /\ Len(timeline) \in Nat /\ Len(seen) = 0
  BY ProgramIs DEF GuestType
<1> HIDE DEF at
<1>8. Chain(oplog', {}, program, timeline, at, 0)
  <2>1. \A j, k \in 0 .. 0 : j = k /\ at[j] = a
    BY <1>6
  <2> QED
    BY <1>4, <1>5, <1>6, <1>7, <2>1 DEF Chain
<1>9. Clear(oplog', {}, at[0], Len(oplog'))
  BY <1>4, <1>6 DEF Clear
<1>10. Recorded(oplog', {}, program, timeline, at, 0)
  BY <1>8, <1>9 DEF Recorded, Anchored, Rest
<1>11. DeletedRegions' = {} /\ Len(seen') = 0
  BY <1>2, <1>7 DEF Unbegun
<1>12. LiveAt(at)'
  BY <1>9, <1>10, <1>11 DEF LiveAt
<1>13. Agrees(seen', timeline')
  BY <1>7 DEF Agrees
<1> QED
  BY <1>2, <1>12, <1>13 DEF Live

LEMMA InvokeKeeps ==
  ASSUME ReplayInv, Invoke
  PROVE  ReplayInv'
<1>0. LogType /\ GuestType /\ mode = "loading" /\ Loading /\ last = target
  BY DEF ReplayInv, ModeInv, Invoke, IsLive
<1>1. /\ mode' = "guest" /\ UNCHANGED <<program, last, target, boots, seen, step, source, timeline>>
      /\ AddAndCommit(<<[kind |-> "Invoked"]>>)
  BY DEF Invoke, replayVars, ghosts
<1>2. /\ seen = <<>> /\ step = "none" /\ target \in 1 .. Len(oplog)
      /\ OnlyHints(oplog, target) /\ DeletedRegions \subseteq 2 .. target
  BY <1>0 DEF Loading, Replayed
<1>3. Unbegun(oplog, DeletedRegions)
  <2>1. CASE Fresh(oplog, DeletedRegions)
    BY <2>1 DEF Fresh, Unbegun
  <2>2. CASE last = 1
    <3>1. target = 1 /\ DeletedRegions = {}
      BY <1>0, <1>2, <2>2
    <3> QED
      BY <1>2, <3>1 DEF Unbegun, OnlyHints
  <2> QED
    BY <1>0, <2>1, <2>2 DEF Loading
<1>4. LogType' /\ Live'
  BY <1>0, <1>1, <1>2, <1>3, InvokeIs
<1> QED
  BY <1>0, <1>1, <1>4, NextModeGuest DEF ReplayInv, GuestType

LEMMA ResumeReplayKeeps ==
  ASSUME ReplayInv, ResumeReplay
  PROVE  ReplayInv'
<1>0. LogType /\ GuestType /\ mode = "loading" /\ Loading /\ last # target
  BY DEF ReplayInv, ModeInv, ResumeReplay, IsLive
<1>1. /\ last = 1 /\ seen = <<>> /\ step = "none" /\ target \in 1 .. Len(oplog) /\ Replayed
      /\ OnlyHints(oplog, target) /\ regions \subseteq 2 .. target /\ Stopped
      /\ regions = DeletedRegions /\ buffer = <<>>
      /\ LogOK(oplog, regions, program, timeline)
  BY <1>0 DEF Loading, Replayed, Stopped
<1>2. /\ oplog \in Seq(Entries) /\ Len(oplog) \in Nat /\ Len(oplog) >= 1 /\ oplog = durable
      /\ DeletedRegions \subseteq 2 .. Len(oplog)
  BY <1>0, <1>1, OplogIs, EmptyBuffer DEF LogType
<1>3. Reading /\ last \in 1 .. target /\ last + 1 \notin regions
  <2>1. 2 \notin regions
    BY <1>1, <1>2, SecondKept
  <2> QED
    BY <1>1, <1>2, <2>1 DEF Reading
<1>4. PICK s \in 1 .. target :
        /\ s = SkipHints(last) /\ EntryAfter(last) = s + 1
        /\ s = target \/ Vis(oplog, regions, s + 1)
        /\ Clear(oplog, regions, 1, s)
  <2>1. /\ SkipHints(last) \in last .. target
        /\ SkipHints(last) = target \/ Vis(oplog, regions, SkipHints(last) + 1)
        /\ Clear(oplog, regions, last, SkipHints(last))
    BY <1>3, SkipHintsIs
  <2> QED
    BY <1>1, <2>1 DEF EntryAfter
<1>5. /\ UNCHANGED <<program, target, regions, boots, seen, step, source, timeline>>
      /\ IF s = target
         THEN last' = target /\ UNCHANGED <<mode, oplogVars>>
         ELSE IF oplog[s + 1].kind = "Invoked"
         THEN /\ last' = IndexAfter(last) /\ mode' = "guest"
              /\ IF last' = target THEN AddAndCommit(<<[kind |-> "Invoked"]>>)
                 ELSE UNCHANGED oplogVars
         ELSE mode' = "stuck" /\ UNCHANGED <<last, oplogVars>>
  BY <1>4 DEF ResumeReplay, ghosts
<1>6. CASE s = target
  <2>1. last' = target /\ mode' = "loading" /\ UNCHANGED oplogVars
    BY <1>0, <1>5, <1>6
  <2>2. Fresh(oplog, regions)
    <3>1. ASSUME NEW n, NEW at, Recorded(oplog, regions, program, timeline, at, n) PROVE FALSE
      <4>1. Vis(oplog, regions, at[0]) /\ at[0] \in 2 .. Len(oplog)
        BY <1>2, <3>1, ChainEnd DEF Recorded
      <4>2. Clear(oplog, regions, 1, Len(oplog))
        <5>1. /\ Clear(oplog, regions, 1, target) /\ OnlyHints(oplog, target) /\ 1 \in Nat
              /\ target \in Nat /\ Len(oplog) \in Nat /\ target <= Len(oplog)
          BY <1>1, <1>2, <1>3, <1>4, <1>6 DEF Reading
        <5> QED
          BY <5>1, ClearEnd
      <4> QED
        BY <4>1, <4>2 DEF Clear
    <3> QED
      BY <1>1, <3>1 DEF LogOK
  <2>3. oplog' = oplog /\ DeletedRegions' = DeletedRegions /\ LogType' /\ buffer' = buffer
    BY <1>0, <2>1, SameOplog DEF oplogVars
  <2>4. Loading'
    BY <1>1, <1>5, <2>1, <2>2, <2>3 DEF Loading, Replayed, Stopped
  <2> QED
    BY <1>0, <1>5, <2>1, <2>3, <2>4 DEF ReplayInv, GuestType, ModeInv
<1>7. CASE s # target
  <2>1. PICK v \in Nat : v = s + 1 /\ Vis(oplog, regions, v) /\ v \in 2 .. Len(oplog)
    BY <1>1, <1>2, <1>4, <1>7 DEF Vis
  <2>2. ~Fresh(oplog, regions)
    BY <2>1 DEF Fresh, Vis
  <2>3. PICK n, at : Recorded(oplog, regions, program, timeline, at, n)
    BY <1>1, <2>2 DEF LogOK
  <2>4. PICK a \in Nat : /\ a = at[0] /\ a \in 2 .. Len(oplog) /\ Vis(oplog, regions, a)
                         /\ Begins(oplog, regions, a) /\ Anchored(oplog, regions, a)
    <3>1. at[0] \in 2 .. Len(oplog) /\ Vis(oplog, regions, at[0]) /\ at[0] \in Nat
      BY <1>2, <2>3, ChainEnd DEF Recorded
    <3>2. Begins(oplog, regions, at[0]) /\ Anchored(oplog, regions, at[0])
      BY <2>3 DEF Recorded, Chain
    <3> QED
      BY <3>1, <3>2
  <2>5. v <= a
    BY <1>1, <1>2, <1>4, <2>1, <2>4 DEF Clear
  <2>6. oplog[v].kind = "Invoked"
    <3>1. v \in 2 .. a
      BY <2>1, <2>4, <2>5
    <3> QED
      BY <2>1, <2>4, <3>1 DEF Begins, Vis
  <2>7. PICK w \in 1 .. target :
          /\ w = IndexAfter(last) /\ v <= w
          /\ w = target \/ Vis(oplog, regions, w + 1)
          /\ Clear(oplog, regions, v, w)
    <3>1. /\ EntryAfter(s) = s + 1 /\ IndexAfter(s) \in s + 1 .. target
          /\ IndexAfter(s) = target \/ Vis(oplog, regions, IndexAfter(s) + 1)
          /\ Clear(oplog, regions, s + 1, IndexAfter(s))
      BY <1>3, <2>1, EntryIs
    <3>2. IndexAfter(last) = IndexAfter(s)
      BY <1>4, <3>1 DEF IndexAfter
    <3>3. IndexAfter(s) \in 1 .. target /\ v <= IndexAfter(s)
      BY <1>1, <1>2, <2>1, <3>1
    <3> QED
      BY <2>1, <3>1, <3>2, <3>3
  <2>8. /\ last' = w /\ mode' = "guest" /\ last' \in Nat
        /\ IF w = target THEN AddAndCommit(<<[kind |-> "Invoked"]>>) ELSE UNCHANGED oplogVars
    BY <1>1, <1>2, <1>5, <1>7, <2>1, <2>6, <2>7
  <2>9. CASE w = target
    <3>0. Clear(oplog, regions, v, Len(oplog))
      <4>1. /\ Clear(oplog, regions, v, target) /\ OnlyHints(oplog, target) /\ v \in Nat
            /\ target \in Nat /\ Len(oplog) \in Nat /\ target <= Len(oplog)
        BY <1>1, <1>2, <1>3, <2>1, <2>7, <2>9 DEF Reading
      <4> QED
        BY <4>1, ClearEnd
    <3>1. a = v
      BY <1>1, <2>1, <2>4, <2>5, <3>0 DEF Clear
    <3>2. regions = {}
      <4> SUFFICES ASSUME NEW d \in regions PROVE FALSE
        OBVIOUS
      <4>1. PICK x \in Nat : a < x /\ x < d /\ Vis(oplog, regions, x)
        BY <2>4 DEF Anchored
      <4> QED
        BY <1>1, <2>1, <3>0, <3>1, <4>1 DEF Clear, Vis
    <3>3. ASSUME NEW i \in 2 .. Len(oplog) PROVE oplog[i].kind \in {"Invoked", "Pending"}
      <4>1. i \in 2 .. a \/ i \in v + 1 .. Len(oplog)
        BY <1>1, <1>2, <2>4, <3>1
      <4> QED
        BY <2>4, <3>0, <3>2, <4>1 DEF Begins, Clear, Vis
    <3>4. Unbegun(oplog, DeletedRegions)
      BY <1>1, <3>2, <3>3 DEF Unbegun
    <3>5. LogType' /\ Live'
      BY <1>0, <1>1, <1>5, <2>8, <2>9, <3>4, InvokeIs
    <3>6. last' = target'
      BY <1>5, <2>8, <2>9
    <3> QED
      BY <1>0, <1>5, <2>8, <3>5, <3>6, NextModeGuest DEF ReplayInv, GuestType
  <2>10. CASE w # target
    <3>1. oplog' = oplog /\ DeletedRegions' = DeletedRegions /\ LogType' /\ buffer' = buffer
          /\ durable' = durable
      BY <1>0, <2>8, <2>10, SameOplog DEF oplogVars
    <3>2. Replayed'
      BY <1>1, <1>5, <3>1 DEF Replayed, Stopped
    <3>3. Vis(oplog, regions, w + 1)
      BY <2>7, <2>10
    <3>4. CASE v = a
      <4>1. Len(seen) = 0 /\ n \in Nat /\ timeline \in Seq(Answers)
        BY <1>0, <1>1, <2>3 DEF Recorded, Chain, GuestType
      <4>2. Agrees(seen, timeline) /\ Len(seen) <= n
        BY <4>1 DEF Agrees
      <4>3. at[Len(seen)] <= w /\ Clear(oplog, regions, at[Len(seen)], w)
        BY <2>4, <2>7, <3>4, <4>1
      <4> QED
        <5>1. FollowAt(n, at)'
          BY <1>5, <2>3, <2>8, <3>1, <4>2, <4>3 DEF FollowAt
        <5>2. Following'
          BY <1>5, <2>8, <3>1, <3>2, <3>3, <5>1 DEF Following
        <5>3. last' # target'
          BY <1>5, <2>8, <2>10
        <5> QED
          BY <1>0, <1>5, <2>8, <3>1, <5>2, <5>3 DEF ReplayInv, GuestType, ModeInv
    <3>5. CASE v # a
      <4>1. w + 1 <= a /\ w \in Nat
        BY <1>1, <1>2, <2>1, <2>4, <2>5, <2>7, <3>5 DEF Clear
      <4>2. w + 1 \in 2 .. a
        BY <2>1, <2>4, <2>7, <4>1
      <4>3. oplog[w + 1].kind = "Invoked"
        BY <2>4, <3>3, <4>2 DEF Begins, Vis
      <4>4. ASSUME NEW k \in v + 1 .. w PROVE IsHint(oplog[k])
        <5>1. k \in 2 .. a /\ k \in 2 .. Len(oplog)
          BY <1>2, <2>1, <2>4, <4>1
        <5> QED
          BY <2>4, <2>7, <5>1 DEF Begins, Clear, Vis, IsHint
      <4>5. InvokedTwice
        <5>1. v \in DOMAIN durable /\ w + 1 \in DOMAIN durable /\ v < w + 1 /\ (w + 1) - 1 = w
          BY <1>2, <2>1, <2>4, <2>7, <4>1, <4>2
        <5>2. PICK j \in DOMAIN durable : j = w + 1
          BY <5>1
        <5>3. /\ durable[v].kind = "Invoked" /\ durable[j].kind = "Invoked" /\ v < j
              /\ \A k \in v + 1 .. j - 1 : IsHint(durable[k])
          BY <1>2, <2>6, <4>3, <4>4, <5>1, <5>2
        <5> QED
          BY <5>1, <5>3 DEF InvokedTwice
      <4>6. Lost'
        <5>1. InvokedTwice'
          BY <3>1, <4>5 DEF InvokedTwice
        <5> QED
          BY <1>1, <1>5, <2>8, <3>1, <4>3, <5>1 DEF Lost
      <4>7. Following'
        BY <1>5, <2>8, <3>1, <3>2, <3>3, <4>6 DEF Following
      <4>8. last' # target'
        BY <1>5, <2>8, <2>10
      <4> QED
        BY <1>0, <1>5, <2>8, <3>1, <4>7, <4>8 DEF ReplayInv, GuestType, ModeInv
    <3> QED
      BY <3>4, <3>5
  <2> QED
    BY <2>9, <2>10
<1> QED
  BY <1>6, <1>7

LEMMA CompleteKeeps ==
  ASSUME ReplayInv, Complete
  PROVE  ReplayInv'
<1>0. /\ LogType /\ GuestType /\ mode = "guest" /\ pc > Len(program)
      /\ pc = Len(seen) + 1 /\ Len(seen) \in Nat /\ Len(program) \in Nat
      /\ (last = target => Live) /\ (last # target => Following)
  BY ProgramIs DEF ReplayInv, ModeInv, Complete, GuestType, pc
<1>1. UNCHANGED <<program, target, regions, boots, seen, step, source, timeline>>
  BY DEF Complete
<1>2. CASE last = target
  <2>1. AddAndCommit(<<[kind |-> "Completed"]>>) /\ mode' = "done" /\ last' = last
    BY <1>2 DEF Complete, IsLive
  <2>2. PICK at : LiveAt(at)
    BY <1>0, <1>2 DEF Live
  <2>3. step = "none"
    BY <1>0, <1>2 DEF Live
  <2>4. PICK e \in Entries : e = [kind |-> "Completed"] /\ e.kind = "Completed"
    <3>1. [kind |-> "Completed"] \in Entries
      BY EntryTyped
    <3> QED
      BY <3>1
  <2>5. Grows(e) /\ e.kind \notin {"Pending", "Jump"}
    BY <2>1, <2>4 DEF Grows
  <2>6. /\ LogType' /\ DeletedRegions' = DeletedRegions
        /\ oplog' \in Seq(Entries) /\ Len(oplog') \in Nat
        /\ Chain(oplog', DeletedRegions, program, timeline, at, Len(seen))
        /\ Anchored(oplog', DeletedRegions, at[0])
        /\ NextVis(oplog', DeletedRegions, at[Len(seen)], Len(oplog'))
        /\ oplog'[Len(oplog')] = e
        /\ Clear(oplog', DeletedRegions, Len(oplog'), Len(oplog'))
    BY <1>0, <2>2, <2>3, <2>5, LiveAdds
  <2>7. Len(seen) = Len(program)
    BY <1>0, <2>6 DEF Chain
  <2>8. Rest(oplog', DeletedRegions, program, at[Len(seen)], Len(seen))
    BY <2>4, <2>6, <2>7 DEF Rest, Unanswered
  <2>9. LogOK(oplog', DeletedRegions', program, timeline)
    BY <2>6, <2>8 DEF LogOK, Recorded
  <2>10. Stopped'
    BY <1>1, <2>1, <2>9 DEF Stopped, AddAndCommit
  <2> QED
    BY <1>0, <1>1, <2>1, <2>6, <2>10 DEF ReplayInv, GuestType, ModeInv, Ended
<1>3. CASE last # target
  <2>1. /\ EntryAfter(last) = last + 1 /\ IndexAfter(last) \in last + 1 .. target
        /\ last \in 1 .. target /\ target \in Nat
    BY <1>0, <1>3, FollowingReads DEF GuestType
  <2>2. /\ mode' = IF oplog[last + 1].kind = "Completed" THEN "done" ELSE "stuck"
        /\ last' = IndexAfter(last) /\ UNCHANGED oplogVars
    BY <1>3, <2>1 DEF Complete, IsLive
  <2>3. /\ LogType' /\ oplog' = oplog /\ DeletedRegions' = DeletedRegions
        /\ buffer' = buffer /\ durable' = durable
    BY <1>0, <2>2, SameOplog DEF oplogVars
  <2>4. Stopped'
    BY <1>0, <1>1, <1>3, <2>3 DEF Following, Replayed, Stopped
  <2>5. oplog[last + 1].kind = "Completed" \/ InvokedTwice
    <3>1. ASSUME NEW n, NEW at, FollowAt(n, at) PROVE oplog[last + 1].kind = "Completed"
      <4>1. n \in Nat /\ n = Len(seen) /\ Unanswered(program, n, oplog[last + 1].kind)
        BY <1>0, <1>3, <3>1, FollowNext
      <4> QED
        BY <1>0, <4>1 DEF Unanswered
    <3> QED
      BY <1>0, <1>3, <3>1 DEF Following, Lost
  <2>6. InvokedTwice' <=> InvokedTwice
    BY <2>3 DEF InvokedTwice
  <2>7. last' \in Nat
    BY <2>1, <2>2
  <2> QED
    BY <1>0, <1>1, <2>2, <2>3, <2>4, <2>5, <2>6, <2>7 DEF ReplayInv, GuestType, ModeInv, Ended
<1> QED
  BY <1>2, <1>3

LEMMA CommitKeeps ==
  ASSUME ReplayInv, Commit
  PROVE  ReplayInv'
<1>0. /\ LogType /\ GuestType /\ mode = "guest" /\ buffer # <<>> /\ AddAndCommit(<<>>)
      /\ UNCHANGED <<program, last, target, mode, boots, seen, step, source, timeline>>
  BY DEF ReplayInv, Commit, replayVars, guestVars
<1>1. last = target /\ Live
  BY <1>0 DEF ReplayInv, ModeInv, Following, Replayed, Stopped
<1>2. LogType' /\ oplog' = oplog /\ DeletedRegions' = DeletedRegions
  BY <1>0, CommitIs
<1>3. PICK at : LiveAt(at)
  BY <1>1 DEF Live
<1>4. pc' = pc /\ Op' = Op
  BY <1>0 DEF Op, pc
<1>5. LiveAt(at)'
  BY <1>0, <1>2, <1>3, <1>4 DEF LiveAt
<1>6. Live'
  BY <1>0, <1>1, <1>4, <1>5 DEF Live
<1> QED
  BY <1>0, <1>1, <1>2, <1>6, NextModeGuest DEF ReplayInv, GuestType

LEMMA RequestKeeps ==
  ASSUME ReplayInv, Request
  PROVE  ReplayInv'
<1>0. /\ LogType /\ GuestType /\ AddAndCommit(<<[kind |-> "Pending"]>>) /\ buffer' = <<>>
      /\ mode \in {"down", "loading", "guest"}
      /\ UNCHANGED <<program, last, target, regions, mode, boots, seen, step, source, timeline>>
  BY DEF ReplayInv, ModeInv, Request, replayVars, guestVars, AddAndCommit
<1>1. PICK e \in Entries : e = [kind |-> "Pending"] /\ e.kind = "Pending"
  <2>1. [kind |-> "Pending"] \in Entries
    BY EntryTyped
  <2> QED
    BY <2>1
<1>2. Longer(oplog, e, oplog') /\ LogType' /\ DeletedRegions' = DeletedRegions
  <2>1. Grows(e)
    BY <1>0, <1>1 DEF Grows
  <2> QED
    BY <1>0, <1>1, <2>1, GrowsIs
<1>3. oplog \in Seq(Entries) /\ Len(oplog) \in Nat /\ DeletedRegions \subseteq 2 .. Len(oplog)
      /\ Len(program) \in Nat
  BY <1>0, OplogIs, ProgramIs DEF GuestType
<1>4. ASSUME NEW n, NEW at, Recorded(oplog, DeletedRegions, program, timeline, at, n)
      PROVE  Recorded(oplog', DeletedRegions, program, timeline, at, n)
  BY <1>1, <1>2, <1>3, <1>4, RecordedHint
<1>5. /\ oplog' \in Seq(Entries) /\ Len(oplog') = Len(oplog) + 1 /\ oplog'[Len(oplog) + 1] = e
      /\ \A i \in 1 .. Len(oplog) : oplog'[i] = oplog[i]
  BY <1>2 DEF Longer
<1>6. Fresh(oplog, DeletedRegions) => Fresh(oplog', DeletedRegions)
  <2>1. \A i \in 2 .. Len(oplog') :
          i = Len(oplog) + 1 \/ (i \in 2 .. Len(oplog) /\ i \in 1 .. Len(oplog))
    BY <1>3, <1>5
  <2> QED
    BY <1>1, <1>5, <2>1 DEF Fresh
<1>7. Stopped => Stopped'
  BY <1>0, <1>2, <1>4, <1>6 DEF Stopped, LogOK
<1>8. \A t \in Nat : OnlyHints(oplog, t) => OnlyHints(oplog', t)
  <2> SUFFICES ASSUME NEW t \in Nat, OnlyHints(oplog, t), NEW i \in t + 1 .. Len(oplog')
               PROVE  oplog'[i].kind = "Pending"
    BY DEF OnlyHints
  <2>1. i = Len(oplog) + 1 \/ (i \in t + 1 .. Len(oplog) /\ i \in 1 .. Len(oplog))
    BY <1>3, <1>5
  <2> QED
    BY <1>1, <1>5, <2>1 DEF OnlyHints
<1>9. Replayed => Replayed'
  <2>1. target \in 1 .. Len(oplog) => target \in 1 .. Len(oplog') /\ target \in Nat
    BY <1>3, <1>5
  <2> QED
    BY <1>0, <1>2, <1>7, <1>8, <2>1 DEF Replayed
<1>10. Same(oplog, DeletedRegions, oplog', DeletedRegions, Len(oplog))
  BY <1>3, <1>5 DEF Same
<1>11. CASE mode = "down"
  <2>1. Stopped'
    BY <1>7, <1>11 DEF ReplayInv, ModeInv
  <2> QED
    BY <1>0, <1>2, <1>11, <2>1 DEF ReplayInv, GuestType, ModeInv
<1>12. CASE mode = "loading"
  <2>1. Loading'
    BY <1>0, <1>2, <1>6, <1>9, <1>12 DEF ReplayInv, ModeInv, Loading
  <2> QED
    BY <1>0, <1>2, <1>12, <2>1 DEF ReplayInv, GuestType, ModeInv
<1>13. CASE mode = "guest" /\ last # target
  <2>1. /\ Following /\ Replayed /\ last \in 1 .. target /\ Vis(oplog, regions, last + 1)
        /\ oplog = durable /\ regions = DeletedRegions /\ target \in 1 .. Len(oplog)
        /\ last + 1 \in 2 .. target
    BY <1>0, <1>13, FollowingReads DEF ReplayInv, ModeInv, Following
  <2>2. PICK v \in Nat : v = last + 1 /\ v \in 1 .. Len(oplog) /\ last <= Len(oplog) /\ last \in Nat
    BY <1>3, <2>1
  <2>3. Vis(oplog', regions', v) /\ oplog'[v] = oplog[v] /\ regions' = regions
    <3>1. Vis(oplog', DeletedRegions, v)
      BY <1>3, <1>5, <1>10, <2>1, <2>2, SameVis
    <3> QED
      BY <1>0, <1>5, <2>1, <2>2, <3>1
  <2>4. ASSUME NEW n, NEW at, FollowAt(n, at) PROVE FollowAt(n, at)'
    <3>1. Recorded(oplog', regions', program', timeline', at, n)
      BY <1>0, <1>4, <2>1, <2>4 DEF FollowAt
    <3>2. at[Len(seen)] \in Nat
      BY <1>0, <2>1, <2>4, FollowNext
    <3>3. Clear(oplog', DeletedRegions, at[Len(seen)], last)
      <4>1. Clear(oplog, DeletedRegions, at[Len(seen)], last)
        BY <2>1, <2>4 DEF FollowAt
      <4> QED
        BY <1>3, <1>5, <1>10, <2>2, <3>2, <4>1, SameClear
    <3> QED
      BY <1>0, <2>1, <2>4, <3>1, <3>3 DEF FollowAt
  <2>5. Lost => Lost'
    <3>1. ASSUME InvokedTwice PROVE InvokedTwice'
      <4>1. PICK i \in DOMAIN durable, j \in DOMAIN durable :
              /\ i < j /\ durable[i].kind = "Invoked" /\ durable[j].kind = "Invoked"
              /\ \A k \in (i + 1) .. (j - 1) : IsHint(durable[k])
        BY <3>1 DEF InvokedTwice
      <4>2. durable' = oplog'
        BY <1>0, <1>2, EmptyBuffer DEF LogType, oplog
      <4>3. i \in DOMAIN durable' /\ j \in DOMAIN durable' /\ durable'[i] = durable[i]
            /\ durable'[j] = durable[j] /\ \A k \in (i + 1) .. (j - 1) : durable'[k] = durable[k]
        <5>1. durable = oplog /\ Len(oplog) \in Nat /\ DOMAIN oplog = 1 .. Len(oplog)
              /\ 1 .. Len(oplog) \subseteq DOMAIN oplog'
          BY <1>3, <1>5, <2>1
        <5>2. i \in 1 .. Len(oplog) /\ j \in 1 .. Len(oplog)
              /\ \A k \in (i + 1) .. (j - 1) : k \in 1 .. Len(oplog)
          BY <4>1, <5>1
        <5>3. \A k \in 1 .. Len(oplog) : durable'[k] = durable[k]
          BY <1>5, <4>2, <5>1
        <5> QED
          BY <4>2, <5>1, <5>2, <5>3
      <4> QED
        BY <4>1, <4>3 DEF InvokedTwice, IsHint
    <3> QED
      BY <1>0, <2>2, <2>3, <3>1 DEF Lost
  <2>6. Following'
    BY <1>0, <1>9, <2>1, <2>2, <2>3, <2>4, <2>5 DEF Following
  <2> QED
    BY <1>0, <1>2, <1>13, <2>6 DEF ReplayInv, GuestType, ModeInv
<1>14. CASE mode = "guest" /\ last = target
  <2>1. Live
    BY <1>14 DEF ReplayInv, ModeInv
  <2>2. PICK at : LiveAt(at)
    BY <2>1 DEF Live
  <2>3. /\ Recorded(oplog, DeletedRegions, program, timeline, at, Len(seen))
        /\ Chain(oplog, DeletedRegions, program, timeline, at, Len(seen))
        /\ Anchored(oplog, DeletedRegions, at[0])
    BY <2>2 DEF LiveAt, Recorded
  <2>4. at[Len(seen)] \in Nat /\ at[Len(seen)] <= Len(oplog)
    BY <1>3, <2>3, ChainEnd
  <2>5. Clear(oplog, DeletedRegions, at[Len(seen)], Len(oplog))
          => Clear(oplog', DeletedRegions, at[Len(seen)], Len(oplog'))
    BY <1>1, <1>2, <1>3, <2>3, <2>4, AddedHint
  <2>6. Recorded(oplog', DeletedRegions, program, timeline, at, Len(seen))
    BY <1>4, <2>3
  <2>7. ASSUME NEW x \in Nat, NextVis(oplog, DeletedRegions, at[Len(seen)], x),
               OnlyHints(oplog, x)
        PROVE  /\ NextVis(oplog', DeletedRegions, at[Len(seen)], x) /\ OnlyHints(oplog', x)
               /\ oplog'[x] = oplog[x]
    <3>1. x <= Len(oplog)
      BY <2>7 DEF NextVis, Vis
    <3> QED
      BY <1>3, <1>5, <1>8, <1>10, <2>4, <2>7, <3>1, SameNext
  <2>8. pc' = pc /\ Op' = Op
    BY <1>0 DEF Op, pc
  <2>9. LiveAt(at)'
    BY <1>0, <1>2, <2>2, <2>5, <2>6, <2>7, <2>8 DEF LiveAt
  <2>10. Live'
    BY <1>0, <2>1, <2>8, <2>9 DEF Live
  <2>11. mode' = "guest" /\ last' = target'
    BY <1>0, <1>14
  <2> QED
    BY <1>0, <1>2, <2>10, <2>11, NextModeGuest DEF ReplayInv, GuestType
<1> QED
  BY <1>0, <1>11, <1>12, <1>13, <1>14

LEMMA CrashKeeps ==
  ASSUME ReplayInv, Crash
  PROVE  ReplayInv'
<1>0. /\ LogType /\ GuestType /\ mode \in {"loading", "guest", "done"} /\ mode' = "down"
      /\ buffer' = <<>> /\ durable' = durable
      /\ UNCHANGED <<program, last, target, boots, seen, source, timeline>>
  BY DEF ReplayInv, Crash, replayVars, ghosts
<1>1. LogType' /\ oplog' = durable /\ DeletedRegions' = DeletedRegions
  BY <1>0, DroppedIs
<1>2. CASE Stopped
  <2>1. oplog = durable
    BY <1>0, <1>2, EmptyBuffer DEF Stopped
  <2>2. Stopped'
    BY <1>0, <1>1, <1>2, <2>1 DEF Stopped
  <2> QED
    BY <1>0, <1>1, <2>2 DEF ReplayInv, GuestType, ModeInv
<1>3. CASE mode = "guest" /\ last = target
  <2>1. PICK at : LiveAt(at)
    BY <1>3 DEF ReplayInv, ModeInv, Live
  <2>2. Recorded(oplog, DeletedRegions, program, timeline, at, Len(seen))
    BY <2>1 DEF LiveAt
  <2>3. /\ oplog \in Seq(Entries) /\ durable \in Seq(Entries)
        /\ DeletedRegions \subseteq 2 .. Len(durable)
        /\ Same(oplog, DeletedRegions, durable, DeletedRegions, Len(durable))
        /\ \A i \in Len(durable) + 1 .. Len(oplog) : Buffered(oplog[i].kind)
        /\ Len(program) \in Nat
    BY <1>0, OplogIs, ProgramIs DEF LogType, GuestType
  <2>4. PICK m \in 0 .. Len(seen) :
          Recorded(durable, DeletedRegions, program, timeline, [j \in 0 .. m |-> at[j]], m)
    BY <2>2, <2>3, CutOff
  <2>5. LogOK(oplog', DeletedRegions', program, timeline)
    BY <1>1, <2>4 DEF LogOK
  <2>6. Stopped'
    BY <1>0, <2>5 DEF Stopped
  <2> QED
    BY <1>0, <1>1, <2>6 DEF ReplayInv, GuestType, ModeInv
<1> QED
  BY <1>0, <1>2, <1>3 DEF ReplayInv, ModeInv, Loading, Following, Replayed

-----------------------------------------------------------------------------
LEMMA ReplayInvInit ==
  ASSUME Init
  PROVE  ReplayInv
<1>1. /\ program \in Programs /\ durable = <<[kind |-> "Create"]>> /\ buffer = <<>>
      /\ mode = "down" /\ boots = 0 /\ last = 0 /\ target = 0
      /\ seen = <<>> /\ source = 0 /\ timeline = <<>>
  BY DEF Init
<1>2. PICK e \in Entries : e = [kind |-> "Create"] /\ e.kind = "Create"
  <2>1. [kind |-> "Create"] \in Entries
    BY DEF Entries
  <2> QED
    BY <2>1
<1>3. durable = <<e>> /\ durable \in Seq(Entries) /\ Len(durable) = 1 /\ DOMAIN durable = {1}
      /\ durable[1] = e
  BY <1>1, <1>2
<1>4. DeletedRegions = {}
  BY <1>2, <1>3 DEF DeletedRegions
<1>5. buffer \in Seq(Entries) /\ Len(buffer) = 0
  BY <1>1
<1>6. LogType
  BY <1>3, <1>4, <1>5 DEF LogType
<1>7. oplog = durable
  BY <1>1, <1>6, EmptyBuffer
<1>8. Fresh(oplog, DeletedRegions)
  BY <1>3, <1>4, <1>7 DEF Fresh
<1>9. Stopped
  BY <1>1, <1>8 DEF Stopped, LogOK
<1>10. GuestType
  BY <1>1 DEF GuestType
<1> QED
  BY <1>1, <1>6, <1>9, <1>10 DEF ReplayInv, ModeInv

LEMMA ReplayInvStep ==
  ASSUME ReplayInv, [Next]_vars, ~misread'
  PROVE  ReplayInv'
<1>1. CASE UNCHANGED vars
  <2>1. /\ UNCHANGED <<oplogVars, program, replayVars, guestVars, timeline, durable, buffer>>
        /\ UNCHANGED <<last, target, regions, mode, boots, seen, step, source>>
    BY <1>1 DEF vars, oplogVars, replayVars, guestVars, ghosts
  <2>2. oplog' = oplog /\ DeletedRegions' = DeletedRegions /\ LogType'
    BY <2>1, SameOplog DEF ReplayInv
  <2>3. GuestType'
    BY <2>1 DEF ReplayInv, GuestType
  <2>4. (InvokedTwice' <=> InvokedTwice) /\ pc' = pc /\ Op' = Op
    BY <2>1 DEF InvokedTwice, pc, Op
  <2>5. Stopped' <=> Stopped
    BY <2>1, <2>2 DEF Stopped
  <2>6. Replayed' <=> Replayed
    BY <2>1, <2>2, <2>5 DEF Replayed
  <2>7. Loading' <=> Loading
    BY <2>1, <2>2, <2>6 DEF Loading
  <2>8. Following' <=> Following
    BY <2>1, <2>2, <2>4, <2>6 DEF Following, FollowAt, Lost
  <2>9. Live' <=> Live
    BY <2>1, <2>2, <2>4 DEF Live, LiveAt
  <2>10. ModeInv'
    BY <2>1, <2>4, <2>5, <2>7, <2>8, <2>9 DEF ReplayInv, ModeInv
  <2> QED
    BY <2>2, <2>3, <2>10 DEF ReplayInv
<1>2. CASE HostCall
  BY <1>2, CallLiveKeeps, AddMarkerKeeps, ReadIndexKeeps, EndLiveKeeps, BeginOnceKeeps,
     PerformOnceKeeps, RecordOnceKeeps, StartJumpKeeps, JumpKeeps, NoJumpKeeps,
     ReplayCallKeeps, ReplayBeginKeeps, ReplayOnceKeeps DEF HostCall
<1>3. CASE Worker /\ ~HostCall
  BY <1>3, CreateInstanceKeeps, ResumeReplayKeeps, InvokeKeeps, CompleteKeeps DEF Worker
<1>4. CASE Commit \/ Request \/ Crash
  BY <1>4, CommitKeeps, RequestKeeps, CrashKeeps
<1> QED
  BY <1>1, <1>2, <1>3, <1>4 DEF Next

(* What was misread stays so.                                              *)
LEMMA MisreadStays ==
  ASSUME misread, [Next]_vars
  PROVE  misread'
BY DEF Next, Worker, HostCall, CreateInstance, ResumeReplay, Invoke, Complete, CallLive,
       AddMarker, ReadIndex, EndLive, BeginOnce, PerformOnce, RecordOnce, StartJump, Jump,
       NoJump, ReplayCall, ReplayBegin, ReplayOnce, Commit, Request, Crash, Fails, Takes,
       ghosts, vars

LEMMA ReplayInvHolds ==
  Spec => [](misread \/ ReplayInv)
<1>1. Init => (misread \/ ReplayInv)
  BY ReplayInvInit
<1>2. (misread \/ ReplayInv) /\ [Next]_vars => (misread \/ ReplayInv)'
  BY ReplayInvStep, MisreadStays
<1> QED
  BY <1>1, <1>2, PTL DEF Spec

(* A guest that is replayed gets back what the guest before it saw, call   *)
(* by call, whatever jumps and retried regions deleted and wherever the    *)
(* executor stopped: get_oplog_entry, behind the deleted regions and the   *)
(* hints, yields the entry of the call the guest makes, until a host call  *)
(* was misled by a request.                                                *)
THEOREM ReplayGivesBackThePast ==
  Spec => []ReplaySeesThePast
<1>1. misread \/ ReplayInv => ReplaySeesThePast
  <2> SUFFICES ASSUME ReplayInv, mode = "guest", last # target PROVE IsPrefix(seen, timeline)
    BY DEF ReplaySeesThePast, IsLive
  <2>1. seen \in Seq(Answers) /\ timeline \in Seq(Answers) /\ Len(seen) \in Nat
        /\ Len(timeline) \in Nat
    BY DEF ReplayInv, GuestType
  <2>2. Agrees(seen, timeline)
    <3>1. CASE Lost
      <4>1. Len(seen) = 0
        BY <3>1 DEF Lost
      <4> QED
        BY <2>1, <4>1 DEF Agrees
    <3>2. CASE \E n, at : FollowAt(n, at)
      BY <3>2 DEF FollowAt
    <3> QED
      BY <3>1, <3>2 DEF ReplayInv, ModeInv, Following
  <2>3. Len(seen) <= Len(timeline) /\ \A k \in 1 .. Len(seen) : seen[k] = timeline[k]
    BY <2>2 DEF Agrees
  <2>4. SubSeq(seen, 1, Len(seen)) = SubSeq(timeline, 1, Len(seen))
    BY <2>1, <2>3
  <2> QED
    BY <2>3, <2>4 DEF IsPrefix
<1>2. Spec => [](misread \/ ReplayInv)
  BY ReplayInvHolds
<1> QED
  BY <1>1, <1>2, PTL

(* A worker is lost only when a host call was misled by a request, or when *)
(* its invocation was recorded twice with nothing but hints in between:    *)
(* replay meets no other entry that it does not expect (the errors of      *)
(* get_oplog_entry and of the host calls).                                 *)
THEOREM ReplayGetsStuckTwoWays ==
  Spec => []StuckInTwoWays
<1>1. misread \/ ReplayInv => StuckInTwoWays
  BY DEF ReplayInv, ModeInv, StuckInTwoWays
<1>2. Spec => [](misread \/ ReplayInv)
  BY ReplayInvHolds
<1> QED
  BY <1>1, <1>2, PTL

-----------------------------------------------------------------------------
(* What a log keeps of the calls: the calls whose results were committed,  *)
(* the regions that were ended, and the writes that were performed.        *)

IsCall(op) == op \in {"call", "part", "once"}
Opens(op) == op \in {"begin", "open"}
Closing(op) == IF op = "begin" THEN "end" ELSE "close"

(* The region that begins with the k-th call ends with the e-th.           *)
Closes(p, k, e) ==
  /\ Opens(p[k]) /\ k < e /\ p[e] = Closing(p[k])
  /\ \A j \in k + 1 .. e - 1 : p[j] \notin {p[k], Closing(p[k])}

Bracketed(p) ==
  \A k \in 1 .. Len(p) : Opens(p[k]) =>
    \E e \in k + 1 .. Len(p) :
      Closes(p, k, e) /\ (p[k] = "open" => \A j \in k + 1 .. e - 1 : p[j] # "once")

(* InRegion and MayRepeat, of a program.                                   *)
Inside(p, n) ==
  \E o \in {"begin", "open"} :
    \E i \in 1 .. n - 1 : p[i] = o /\ \A j \in i .. n - 1 : p[j] # Closing(o)

Repeats(p, n) ==
  \/ Inside(p, n)
  \/ \E i \in 1 .. n - 1, j \in n + 1 .. Len(p) : p[i] = "save" /\ p[j] = "back"

SideEffect(e) == e.kind \in {"Write", "Completed"}

(* The entry at j ends the region that begins with the entry at a.         *)
EndsAt(D, j, op, a) ==
  D[j].kind = (IF op = "begin" THEN "EndAtomic" ELSE "EndWrite") /\ D[j].begin = a

Matched(D, p, at, n) ==
  \A k \in 1 .. n, e \in 1 .. n : Closes(p, k, e) => EndsAt(D, at[e], p[k], at[k])

(* The region that begins at a will be found to have ended: its end comes  *)
(* after something visible, and something comes after that.                *)
RegionOver(D, L, R, op, a) ==
  \E j \in Nat, x \in Nat :
    /\ a < x /\ x <= j /\ j <= L /\ x < L /\ Vis(D, R, x)
    /\ EndsAt(D, j, op, a)
    /\ op = "open" => \A w \in a + 1 .. j - 1 : ~SideEffect(D[w])

(* The writes that must not be repeated, and those that were performed.    *)
OnlyOnce(p, q) == q \in 1 .. Len(p) /\ p[q] = "once" /\ ~Repeats(p, q)

Performed(F, q) == \E i \in DOMAIN F : F[i] = q

(* What must not be made again: the calls that were committed, and these   *)
(* writes.                                                                 *)
Protected(p, K, F, c) ==
  \/ c \in 1 .. K /\ IsCall(p[c])
  \/ OnlyOnce(p, c) /\ Performed(F, c)

Committed(p, at, n, L, K) == \A c \in 1 .. K : IsCall(p[c]) => c <= n /\ at[c] <= L

(* A region before that will not be repeated.                              *)
RegionsOver(D, L, R, p, at, K, F) ==
  \A c \in Nat, k \in Nat :
    Protected(p, K, F, c) /\ k \in 1 .. c - 1 /\ Opens(p[k]) => RegionOver(D, L, R, p[k], at[k])

(* The k-th call begins with the entry at a.                               *)
Begun(D, R, p, at, n, k, a) ==
  \/ k \in 1 .. n /\ a = at[k]
  \/ k = n + 1 /\ k <= Len(p) /\ NextVis(D, R, at[n], a)

(* A batch was ended before another side effect.                           *)
EndedBefore(D, R, a, w) ==
  \E j \in Nat, x \in Nat :
    a < x /\ x <= j /\ j < w /\ Vis(D, R, x) /\ EndsAt(D, j, "open", a)

BatchesEnd(D, R, p, at, n) ==
  \A k \in Nat, a \in Nat : Begun(D, R, p, at, n, k, a) /\ p[k] = "open" =>
    \A w \in a + 1 .. Len(D) : SideEffect(D[w]) => EndedBefore(D, R, a, w)

(* A write was performed if it is in the log, or nothing but its end.      *)
Written(D, R, p, at, n, F) ==
  \A q \in Nat : OnlyOnce(p, q) =>
    /\ q <= n => Performed(F, q)
    /\ Performed(F, q) =>
         q <= n \/ (q = n + 1 /\ \E x \in Nat : /\ NextVis(D, R, at[n], x)
                                                /\ D[x].kind = "BeginWrite")

Account(D, L, R, p, at, n, K, F) ==
  /\ Matched(D, p, at, n) /\ Committed(p, at, n, L, K) /\ RegionsOver(D, L, R, p, at, K, F)
  /\ BatchesEnd(D, R, p, at, n) /\ Written(D, R, p, at, n, F)

(* Every call but a jump that is not taken has an entry of its own.        *)
LEMMA ChainStrict ==
  ASSUME NEW D \in Seq(Entries), NEW R, NEW p, NEW tl, NEW at, NEW n,
         Chain(D, R, p, tl, at, n), NEW j \in 0 .. n, NEW k \in 0 .. n, j < k, p[k] # "back"
  PROVE  /\ at[j] < at[k] /\ Vis(D, R, at[k]) /\ at[j] \in Nat /\ at[k] \in Nat
         /\ at[k] <= Len(D)
<1>0. n \in Nat /\ at \in [0 .. n -> 2 .. Len(D)] /\ Len(D) \in Nat
  BY DEF Chain
<1>1. k \in 1 .. n /\ k - 1 \in 0 .. n /\ j <= k - 1
  BY <1>0
<1>2. PICK a \in Nat, b \in Nat, c \in Nat : a = at[k - 1] /\ b = at[k] /\ c = at[j] /\ c <= a
                                            /\ b <= Len(D)
  <2>1. at[k - 1] \in Nat /\ at[k] \in Nat /\ at[j] \in Nat /\ at[k] <= Len(D)
    BY <1>0, <1>1
  <2>2. at[j] <= at[k - 1]
    BY <1>1 DEF Chain
  <2> QED
    BY <2>1, <2>2
<1>3. Link(D, R, p[k], a, b, tl[k])
  BY <1>1, <1>2 DEF Chain
<1>4. a < b /\ Vis(D, R, b)
  <2>1. CASE NextVis(D, R, a, b)
    BY <2>1 DEF NextVis
  <2>2. CASE \E x \in Nat, y \in Nat : Once(D, R, a, x, y, b)
    <3>1. PICK x \in Nat, y \in Nat : Once(D, R, a, x, y, b)
      BY <2>2
    <3> QED
      BY <3>1 DEF Once, NextVis
  <2> QED
    BY <1>3, <2>1, <2>2 DEF Link
<1> QED
  BY <1>2, <1>4

(* A region whose end is in the log counts as ended.                       *)
LEMMA RegionIsOver ==
  ASSUME NEW D \in Seq(Entries), NEW R, NEW p, NEW tl, NEW at, NEW n,
         Chain(D, R, p, tl, at, n), Matched(D, p, at, n), BatchesEnd(D, R, p, at, n),
         NEW k \in 1 .. n, NEW e \in 1 .. n, Closes(p, k, e),
         NEW y \in Nat, Vis(D, R, y), at[k] < y, y # at[e]
  PROVE  RegionOver(D, Len(D), R, p[k], at[k])
<1>0. Len(D) \in Nat /\ n \in Nat /\ y <= Len(D) /\ k \in 0 .. n /\ e \in 0 .. n /\ k \in Nat
  BY DEF Chain, Vis
<1>1. k < e /\ p[e] # "back" /\ Opens(p[k])
  BY DEF Closes, Closing
<1>2. PICK a \in Nat, b \in Nat : a = at[k] /\ b = at[e] /\ a < b /\ Vis(D, R, b) /\ b <= Len(D)
  BY <1>0, <1>1, ChainStrict
<1>3. EndsAt(D, b, p[k], a)
  BY <1>2 DEF Matched
<1>4. CASE p[k] = "open" => \A w \in a + 1 .. b - 1 : ~SideEffect(D[w])
  <2>1. PICK x \in Nat : a < x /\ x <= b /\ x < Len(D) /\ Vis(D, R, x)
    <3>1. CASE y < b
      BY <1>0, <1>2, <3>1
    <3>2. CASE y > b
      BY <1>0, <1>2, <3>2
    <3> QED
      BY <1>2, <3>1, <3>2
  <2> QED
    BY <1>2, <1>3, <1>4, <2>1 DEF RegionOver
<1>5. CASE p[k] = "open" /\ \E w \in a + 1 .. b - 1 : SideEffect(D[w])
  <2> DEFINE W == {w \in a + 1 .. b - 1 : SideEffect(D[w])}
  <2>1. W \in SUBSET Nat /\ W # {}
    BY <1>5
  <2>2. PICK w \in W : \A v \in W : w <= v
    <3> HIDE DEF W
    <3> QED
      BY <2>1, LeastIndex
  <2>3. w \in a + 1 .. Len(D) /\ SideEffect(D[w]) /\ w \in Nat /\ w < b
    BY <1>0, <1>2, <2>2
  <2>4. Begun(D, R, p, at, n, k, a)
    BY <1>2 DEF Begun
  <2>5. PICK j \in Nat, x \in Nat :
          a < x /\ x <= j /\ j < w /\ Vis(D, R, x) /\ EndsAt(D, j, "open", a)
    BY <1>0, <1>5, <2>3, <2>4 DEF BatchesEnd, EndedBefore
  <2>6. \A v \in a + 1 .. j - 1 : ~SideEffect(D[v])
    <3> SUFFICES ASSUME NEW v \in a + 1 .. j - 1, SideEffect(D[v]) PROVE FALSE
      OBVIOUS
    <3>1. v \in W
      BY <2>3, <2>5
    <3> QED
      BY <2>2, <2>3, <2>5, <3>1
  <2>7. j <= Len(D) /\ x < Len(D)
    BY <1>0, <1>2, <2>3, <2>5
  <2> QED
    BY <1>2, <1>5, <2>5, <2>6, <2>7 DEF RegionOver
<1> QED
  BY <1>4, <1>5

(* The entries of a call do not depend on what it was answered.            *)
LEMMA LinkUnique ==
  ASSUME NEW D \in Seq(Entries), NEW R, NEW op, NEW a \in Nat, NEW b \in Nat, NEW c \in Nat,
         NEW u, NEW v, Link(D, R, op, a, b, u), Link(D, R, op, a, c, v)
  PROVE  b = c
<1>1. CASE op = "back"
  BY <1>1 DEF Link, Records, Marks
<1>2. CASE op = "once"
  <2>1. PICK x \in Nat, y \in Nat : Once(D, R, a, x, y, b)
    BY <1>2 DEF Link, Records, Marks
  <2>2. PICK z \in Nat, w \in Nat : Once(D, R, a, z, w, c)
    BY <1>2 DEF Link, Records, Marks
  <2>3. x = z
    BY <2>1, <2>2, OneNext DEF Once
  <2>4. y = w
    BY <2>1, <2>2, <2>3, OneNext DEF Once
  <2> QED
    BY <2>1, <2>2, <2>4, OneNext DEF Once
<1>3. CASE op # "back" /\ op # "once"
  <2>1. NextVis(D, R, a, b) /\ NextVis(D, R, a, c)
    BY <1>3 DEF Link
  <2> QED
    BY <2>1, OneNext
<1> QED
  BY <1>1, <1>2, <1>3

(* The first entry of a call comes after its first position.               *)
LEMMA LinkMoves ==
  ASSUME NEW D, NEW R, NEW op, NEW a \in Nat, NEW b \in Nat, NEW u, Link(D, R, op, a, b, u)
  PROVE  /\ op = "back" <=> b = a
         /\ op # "back" => \E x \in Nat : NextVis(D, R, a, x) /\ x <= b
         /\ op \notin {"back", "once"} => NextVis(D, R, a, b)
<1>1. CASE op = "back"
  BY <1>1 DEF Link, Records, Marks
<1>2. CASE op = "once"
  <2>1. PICK x \in Nat, y \in Nat : Once(D, R, a, x, y, b)
    BY <1>2 DEF Link, Records, Marks
  <2>2. a < x /\ x < y /\ y < b /\ NextVis(D, R, a, x)
    BY <2>1 DEF Once, NextVis
  <2> QED
    BY <1>2, <2>2
<1>3. CASE op # "back" /\ op # "once"
  <2>1. NextVis(D, R, a, b)
    BY <1>3 DEF Link
  <2> QED
    BY <1>3, <2>1 DEF NextVis
<1> QED
  BY <1>1, <1>2, <1>3

(* The last invocation is the same, if calls or nothing come after it.     *)
LEMMA ChainUnique ==
  ASSUME NEW D \in Seq(Entries), NEW R, NEW p, NEW tl, NEW ul, NEW at, NEW to, NEW n, NEW m,
         Chain(D, R, p, tl, at, n), Chain(D, R, p, ul, to, m), at[0] = to[0]
  PROVE  \A k \in 0 .. n : k <= m => at[k] = to[k]
<1>0. n \in Nat /\ m \in Nat /\ Len(D) \in Nat /\ at \in [0 .. n -> 2 .. Len(D)]
      /\ to \in [0 .. m -> 2 .. Len(D)]
  BY DEF Chain
<1> DEFINE Bad == {k \in 0 .. n : k <= m /\ at[k] # to[k]}
<1>1. SUFFICES ASSUME Bad # {} PROVE FALSE
  OBVIOUS
<1>2. PICK k \in Bad : \A i \in Bad : k <= i
  <2>1. Bad \in SUBSET Nat
    BY <1>0
  <2> HIDE DEF Bad
  <2> QED
    BY <1>1, <2>1, LeastIndex
<1>3. k \in 0 .. n /\ k <= m /\ at[k] # to[k]
  BY <1>2
<1>4. k # 0 /\ k \in Nat
  BY <1>0, <1>3
<1>5. k \in 1 .. n /\ k \in 1 .. m /\ k - 1 \in 0 .. n /\ k - 1 <= m /\ k - 1 \in 0 .. m
      /\ k \in 0 .. m
  BY <1>0, <1>3, <1>4
<1>6. at[k - 1] = to[k - 1]
  BY <1>2, <1>4, <1>5
<1>7. PICK a \in Nat, b \in Nat, c \in Nat : a = at[k - 1] /\ b = at[k] /\ c = to[k]
  <2>1. at[k - 1] \in 2 .. Len(D) /\ at[k] \in 2 .. Len(D) /\ to[k] \in 2 .. Len(D)
    BY <1>0, <1>3, <1>5
  <2> QED
    BY <1>0, <2>1
<1>8. Link(D, R, p[k], a, b, tl[k]) /\ Link(D, R, p[k], a, c, ul[k])
  BY <1>5, <1>6, <1>7 DEF Chain
<1>9. b = c
  BY <1>8, LinkUnique
<1> QED
  BY <1>3, <1>7, <1>9

(* No further invocation comes after the one at a.                         *)
LastBegin(D, R, a) == \A y \in Nat : NextVis(D, R, a, y) => D[y].kind # "Invoked"

LEMMA BeginsUnique ==
  ASSUME NEW D \in Seq(Entries), NEW R, NEW a \in Nat, NEW b \in Nat, Begins(D, R, a),
         Begins(D, R, b), LastBegin(D, R, a)
  PROVE  b <= a
<1> SUFFICES ASSUME a < b PROVE FALSE
  OBVIOUS
<1>0. Len(D) \in Nat /\ a \in 2 .. Len(D) /\ b \in 2 .. Len(D)
  BY DEF Begins
<1>1. Vis(D, R, b)
  BY DEF Begins, Vis
<1> DEFINE V == {i \in a + 1 .. b : Vis(D, R, i)}
<1>2. V \in SUBSET Nat /\ b \in V
  BY <1>0, <1>1
<1>3. PICK y \in V : \A i \in V : y <= i
  <2> HIDE DEF V
  <2> QED
    BY <1>2, LeastIndex
<1>4. y \in a + 1 .. b /\ Vis(D, R, y) /\ y \in Nat
  BY <1>0, <1>3
<1>5. Clear(D, R, a, y - 1)
  <2> SUFFICES ASSUME NEW i \in a + 1 .. y - 1, Vis(D, R, i) PROVE FALSE
    BY DEF Clear
  <2>1. i \in V /\ i < y
    BY <1>0, <1>4
  <2> QED
    BY <1>3, <1>4, <2>1
<1>6. NextVis(D, R, a, y)
  BY <1>0, <1>4, <1>5 DEF NextVis
<1>7. y \in 2 .. b /\ D[y].kind # "Pending"
  BY <1>0, <1>4 DEF Vis
<1>8. D[y].kind = "Invoked"
  BY <1>7 DEF Begins
<1> QED
  BY <1>4, <1>6, <1>8 DEF LastBegin

(* It does not, once a call has its first entry.                           *)
NoBackFirst(p) == 1 <= Len(p) => p[1] # "back"

LEMMA CallsBegin ==
  ASSUME NEW D \in Seq(Entries), NEW R, NEW p, NEW tl, NEW at, NEW n, Len(p) \in Nat,
         Chain(D, R, p, tl, at, n), NoBackFirst(p),
         \/ n # 0
         \/ Clear(D, R, at[n], Len(D))
         \/ \E x \in Nat : NextVis(D, R, at[n], x) /\ D[x].kind # "Invoked"
  PROVE  LastBegin(D, R, at[0]) /\ Begins(D, R, at[0]) /\ at[0] \in Nat
<1>0. n \in Nat /\ at \in [0 .. n -> 2 .. Len(D)] /\ Len(D) \in Nat /\ Begins(D, R, at[0])
  BY DEF Chain
<1>1. at[0] \in Nat
  BY <1>0 DEF Begins
<1> SUFFICES ASSUME NEW y \in Nat, NextVis(D, R, at[0], y), D[y].kind = "Invoked" PROVE FALSE
  BY <1>0, <1>1 DEF LastBegin
<1>2. CASE n # 0
  <2>1. 1 \in 1 .. n /\ 1 \in 0 .. n /\ 1 - 1 = 0
    BY <1>0, <1>2
  <2>2. PICK b \in Nat : b = at[1] /\ Link(D, R, p[1], at[0], b, tl[1])
    <3>1. at[1] \in 2 .. Len(D)
      BY <1>0, <2>1
    <3>2. Link(D, R, p[1], at[1 - 1], at[1], tl[1])
      BY <2>1 DEF Chain
    <3> QED
      BY <1>0, <2>1, <3>1, <3>2
  <2>0. p[1] # "back"
    <3>1. n <= Len(p)
      BY DEF Chain
    <3> QED
      BY <1>0, <1>2, <3>1 DEF NoBackFirst
  <2>3. CASE p[1] = "once"
    <3>1. PICK x \in Nat, z \in Nat : Once(D, R, at[0], x, z, b)
      BY <2>2, <2>3 DEF Link, Records, Marks
    <3>2. x = y
      BY <1>1, <3>1, OneNext DEF Once
    <3> QED
      BY <3>1, <3>2 DEF Once
  <2>4. CASE p[1] # "once"
    <3>1. NextVis(D, R, at[0], b) /\ (Records(p[1], D[b].kind) \/ Marks(p[1], D[b].kind))
      BY <2>0, <2>2, <2>4 DEF Link
    <3>2. b = y
      BY <1>1, <3>1, OneNext
    <3> QED
      BY <3>1, <3>2 DEF Records, Marks
  <2> QED
    BY <2>3, <2>4
<1>3. CASE n = 0 /\ Clear(D, R, at[n], Len(D))
  BY <1>0, <1>1, <1>3 DEF Clear, NextVis, Vis
<1>4. CASE n = 0 /\ \E x \in Nat : NextVis(D, R, at[n], x) /\ D[x].kind # "Invoked"
  <2>1. PICK x \in Nat : NextVis(D, R, at[0], x) /\ D[x].kind # "Invoked"
    BY <1>4
  <2>2. x = y
    BY <1>1, <2>1, OneNext
  <2> QED
    BY <2>1, <2>2
<1> QED
  BY <1>2, <1>3, <1>4

(* What is recorded after a chain is no invocation.                        *)
LEMMA RestBegins ==
  ASSUME NEW D, NEW R, NEW p, NEW a, NEW n, Rest(D, R, p, a, n)
  PROVE  \/ Clear(D, R, a, Len(D))
         \/ \E x \in Nat : NextVis(D, R, a, x) /\ D[x].kind # "Invoked"
BY DEF Rest, Unanswered, Marks

LEMMA ChainsAgree ==
  ASSUME NEW D \in Seq(Entries), NEW R, NEW p, NEW tl, NEW ul, NEW at, NEW to, NEW n, NEW m,
         Len(p) \in Nat, Chain(D, R, p, tl, at, n), Chain(D, R, p, ul, to, m), NoBackFirst(p),
         \/ Clear(D, R, at[n], Len(D))
         \/ \E x \in Nat : NextVis(D, R, at[n], x) /\ D[x].kind # "Invoked",
         \/ Clear(D, R, to[m], Len(D))
         \/ \E x \in Nat : NextVis(D, R, to[m], x) /\ D[x].kind # "Invoked"
  PROVE  at[0] = to[0] /\ \A k \in 0 .. n : k <= m => at[k] = to[k]
<1>1. LastBegin(D, R, at[0]) /\ Begins(D, R, at[0]) /\ at[0] \in Nat
  BY CallsBegin
<1>2. LastBegin(D, R, to[0]) /\ Begins(D, R, to[0]) /\ to[0] \in Nat
  BY CallsBegin
<1>3. at[0] = to[0]
  <2>1. at[0] <= to[0]
    BY <1>1, <1>2, BeginsUnique
  <2>2. to[0] <= at[0]
    BY <1>1, <1>2, BeginsUnique
  <2> QED
    BY <1>1, <1>2, <2>1, <2>2
<1> QED
  BY <1>3, ChainUnique

(* Nothing but jumps that are not taken come after the last entry.         *)
LEMMA OnlyBacks ==
  ASSUME NEW D \in Seq(Entries), NEW R, NEW p, NEW tl, NEW at, NEW n, Len(p) \in Nat,
         Chain(D, R, p, tl, at, n), NEW m \in 0 .. n, Clear(D, R, at[m], Len(D))
  PROVE  \A k \in m + 1 .. n : p[k] = "back"
<1>0. n \in Nat /\ at \in [0 .. n -> 2 .. Len(D)] /\ Len(D) \in Nat /\ m \in Nat
  BY DEF Chain
<1> SUFFICES ASSUME NEW k \in m + 1 .. n, p[k] # "back" PROVE FALSE
  OBVIOUS
<1>1. m \in 0 .. n /\ k \in 0 .. n /\ m < k
  BY <1>0
<1>2. at[m] < at[k] /\ Vis(D, R, at[k]) /\ at[m] \in Nat /\ at[k] \in Nat /\ at[k] <= Len(D)
  BY <1>1, ChainStrict
<1> QED
  BY <1>0, <1>2 DEF Clear

(* A chain of the same log that comes to the end of it.                    *)
LEMMA AccountMove ==
  ASSUME NEW D \in Seq(Entries), NEW L \in Nat, NEW R, NEW p, NEW tl, NEW ul, NEW at, NEW to,
         NEW n, NEW m, NEW K \in Nat, NEW F, Len(p) \in Nat, NoBackFirst(p),
         Chain(D, R, p, tl, at, n), Chain(D, R, p, ul, to, m),
         \/ Clear(D, R, at[n], Len(D))
         \/ \E x \in Nat : NextVis(D, R, at[n], x) /\ D[x].kind # "Invoked",
         Clear(D, R, to[m], Len(D)), Account(D, L, R, p, at, n, K, F),
         \A k \in n + 2 .. m : p[k] = "back",
         n < m => /\ \A k \in 1 .. n : Closes(p, k, n + 1) =>
                       EndsAt(D, to[n + 1], p[k], to[k])
                  /\ OnlyOnce(p, n + 1) => Performed(F, n + 1)
  PROVE  Account(D, L, R, p, to, m, K, F)
<1>0. /\ n \in Nat /\ m \in Nat /\ Len(D) \in Nat /\ at \in [0 .. n -> 2 .. Len(D)]
      /\ to \in [0 .. m -> 2 .. Len(D)] /\ n <= Len(p) /\ m <= Len(p)
  BY DEF Chain
<1>1. \A k \in 0 .. n : k <= m => at[k] = to[k]
  BY ChainsAgree
<1>2. /\ Matched(D, p, at, n) /\ Committed(p, at, n, L, K) /\ RegionsOver(D, L, R, p, at, K, F)
      /\ BatchesEnd(D, R, p, at, n) /\ Written(D, R, p, at, n, F)
  BY DEF Account
<1>3. m < n => \A k \in m + 1 .. n : p[k] = "back"
  <2> SUFFICES ASSUME m < n PROVE \A k \in m + 1 .. n : p[k] = "back"
    OBVIOUS
  <2>1. m \in 0 .. n /\ at[m] = to[m]
    BY <1>0, <1>1
  <2> QED
    BY <2>1, OnlyBacks
<1>4. ASSUME NEW x \in Nat, NextVis(D, R, at[n], x) PROVE n < m
  <2> SUFFICES ASSUME m <= n PROVE FALSE
    BY <1>0
  <2>1. m \in 0 .. n /\ n \in 0 .. n /\ at[m] = to[m] /\ at[m] <= at[n] /\ at[m] \in Nat
        /\ at[n] \in Nat
    BY <1>0, <1>1 DEF Chain
  <2>2. at[n] < x /\ Vis(D, R, x) /\ x <= Len(D)
    BY <1>4 DEF NextVis, Vis
  <2> QED
    BY <1>0, <2>1, <2>2 DEF Clear
<1>5. Matched(D, p, to, m)
  <2> SUFFICES ASSUME NEW k \in 1 .. m, NEW e \in 1 .. m, Closes(p, k, e)
               PROVE  EndsAt(D, to[e], p[k], to[k])
    BY DEF Matched
  <2>1. k < e /\ p[e] # "back"
    BY DEF Closes, Closing
  <2>2. CASE e <= n
    <3>1. e \in 1 .. n /\ k \in 1 .. n /\ at[k] = to[k] /\ at[e] = to[e]
      <4>1. e \in 1 .. n /\ k \in 1 .. n /\ k \in 0 .. n /\ e \in 0 .. n /\ k <= m /\ e <= m
        BY <1>0, <2>1, <2>2
      <4> QED
        BY <1>1, <4>1
    <3> QED
      BY <1>2, <3>1 DEF Matched
  <2>3. CASE e = n + 1
    <3>1. n < m /\ k \in 1 .. n
      BY <1>0, <2>1, <2>3
    <3> QED
      BY <2>3, <3>1
  <2>4. CASE e > n + 1
    BY <1>0, <2>1, <2>4
  <2> QED
    BY <1>0, <2>2, <2>3, <2>4
<1>6. Committed(p, to, m, L, K)
  <2> SUFFICES ASSUME NEW c \in 1 .. K, IsCall(p[c]) PROVE c <= m /\ to[c] <= L
    BY DEF Committed
  <2>1. c <= n /\ at[c] <= L /\ c \in 0 .. n
    BY <1>0, <1>2 DEF Committed
  <2>2. c <= m
    BY <1>0, <1>3, <2>1 DEF IsCall
  <2> QED
    BY <1>1, <2>1, <2>2
<1>7. RegionsOver(D, L, R, p, to, K, F)
  <2> SUFFICES ASSUME NEW c \in Nat, NEW k \in Nat, Protected(p, K, F, c), k \in 1 .. c - 1,
                      Opens(p[k])
               PROVE  RegionOver(D, L, R, p[k], to[k])
    BY DEF RegionsOver
  <2>1. RegionOver(D, L, R, p[k], at[k])
    BY <1>2 DEF RegionsOver
  <2>2. c <= n + 1
    BY <1>0, <1>2 DEF Protected, Committed, Written
  <2>3. k \in 0 .. n /\ k <= m
    <3>1. k \in 0 .. n
      BY <1>0, <2>2
    <3>2. ASSUME ~(k <= m) PROVE FALSE
      <4>1. m < n /\ k \in m + 1 .. n
        BY <1>0, <3>1, <3>2
      <4>2. p[k] = "back"
        BY <1>3, <4>1
      <4> QED
        BY <4>2 DEF Opens
    <3> QED
      BY <3>1, <3>2
  <2> QED
    BY <1>1, <2>1, <2>3
<1>8. BatchesEnd(D, R, p, to, m)
  <2> SUFFICES ASSUME NEW k \in Nat, NEW a \in Nat, Begun(D, R, p, to, m, k, a), p[k] = "open"
               PROVE  \A w \in a + 1 .. Len(D) : SideEffect(D[w]) => EndedBefore(D, R, a, w)
    BY DEF BatchesEnd
  <2>1. k \in 1 .. m /\ a = to[k]
    <3>1. ~NextVis(D, R, to[m], a)
      BY <1>0 DEF Clear, NextVis, Vis
    <3> QED
      BY <3>1 DEF Begun
  <2>2. CASE k <= n
    <3>1. Begun(D, R, p, at, n, k, a)
      BY <1>0, <1>1, <2>1, <2>2 DEF Begun
    <3> QED
      BY <1>2, <3>1 DEF BatchesEnd
  <2>3. CASE k = n + 1
    <3>1. n \in 0 .. n /\ n <= m /\ k - 1 = n
      BY <1>0, <2>1, <2>3
    <3>2. at[n] = to[n]
      BY <1>1, <3>1
    <3>3. Link(D, R, p[k], at[n], a, ul[k]) /\ at[n] \in Nat
      BY <1>0, <2>1, <3>1, <3>2 DEF Chain
    <3>4. NextVis(D, R, at[n], a)
      BY <3>3, LinkMoves
    <3>5. Begun(D, R, p, at, n, k, a)
      BY <1>0, <2>1, <2>3, <3>4 DEF Begun
    <3> QED
      BY <1>2, <3>5 DEF BatchesEnd
  <2>4. CASE k > n + 1
    BY <1>0, <2>1, <2>4
  <2> QED
    BY <1>0, <2>2, <2>3, <2>4
<1>9. Written(D, R, p, to, m, F)
  <2> SUFFICES ASSUME NEW q \in Nat, OnlyOnce(p, q)
               PROVE  (q <= m => Performed(F, q)) /\ (Performed(F, q) => q <= m)
    BY DEF Written
  <2>0. p[q] = "once" /\ q >= 1
    BY DEF OnlyOnce
  <2>1. ASSUME q <= m PROVE Performed(F, q)
    <3>1. q <= n \/ q = n + 1
      <4> SUFFICES ASSUME ~(q <= n), q # n + 1 PROVE FALSE
        OBVIOUS
      <4>1. q \in n + 2 .. m
        BY <1>0, <2>1
      <4> QED
        BY <2>0, <4>1
    <3> QED
      BY <1>0, <1>2, <2>1, <3>1 DEF Written
  <2>2. ASSUME Performed(F, q) PROVE q <= m
    <3>1. CASE q <= n
      BY <1>0, <1>3, <2>0, <3>1
    <3>2. CASE ~(q <= n)
      <4>1. q = n + 1 /\ \E x \in Nat : NextVis(D, R, at[n], x)
        BY <1>2, <2>2, <3>2 DEF Written
      <4>2. n < m
        BY <1>4, <4>1
      <4> QED
        BY <1>0, <4>1, <4>2
    <3> QED
      BY <3>1, <3>2
  <2> QED
    BY <2>1, <2>2
<1> QED
  BY <1>5, <1>6, <1>7, <1>8, <1>9 DEF Account

(* The same when what was unanswered has been answered from the log.       *)
LEMMA AccountTurn ==
  ASSUME NEW D \in Seq(Entries), NEW L \in Nat, NEW R, NEW p, NEW tl, NEW ul, NEW at, NEW to,
         NEW n, NEW m, NEW K \in Nat, NEW F, Len(p) \in Nat, NoBackFirst(p),
         Recorded(D, R, p, tl, at, n), Chain(D, R, p, ul, to, m),
         Clear(D, R, to[m], Len(D)), Account(D, L, R, p, at, n, K, F)
  PROVE  Account(D, L, R, p, to, m, K, F)
<1>0. /\ Chain(D, R, p, tl, at, n) /\ Rest(D, R, p, at[n], n)
      /\ n \in Nat /\ m \in Nat /\ Len(D) \in Nat /\ at \in [0 .. n -> 2 .. Len(D)]
      /\ to \in [0 .. m -> 2 .. Len(D)] /\ n <= Len(p) /\ m <= Len(p)
  <2>1. Chain(D, R, p, tl, at, n) /\ Rest(D, R, p, at[n], n)
    BY DEF Recorded
  <2>2. n \in Nat /\ at \in [0 .. n -> 2 .. Len(D)] /\ n <= Len(p)
    BY <2>1 DEF Chain
  <2>3. m \in Nat /\ to \in [0 .. m -> 2 .. Len(D)] /\ m <= Len(p) /\ Len(D) \in Nat
    BY DEF Chain
  <2> QED
    BY <2>1, <2>2, <2>3
<1>1. \/ Clear(D, R, at[n], Len(D))
      \/ \E x \in Nat : NextVis(D, R, at[n], x) /\ D[x].kind # "Invoked"
  BY <1>0, RestBegins
<1>2. \A k \in 0 .. n : k <= m => at[k] = to[k]
  <2>1. Chain(D, R, p, tl, at, n)
    BY <1>0
  <2> QED
    BY <1>1, <2>1, ChainsAgree
<1>3. ASSUME n < m
      PROVE  /\ \A k \in n + 2 .. m : p[k] = "back"
             /\ p[n + 1] \in {"back", "save", "begin", "open"}
  <2>0. n \in 0 .. m /\ n \in 0 .. n /\ n + 1 \in 0 .. m /\ n + 1 \in 1 .. m /\ n + 1 - 1 = n
        /\ at[n] = to[n] /\ at[n] \in Nat /\ to[n + 1] \in Nat
    BY <1>0, <1>2, <1>3
  <2>1. CASE Clear(D, R, at[n], Len(D))
    <3>1. \A k \in n + 1 .. m : p[k] = "back"
      BY <2>0, <2>1, OnlyBacks
    <3> QED
      BY <1>0, <1>3, <3>1
  <2>2. CASE ~Clear(D, R, at[n], Len(D))
    <3>1. PICK x \in Nat : /\ NextVis(D, R, at[n], x) /\ Clear(D, R, x, Len(D))
                           /\ Unanswered(p, n, D[x].kind)
      BY <1>0, <2>2 DEF Rest
    <3>2. Link(D, R, p[n + 1], at[n], to[n + 1], ul[n + 1])
      BY <2>0 DEF Chain
    <3>3. p[n + 1] # "once"
      <4> SUFFICES ASSUME p[n + 1] = "once" PROVE FALSE
        OBVIOUS
      <4>1. PICK z \in Nat, y \in Nat : Once(D, R, at[n], z, y, to[n + 1])
        BY <3>2 DEF Link, Records, Marks
      <4>2. z = x
        BY <2>0, <3>1, <4>1, OneNext DEF Once
      <4>3. x < y /\ Vis(D, R, y) /\ y <= Len(D)
        BY <4>1, <4>2 DEF Once, NextVis, Vis
      <4> QED
        BY <1>0, <3>1, <4>3 DEF Clear
    <3>4. Marks(p[n + 1], D[x].kind)
      BY <1>0, <1>3, <3>1, <3>3 DEF Unanswered
    <3>5. p[n + 1] \in {"save", "begin", "open"}
      BY <3>4 DEF Marks
    <3>6. to[n + 1] = x
      <4>1. NextVis(D, R, at[n], to[n + 1])
        BY <2>0, <3>2, <3>5, LinkMoves
      <4> QED
        BY <2>0, <3>1, <4>1, OneNext
    <3>7. \A k \in n + 1 + 1 .. m : p[k] = "back"
      <4>1. Clear(D, R, to[n + 1], Len(D))
        BY <3>1, <3>6
      <4> QED
        BY <2>0, <4>1, OnlyBacks
    <3> QED
      BY <1>0, <3>5, <3>7
  <2> QED
    BY <2>1, <2>2
<1>4. \A k \in n + 2 .. m : p[k] = "back"
  <2>1. CASE n < m
    BY <1>3, <2>1
  <2>2. CASE ~(n < m)
    BY <1>0, <2>2
  <2> QED
    BY <2>1, <2>2
<1>5. n < m => /\ \A k \in 1 .. n : ~Closes(p, k, n + 1)
               /\ ~OnlyOnce(p, n + 1)
  BY <1>3 DEF Closes, Closing, OnlyOnce
<1> QED
  BY <1>0, <1>1, <1>4, <1>5, AccountMove

(* A region that is over stays so in a log that agrees up to the k-th call *)
(* or further, with something visible there.                               *)
LEMMA OverSame ==
  ASSUME NEW D \in Seq(Entries), NEW E \in Seq(Entries), NEW R, NEW S, NEW L \in 0 .. Len(D),
         NEW M \in Nat, L <= M, \A i \in 1 .. L : E[i] = D[i], L <= Len(E),
         NEW op, NEW a \in Nat, RegionOver(D, L, R, op, a),
         NEW b \in Nat, Same(D, R, E, S, b), b >= L \/ (a < b /\ Vis(D, R, b))
  PROVE  RegionOver(E, M, S, op, a)
<1>0. Len(D) \in Nat /\ L \in Nat
  OBVIOUS
<1>1. PICK j \in Nat, x \in Nat :
        /\ a < x /\ x <= j /\ j <= L /\ x < L /\ Vis(D, R, x)
        /\ EndsAt(D, j, op, a)
        /\ op = "open" => \A w \in a + 1 .. j - 1 : ~SideEffect(D[w])
  BY DEF RegionOver
<1>2. PICK y \in Nat : a < y /\ y <= x /\ Vis(E, S, y)
  <2>1. CASE x <= b
    BY <1>1, <2>1, SameVis
  <2>2. CASE ~(x <= b)
    <3>1. a < b /\ Vis(D, R, b) /\ b <= x
      BY <1>0, <1>1, <2>2
    <3>2. Vis(E, S, b)
      BY <3>1, SameVis
    <3> QED
      BY <3>1, <3>2
  <2> QED
    BY <2>1, <2>2
<1>3. a < y /\ y <= j /\ j <= M /\ y < M
  BY <1>0, <1>1, <1>2
<1>4. EndsAt(E, j, op, a)
  <2>1. E[j] = D[j]
    BY <1>0, <1>1
  <2> QED
    BY <1>1, <2>1 DEF EndsAt
<1>5. op = "open" => \A w \in a + 1 .. j - 1 : ~SideEffect(E[w])
  <2>1. \A w \in a + 1 .. j - 1 : E[w] = D[w]
    BY <1>0, <1>1
  <2> QED
    BY <1>1, <2>1
<1> QED
  BY <1>2, <1>3, <1>4, <1>5 DEF RegionOver

(* So does a batch that was ended before a side effect.                    *)
LEMMA BeforeSame ==
  ASSUME NEW D \in Seq(Entries), NEW E \in Seq(Entries), NEW R, NEW S, NEW a \in Nat,
         NEW w \in 1 .. Len(D), \A i \in 1 .. w : E[i] = D[i], EndedBefore(D, R, a, w),
         NEW b \in Nat, Same(D, R, E, S, b), b >= w \/ (a < b /\ Vis(D, R, b))
  PROVE  EndedBefore(E, S, a, w)
<1>0. Len(D) \in Nat /\ w \in Nat
  OBVIOUS
<1>1. PICK j \in Nat, x \in Nat :
        a < x /\ x <= j /\ j < w /\ Vis(D, R, x) /\ EndsAt(D, j, "open", a)
  BY DEF EndedBefore
<1>2. PICK y \in Nat : a < y /\ y <= x /\ Vis(E, S, y)
  <2>1. CASE x <= b
    BY <1>1, <2>1, SameVis
  <2>2. CASE ~(x <= b)
    <3>1. a < b /\ Vis(D, R, b) /\ b <= x
      BY <1>0, <1>1, <2>2
    <3>2. Vis(E, S, b)
      BY <3>1, SameVis
    <3> QED
      BY <3>1, <3>2
  <2> QED
    BY <2>1, <2>2
<1>3. EndsAt(E, j, "open", a)
  <2>1. E[j] = D[j]
    BY <1>0, <1>1
  <2> QED
    BY <1>1, <2>1 DEF EndsAt
<1>4. y <= j
  BY <1>1, <1>2
<1> QED
  BY <1>1, <1>2, <1>3, <1>4 DEF EndedBefore

(* The log grows.                                                          *)
LEMMA AccountLonger ==
  ASSUME NEW D \in Seq(Entries), NEW R, R \subseteq 2 .. Len(D), NEW e \in Entries,
         NEW p, Len(p) \in Nat, NEW tl, NEW at, NEW n, Chain(D, R, p, tl, at, n),
         Anchored(D, R, at[0]), NEW E, Longer(D, e, E), NEW L \in 0 .. Len(D),
         NEW M \in Nat, L <= M, NEW K \in Nat, NEW F, Account(D, L, R, p, at, n, K, F),
         SideEffect(e) =>
           /\ \A k \in 1 .. n : p[k] = "open" => \E c \in 1 .. n : Closes(p, k, c)
           /\ n < Len(p) => p[n + 1] # "open"
  PROVE  Account(E, M, R, p, at, n, K, F)
<1>0. /\ n \in Nat /\ Len(D) \in Nat /\ at \in [0 .. n -> 2 .. Len(D)] /\ n <= Len(p)
      /\ L \in Nat /\ L <= Len(D)
  BY DEF Chain
<1>1. E \in Seq(Entries) /\ Len(E) = Len(D) + 1 /\ E[Len(D) + 1] = e
      /\ Same(D, R, E, R, Len(D)) /\ \A i \in 1 .. Len(D) : E[i] = D[i]
  BY Added DEF Longer
<1>2. /\ Matched(D, p, at, n) /\ Committed(p, at, n, L, K) /\ RegionsOver(D, L, R, p, at, K, F)
      /\ BatchesEnd(D, R, p, at, n) /\ Written(D, R, p, at, n, F)
  BY DEF Account
<1>3. \A k \in 0 .. n : at[k] \in Nat /\ at[k] \in 1 .. Len(D) /\ E[at[k]] = D[at[k]]
  BY <1>0, <1>1
<1>4. Matched(E, p, at, n)
  <2> SUFFICES ASSUME NEW k \in 1 .. n, NEW c \in 1 .. n, Closes(p, k, c)
               PROVE  EndsAt(E, at[c], p[k], at[k])
    BY DEF Matched
  <2>1. EndsAt(D, at[c], p[k], at[k]) /\ c \in 0 .. n
    BY <1>0, <1>2 DEF Matched
  <2> QED
    BY <1>3, <2>1 DEF EndsAt
<1>5. Committed(p, at, n, M, K)
  <2> SUFFICES ASSUME NEW c \in 1 .. K, IsCall(p[c]) PROVE c <= n /\ at[c] <= M
    BY DEF Committed
  <2>1. c <= n /\ at[c] <= L
    BY <1>2 DEF Committed
  <2>2. at[c] \in Nat
    BY <1>0, <1>3, <2>1
  <2> QED
    BY <1>0, <2>1, <2>2
<1>6. RegionsOver(E, M, R, p, at, K, F)
  <2> SUFFICES ASSUME NEW c \in Nat, NEW k \in Nat, Protected(p, K, F, c), k \in 1 .. c - 1,
                      Opens(p[k])
               PROVE  RegionOver(E, M, R, p[k], at[k])
    BY DEF RegionsOver
  <2>1. RegionOver(D, L, R, p[k], at[k])
    BY <1>2 DEF RegionsOver
  <2>2. c <= n + 1
    BY <1>0, <1>2 DEF Protected, Committed, Written
  <2>3. at[k] \in Nat
    BY <1>0, <1>3, <2>2
  <2>4. \A i \in 1 .. L : E[i] = D[i]
    BY <1>0, <1>1
  <2>5. L <= Len(E) /\ Len(D) >= L
    BY <1>0, <1>1
  <2> QED
    BY <1>0, <1>1, <2>1, <2>3, <2>4, <2>5, OverSame
<1>7. BatchesEnd(E, R, p, at, n)
  <2> SUFFICES ASSUME NEW k \in Nat, NEW a \in Nat, Begun(E, R, p, at, n, k, a), p[k] = "open",
                      NEW w \in a + 1 .. Len(E), SideEffect(E[w])
               PROVE  EndedBefore(E, R, a, w)
    BY DEF BatchesEnd
  <2>1. CASE w <= Len(D)
    <3>1. Begun(D, R, p, at, n, k, a)
      <4>1. CASE k \in 1 .. n /\ a = at[k]
        BY <4>1 DEF Begun
      <4>2. CASE k = n + 1 /\ k <= Len(p) /\ NextVis(E, R, at[n], a)
        <5>1. at[n] \in Nat /\ a <= Len(D)
          BY <1>0, <1>3, <2>1
        <5>2. Same(E, R, D, R, Len(D))
          BY <1>0, <1>1 DEF Same
        <5>3. NextVis(D, R, at[n], a)
          BY <1>1, <4>2, <5>1, <5>2, SameNext
        <5> QED
          BY <4>2, <5>3 DEF Begun
      <4> QED
        BY <4>1, <4>2 DEF Begun
    <3>2. w \in a + 1 .. Len(D) /\ w \in 1 .. Len(D) /\ E[w] = D[w]
      <4>1. w \in Int /\ a + 1 <= w /\ Len(D) \in Nat
        BY <1>0, <1>1
      <4>2. w \in a + 1 .. Len(D) /\ w \in 1 .. Len(D)
        BY <2>1, <4>1
      <4> QED
        BY <1>1, <4>2
    <3>3. EndedBefore(D, R, a, w)
      BY <1>2, <3>1, <3>2 DEF BatchesEnd
    <3>4. \A i \in 1 .. w : E[i] = D[i]
      BY <1>0, <1>1, <3>2
    <3> QED
      BY <1>0, <1>1, <3>2, <3>3, <3>4, BeforeSame
  <2>2. CASE w = Len(D) + 1
    <3>1. SideEffect(e)
      BY <1>1, <2>2
    <3>2. k \in 1 .. n /\ a = at[k]
      BY <1>0, <3>1 DEF Begun
    <3>3. PICK c \in 1 .. n : Closes(p, k, c)
      BY <3>1, <3>2
    <3>4. k < c /\ p[c] # "back" /\ k \in 0 .. n /\ c \in 0 .. n
      BY <1>0, <3>2, <3>3 DEF Closes, Closing
    <3>5. PICK b \in Nat : b = at[c] /\ a < b /\ Vis(D, R, b) /\ b <= Len(D)
      BY <3>2, <3>4, ChainStrict
    <3>6. EndsAt(D, b, "open", a)
      BY <1>2, <3>2, <3>3, <3>5 DEF Matched
    <3>7. EndsAt(E, b, "open", a) /\ Vis(E, R, b)
      <4>1. E[b] = D[b]
        BY <1>3, <3>4, <3>5
      <4> QED
        BY <1>1, <3>5, <3>6, <4>1, SameVis DEF EndsAt
    <3> QED
      BY <1>0, <2>2, <3>5, <3>7 DEF EndedBefore
  <2> QED
    BY <1>0, <1>1, <2>1, <2>2
<1>8. Written(E, R, p, at, n, F)
  <2> SUFFICES ASSUME NEW q \in Nat, OnlyOnce(p, q), Performed(F, q), ~(q <= n)
               PROVE  /\ q = n + 1
                      /\ \E x \in Nat : NextVis(E, R, at[n], x) /\ E[x].kind = "BeginWrite"
    BY <1>2 DEF Written
  <2>1. PICK x \in Nat : NextVis(D, R, at[n], x) /\ D[x].kind = "BeginWrite"
    BY <1>2 DEF Written
  <2>2. x <= Len(D) /\ at[n] \in Nat
    BY <1>0, <1>3, <2>1 DEF NextVis, Vis
  <2>3. NextVis(E, R, at[n], x) /\ E[x] = D[x]
    BY <1>1, <2>1, <2>2, SameNext
  <2> QED
    BY <1>2, <2>1, <2>3 DEF Written
<1> QED
  BY <1>4, <1>5, <1>6, <1>7, <1>8 DEF Account

(* A region whose begin is before the n-th call, outside of it, has its    *)
(* end there.                                                              *)
LEMMA ClosedBefore ==
  ASSUME NEW p, Len(p) \in Nat, Bracketed(p), NEW n \in Nat, n <= Len(p), ~Inside(p, n + 1),
         NEW k \in 1 .. n, Opens(p[k])
  PROVE  \E c \in 1 .. n : Closes(p, k, c)
<1>1. PICK c \in k + 1 .. Len(p) : Closes(p, k, c)
  <2>1. k \in 1 .. Len(p)
    OBVIOUS
  <2> QED
    BY <2>1 DEF Bracketed
<1>2. c <= n
  <2> SUFFICES ASSUME n < c PROVE FALSE
    OBVIOUS
  <2>1. p[k] \in {"begin", "open"} /\ p[k] # Closing(p[k])
    BY DEF Opens, Closing
  <2>2. \A j \in k .. n + 1 - 1 : p[j] # Closing(p[k])
    BY <1>1, <2>1 DEF Closes
  <2>3. k \in 1 .. n + 1 - 1
    OBVIOUS
  <2> QED
    BY <2>1, <2>2, <2>3 DEF Inside
<1> QED
  BY <1>1, <1>2

(* Everything is committed outside of the regions.                         *)
LEMMA AccountKeep ==
  ASSUME NEW D \in Seq(Entries), NEW R, NEW p, NEW tl, NEW at, NEW n, NEW L \in Nat,
         Len(p) \in Nat, Bracketed(p), Chain(D, R, p, tl, at, n), L <= Len(D),
         NEW K, NEW F, Account(D, L, R, p, at, n, K, F), ~Inside(p, n + 1)
  PROVE  Account(D, Len(D), R, p, at, n, n, F)
<1>0. /\ n \in Nat /\ Len(D) \in Nat /\ at \in [0 .. n -> 2 .. Len(D)] /\ n <= Len(p)
  BY DEF Chain
<1>2. /\ Matched(D, p, at, n) /\ RegionsOver(D, L, R, p, at, K, F)
      /\ BatchesEnd(D, R, p, at, n) /\ Written(D, R, p, at, n, F)
  BY DEF Account
<1>3. Committed(p, at, n, Len(D), n)
  <2> SUFFICES ASSUME NEW c \in 1 .. n PROVE at[c] <= Len(D)
    BY <1>0 DEF Committed
  <2>1. c \in 0 .. n
    BY <1>0
  <2> QED
    BY <1>0, <2>1
<1>4. RegionsOver(D, Len(D), R, p, at, n, F)
  <2> SUFFICES ASSUME NEW c \in Nat, NEW k \in Nat, Protected(p, n, F, c), k \in 1 .. c - 1,
                      Opens(p[k])
               PROVE  RegionOver(D, Len(D), R, p[k], at[k])
    BY DEF RegionsOver
  <2>1. CASE c \in 1 .. n /\ IsCall(p[c])
    <3>1. k \in 1 .. n /\ k < c
      BY <1>0, <2>1
    <3>2. PICK e \in 1 .. n : Closes(p, k, e)
      BY <1>0, <3>1, ClosedBefore
    <3>3. p[c] # "back" /\ p[e] # "back" /\ c # e /\ k \in 0 .. n /\ c \in 0 .. n /\ e \in 0 .. n
      BY <1>0, <2>1, <3>1, <3>2 DEF IsCall, Closes, Closing
    <3>4. at[k] < at[c] /\ Vis(D, R, at[c]) /\ at[c] \in Nat
      BY <3>1, <3>3, ChainStrict
    <3>5. at[c] # at[e]
      <4>1. CASE c < e
        <5>1. at[c] < at[e] /\ at[c] \in Nat /\ at[e] \in Nat
          BY <3>3, <4>1, ChainStrict
        <5> QED
          BY <5>1
      <4>2. CASE e < c
        <5>1. at[e] < at[c] /\ at[c] \in Nat /\ at[e] \in Nat
          BY <3>3, <4>2, ChainStrict
        <5> QED
          BY <5>1
      <4> QED
        BY <1>0, <3>3, <4>1, <4>2
    <3> QED
      BY <1>2, <3>1, <3>2, <3>4, <3>5, RegionIsOver
  <2>2. CASE OnlyOnce(p, c) /\ Performed(F, c)
    <3>1. RegionOver(D, L, R, p[k], at[k])
      BY <1>2, <2>2 DEF RegionsOver, Protected
    <3>2. PICK j \in Nat, x \in Nat :
            /\ at[k] < x /\ x <= j /\ j <= L /\ x < L /\ Vis(D, R, x)
            /\ EndsAt(D, j, p[k], at[k])
            /\ p[k] = "open" => \A w \in at[k] + 1 .. j - 1 : ~SideEffect(D[w])
      BY <3>1 DEF RegionOver
    <3>3. j <= Len(D) /\ x < Len(D)
      BY <1>0, <3>2
    <3> QED
      BY <3>2, <3>3 DEF RegionOver
  <2> QED
    BY <2>1, <2>2 DEF Protected
<1> QED
  BY <1>2, <1>3, <1>4 DEF Account

(* A write is performed, after its begin was recorded.                     *)
LEMMA AccountPerform ==
  ASSUME NEW D \in Seq(Entries), NEW R, NEW p, NEW tl, NEW at, NEW n,
         Len(p) \in Nat, Bracketed(p), Chain(D, R, p, tl, at, n),
         NEW K \in Nat, NEW F \in Seq(Nat), Account(D, Len(D), R, p, at, n, K, F),
         NEW x \in Nat, NextVis(D, R, at[n], x), D[x].kind = "BeginWrite"
  PROVE  Account(D, Len(D), R, p, at, n, K, Append(F, n + 1))
<1>0. /\ n \in Nat /\ Len(D) \in Nat /\ at \in [0 .. n -> 2 .. Len(D)] /\ n <= Len(p)
  BY DEF Chain
<1>1. PICK G : G = Append(F, n + 1)
  OBVIOUS
<1>2. /\ Matched(D, p, at, n) /\ RegionsOver(D, Len(D), R, p, at, K, F)
      /\ BatchesEnd(D, R, p, at, n) /\ Written(D, R, p, at, n, F)
      /\ Committed(p, at, n, Len(D), K)
  BY DEF Account
<1>3. \A q : Performed(G, q) <=> Performed(F, q) \/ q = n + 1
  <2>1. Len(F) \in Nat /\ DOMAIN F = 1 .. Len(F) /\ DOMAIN G = 1 .. Len(F) + 1
        /\ G[Len(F) + 1] = n + 1 /\ \A i \in 1 .. Len(F) : G[i] = F[i]
    BY <1>0, <1>1
  <2>2. \A i \in 1 .. Len(F) + 1 : i \in 1 .. Len(F) \/ i = Len(F) + 1
    BY <2>1
  <2>3. 1 .. Len(F) \subseteq 1 .. Len(F) + 1 /\ Len(F) + 1 \in 1 .. Len(F) + 1
    BY <2>1
  <2> QED
    BY <2>1, <2>2, <2>3 DEF Performed
<1>4. RegionsOver(D, Len(D), R, p, at, K, G)
  <2> SUFFICES ASSUME NEW c \in Nat, NEW k \in Nat, Protected(p, K, G, c), k \in 1 .. c - 1,
                      Opens(p[k])
               PROVE  RegionOver(D, Len(D), R, p[k], at[k])
    BY DEF RegionsOver
  <2>1. CASE Protected(p, K, F, c)
    BY <1>2, <2>1 DEF RegionsOver
  <2>2. CASE ~Protected(p, K, F, c)
    <3>1. c = n + 1 /\ OnlyOnce(p, c)
      BY <1>3, <2>2 DEF Protected
    <3>2. ~Inside(p, n + 1) /\ k \in 1 .. n
      BY <1>0, <3>1 DEF OnlyOnce, Repeats
    <3>3. PICK e \in 1 .. n : Closes(p, k, e)
      BY <1>0, <3>2, ClosedBefore
    <3>4. \A j \in 0 .. n : at[j] <= at[n] /\ at[j] \in Nat
      BY <1>0 DEF Chain
    <3>5. k \in 0 .. n /\ e \in 0 .. n /\ n \in 0 .. n
      BY <1>0, <3>2
    <3>6. at[k] <= at[n] /\ at[e] <= at[n] /\ at[k] \in Nat /\ at[e] \in Nat /\ at[n] \in Nat
      BY <3>4, <3>5
    <3>7. at[n] < x /\ Vis(D, R, x)
      BY DEF NextVis
    <3>8. at[k] < x /\ x # at[e]
      BY <3>6, <3>7
    <3> QED
      BY <1>2, <3>2, <3>3, <3>7, <3>8, RegionIsOver
  <2> QED
    BY <2>1, <2>2
<1>5. Written(D, R, p, at, n, G)
  <2> SUFFICES ASSUME NEW q \in Nat, OnlyOnce(p, q)
               PROVE  /\ q <= n => Performed(G, q)
                      /\ Performed(G, q) =>
                           q <= n \/ (q = n + 1 /\ \E y \in Nat : /\ NextVis(D, R, at[n], y)
                                                                  /\ D[y].kind = "BeginWrite")
    BY DEF Written
  <2> QED
    BY <1>2, <1>3 DEF Written
<1>6. Account(D, Len(D), R, p, at, n, K, G)
  BY <1>2, <1>4, <1>5 DEF Account
<1> QED
  BY <1>1, <1>6

(* The invocation begins, and nothing was done before.                     *)
LEMMA AccountStart ==
  ASSUME NEW D \in Seq(Entries), NEW R, NEW p, NEW tl, NEW at, NEW K \in Nat, NEW F, NEW L,
         Chain(D, R, p, tl, at, 0), Clear(D, R, at[0], Len(D)),
         \A c \in Nat : ~Protected(p, K, F, c)
  PROVE  Account(D, L, R, p, at, 0, K, F)
<1>0. Len(D) \in Nat /\ at[0] \in Nat
  BY ChainEnd
<1>1. Matched(D, p, at, 0)
  BY DEF Matched
<1>2. Committed(p, at, 0, L, K) /\ RegionsOver(D, L, R, p, at, K, F)
  BY DEF Committed, RegionsOver, Protected
<1>3. BatchesEnd(D, R, p, at, 0)
  <2> SUFFICES ASSUME NEW k \in Nat, NEW a \in Nat, Begun(D, R, p, at, 0, k, a) PROVE FALSE
    BY DEF BatchesEnd
  <2>1. ~NextVis(D, R, at[0], a)
    BY <1>0 DEF Clear, NextVis, Vis
  <2> QED
    BY <2>1 DEF Begun
<1>4. Written(D, R, p, at, 0, F)
  BY DEF Written, Protected, OnlyOnce
<1> QED
  BY <1>1, <1>2, <1>3, <1>4 DEF Account

(* Everything after the m-th call is deleted, and nothing that must not be *)
(* made again is among it.                                                 *)
LEMMA AccountCut ==
  ASSUME NEW D \in Seq(Entries), NEW R, NEW e \in Entries, ~SideEffect(e),
         NEW p, Len(p) \in Nat, NEW tl, NEW at, NEW n, Chain(D, R, p, tl, at, n),
         NEW m \in 1 .. n, p[m] # "back", NEW E, Longer(D, e, E), NEW S,
         CutAfter(R, at[m], Len(D) + 1, S), NEW L \in 0 .. Len(D), NEW M \in Nat, L <= M,
         NEW K \in Nat, NEW J \in Nat, J <= K, NEW F, Account(D, L, R, p, at, n, K, F),
         \A c \in Nat : Protected(p, J, F, c) => c <= m,
         p[m] = "open" => \A w \in at[m] + 1 .. Len(D) : ~SideEffect(D[w]),
         NEW to, \A k \in 0 .. m : to[k] = at[k]
  PROVE  Account(E, M, S, p, to, m, J, F)
<1>0. /\ n \in Nat /\ m \in Nat /\ Len(D) \in Nat /\ at \in [0 .. n -> 2 .. Len(D)]
      /\ n <= Len(p) /\ L \in Nat /\ L <= Len(D) /\ m \in 0 .. m /\ m <= n
  BY DEF Chain
<1>1. /\ E \in Seq(Entries) /\ Len(E) = Len(D) + 1 /\ E[Len(D) + 1] = e
      /\ \A i \in 1 .. Len(D) : E[i] = D[i]
  BY DEF Longer
<1>2. /\ Matched(D, p, at, n) /\ Committed(p, at, n, L, K) /\ RegionsOver(D, L, R, p, at, K, F)
      /\ BatchesEnd(D, R, p, at, n) /\ Written(D, R, p, at, n, F)
  BY DEF Account
<1>3. PICK b \in Nat : b = at[m] /\ b \in 2 .. Len(D)
  BY <1>0
<1>4. Same(D, R, E, S, b)
  <2>1. ASSUME NEW i \in 1 .. b PROVE E[i] = D[i] /\ (i \in S <=> i \in R)
    <3>1. i \in 1 .. Len(D) /\ i \notin b + 1 .. Len(D) + 1
      BY <1>0, <1>3
    <3> QED
      BY <1>1, <1>3, <3>1 DEF CutAfter
  <2> QED
    BY <1>0, <1>1, <1>3, <2>1 DEF Same
<1>5. \A k \in 0 .. m : to[k] = at[k] /\ at[k] \in Nat /\ at[k] \in 1 .. Len(D)
                        /\ E[at[k]] = D[at[k]] /\ (k < m => at[k] < b)
  <2> SUFFICES ASSUME NEW k \in 0 .. m
               PROVE  to[k] = at[k] /\ at[k] \in Nat /\ at[k] \in 1 .. Len(D)
                      /\ E[at[k]] = D[at[k]] /\ (k < m => at[k] < b)
    OBVIOUS
  <2>1. k \in 0 .. n /\ m \in 0 .. n
    BY <1>0
  <2>2. at[k] \in 2 .. Len(D)
    BY <1>0, <2>1
  <2>3. k < m => at[k] < b
    BY <1>3, <2>1, ChainStrict
  <2> QED
    BY <1>0, <1>1, <2>2, <2>3
<1>6. Vis(D, R, b)
  <2>1. 0 \in 0 .. n /\ m \in 0 .. n /\ 0 < m
    BY <1>0
  <2> QED
    BY <1>3, <2>1, ChainStrict
<1>7. Matched(E, p, to, m)
  <2> SUFFICES ASSUME NEW k \in 1 .. m, NEW c \in 1 .. m, Closes(p, k, c)
               PROVE  EndsAt(E, to[c], p[k], to[k])
    BY DEF Matched
  <2>1. k \in 1 .. n /\ c \in 1 .. n /\ k \in 0 .. m /\ c \in 0 .. m
    BY <1>0
  <2>2. EndsAt(D, at[c], p[k], at[k])
    BY <1>2, <2>1 DEF Matched
  <2> QED
    BY <1>5, <2>1, <2>2 DEF EndsAt
<1>8. Committed(p, to, m, M, J)
  <2> SUFFICES ASSUME NEW c \in 1 .. J, IsCall(p[c]) PROVE c <= m /\ to[c] <= M
    BY DEF Committed
  <2>1. c \in 1 .. K /\ c <= m /\ c \in 0 .. m
    BY <1>0 DEF Protected
  <2>2. at[c] <= L /\ to[c] = at[c] /\ at[c] \in Nat
    BY <1>2, <1>5, <2>1 DEF Committed
  <2> QED
    BY <1>0, <2>1, <2>2
<1>9. RegionsOver(E, M, S, p, to, J, F)
  <2> SUFFICES ASSUME NEW c \in Nat, NEW k \in Nat, Protected(p, J, F, c), k \in 1 .. c - 1,
                      Opens(p[k])
               PROVE  RegionOver(E, M, S, p[k], to[k])
    BY DEF RegionsOver
  <2>1. Protected(p, K, F, c)
    <3>1. 1 .. J \subseteq 1 .. K
      BY <1>0
    <3> QED
      BY <3>1 DEF Protected
  <2>2. RegionOver(D, L, R, p[k], at[k])
    BY <1>2, <2>1 DEF RegionsOver
  <2>3. c <= m
    OBVIOUS
  <2>4. k \in 0 .. m /\ k < m
    BY <1>0, <2>3
  <2>5. to[k] = at[k] /\ at[k] \in Nat /\ at[k] < b
    BY <1>5, <2>4
  <2>6. (\A i \in 1 .. L : E[i] = D[i]) /\ L <= Len(E)
    BY <1>0, <1>1
  <2>7. RegionOver(E, M, S, p[k], at[k])
    BY <1>1, <1>4, <1>6, <2>2, <2>5, <2>6, OverSame
  <2> QED
    BY <2>5, <2>7
<1>10. BatchesEnd(E, S, p, to, m)
  <2> SUFFICES ASSUME NEW k \in Nat, NEW a \in Nat, Begun(E, S, p, to, m, k, a), p[k] = "open",
                      NEW w \in a + 1 .. Len(E), SideEffect(E[w])
               PROVE  EndedBefore(E, S, a, w)
    BY DEF BatchesEnd
  <2>0. w \in Nat /\ a + 1 <= w /\ w <= Len(D) + 1
    BY <1>0, <1>1
  <2>1. w \in 1 .. Len(D) /\ w \in a + 1 .. Len(D) /\ E[w] = D[w]
    <3>1. w # Len(D) + 1
      BY <1>1
    <3>2. w <= Len(D)
      <4>1. PICK d \in Nat : d = Len(D)
        BY <1>0
      <4>2. w \in Nat /\ w <= d + 1 /\ w # d + 1
        BY <2>0, <3>1, <4>1
      <4>3. w <= d
        BY ONLY <4>2, d \in Nat
      <4> QED
        BY <4>1, <4>3
    <3>3. w \in 1 .. Len(D) /\ w \in a + 1 .. Len(D)
      BY <1>0, <2>0, <3>2
    <3> QED
      BY <1>1, <3>3
  <2>2. k \in 1 .. m /\ a = to[k] /\ a = at[k] /\ k \in 0 .. m
    <3>1. ~NextVis(E, S, to[m], a)
      <4> SUFFICES ASSUME NextVis(E, S, b, a) PROVE FALSE
        BY <1>0, <1>3, <1>5
      <4>1. b < a /\ a <= Len(D) + 1 /\ a \notin S
        BY <1>1 DEF NextVis, Vis
      <4>2. a \in b + 1 .. Len(D) + 1
        BY <1>0, <4>1
      <4> QED
        BY <1>3, <4>1, <4>2 DEF CutAfter
    <3>2. k \in 1 .. m /\ a = to[k]
      BY <3>1 DEF Begun
    <3>3. k \in 0 .. m
      BY <1>0, <3>2
    <3> QED
      BY <1>5, <3>2, <3>3
  <2>3. CASE k = m
    BY <2>1, <2>2, <2>3
  <2>4. CASE k # m
    <3>1. k < m /\ k \in 1 .. n
      BY <1>0, <2>2, <2>4
    <3>2. a < b
      BY <1>5, <2>2, <3>1
    <3>3. Begun(D, R, p, at, n, k, a)
      BY <2>2, <3>1 DEF Begun
    <3>4. EndedBefore(D, R, a, w)
      BY <1>2, <2>1, <3>3 DEF BatchesEnd
    <3>5. \A i \in 1 .. w : E[i] = D[i]
      BY <1>0, <1>1, <2>1
    <3> QED
      BY <1>1, <1>4, <1>6, <2>1, <3>2, <3>4, <3>5, BeforeSame
  <2> QED
    BY <2>3, <2>4
<1>11. Written(E, S, p, to, m, F)
  <2> SUFFICES ASSUME NEW q \in Nat, OnlyOnce(p, q)
               PROVE  (q <= m => Performed(F, q)) /\ (Performed(F, q) => q <= m)
    BY DEF Written
  <2>1. q <= m => Performed(F, q)
    <3>1. q <= m => q <= n
      BY <1>0
    <3> QED
      BY <1>2, <3>1 DEF Written
  <2> QED
    BY <2>1 DEF Protected
<1> QED
  BY <1>7, <1>8, <1>9, <1>10, <1>11 DEF Account

(* What was not committed is lost.                                         *)
LEMMA AccountOff ==
  ASSUME NEW D \in Seq(Entries), NEW E \in Seq(Entries), NEW R, Same(E, R, D, R, Len(D)),
         \A i \in Len(D) + 1 .. Len(E) : Buffered(E[i].kind),
         NEW p, Len(p) \in Nat, NEW tl, NEW at, NEW n, Chain(E, R, p, tl, at, n),
         NEW K \in Nat, NEW F, Account(E, Len(D), R, p, at, n, K, F),
         NEW m \in 0 .. n, at[m] <= Len(D), \A k \in 0 .. n : at[k] <= Len(D) => k <= m,
         NEW to, \A k \in 0 .. m : to[k] = at[k]
  PROVE  Account(D, Len(D), R, p, to, m, K, F)
<1>0. /\ n \in Nat /\ m \in Nat /\ Len(D) \in Nat /\ at \in [0 .. n -> 2 .. Len(E)]
      /\ n <= Len(p) /\ m \in 0 .. m /\ m <= n /\ Len(E) \in Nat /\ Len(D) <= Len(E)
      /\ n \in 0 .. n
  BY DEF Chain, Same
<1>1. \A i \in 1 .. Len(D) : D[i] = E[i]
  BY DEF Same
<1>2. /\ Matched(E, p, at, n) /\ Committed(p, at, n, Len(D), K)
      /\ RegionsOver(E, Len(D), R, p, at, K, F)
      /\ BatchesEnd(E, R, p, at, n) /\ Written(E, R, p, at, n, F)
  BY DEF Account
<1>3. \A k \in 0 .. m : to[k] = at[k] /\ at[k] \in Nat /\ at[k] \in 1 .. Len(D)
                        /\ D[at[k]] = E[at[k]]
  <2> SUFFICES ASSUME NEW k \in 0 .. m
               PROVE  to[k] = at[k] /\ at[k] \in Nat /\ at[k] \in 1 .. Len(D)
                      /\ D[at[k]] = E[at[k]]
    OBVIOUS
  <2>1. k \in 0 .. n /\ m \in 0 .. n /\ k <= m
    BY <1>0
  <2>2. at[k] \in 2 .. Len(E) /\ at[m] \in 2 .. Len(E) /\ at[k] <= at[m]
    BY <1>0, <2>1 DEF Chain
  <2>3. at[k] \in 1 .. Len(D) /\ at[k] \in Nat
    BY <1>0, <2>2
  <2> QED
    BY <1>1, <2>3
<1>4. ASSUME NEW x \in Nat, x <= Len(D), NextVis(E, R, at[n], x) PROVE m = n
  <2>1. at[n] \in Nat /\ at[n] < x
    BY <1>0, <1>4 DEF NextVis
  <2> QED
    BY <1>0, <1>4, <2>1
<1>5. ASSUME NEW q \in Nat, OnlyOnce(p, q), Performed(F, q)
      PROVE  \/ q <= m
             \/ /\ q = n + 1 /\ m = n
                /\ \E x \in Nat : NextVis(D, R, at[n], x) /\ D[x].kind = "BeginWrite"
  <2>1. CASE q <= n
    <3>1. q \in 1 .. n /\ q \in 0 .. n /\ q - 1 \in 0 .. n
      BY <1>0, <1>5, <2>1 DEF OnlyOnce
    <3>2. Link(E, R, p[q], at[q - 1], at[q], tl[q]) /\ p[q] = "once"
      BY <1>5, <3>1 DEF Chain, OnlyOnce
    <3>3. E[at[q]].kind = "EndWrite"
      BY <3>2 DEF Link, Records, Marks, Once
    <3>4. at[q] <= Len(D)
      <4>1. at[q] \in 2 .. Len(E) /\ at[q] \notin Len(D) + 1 .. Len(E)
        BY <1>0, <3>1, <3>3 DEF Buffered
      <4> QED
        BY <1>0, <4>1
    <3> QED
      BY <3>1, <3>4
  <2>2. CASE ~(q <= n)
    <3>1. PICK x \in Nat : q = n + 1 /\ NextVis(E, R, at[n], x) /\ E[x].kind = "BeginWrite"
      BY <1>2, <1>5, <2>2 DEF Written
    <3>2. x <= Len(D)
      <4>1. x \in 2 .. Len(E) /\ x \notin Len(D) + 1 .. Len(E)
        BY <3>1 DEF NextVis, Vis, Buffered
      <4> QED
        BY <1>0, <4>1
    <3>3. m = n /\ at[n] \in Nat
      BY <1>0, <1>4, <3>1, <3>2
    <3>4. NextVis(D, R, at[n], x) /\ D[x] = E[x]
      BY <3>1, <3>2, <3>3, SameNext
    <3> QED
      BY <3>1, <3>3, <3>4
  <2> QED
    BY <2>1, <2>2
<1>6. Matched(D, p, to, m)
  <2> SUFFICES ASSUME NEW k \in 1 .. m, NEW c \in 1 .. m, Closes(p, k, c)
               PROVE  EndsAt(D, to[c], p[k], to[k])
    BY DEF Matched
  <2>1. k \in 1 .. n /\ c \in 1 .. n /\ k \in 0 .. m /\ c \in 0 .. m
    BY <1>0
  <2>2. EndsAt(E, at[c], p[k], at[k])
    BY <1>2, <2>1 DEF Matched
  <2> QED
    BY <1>3, <2>1, <2>2 DEF EndsAt
<1>7. ASSUME NEW c \in 1 .. K, IsCall(p[c]) PROVE c <= m /\ to[c] <= Len(D)
  <2>1. c <= n /\ at[c] <= Len(D) /\ c \in 0 .. n
    BY <1>0, <1>2, <1>7 DEF Committed
  <2>2. c <= m /\ c \in 0 .. m
    BY <1>0, <2>1
  <2> QED
    BY <2>1, <2>2
<1>8. Committed(p, to, m, Len(D), K)
  BY <1>7 DEF Committed
<1>9. RegionsOver(D, Len(D), R, p, to, K, F)
  <2> SUFFICES ASSUME NEW c \in Nat, NEW k \in Nat, Protected(p, K, F, c), k \in 1 .. c - 1,
                      Opens(p[k])
               PROVE  RegionOver(D, Len(D), R, p[k], to[k])
    BY DEF RegionsOver
  <2>1. RegionOver(E, Len(D), R, p[k], at[k])
    BY <1>2 DEF RegionsOver
  <2>2. c <= m + 1
    BY <1>0, <1>5, <1>7 DEF Protected
  <2>3. k \in 0 .. m
    BY <1>0, <2>2
  <2>4. to[k] = at[k] /\ at[k] \in Nat
    BY <1>3, <2>3
  <2>5. RegionOver(D, Len(D), R, p[k], at[k])
    <3>1. Len(D) \in 0 .. Len(E) /\ Len(D) \in Nat
      BY <1>0
    <3> QED
      BY <1>1, <2>1, <2>4, <3>1, OverSame
  <2> QED
    BY <2>4, <2>5
<1>10. BatchesEnd(D, R, p, to, m)
  <2> SUFFICES ASSUME NEW k \in Nat, NEW a \in Nat, Begun(D, R, p, to, m, k, a), p[k] = "open",
                      NEW w \in a + 1 .. Len(D), SideEffect(D[w])
               PROVE  EndedBefore(D, R, a, w)
    BY DEF BatchesEnd
  <2>1. w \in 1 .. Len(D) /\ w \in 1 .. Len(E) /\ w \in a + 1 .. Len(E) /\ E[w] = D[w]
    <3>1. w \in 1 .. Len(D) /\ w \in 1 .. Len(E) /\ w \in a + 1 .. Len(E)
      BY <1>0
    <3> QED
      BY <1>1, <3>1
  <2>2. Begun(E, R, p, at, n, k, a)
    <3>1. CASE k \in 1 .. m /\ a = to[k]
      <4>1. k \in 0 .. m /\ k \in 1 .. n
        BY <1>0, <3>1
      <4> QED
        BY <1>3, <3>1, <4>1 DEF Begun
    <3>2. CASE k = m + 1 /\ k <= Len(p) /\ NextVis(D, R, to[m], a)
      <4>1. at[m] \in Nat /\ to[m] = at[m] /\ a <= Len(D)
        BY <1>0, <1>3, <3>2 DEF NextVis, Vis
      <4>2. Same(D, R, E, R, Len(D))
        BY <1>0, <1>1 DEF Same
      <4>3. NextVis(E, R, at[m], a)
        BY <3>2, <4>1, <4>2, SameNext
      <4>4. CASE m = n
        BY <3>2, <4>3, <4>4 DEF Begun
      <4>5. CASE m < n
        <5>1. k \in 1 .. n /\ k \in 0 .. n /\ k - 1 = m
          BY <1>0, <3>2, <4>5
        <5>2. Link(E, R, p[k], at[m], at[k], tl[k]) /\ at[k] \in Nat
          <6>1. Link(E, R, p[k], at[k - 1], at[k], tl[k])
            BY <5>1 DEF Chain
          <6>2. at[k] \in 2 .. Len(E)
            BY <1>0, <5>1
          <6> QED
            BY <5>1, <6>1, <6>2
        <5>3. NextVis(E, R, at[m], at[k])
          BY <4>1, <5>2, LinkMoves
        <5>4. at[k] = a
          BY <4>1, <4>3, <5>2, <5>3, OneNext
        <5>5. k <= m
          BY <4>1, <5>1, <5>4
        <5> QED
          BY <1>0, <3>2, <5>5
      <4> QED
        BY <1>0, <4>4, <4>5
    <3> QED
      BY <3>1, <3>2 DEF Begun
  <2>3. EndedBefore(E, R, a, w)
    BY <1>2, <2>1, <2>2 DEF BatchesEnd
  <2>4. \A i \in 1 .. w : D[i] = E[i]
    BY <1>0, <1>1, <2>1
  <2>5. Len(D) \in Nat /\ Len(D) >= w
    BY <1>0, <2>1
  <2> QED
    BY <2>1, <2>3, <2>4, <2>5, BeforeSame
<1>11. Written(D, R, p, to, m, F)
  <2> SUFFICES ASSUME NEW q \in Nat, OnlyOnce(p, q)
               PROVE  /\ q <= m => Performed(F, q)
                      /\ Performed(F, q) =>
                           q <= m \/ (q = m + 1 /\ \E x \in Nat : /\ NextVis(D, R, to[m], x)
                                                                  /\ D[x].kind = "BeginWrite")
    BY DEF Written
  <2>1. q <= m => Performed(F, q)
    BY <1>0, <1>2 DEF Written
  <2>2. to[m] = at[m]
    BY <1>0, <1>3
  <2> QED
    BY <1>5, <2>1, <2>2
<1> QED
  BY <1>6, <1>8, <1>9, <1>10, <1>11 DEF Account

-----------------------------------------------------------------------------
(* The account holds in every state: of the calls a live guest has made,   *)
(* or else of those the oplog has.                                         *)
Tallied(at, n) ==
  Account(oplog, Len(durable), DeletedRegions, program, at, n, kept, effects)

TallyLive == \E at : LiveAt(at) /\ Tallied(at, Len(seen))

TallyRest ==
  \/ Fresh(oplog, DeletedRegions) /\ kept = 0 /\ effects = <<>>
  \/ \E n, at : Recorded(oplog, DeletedRegions, program, timeline, at, n) /\ Tallied(at, n)

Running == mode = "guest" /\ last = target

TallyInv ==
  /\ kept \in Nat /\ effects \in Seq(Nat)
  /\ Running => TallyLive
  /\ ~Running => TallyRest

(* The begin of a write is committed before it is performed, and it is     *)
(* performed between the two.                                              *)
InWrite ==
  Running /\ step # "none" /\ Op = "once" =>
    /\ step = "index" => buffer = <<>> /\ (OnlyOnce(program, pc) => ~Performed(effects, pc))
    /\ step = "record" => (OnlyOnce(program, pc) => Performed(effects, pc))

PerformedOnce ==
  /\ \A i \in DOMAIN effects, j \in DOMAIN effects :
       effects[i] = effects[j] /\ OnlyOnce(program, effects[i]) => i = j
  /\ mode = "done" => \A q \in Nat : OnlyOnce(program, q) => Performed(effects, q)

AccountInv == TallyInv /\ InWrite /\ PerformedOnce

(* What the assumptions on programs say.                                   *)
LEMMA RegionsAre ==
  ASSUME ~MixedBatch, program \in Programs
  PROVE  /\ Len(program) \in Nat /\ NoBackFirst(program) /\ Bracketed(program)
         /\ \A n : InRegion(n) <=> Inside(program, n)
         /\ \A n : MayRepeat(n) <=> Repeats(program, n)
<1>0. program \in Seq(Ops) /\ Len(program) \in Nat /\ DOMAIN program = 1 .. Len(program)
  BY ProgramIs
<1>1. NoBackFirst(program)
  <2> SUFFICES ASSUME 1 <= Len(program), program[1] = "back" PROVE FALSE
    BY DEF NoBackFirst
  <2>1. 1 \in DOMAIN program /\ <<"back", "save">> \in Needs
    BY <1>0 DEF Needs
  <2>2. \A i \in DOMAIN program, n \in Needs :
          program[i] = n[1] => \E j \in 1 .. i - 1 : program[j] = n[2]
    BY ProgramsAssumption
  <2>3. \E j \in 1 .. 1 - 1 : program[j] = "save"
    BY <2>1, <2>2
  <2> QED
    BY <2>3
<1>2. Bracketed(program)
  <2> SUFFICES ASSUME NEW k \in 1 .. Len(program), Opens(program[k])
               PROVE  \E e \in k + 1 .. Len(program) :
                        /\ Closes(program, k, e)
                        /\ program[k] = "open" => \A j \in k + 1 .. e - 1 : program[j] # "once"
    BY DEF Bracketed
  <2>1. PICK b \in Brackets : b[1] = program[k] /\ b[2] = Closing(program[k])
    <3>1. CASE program[k] = "begin"
      BY <3>1 DEF Brackets, Closing
    <3>2. CASE program[k] = "open"
      BY <3>2 DEF Brackets, Closing
    <3> QED
      BY <3>1, <3>2 DEF Opens
  <2>2. k \in {i \in DOMAIN program : program[i] = b[1]}
    BY <1>0, <2>1
  <2>3. PICK j \in k + 1 .. Len(program) :
          /\ program[j] = b[2]
          /\ \A i \in k + 1 .. j - 1 : program[i] \notin {b[1], b[2]}
    BY <2>2, RegionsAssumption
  <2>4. Closes(program, k, j)
    BY <2>1, <2>3 DEF Closes
  <2>5. ASSUME program[k] = "open", NEW i \in k + 1 .. j - 1 PROVE program[i] # "once"
    <3>1. i \in DOMAIN program /\ k \in 1 .. i - 1
      BY <1>0
    <3>2. b[2] = "close"
      BY <2>1, <2>5 DEF Closing
    <3>3. \A h \in k .. i - 1 : program[h] # "close"
      <4>1. \A h \in k .. i - 1 : h = k \/ h \in k + 1 .. j - 1
        OBVIOUS
      <4> QED
        BY <2>3, <2>5, <3>2, <4>1
    <3>4. OpensBefore("open", "close", i)
      BY <2>5, <3>1, <3>3 DEF OpensBefore
    <3> QED
      BY <3>1, <3>4 DEF MixedBatch
  <2> QED
    BY <2>1, <2>3, <2>4, <2>5
<1>3. ASSUME NEW n PROVE InRegion(n) <=> Inside(program, n)
  <2>1. InRegion(n) <=> \E o \in {"begin", "open"} : OpensBefore(o, Closing(o), n)
    BY DEF InRegion, Closing
  <2> QED
    BY <2>1 DEF OpensBefore, Inside
<1>4. ASSUME NEW n PROVE MayRepeat(n) <=> Repeats(program, n)
  BY <1>3 DEF MayRepeat, Repeats
<1> QED
  BY <1>0, <1>1, <1>2, <1>3, <1>4

(* What a log whose end is after a chain has of another one.               *)
LEMMA ChainReaches ==
  ASSUME NEW D \in Seq(Entries), NEW R, NEW p, NEW tl, NEW ul, NEW at, NEW to, NEW n, NEW m,
         Len(p) \in Nat, NoBackFirst(p), Recorded(D, R, p, tl, at, n),
         Recorded(D, R, p, ul, to, m), NEW k \in 0 .. m, NEW v \in Nat,
         NextVis(D, R, to[k], v)
  PROVE  k <= n
<1> SUFFICES ASSUME n < k PROVE FALSE
  BY DEF Recorded, Chain
<1>0. /\ Chain(D, R, p, tl, at, n) /\ Chain(D, R, p, ul, to, m) /\ n \in Nat /\ m \in Nat
      /\ Len(D) \in Nat /\ at \in [0 .. n -> 2 .. Len(D)] /\ to \in [0 .. m -> 2 .. Len(D)]
  <2>1. Chain(D, R, p, tl, at, n) /\ Chain(D, R, p, ul, to, m)
    BY DEF Recorded
  <2>2. n \in Nat /\ at \in [0 .. n -> 2 .. Len(D)]
    BY <2>1 DEF Chain
  <2>3. m \in Nat /\ to \in [0 .. m -> 2 .. Len(D)]
    BY <2>1 DEF Chain
  <2> QED
    BY <2>1, <2>2, <2>3
<1>1. \A i \in 0 .. n : i <= m => at[i] = to[i]
  <2>1. \/ Clear(D, R, at[n], Len(D))
        \/ \E x \in Nat : NextVis(D, R, at[n], x) /\ D[x].kind # "Invoked"
    BY RestBegins DEF Recorded
  <2>2. \/ Clear(D, R, to[m], Len(D))
        \/ \E x \in Nat : NextVis(D, R, to[m], x) /\ D[x].kind # "Invoked"
    BY RestBegins DEF Recorded
  <2>3. Chain(D, R, p, tl, at, n) /\ Chain(D, R, p, ul, to, m)
    BY <1>0
  <2> QED
    BY <2>1, <2>2, <2>3, ChainsAgree
<1>2. /\ n + 1 \in 1 .. m /\ n + 1 \in 0 .. m /\ n \in 0 .. m /\ n \in 0 .. n /\ at[n] = to[n]
      /\ n + 1 <= k /\ n + 1 - 1 = n
  BY <1>0, <1>1
<1>3. PICK a \in Nat, b \in Nat, c \in Nat :
        a = to[n] /\ b = to[n + 1] /\ c = to[k] /\ b <= c /\ c < v /\ a <= b /\ v <= Len(D)
  <2>1. to[n] \in Nat /\ to[n + 1] \in Nat /\ to[k] \in Nat
    BY <1>0, <1>2
  <2>2. to[n + 1] <= to[k] /\ to[n] <= to[n + 1]
    BY <1>0, <1>2 DEF Chain
  <2>3. to[k] < v /\ v <= Len(D)
    BY <1>0 DEF NextVis, Vis
  <2> QED
    BY <2>1, <2>2, <2>3
<1>4. Vis(D, R, v)
  BY DEF NextVis
<1>5. Link(D, R, p[n + 1], a, b, ul[n + 1])
  BY <1>0, <1>2, <1>3 DEF Chain
<1>6. PICK x \in Nat : NextVis(D, R, a, x) /\ Clear(D, R, x, Len(D)) /\ Unanswered(p, n, D[x].kind)
  <2>1. ~Clear(D, R, a, Len(D))
    BY <1>0, <1>3, <1>4 DEF Clear
  <2> QED
    BY <1>2, <1>3, <2>1 DEF Recorded, Rest
<1>7. p[n + 1] # "back"
  <2>1. n < Len(p)
    BY <1>0, <1>2 DEF Chain
  <2> QED
    BY <1>0, <1>6, <2>1 DEF Unanswered, Marks
<1>8. PICK y \in Nat : NextVis(D, R, a, y) /\ y <= b
  BY <1>5, <1>7, LinkMoves
<1>9. x = y
  BY <1>6, <1>8, OneNext
<1> QED
  BY <1>0, <1>3, <1>4, <1>6, <1>8, <1>9 DEF Clear

LEMMA OneChain ==
  ASSUME NEW D \in Seq(Entries), NEW R, NEW p, NEW tl, NEW ul, NEW at, NEW to, NEW n,
         Len(p) \in Nat, NoBackFirst(p), Chain(D, R, p, tl, at, n), Chain(D, R, p, ul, to, n),
         \/ Clear(D, R, at[n], Len(D))
         \/ \E x \in Nat : NextVis(D, R, at[n], x) /\ D[x].kind # "Invoked",
         \/ Clear(D, R, to[n], Len(D))
         \/ \E x \in Nat : NextVis(D, R, to[n], x) /\ D[x].kind # "Invoked"
  PROVE  at = to
<1>1. n \in Nat /\ at \in [0 .. n -> 2 .. Len(D)] /\ to \in [0 .. n -> 2 .. Len(D)]
  BY DEF Chain
<1>2. \A k \in 0 .. n : k <= n => at[k] = to[k]
  BY ChainsAgree
<1>3. \A k \in 0 .. n : at[k] = to[k]
  BY <1>1, <1>2
<1> QED
  BY <1>1, <1>3

(* The oplog after a step.                                                 *)
LEMMA NextLog ==
  ASSUME LogType'
  PROVE  /\ durable' \in Seq(Entries) /\ Len(durable') \in Nat /\ oplog' \in Seq(Entries)
         /\ Len(oplog') \in Nat /\ Len(durable') <= Len(oplog')
         /\ DeletedRegions' \subseteq 2 .. Len(oplog')
         /\ buffer' = <<>> => Len(durable') = Len(oplog')
<1>1. durable' \in Seq(Entries) /\ buffer' \in Seq(Entries) /\ Len(durable') \in Nat
      /\ Len(buffer') \in Nat /\ DeletedRegions' \subseteq 2 .. Len(durable')
  BY DEF LogType
<1>2. oplog' = durable' \o buffer'
  BY DEF oplog
<1>3. oplog' \in Seq(Entries) /\ Len(oplog') = Len(durable') + Len(buffer')
  BY <1>1, <1>2, ConcatIs
<1>4. buffer' = <<>> => Len(buffer') = 0
  OBVIOUS
<1> QED
  BY <1>1, <1>3, <1>4

(* What is committed remains so.                                           *)
LEMMA GrowsDurable ==
  ASSUME LogType, NEW e \in Entries, e.kind # "Jump", Grows(e)
  PROVE  Len(durable) <= Len(durable')
<1>1. oplog \in Seq(Entries) /\ Len(oplog) \in Nat /\ Len(oplog) >= Len(durable)
      /\ Len(durable) \in Nat
  BY OplogIs DEF LogType
<1>2. CASE AddEntry(e)
  BY <1>1, <1>2 DEF AddEntry
<1>3. CASE AddAndCommit(<<e>>)
  <2>1. durable' = oplog \o <<e>> /\ <<e>> \in Seq(Entries) /\ Len(<<e>>) = 1
    BY <1>3 DEF AddAndCommit
  <2>2. Len(durable') = Len(oplog) + 1
    BY <1>1, <2>1, ConcatIs
  <2> QED
    BY <1>1, <2>2
<1> QED
  BY <1>2, <1>3 DEF Grows

(* A region is closed at the end of the program.                           *)
LEMMA AllClosed ==
  ASSUME NEW p, Len(p) \in Nat, Bracketed(p)
  PROVE  /\ \A k \in 1 .. Len(p) : Opens(p[k]) => \E c \in 1 .. Len(p) : Closes(p, k, c)
         /\ ~Inside(p, Len(p) + 1)
<1>1. ASSUME NEW k \in 1 .. Len(p), Opens(p[k])
      PROVE  \E c \in 1 .. Len(p) : Closes(p, k, c) /\ k < c
  <2>1. PICK e \in k + 1 .. Len(p) : Closes(p, k, e)
    BY <1>1 DEF Bracketed
  <2> QED
    BY <2>1
<1>2. ASSUME Inside(p, Len(p) + 1) PROVE FALSE
  <2>1. PICK o \in {"begin", "open"} :
          \E i \in 1 .. (Len(p) + 1) - 1 :
            p[i] = o /\ \A j \in i .. (Len(p) + 1) - 1 : p[j] # Closing(o)
    BY <1>2 DEF Inside
  <2>2. PICK i \in 1 .. Len(p) : p[i] = o /\ \A j \in i .. Len(p) : p[j] # Closing(o)
    BY <2>1
  <2>3. PICK c \in 1 .. Len(p) : Closes(p, i, c) /\ i < c
    BY <1>1, <2>2 DEF Opens
  <2>4. c \in i .. Len(p)
    BY <2>3
  <2> QED
    BY <2>2, <2>3, <2>4 DEF Closes
<1> QED
  BY <1>1, <1>2

(* An entry is recorded.                                                   *)
LEMMA TallyAdds ==
  ASSUME ~MixedBatch, LogType, program \in Programs, kept \in Nat, NEW at, NEW n,
         Recorded(oplog, DeletedRegions, program, timeline, at, n), Tallied(at, n),
         NEW e \in Entries, e.kind # "Jump", Grows(e), SideEffect(e) => n = Len(program)
  PROVE  Account(oplog', Len(durable'), DeletedRegions, program, at, n, kept, effects)
<1>1. oplog \in Seq(Entries) /\ Len(oplog) \in Nat /\ DeletedRegions \subseteq 2 .. Len(oplog)
      /\ Len(durable) \in 0 .. Len(oplog)
  BY OplogIs DEF LogType
<1>2. LogType' /\ Longer(oplog, e, oplog')
  BY GrowsIs
<1>3. /\ Chain(oplog, DeletedRegions, program, timeline, at, n)
      /\ Anchored(oplog, DeletedRegions, at[0])
  BY DEF Recorded
<1>4. Len(program) \in Nat /\ Bracketed(program)
  BY RegionsAre
<1>5. Len(durable') \in Nat /\ Len(durable) <= Len(durable')
  BY <1>2, NextLog, GrowsDurable
<1>6. SideEffect(e) =>
        /\ \A k \in 1 .. n : program[k] = "open" => \E c \in 1 .. n : Closes(program, k, c)
        /\ n < Len(program) => program[n + 1] # "open"
  BY <1>4, AllClosed DEF Opens
<1>7. Account(oplog, Len(durable), DeletedRegions, program, at, n, kept, effects)
  BY DEF Tallied
<1> QED
  BY <1>1, <1>2, <1>3, <1>4, <1>5, <1>6, <1>7, AccountLonger

(* What was returned so far counts as committed.                           *)
LEMMA TallyKeep ==
  ASSUME ~MixedBatch, program \in Programs, LogType', kept \in Nat, NEW tl, NEW at, NEW n,
         Chain(oplog', DeletedRegions', program, tl, at, n),
         Account(oplog', Len(durable'), DeletedRegions', program, at, n, kept, effects),
         kept' = kept \/ (buffer' = <<>> /\ Keep(n))
  PROVE  /\ kept' \in Nat
         /\ Account(oplog', Len(durable'), DeletedRegions', program, at, n, kept', effects)
<1>1. CASE kept' = kept
  BY <1>1
<1>2. CASE buffer' = <<>> /\ ~InRegion(n + 1) /\ kept' = n
  <2>1. Len(program) \in Nat /\ Bracketed(program) /\ ~Inside(program, n + 1)
    BY <1>2, RegionsAre
  <2>2. oplog' \in Seq(Entries) /\ Len(durable') \in Nat /\ Len(durable') <= Len(oplog')
        /\ Len(durable') = Len(oplog')
    BY <1>2, NextLog
  <2>3. Account(oplog', Len(oplog'), DeletedRegions', program, at, n, n, effects)
    BY <2>1, <2>2, AccountKeep
  <2>4. n \in Nat
    BY DEF Chain
  <2> QED
    BY <1>2, <2>2, <2>3, <2>4
<1> QED
  BY <1>1, <1>2 DEF Keep

(* The call returns: what it has recorded is part of the account.          *)
LEMMA TallyArrives ==
  ASSUME ~MixedBatch,
         ReplayInv, ReplayInv', Running', step' = "none", program' = program, effects' = effects,
         effects \in Seq(Nat), kept \in Nat, NEW n \in Nat, Len(seen') = n + 1,
         NEW at, Chain(oplog', DeletedRegions', program, timeline, at, n),
         \/ Clear(oplog', DeletedRegions', at[n], Len(oplog'))
         \/ \E x \in Nat : NextVis(oplog', DeletedRegions', at[n], x) /\ oplog'[x].kind # "Invoked",
         Account(oplog', Len(durable'), DeletedRegions', program, at, n, kept, effects),
         \A to : LiveAt(to)' =>
           \A k \in 1 .. n : Closes(program, k, n + 1) =>
             EndsAt(oplog', to[n + 1], program[k], to[k]),
         OnlyOnce(program, n + 1) => Performed(effects, n + 1),
         kept' = kept \/ (buffer' = <<>> /\ Keep(n + 1))
  PROVE  TallyInv'
<1>1. LogType' /\ GuestType' /\ Live' /\ program \in Programs
  BY DEF ReplayInv, ModeInv, Running, GuestType
<1>2. PICK to : LiveAt(to)'
  BY <1>1 DEF Live
<1>3. /\ Chain(oplog', DeletedRegions', program, timeline', to, n + 1)
      /\ Clear(oplog', DeletedRegions', to[n + 1], Len(oplog'))
  BY <1>2 DEF LiveAt, Recorded
<1>4. Len(program) \in Nat /\ NoBackFirst(program)
  BY <1>1, RegionsAre
<1>5. oplog' \in Seq(Entries) /\ Len(durable') \in Nat
  BY <1>1, NextLog
<1>6. /\ \A k \in n + 2 .. n + 1 : program[k] = "back"
      /\ \A k \in 1 .. n : Closes(program, k, n + 1) =>
           EndsAt(oplog', to[n + 1], program[k], to[k])
  BY <1>2
<1>7. Account(oplog', Len(durable'), DeletedRegions', program, to, n + 1, kept, effects)
  <2>1. PICK m : m = n + 1
    OBVIOUS
  <2>2. /\ \A k \in n + 2 .. m : program[k] = "back"
        /\ n < m => /\ \A k \in 1 .. n : Closes(program, k, n + 1) =>
                         EndsAt(oplog', to[n + 1], program[k], to[k])
                    /\ OnlyOnce(program, n + 1) => Performed(effects, n + 1)
        /\ Chain(oplog', DeletedRegions', program, timeline', to, m)
        /\ Clear(oplog', DeletedRegions', to[m], Len(oplog'))
    BY <1>3, <1>6, <2>1
  <2>3. Account(oplog', Len(durable'), DeletedRegions', program, to, m, kept, effects)
    BY <1>4, <1>5, <2>2, AccountMove
  <2> QED
    BY <2>1, <2>3
<1>8. /\ kept' \in Nat
      /\ Account(oplog', Len(durable'), DeletedRegions', program, to, n + 1, kept', effects)
  BY <1>1, <1>3, <1>7, TallyKeep
<1>9. TallyLive'
  BY <1>2, <1>8 DEF TallyLive, Tallied
<1> QED
  BY <1>8, <1>9 DEF TallyInv

(* A region is known by the index of its begin.                            *)
LEMMA OpenedIndex ==
  ASSUME NEW D, NEW R, NEW p, NEW tl, NEW at, NEW n, Chain(D, R, p, tl, at, n),
         NEW k \in 1 .. n, Opens(p[k])
  PROVE  tl[k] = Answer(at[k], 0)
<1>1. Link(D, R, p[k], at[k - 1], at[k], tl[k])
  BY DEF Chain
<1> QED
  BY <1>1 DEF Link, Opens, Records

(* The rest of the invariant.                                              *)
LEMMA StepDone ==
  ASSUME AccountInv, TallyInv', UNCHANGED <<program, effects>>, mode' # "done",
         step' = "none" \/ ~Running'
  PROVE  AccountInv'
BY DEF AccountInv, InWrite, PerformedOnce

(* The entry of a call is recorded, and the call returns.                  *)
LEMMA TallyReturns ==
  ASSUME ~MixedBatch,
         ReplayInv, ReplayInv', AccountInv, Running, Running', step = "none", step' = "none",
         pc <= Len(program), Op # "once", NEW e \in Entries,
         e.kind \notin {"Pending", "Jump", "Invoked"}, ~SideEffect(e), Grows(e),
         UNCHANGED <<program, effects>>, Len(seen') = Len(seen) + 1,
         \A k \in 1 .. Len(seen) : seen'[k] = seen[k],
         \A k \in 1 .. Len(seen) : Closes(program, k, pc) =>
           /\ e.kind = (IF program[k] = "begin" THEN "EndAtomic" ELSE "EndWrite")
           /\ e.begin = seen[k].value,
         kept' = kept \/ (buffer' = <<>> /\ Keep(pc))
  PROVE  AccountInv'
<1>0. /\ LogType /\ GuestType /\ kept \in Nat /\ effects \in Seq(Nat) /\ TallyLive
      /\ program \in Programs
  BY DEF ReplayInv, AccountInv, TallyInv, GuestType
<1>1. PICK n \in Nat : n = Len(seen) /\ pc = n + 1
  BY <1>0 DEF GuestType, pc
<1>2. PICK at : LiveAt(at) /\ Tallied(at, n)
  BY <1>0, <1>1 DEF TallyLive
<1>3. /\ LogType' /\ DeletedRegions' = DeletedRegions
      /\ oplog' \in Seq(Entries) /\ Len(oplog') \in Nat
      /\ Chain(oplog', DeletedRegions, program, timeline, at, n)
      /\ NextVis(oplog', DeletedRegions, at[n], Len(oplog'))
      /\ oplog'[Len(oplog')] = e
  <2>1. e.kind \notin {"Pending", "Jump"}
    OBVIOUS
  <2> QED
    BY <1>0, <1>1, <1>2, <2>1, LiveAdds
<1>4. Account(oplog', Len(durable'), DeletedRegions, program, at, n, kept, effects)
  <2>1. e.kind # "Jump" /\ Recorded(oplog, DeletedRegions, program, timeline, at, n)
    BY <1>1, <1>2 DEF LiveAt
  <2> QED
    BY <1>0, <1>2, <2>1, TallyAdds
<1>5. Len(program) \in Nat /\ NoBackFirst(program)
  BY <1>0, RegionsAre
<1>6. \E x \in Nat : NextVis(oplog', DeletedRegions', at[n], x) /\ oplog'[x].kind # "Invoked"
  BY <1>3
<1>7. ASSUME NEW to, LiveAt(to)', NEW k \in 1 .. n, Closes(program, k, n + 1)
      PROVE  EndsAt(oplog', to[n + 1], program[k], to[k])
  <2>1. /\ Chain(oplog', DeletedRegions, program, timeline', to, n + 1)
        /\ Clear(oplog', DeletedRegions, to[n + 1], Len(oplog'))
    BY <1>1, <1>3, <1>7 DEF LiveAt, Recorded
  <2>2. at[n] = to[n]
    <3>1. PICK m : m = n + 1 /\ Chain(oplog', DeletedRegions, program, timeline', to, m)
                   /\ Clear(oplog', DeletedRegions, to[m], Len(oplog'))
      BY <2>1
    <3>2. \A i \in 0 .. n : i <= m => at[i] = to[i]
      BY <1>3, <1>5, <1>6, <3>1, ChainsAgree
    <3> QED
      BY <3>1, <3>2
  <2>3. program[n + 1] \notin {"back", "once"} /\ Opens(program[k])
    BY <1>7 DEF Closes, Closing
  <2>4. PICK a \in Nat, b \in Nat : a = to[n] /\ b = to[n + 1]
    <3>1. to \in [0 .. n + 1 -> 2 .. Len(oplog')]
      BY <2>1 DEF Chain
    <3> QED
      BY <1>3, <3>1
  <2>5. Link(oplog', DeletedRegions, program[n + 1], a, b, timeline'[n + 1])
    <3>1. n + 1 \in 1 .. n + 1 /\ n + 1 - 1 = n
      OBVIOUS
    <3>2. Link(oplog', DeletedRegions, program[n + 1], to[n + 1 - 1], to[n + 1], timeline'[n + 1])
      BY <2>1, <3>1 DEF Chain
    <3> QED
      BY <2>4, <3>1, <3>2
  <2>6. b = Len(oplog')
    <3>1. NextVis(oplog', DeletedRegions, a, b)
      BY <2>3, <2>5, LinkMoves
    <3> QED
      BY <1>3, <2>2, <2>4, <3>1, OneNext
  <2>7. timeline'[k] = Answer(to[k], 0)
    <3>1. k \in 1 .. n + 1
      OBVIOUS
    <3> QED
      BY <2>1, <2>3, <3>1, OpenedIndex
  <2>8. seen[k].value = to[k]
    <3>1. seen'[k] = timeline'[k]
      <4>1. Agrees(seen', timeline') /\ k \in 1 .. Len(seen')
        BY <1>1 DEF ReplayInv, ModeInv, Running, Live
      <4> QED
        BY <4>1 DEF Agrees
    <3>2. seen'[k] = seen[k]
      BY <1>1
    <3> QED
      BY <2>7, <3>1, <3>2 DEF Answer
  <2>9. /\ e.kind = (IF program[k] = "begin" THEN "EndAtomic" ELSE "EndWrite")
        /\ e.begin = seen[k].value
    BY <1>1, <1>7
  <2> QED
    BY <1>3, <2>4, <2>6, <2>8, <2>9 DEF EndsAt
<1>8. ~OnlyOnce(program, n + 1)
  BY <1>1 DEF OnlyOnce, Op
<1>9. kept' = kept \/ (buffer' = <<>> /\ Keep(n + 1))
  BY <1>1 DEF Keep
<1>10. TallyInv'
  <2>1. /\ Chain(oplog', DeletedRegions', program, timeline, at, n)
        /\ Account(oplog', Len(durable'), DeletedRegions', program, at, n, kept, effects)
        /\ Len(seen') = n + 1
    BY <1>1, <1>3, <1>4
  <2> QED
    BY <1>0, <1>6, <1>7, <1>8, <1>9, <2>1, TallyArrives
<1> QED
  BY <1>10, StepDone DEF Running

LEMMA CallLiveTallies ==
  ASSUME ~MixedBatch, ReplayInv, ReplayInv', AccountInv, NEW op \in {"call", "part"}, CallLive(op)
  PROVE  AccountInv'
<1>0. /\ LogType /\ GuestType /\ mode = "guest" /\ step = "none" /\ last = target
      /\ pc <= Len(program) /\ Op = op /\ program[pc] = op
  BY InGuest DEF CallLive, IsLive
<1>1. PICK again \in {0, 1} :
        /\ LET e == [kind |-> op, value |-> again, boot |-> boots]
           IN  IF op = "part" THEN AddAndCommit(<<e>>) /\ Keep(pc)
               ELSE AddEntry(e) /\ UNCHANGED kept
        /\ Returns(Answer(again, boots), TRUE)
  BY DEF CallLive
<1>2. PICK e \in Entries : e = [kind |-> op, value |-> again, boot |-> boots] /\ e.kind = op
  <2>1. again \in Nat /\ boots \in Nat
    BY <1>0 DEF GuestType
  <2>2. [kind |-> op, value |-> again, boot |-> boots] \in Entries
    BY <2>1, EntryTyped
  <2> QED
    BY <2>2
<1>3. Grows(e) /\ (kept' = kept \/ (buffer' = <<>> /\ Keep(pc)))
  BY <1>1, <1>2 DEF Grows, Buffered, AddAndCommit
<1>4. /\ e.kind \notin {"Pending", "Jump", "Invoked"} /\ ~SideEffect(e) /\ Op # "once"
      /\ \A k \in 1 .. Len(seen) : ~Closes(program, k, pc)
  BY <1>0, <1>2 DEF SideEffect, Closes, Closing
<1>5. /\ step' = "none" /\ UNCHANGED <<program, effects>> /\ Running /\ Running'
  BY <1>0 DEF CallLive, replayVars, Running
<1>6. Len(seen') = Len(seen) + 1 /\ \A k \in 1 .. Len(seen) : seen'[k] = seen[k]
  BY <1>0, <1>1 DEF Returns, GuestType
<1> QED
  BY <1>0, <1>3, <1>4, <1>5, <1>6, TallyReturns

LEMMA EndLiveTallies ==
  ASSUME ~MixedBatch, ReplayInv, ReplayInv', AccountInv, NEW op \in {"end", "close"}, EndLive(op)
  PROVE  AccountInv'
<1>0. /\ LogType /\ GuestType /\ mode = "guest" /\ step = "none" /\ last = target
      /\ pc <= Len(program) /\ Op = op /\ program[pc] = op /\ pc = Len(seen) + 1
      /\ Len(seen) \in Nat
  BY InGuest DEF EndLive, IsLive
<1>1. PICK opener : opener = IF op = "end" THEN "begin" ELSE "open"
  OBVIOUS
<1>2. PICK begin \in Nat : begin = seen[LastOf(opener)].value
  <2>1. <<Op, opener>> \in Needs
    BY <1>0, <1>1 DEF Needs
  <2>2. LastOf(opener) \in 1 .. Len(seen)
    BY <1>0, <2>1, LastOfIs
  <2>3. seen[LastOf(opener)] \in Answers
    BY <1>0, <2>2 DEF GuestType
  <2> QED
    BY <2>3 DEF Answers
<1>3. PICK kind \in {"EndAtomic", "EndWrite"} :
        kind = IF op = "end" THEN "EndAtomic" ELSE "EndWrite"
  OBVIOUS
<1>4. PICK e \in Entries : /\ e = [kind |-> kind, begin |-> begin]
                           /\ e.kind = kind /\ e.begin = begin
  <2>1. [kind |-> kind, begin |-> begin] \in Entries
    BY EntryTyped
  <2> QED
    BY <2>1
<1>5. Grows(e) /\ (kept' = kept \/ (buffer' = <<>> /\ Keep(pc)))
  BY <1>1, <1>2, <1>3, <1>4 DEF EndLive, Grows, Buffered, AddAndCommit
<1>6. e.kind \notin {"Pending", "Jump", "Invoked"} /\ ~SideEffect(e) /\ Op # "once"
  BY <1>0, <1>4 DEF SideEffect
<1>7. ASSUME NEW k \in 1 .. Len(seen), Closes(program, k, pc)
      PROVE  /\ e.kind = (IF program[k] = "begin" THEN "EndAtomic" ELSE "EndWrite")
             /\ e.begin = seen[k].value
  <2>1. program[k] = opener /\ (program[k] = "begin" <=> op = "end")
    BY <1>0, <1>1, <1>7 DEF Closes, Closing, Opens
  <2>2. \A j \in k + 1 .. Len(seen) : program[j] # opener
    BY <1>0, <1>7, <2>1 DEF Closes
  <2>3. LastOf(opener) = k
    <3> DEFINE S == {j \in 1 .. pc - 1 : program[j] = opener}
    <3>1. k \in S /\ \A j \in S : k >= j
      BY <1>0, <2>1, <2>2
    <3>2. LastOf(opener) = CHOOSE x \in S : \A y \in S : x >= y
      BY DEF LastOf, Max
    <3>3. \A x \in S : (\A y \in S : x >= y) => x = k
      BY <1>0, <3>1
    <3> HIDE DEF S
    <3> QED
      BY <3>1, <3>2, <3>3
  <2> QED
    BY <1>2, <1>3, <1>4, <2>1, <2>3
<1>8. /\ step' = "none" /\ UNCHANGED <<program, effects>> /\ Running /\ Running'
  BY <1>0 DEF EndLive, replayVars, Running
<1>9. Len(seen') = Len(seen) + 1 /\ \A k \in 1 .. Len(seen) : seen'[k] = seen[k]
  BY <1>0 DEF EndLive, Returns, GuestType
<1> QED
  BY <1>0, <1>5, <1>6, <1>7, <1>8, <1>9, TallyReturns

LEMMA AccountMore ==
  ASSUME NEW D \in Seq(Entries), NEW R, NEW p, NEW tl, NEW at, NEW n, NEW L \in Nat,
         NEW M \in Nat, L <= M, Chain(D, R, p, tl, at, n), NEW K, NEW F,
         Account(D, L, R, p, at, n, K, F)
  PROVE  Account(D, M, R, p, at, n, K, F)
<1>1. n \in Nat /\ at \in [0 .. n -> 2 .. Len(D)] /\ Len(D) \in Nat
  BY DEF Chain
<1>2. Committed(p, at, n, M, K)
  <2> SUFFICES ASSUME NEW c \in 1 .. K, IsCall(p[c]) PROVE c <= n /\ at[c] <= M
    BY DEF Committed
  <2>1. c <= n /\ at[c] <= L
    BY DEF Account, Committed
  <2>2. at[c] \in Nat
    <3>1. c \in 0 .. n
      BY <1>1, <2>1
    <3> QED
      BY <1>1, <3>1
  <2> QED
    BY <2>1, <2>2
<1>3. RegionsOver(D, M, R, p, at, K, F)
  <2>1. \A op, a : RegionOver(D, L, R, op, a) => RegionOver(D, M, R, op, a)
    BY DEF RegionOver
  <2> QED
    BY <2>1 DEF Account, RegionsOver
<1> QED
  BY <1>2, <1>3 DEF Account

(* The guest stays live behind the same calls.                             *)
LEMMA TallyStays ==
  ASSUME ~MixedBatch, ReplayInv', Running', program \in Programs, program' = program,
         kept' \in Nat, effects' \in Seq(Nat), NEW tl, NEW n, n = Len(seen'),
         NEW at, Chain(oplog', DeletedRegions', program, tl, at, n),
         \/ Clear(oplog', DeletedRegions', at[n], Len(oplog'))
         \/ \E x \in Nat : NextVis(oplog', DeletedRegions', at[n], x) /\ oplog'[x].kind # "Invoked",
         Account(oplog', Len(durable'), DeletedRegions', program, at, n, kept', effects')
  PROVE  TallyInv'
<1>1. LogType' /\ Live'
  BY DEF ReplayInv, ModeInv, Running
<1>2. PICK to : LiveAt(to)'
  BY <1>1 DEF Live
<1>3. /\ Chain(oplog', DeletedRegions', program, timeline', to, n)
      /\ \/ Clear(oplog', DeletedRegions', to[n], Len(oplog'))
         \/ \E x \in Nat : NextVis(oplog', DeletedRegions', to[n], x) /\ oplog'[x].kind # "Invoked"
  <2>1. Recorded(oplog', DeletedRegions', program, timeline', to, n)
    BY <1>2 DEF LiveAt
  <2> QED
    BY <2>1, RestBegins DEF Recorded
<1>4. Len(program) \in Nat /\ NoBackFirst(program) /\ oplog' \in Seq(Entries)
  BY <1>1, RegionsAre, NextLog
<1>5. at = to
  BY <1>3, <1>4, OneChain
<1>6. TallyLive'
  BY <1>2, <1>5 DEF TallyLive, Tallied
<1> QED
  BY <1>6 DEF TallyInv

(* A write that is next was not performed, if nothing is after the calls.  *)
LEMMA NotPerformed ==
  ASSUME NEW D \in Seq(Entries), NEW L, NEW R, NEW p, NEW tl, NEW at, NEW n, NEW K, NEW F,
         Chain(D, R, p, tl, at, n), Account(D, L, R, p, at, n, K, F),
         Clear(D, R, at[n], Len(D)), NEW q \in Nat, OnlyOnce(p, q), Performed(F, q)
  PROVE  q <= n
<1> SUFFICES ASSUME ~(q <= n) PROVE FALSE
  OBVIOUS
<1>1. n \in Nat /\ at[n] \in Nat /\ Len(D) \in Nat
  BY ChainEnd
<1>2. PICK x \in Nat : NextVis(D, R, at[n], x)
  BY DEF Account, Written
<1> QED
  BY <1>1, <1>2 DEF NextVis, Clear, Vis

(* The first entry of a call is recorded.                                  *)
LEMMA TallyBegins ==
  ASSUME ~MixedBatch,
         ReplayInv, ReplayInv', AccountInv, Running, Running', step = "none", step' = "index",
         NEW e \in Entries, e.kind \notin {"Pending", "Jump", "Invoked"}, ~SideEffect(e),
         Grows(e), UNCHANGED <<program, effects, seen>>,
         kept' = kept \/ (buffer' = <<>> /\ Keep(pc - 1)), Op = "once" => buffer' = <<>>
  PROVE  AccountInv'
<1>0. /\ LogType /\ GuestType /\ kept \in Nat /\ effects \in Seq(Nat) /\ TallyLive
      /\ program \in Programs
  BY DEF ReplayInv, AccountInv, TallyInv, GuestType
<1>1. PICK n \in Nat : n = Len(seen) /\ pc = n + 1 /\ pc - 1 = n /\ n = Len(seen')
  BY <1>0 DEF GuestType, pc
<1>2. PICK at : LiveAt(at) /\ Tallied(at, n)
  BY <1>0, <1>1 DEF TallyLive
<1>3. /\ LogType' /\ DeletedRegions' = DeletedRegions
      /\ oplog' \in Seq(Entries) /\ Len(oplog') \in Nat
      /\ Chain(oplog', DeletedRegions, program, timeline, at, n)
      /\ NextVis(oplog', DeletedRegions, at[n], Len(oplog'))
      /\ oplog'[Len(oplog')] = e
  <2>1. e.kind \notin {"Pending", "Jump"}
    OBVIOUS
  <2> QED
    BY <1>0, <1>1, <1>2, <2>1, LiveAdds
<1>4. Account(oplog', Len(durable'), DeletedRegions, program, at, n, kept, effects)
  <2>1. e.kind # "Jump" /\ Recorded(oplog, DeletedRegions, program, timeline, at, n)
    BY <1>1, <1>2 DEF LiveAt
  <2> QED
    BY <1>0, <1>2, <2>1, TallyAdds
<1>5. \E x \in Nat : NextVis(oplog', DeletedRegions', at[n], x) /\ oplog'[x].kind # "Invoked"
  BY <1>3
<1>6. /\ kept' \in Nat
      /\ Account(oplog', Len(durable'), DeletedRegions', program, at, n, kept', effects)
  <2>1. kept' = kept \/ (buffer' = <<>> /\ Keep(n))
    BY <1>1 DEF Keep
  <2>2. /\ Chain(oplog', DeletedRegions', program, timeline, at, n)
        /\ Account(oplog', Len(durable'), DeletedRegions', program, at, n, kept, effects)
    BY <1>3, <1>4
  <2> QED
    BY <1>0, <1>3, <2>1, <2>2, TallyKeep
<1>7. TallyInv'
  <2>1. /\ Chain(oplog', DeletedRegions', program, timeline, at, n)
        /\ Account(oplog', Len(durable'), DeletedRegions', program, at, n, kept', effects')
        /\ effects' \in Seq(Nat)
    BY <1>0, <1>3, <1>6
  <2> QED
    BY <1>0, <1>1, <1>5, <1>6, <2>1, TallyStays
<1>8. OnlyOnce(program, pc) => ~Performed(effects, pc)
  <2>1. /\ Chain(oplog, DeletedRegions, program, timeline, at, n)
        /\ Clear(oplog, DeletedRegions, at[n], Len(oplog))
        /\ Account(oplog, Len(durable), DeletedRegions, program, at, n, kept, effects)
        /\ oplog \in Seq(Entries)
    BY <1>0, <1>1, <1>2, OplogIs DEF LiveAt, Recorded, Tallied
  <2>2. pc \in Nat /\ ~(pc <= n)
    BY <1>1
  <2> QED
    BY <2>1, <2>2, NotPerformed
<1>9. InWrite'
  <2>1. pc' = pc /\ Op' = Op
    BY DEF pc, Op
  <2> QED
    BY <1>8, <2>1 DEF InWrite
<1> QED
  BY <1>7, <1>9 DEF AccountInv, PerformedOnce, Running

LEMMA AddMarkerTallies ==
  ASSUME ~MixedBatch,
         ReplayInv, ReplayInv', AccountInv, NEW op \in {"save", "begin", "open"}, AddMarker(op)
  PROVE  AccountInv'
<1>0. mode = "guest" /\ step = "none" /\ last = target /\ Op = op
  BY InGuest DEF AddMarker, IsLive
<1>1. PICK e \in Entries : e = [kind |-> EntryOf[op]] /\ e.kind = EntryOf[op]
  <2>1. EntryOf[op] \in {"NoOp", "BeginAtomic", "BeginWrite"}
    BY KindsAre
  <2>2. [kind |-> EntryOf[op]] \in Entries
    BY <2>1, EntryTyped
  <2> QED
    BY <2>2
<1>2. e.kind \in {"NoOp", "BeginAtomic", "BeginWrite"} /\ (op # "open" => Buffered(e.kind))
  BY <1>1, KindsAre DEF Buffered
<1>3. Grows(e) /\ (kept' = kept \/ (buffer' = <<>> /\ Keep(pc - 1)))
  BY <1>1, <1>2 DEF AddMarker, Grows, AddAndCommit
<1>4. e.kind \notin {"Pending", "Jump", "Invoked"} /\ ~SideEffect(e) /\ Op # "once"
  BY <1>0, <1>2 DEF SideEffect
<1>5. step' = "index" /\ UNCHANGED <<program, effects, seen>> /\ Running /\ Running'
  BY <1>0 DEF AddMarker, replayVars, Running
<1> QED
  BY <1>0, <1>3, <1>4, <1>5, TallyBegins

LEMMA BeginOnceTallies ==
  ASSUME ~MixedBatch, ReplayInv, ReplayInv', AccountInv, BeginOnce
  PROVE  AccountInv'
<1>0. mode = "guest" /\ step = "none" /\ last = target
  BY InGuest DEF BeginOnce, IsLive
<1>1. PICK e \in Entries : e = [kind |-> "BeginWrite"] /\ e.kind = "BeginWrite"
  <2>1. [kind |-> "BeginWrite"] \in Entries
    BY EntryTyped
  <2> QED
    BY <2>1
<1>2. Grows(e) /\ buffer' = <<>> /\ Keep(pc - 1)
  BY <1>1 DEF BeginOnce, Grows, AddAndCommit
<1>3. e.kind \notin {"Pending", "Jump", "Invoked"} /\ ~SideEffect(e)
  BY <1>1 DEF SideEffect
<1>4. step' = "index" /\ UNCHANGED <<program, effects, seen>> /\ Running /\ Running'
  BY <1>0 DEF BeginOnce, replayVars, Running
<1> QED
  BY <1>0, <1>2, <1>3, <1>4, TallyBegins

(* A live guest, whose calls are in the account.                           *)
LEMMA RunningIs ==
  ASSUME ~MixedBatch, ReplayInv, AccountInv, Running
  PROVE  /\ LogType /\ GuestType /\ Live /\ kept \in Nat /\ effects \in Seq(Nat)
         /\ program \in Programs /\ Len(program) \in Nat /\ NoBackFirst(program)
         /\ Bracketed(program) /\ Len(seen) \in Nat /\ pc = Len(seen) + 1
         /\ oplog \in Seq(Entries) /\ Len(oplog) \in Nat
         /\ Len(durable) \in Nat /\ Len(durable) <= Len(oplog)
         /\ \E at : /\ LiveAt(at) /\ Tallied(at, Len(seen))
                    /\ Recorded(oplog, DeletedRegions, program, timeline, at, Len(seen))
                    /\ Chain(oplog, DeletedRegions, program, timeline, at, Len(seen))
                    /\ Account(oplog, Len(durable), DeletedRegions, program, at, Len(seen),
                               kept, effects)
<1>1. /\ LogType /\ GuestType /\ Live /\ kept \in Nat /\ effects \in Seq(Nat) /\ TallyLive
      /\ program \in Programs /\ Len(seen) \in Nat /\ pc = Len(seen) + 1
  BY DEF ReplayInv, ModeInv, Running, AccountInv, TallyInv, GuestType, pc
<1>2. PICK at : LiveAt(at) /\ Tallied(at, Len(seen))
  BY <1>1 DEF TallyLive
<1>3. /\ Recorded(oplog, DeletedRegions, program, timeline, at, Len(seen))
      /\ Chain(oplog, DeletedRegions, program, timeline, at, Len(seen))
      /\ Account(oplog, Len(durable), DeletedRegions, program, at, Len(seen), kept, effects)
  BY <1>2 DEF LiveAt, Recorded, Tallied
<1>4. oplog \in Seq(Entries) /\ Len(oplog) \in Nat /\ Len(durable) \in Nat
      /\ Len(durable) <= Len(oplog)
  BY <1>1, OplogIs DEF LogType
<1> QED
  BY <1>1, <1>2, <1>3, <1>4, RegionsAre

LEMMA ReadIndexTallies ==
  ASSUME ~MixedBatch,
         ReplayInv, ReplayInv', AccountInv, NEW op \in {"save", "begin", "open"}, ReadIndex(op)
  PROVE  AccountInv'
<1>0. /\ mode = "guest" /\ step = "index" /\ last = target /\ Op = op /\ program[pc] = op
      /\ Running
  BY InGuest, InsideIsLive DEF ReadIndex, Running
<1>1. /\ step' = "none" /\ UNCHANGED <<program, effects, oplogVars, kept>> /\ Running'
  BY <1>0 DEF ReadIndex, replayVars, Running
<1>2. /\ LogType /\ GuestType /\ kept \in Nat /\ effects \in Seq(Nat)
  BY <1>0, RunningIs
<1>3. PICK n \in Nat : n = Len(seen) /\ pc = n + 1 /\ Len(seen') = n + 1
  <2>1. Len(seen') = Len(seen) + 1
    BY <1>2 DEF ReadIndex, Returns, GuestType
  <2> QED
    BY <1>0, <2>1, RunningIs
<1>4. PICK at : /\ Recorded(oplog, DeletedRegions, program, timeline, at, n)
                /\ Chain(oplog, DeletedRegions, program, timeline, at, n)
                /\ Account(oplog, Len(durable), DeletedRegions, program, at, n, kept, effects)
  BY <1>0, <1>3, RunningIs
<1>5. oplog' = oplog /\ DeletedRegions' = DeletedRegions /\ durable' = durable
  BY <1>1, SameOplog DEF oplogVars
<1>6. \/ Clear(oplog, DeletedRegions, at[n], Len(oplog))
      \/ \E x \in Nat : NextVis(oplog, DeletedRegions, at[n], x) /\ oplog[x].kind # "Invoked"
  BY <1>4, RestBegins DEF Recorded
<1>7. ~OnlyOnce(program, n + 1) /\ \A k \in 1 .. n : ~Closes(program, k, n + 1)
  BY <1>0, <1>3 DEF OnlyOnce, Closes, Closing
<1>8. TallyInv'
  BY <1>1, <1>2, <1>3, <1>4, <1>5, <1>6, <1>7, TallyArrives
<1> QED
  BY <1>0, <1>1, <1>8, StepDone DEF Running

LEMMA PerformOnceTallies ==
  ASSUME ~MixedBatch, ReplayInv, ReplayInv', AccountInv, PerformOnce
  PROVE  AccountInv'
<1>0. mode = "guest" /\ step = "index" /\ last = target /\ Op = "once" /\ Running
  BY InGuest, InsideIsLive DEF PerformOnce, Running
<1>1. /\ step' = "record" /\ UNCHANGED <<program, oplogVars, kept, seen>> /\ Running'
      /\ effects' = Append(effects, pc) /\ mode' = "guest"
  BY <1>0 DEF PerformOnce, replayVars, Running
<1>2. /\ LogType /\ GuestType /\ kept \in Nat /\ effects \in Seq(Nat) /\ program \in Programs
      /\ Len(program) \in Nat /\ Bracketed(program) /\ oplog \in Seq(Entries)
  BY <1>0, RunningIs
<1>3. PICK n \in Nat : n = Len(seen) /\ pc = n + 1 /\ n = Len(seen')
  BY <1>0, <1>1, RunningIs
<1>4. PICK at : /\ LiveAt(at) /\ Recorded(oplog, DeletedRegions, program, timeline, at, n)
                /\ Chain(oplog, DeletedRegions, program, timeline, at, n)
                /\ Account(oplog, Len(durable), DeletedRegions, program, at, n, kept, effects)
  BY <1>0, <1>3, RunningIs
<1>5. /\ oplog' = oplog /\ DeletedRegions' = DeletedRegions /\ durable' = durable
      /\ durable = oplog /\ buffer = <<>>
  <2>1. buffer = <<>>
    BY <1>0 DEF AccountInv, InWrite
  <2> QED
    BY <1>1, <1>2, <2>1, SameOplog, EmptyBuffer DEF oplogVars
<1>6. PICK x \in Nat : NextVis(oplog, DeletedRegions, at[n], x) /\ oplog[x].kind = "BeginWrite"
  <2>1. PICK x \in Nat :
          /\ NextVis(oplog, DeletedRegions, at[n], x)
          /\ Marks(Op, oplog[x].kind) \/ oplog[x].kind = "BeginWrite"
    BY <1>0, <1>2, <1>3, <1>4 DEF LiveAt
  <2>2. ~Marks(Op, oplog[x].kind)
    BY <1>0 DEF Marks
  <2> QED
    BY <2>1, <2>2
<1>7. Account(oplog, Len(oplog), DeletedRegions, program, at, n, kept, Append(effects, n + 1))
  BY <1>2, <1>4, <1>5, <1>6, AccountPerform
<1>8. effects' \in Seq(Nat) /\ Len(effects') = Len(effects) + 1 /\ Len(effects) \in Nat
      /\ effects'[Len(effects) + 1] = pc
      /\ \A i \in 1 .. Len(effects) : effects'[i] = effects[i]
  BY <1>1, <1>2, <1>3
<1>9. TallyInv'
  <2>1. /\ Chain(oplog', DeletedRegions', program, timeline, at, n)
        /\ \E y \in Nat : NextVis(oplog', DeletedRegions', at[n], y) /\ oplog'[y].kind # "Invoked"
        /\ Account(oplog', Len(durable'), DeletedRegions', program, at, n, kept', effects')
        /\ kept' \in Nat
    BY <1>1, <1>2, <1>3, <1>4, <1>5, <1>6, <1>7
  <2> QED
    BY <1>1, <1>2, <1>3, <1>8, <2>1, TallyStays
<1>10. InWrite'
  <2>1. pc' = pc
    BY <1>1 DEF pc
  <2>2. Performed(effects', pc)
    <3>1. Len(effects) + 1 \in DOMAIN effects'
      BY <1>8
    <3> QED
      BY <1>8, <3>1 DEF Performed
  <2> QED
    BY <1>1, <2>1, <2>2 DEF InWrite
<1>11. PerformedOnce'
  <2>1. OnlyOnce(program, pc) => \A i \in 1 .. Len(effects) : effects[i] # pc
    <3>1. OnlyOnce(program, pc) => ~Performed(effects, pc)
      BY <1>0 DEF AccountInv, InWrite
    <3>2. DOMAIN effects = 1 .. Len(effects)
      BY <1>2
    <3> QED
      BY <3>1, <3>2 DEF Performed
  <2>2. ASSUME NEW i \in DOMAIN effects', NEW j \in DOMAIN effects', effects'[i] = effects'[j],
               OnlyOnce(program, effects'[i])
        PROVE  i = j
    <3>1. /\ i \in 1 .. Len(effects) \/ i = Len(effects) + 1
          /\ j \in 1 .. Len(effects) \/ j = Len(effects) + 1
          /\ DOMAIN effects = 1 .. Len(effects)
      BY <1>2, <1>8
    <3>2. CASE i \in 1 .. Len(effects) /\ j \in 1 .. Len(effects)
      <4>1. effects[i] = effects[j] /\ OnlyOnce(program, effects[i]) /\ i \in DOMAIN effects
            /\ j \in DOMAIN effects
        BY <1>8, <2>2, <3>1, <3>2
      <4> QED
        BY <4>1 DEF AccountInv, PerformedOnce
    <3>3. CASE ~(i \in 1 .. Len(effects) /\ j \in 1 .. Len(effects))
      BY <1>8, <2>1, <2>2, <3>1, <3>3
    <3> QED
      BY <3>2, <3>3
  <2> QED
    BY <1>1, <2>2 DEF PerformedOnce
<1> QED
  BY <1>9, <1>10, <1>11 DEF AccountInv

LEMMA RecordOnceTallies ==
  ASSUME ~MixedBatch, ReplayInv, ReplayInv', AccountInv, RecordOnce
  PROVE  AccountInv'
<1>0. /\ mode = "guest" /\ step = "record" /\ last = target /\ Op = "once" /\ Running
      /\ program[pc] = "once" /\ pc <= Len(program)
  BY InGuest, InsideIsLive DEF RecordOnce, Running
<1>1. step' = "none" /\ UNCHANGED <<program, effects>> /\ Running' /\ mode' = "guest"
  BY <1>0 DEF RecordOnce, replayVars, Running
<1>2. /\ LogType /\ GuestType /\ kept \in Nat /\ effects \in Seq(Nat) /\ program \in Programs
      /\ Len(program) \in Nat /\ Bracketed(program) /\ oplog \in Seq(Entries)
      /\ Len(oplog) \in Nat /\ Len(durable) \in Nat /\ Len(durable) <= Len(oplog)
  BY <1>0, RunningIs
<1>3. PICK n \in Nat : n = Len(seen) /\ pc = n + 1 /\ Len(seen') = n + 1
  <2>1. Len(seen') = Len(seen) + 1
    BY <1>2 DEF RecordOnce, Returns, GuestType
  <2> QED
    BY <1>0, <2>1, RunningIs
<1>4. PICK at : /\ LiveAt(at) /\ Chain(oplog, DeletedRegions, program, timeline, at, n)
                /\ Anchored(oplog, DeletedRegions, at[0])
                /\ Account(oplog, Len(durable), DeletedRegions, program, at, n, kept, effects)
  BY <1>0, <1>3, RunningIs DEF Recorded
<1>5. PICK e \in Entries : e = [kind |-> "Write", value |-> 0, boot |-> boots] /\ e.kind = "Write"
  <2>1. boots \in Nat
    BY <1>2 DEF GuestType
  <2>2. [kind |-> "Write", value |-> 0, boot |-> boots] \in Entries
    BY <2>1, EntryTyped
  <2> QED
    BY <2>2
<1>6. PICK f \in Entries : f = [kind |-> "EndWrite", begin |-> source] /\ f.kind = "EndWrite"
  <2>1. source \in Nat
    BY <1>2 DEF GuestType
  <2>2. [kind |-> "EndWrite", begin |-> source] \in Entries
    BY <2>1, EntryTyped
  <2> QED
    BY <2>2
<1>7. AddAndCommit(<<e, f>>) /\ Keep(pc) /\ buffer' = <<>>
  BY <1>5, <1>6 DEF RecordOnce, AddAndCommit
<1>8. PICK mid : /\ LogType' /\ DeletedRegions' = DeletedRegions
                 /\ Longer(oplog, e, mid) /\ Longer(mid, f, oplog')
  <2>1. e.kind # "Jump" /\ f.kind # "Jump"
    BY <1>5, <1>6
  <2> QED
    BY <1>2, <1>7, <2>1, TwoAre
<1> DEFINE R == DeletedRegions
           L == Len(durable)
<1>9. /\ mid \in Seq(Entries) /\ Len(mid) = Len(oplog) + 1 /\ R \subseteq 2 .. Len(oplog)
      /\ R \subseteq 2 .. Len(mid) /\ L \in 0 .. Len(oplog) /\ L \in 0 .. Len(mid) /\ L \in Nat
      /\ Len(oplog') = Len(mid) + 1 /\ Len(durable') = Len(oplog') /\ L <= Len(durable')
      /\ Len(durable') \in Nat /\ L <= L /\ oplog' \in Seq(Entries)
  <2>1. mid \in Seq(Entries) /\ Len(mid) = Len(oplog) + 1 /\ Len(oplog') = Len(mid) + 1
        /\ oplog' \in Seq(Entries)
    BY <1>8 DEF Longer
  <2>2. R \subseteq 2 .. Len(oplog)
    BY <1>2, OplogIs
  <2>3. Len(durable') = Len(oplog') /\ Len(durable') \in Nat
    BY <1>7, <1>8, NextLog
  <2> QED
    BY <1>2, <2>1, <2>2, <2>3
<1>10. /\ \A k \in 1 .. n : program[k] = "open" => \E c \in 1 .. n : Closes(program, k, c)
       /\ n < Len(program) => program[n + 1] # "open"
  <2>1. ASSUME NEW k \in 1 .. n, program[k] = "open"
        PROVE  \E c \in 1 .. n : Closes(program, k, c)
    <3>1. k \in 1 .. Len(program) /\ Opens(program[k])
      BY <1>0, <1>2, <1>3, <2>1 DEF Opens
    <3>2. PICK c \in k + 1 .. Len(program) :
            Closes(program, k, c) /\ \A j \in k + 1 .. c - 1 : program[j] # "once"
      BY <2>1, <3>1, <1>2 DEF Bracketed
    <3>3. c # n + 1
      BY <1>0, <1>3, <2>1, <3>2 DEF Closes, Closing
    <3>4. ~(n + 1 \in k + 1 .. c - 1)
      BY <1>0, <1>3, <3>2
    <3>5. c \in 1 .. n
      BY <1>2, <1>3, <3>2, <3>3, <3>4
    <3> QED
      BY <3>2, <3>5
  <2> QED
    BY <1>0, <1>3, <2>1
<1>11. Account(mid, L, R, program, at, n, kept, effects)
  <2> HIDE DEF R, L
  <2> QED
    BY <1>2, <1>4, <1>8, <1>9, <1>10, AccountLonger DEF R, L
<1>12. Chain(mid, R, program, timeline, at, n) /\ Anchored(mid, R, at[0])
       /\ Same(oplog, R, mid, R, Len(oplog))
  BY <1>2, <1>4, <1>8, <1>9, Added
<1>13. Account(oplog', Len(durable'), R, program, at, n, kept, effects)
  <2>1. ~SideEffect(f)
    BY <1>6 DEF SideEffect
  <2> HIDE DEF R, L
  <2> QED
    BY <1>2, <1>8, <1>9, <1>11, <1>12, <2>1, AccountLonger
<1>14. Chain(oplog', R, program, timeline, at, n) /\ Same(mid, R, oplog', R, Len(mid))
  <2> HIDE DEF R, L
  <2> QED
    BY <1>2, <1>8, <1>9, <1>12, Added
<1>15. \E x \in Nat : NextVis(oplog', R, at[n], x) /\ oplog'[x].kind # "Invoked"
  <2>1. PICK x \in Nat : /\ x <= Len(oplog) /\ NextVis(oplog, R, at[n], x)
                         /\ oplog[x].kind = "BeginWrite"
    <3>1. PICK x \in Nat :
            /\ NextVis(oplog, R, at[n], x)
            /\ Marks(Op, oplog[x].kind) \/ oplog[x].kind = "BeginWrite"
      BY <1>0, <1>2, <1>3, <1>4 DEF LiveAt
    <3>2. ~Marks(Op, oplog[x].kind)
      BY <1>0 DEF Marks
    <3>3. x <= Len(oplog)
      BY <3>1 DEF NextVis, Vis
    <3> QED
      BY <3>1, <3>2, <3>3
  <2>2. at[n] \in Nat
    BY <1>2, <1>4, ChainEnd
  <2>3. NextVis(mid, R, at[n], x) /\ mid[x] = oplog[x]
    BY <1>2, <1>9, <1>12, <2>1, <2>2, SameNext
  <2>4. NextVis(oplog', R, at[n], x) /\ oplog'[x] = mid[x]
    <3>1. x <= Len(mid)
      BY <1>9, <2>1
    <3> QED
      BY <1>9, <1>14, <2>2, <2>3, <3>1, SameNext
  <2> QED
    BY <2>1, <2>3, <2>4
<1>16. OnlyOnce(program, n + 1) => Performed(effects, n + 1)
  BY <1>0, <1>3 DEF AccountInv, InWrite
<1>17. \A k \in 1 .. n : ~Closes(program, k, n + 1)
  BY <1>0, <1>3 DEF Closes, Closing
<1>18. TallyInv'
  <2>1. /\ Chain(oplog', DeletedRegions', program, timeline, at, n)
        /\ Account(oplog', Len(durable'), DeletedRegions', program, at, n, kept, effects)
        /\ \E x \in Nat : NextVis(oplog', DeletedRegions', at[n], x) /\ oplog'[x].kind # "Invoked"
        /\ buffer' = <<>> /\ Keep(n + 1)
    BY <1>3, <1>7, <1>8, <1>13, <1>14, <1>15 DEF Keep
  <2> HIDE DEF R, L
  <2> QED
    BY <1>1, <1>2, <1>3, <1>16, <1>17, <2>1, TallyArrives
<1> QED
  BY <1>1, <1>18, StepDone

LEMMA StartJumpTallies ==
  ASSUME ~MixedBatch, ReplayInv, ReplayInv', AccountInv, StartJump
  PROVE  AccountInv'
<1>0. /\ mode = "guest" /\ last = target /\ Running /\ Op = "back"
  BY InGuest DEF StartJump, IsLive, Running
<1>1. /\ UNCHANGED <<program, oplogVars, kept, seen, effects, mode>> /\ Running'
  BY <1>0 DEF StartJump, replayVars, ghosts, Running
<1>2. /\ LogType /\ kept \in Nat /\ effects \in Seq(Nat) /\ program \in Programs
  BY <1>0, RunningIs
<1>3. PICK n \in Nat : n = Len(seen) /\ n = Len(seen')
  BY <1>0, <1>1, RunningIs
<1>4. PICK at : /\ Recorded(oplog, DeletedRegions, program, timeline, at, n)
                /\ Chain(oplog, DeletedRegions, program, timeline, at, n)
                /\ Account(oplog, Len(durable), DeletedRegions, program, at, n, kept, effects)
  BY <1>0, <1>3, RunningIs
<1>5. oplog' = oplog /\ DeletedRegions' = DeletedRegions /\ durable' = durable
  BY <1>1, SameOplog DEF oplogVars
<1>6. \/ Clear(oplog, DeletedRegions, at[n], Len(oplog))
      \/ \E x \in Nat : NextVis(oplog, DeletedRegions, at[n], x) /\ oplog[x].kind # "Invoked"
  BY <1>4, RestBegins DEF Recorded
<1>7. TallyInv'
  <2>1. /\ Chain(oplog', DeletedRegions', program, timeline, at, n)
        /\ \/ Clear(oplog', DeletedRegions', at[n], Len(oplog'))
           \/ \E x \in Nat : /\ NextVis(oplog', DeletedRegions', at[n], x)
                             /\ oplog'[x].kind # "Invoked"
        /\ Account(oplog', Len(durable'), DeletedRegions', program, at, n, kept', effects')
        /\ kept' \in Nat /\ effects' \in Seq(Nat)
    BY <1>1, <1>2, <1>4, <1>5, <1>6
  <2> QED
    BY <1>1, <1>2, <1>3, <2>1, TallyStays
<1>8. Op' = Op
  BY <1>1 DEF Op, pc
<1> QED
  BY <1>0, <1>1, <1>7, <1>8 DEF AccountInv, InWrite, PerformedOnce

LEMMA CommitTallies ==
  ASSUME ~MixedBatch, ReplayInv, ReplayInv', AccountInv, Commit
  PROVE  AccountInv'
<1>0. /\ mode = "guest" /\ buffer # <<>> /\ AddAndCommit(<<>>) /\ Keep(pc - 1)
      /\ UNCHANGED <<program, last, target, mode, seen, step, effects>>
  BY DEF Commit, replayVars, guestVars
<1>1. Running /\ Running' /\ LogType
  BY <1>0 DEF ReplayInv, ModeInv, Following, Replayed, Stopped, Running
<1>2. LogType' /\ oplog' = oplog /\ DeletedRegions' = DeletedRegions /\ buffer' = <<>>
  BY <1>0, <1>1, CommitIs
<1>3. /\ kept \in Nat /\ effects \in Seq(Nat) /\ program \in Programs /\ oplog \in Seq(Entries)
      /\ Len(durable) \in Nat /\ Len(durable) <= Len(oplog)
  BY <1>1, RunningIs
<1>4. PICK n \in Nat : n = Len(seen) /\ n = Len(seen') /\ pc - 1 = n
  BY <1>0, <1>1, RunningIs
<1>5. PICK at : /\ Recorded(oplog, DeletedRegions, program, timeline, at, n)
                /\ Chain(oplog, DeletedRegions, program, timeline, at, n)
                /\ Account(oplog, Len(durable), DeletedRegions, program, at, n, kept, effects)
  BY <1>1, <1>4, RunningIs
<1>6. Len(durable') \in Nat /\ Len(durable) <= Len(durable')
  <2>1. Len(durable') \in Nat /\ Len(durable') = Len(oplog')
    BY <1>2, NextLog
  <2> QED
    BY <1>2, <1>3, <2>1
<1>7. Account(oplog, Len(durable'), DeletedRegions, program, at, n, kept, effects)
  BY <1>3, <1>5, <1>6, AccountMore
<1>8. /\ kept' \in Nat
      /\ Account(oplog', Len(durable'), DeletedRegions', program, at, n, kept', effects)
  <2>1. buffer' = <<>> /\ Keep(n)
    BY <1>0, <1>2, <1>4 DEF Keep
  <2>2. /\ Chain(oplog', DeletedRegions', program, timeline, at, n)
        /\ Account(oplog', Len(durable'), DeletedRegions', program, at, n, kept, effects)
    BY <1>2, <1>5, <1>7
  <2> QED
    BY <1>2, <1>3, <2>1, <2>2, TallyKeep
<1>9. TallyInv'
  <2>1. \/ Clear(oplog, DeletedRegions, at[n], Len(oplog))
        \/ \E x \in Nat : NextVis(oplog, DeletedRegions, at[n], x) /\ oplog[x].kind # "Invoked"
    BY <1>5, RestBegins DEF Recorded
  <2>2. /\ Chain(oplog', DeletedRegions', program, timeline, at, n)
        /\ \/ Clear(oplog', DeletedRegions', at[n], Len(oplog'))
           \/ \E x \in Nat : /\ NextVis(oplog', DeletedRegions', at[n], x)
                             /\ oplog'[x].kind # "Invoked"
        /\ Account(oplog', Len(durable'), DeletedRegions', program, at, n, kept', effects')
        /\ kept' \in Nat /\ effects' \in Seq(Nat) /\ program' = program
    BY <1>0, <1>2, <1>3, <1>5, <1>8, <2>1
  <2> QED
    BY <1>1, <1>3, <1>4, <2>2, TallyStays
<1>10. InWrite'
  <2>1. pc' = pc /\ Op' = Op
    BY <1>0 DEF pc, Op
  <2> QED
    BY <1>0, <1>1, <1>2, <2>1 DEF AccountInv, InWrite
<1> QED
  BY <1>0, <1>9, <1>10 DEF AccountInv, PerformedOnce

LEMMA RequestTallies ==
  ASSUME ~MixedBatch, ReplayInv, ReplayInv', AccountInv, Request
  PROVE  AccountInv'
<1>0. /\ LogType /\ GuestType /\ AddAndCommit(<<[kind |-> "Pending"]>>) /\ buffer' = <<>>
      /\ IF Running THEN Keep(pc - 1) ELSE kept' = kept
      /\ mode \notin Ended
      /\ UNCHANGED <<program, last, target, mode, seen, step, timeline, effects>>
  BY DEF ReplayInv, Request, replayVars, guestVars, IsLive, AddAndCommit, Running
<1>1. PICK e \in Entries : e = [kind |-> "Pending"] /\ e.kind = "Pending" /\ Grows(e)
  <2>1. [kind |-> "Pending"] \in Entries
    BY EntryTyped
  <2> QED
    BY <1>0, <2>1 DEF Grows
<1>2. Longer(oplog, e, oplog') /\ LogType' /\ DeletedRegions' = DeletedRegions /\ ~SideEffect(e)
      /\ e.kind # "Jump"
  BY <1>0, <1>1, GrowsIs DEF SideEffect
<1>3. /\ oplog \in Seq(Entries) /\ Len(oplog) \in Nat /\ DeletedRegions \subseteq 2 .. Len(oplog)
      /\ Len(program) \in Nat /\ program \in Programs /\ kept \in Nat /\ effects \in Seq(Nat)
  BY <1>0, OplogIs, ProgramIs DEF GuestType, AccountInv, TallyInv
<1>4. ASSUME NEW n, NEW at, Recorded(oplog, DeletedRegions, program, timeline, at, n),
             Tallied(at, n)
      PROVE  /\ Recorded(oplog', DeletedRegions, program, timeline, at, n)
             /\ Account(oplog', Len(durable'), DeletedRegions, program, at, n, kept, effects)
  <2>1. Recorded(oplog', DeletedRegions, program, timeline, at, n)
    BY <1>1, <1>2, <1>3, <1>4, RecordedHint
  <2>2. Account(oplog', Len(durable'), DeletedRegions, program, at, n, kept, effects)
    BY <1>0, <1>1, <1>2, <1>3, <1>4, TallyAdds
  <2> QED
    BY <2>1, <2>2
<1>5. CASE ~Running
  <2>1. kept' = kept /\ ~Running /\ ~Running' /\ TallyRest /\ mode' # "done"
    BY <1>0, <1>5 DEF Running, AccountInv, TallyInv, Ended
  <2>2. CASE Fresh(oplog, DeletedRegions) /\ kept = 0 /\ effects = <<>>
    <3>1. Len(oplog') = Len(oplog) + 1 /\ oplog'[Len(oplog) + 1] = e
          /\ \A i \in 1 .. Len(oplog) : oplog'[i] = oplog[i]
      BY <1>2 DEF Longer
    <3>2. \A i \in 2 .. Len(oplog') :
            i = Len(oplog) + 1 \/ (i \in 2 .. Len(oplog) /\ i \in 1 .. Len(oplog))
      BY <1>3, <3>1
    <3>3. Fresh(oplog', DeletedRegions')
      BY <1>1, <1>2, <2>2, <3>1, <3>2 DEF Fresh
    <3> QED
      BY <1>0, <1>3, <2>1, <2>2, <3>3, StepDone DEF TallyInv, TallyRest, AccountInv
  <2>3. CASE \E n, at : Recorded(oplog, DeletedRegions, program, timeline, at, n) /\ Tallied(at, n)
    <3>1. PICK n, at : Recorded(oplog, DeletedRegions, program, timeline, at, n) /\ Tallied(at, n)
      BY <2>3
    <3>2. /\ Recorded(oplog', DeletedRegions', program', timeline', at, n)
          /\ Tallied(at, n)'
      BY <1>0, <1>2, <1>4, <2>1, <3>1 DEF Tallied
    <3>3. TallyRest'
      BY <3>2 DEF TallyRest
    <3>4. TallyInv'
      BY <1>0, <1>3, <2>1, <3>3 DEF TallyInv
    <3> QED
      BY <1>0, <1>5, <2>1, <3>4, StepDone
  <2> QED
    BY <2>1, <2>2, <2>3 DEF TallyRest
<1>6. CASE Running
  <2>1. Running /\ Running' /\ Keep(pc - 1) /\ mode' = "guest"
    BY <1>0, <1>6 DEF Running
  <2>2. PICK n \in Nat : n = Len(seen) /\ n = Len(seen') /\ pc - 1 = n
    BY <1>0, <2>1, RunningIs
  <2>3. PICK at : /\ Recorded(oplog, DeletedRegions, program, timeline, at, n) /\ Tallied(at, n)
    BY <2>1, <2>2, RunningIs
  <2>4. /\ Recorded(oplog', DeletedRegions', program, timeline, at, n)
        /\ Chain(oplog', DeletedRegions', program, timeline, at, n)
        /\ Account(oplog', Len(durable'), DeletedRegions', program, at, n, kept, effects)
    BY <1>2, <1>4, <2>3 DEF Recorded
  <2>5. /\ kept' \in Nat
        /\ Account(oplog', Len(durable'), DeletedRegions', program, at, n, kept', effects)
    <3>1. Keep(n)
      BY <2>1, <2>2 DEF Keep
    <3> QED
      BY <1>0, <1>2, <1>3, <2>4, <3>1, TallyKeep
  <2>6. \/ Clear(oplog', DeletedRegions', at[n], Len(oplog'))
        \/ \E x \in Nat : NextVis(oplog', DeletedRegions', at[n], x) /\ oplog'[x].kind # "Invoked"
    BY <2>4, RestBegins DEF Recorded
  <2>7. TallyInv'
    <3>1. /\ Account(oplog', Len(durable'), DeletedRegions', program, at, n, kept', effects')
          /\ effects' \in Seq(Nat) /\ program' = program
      BY <1>0, <1>3, <2>5
    <3> QED
      BY <1>3, <2>1, <2>2, <2>4, <2>5, <2>6, <3>1, TallyStays
  <2>8. InWrite'
    <3>1. pc' = pc /\ Op' = Op
      BY <1>0 DEF pc, Op
    <3> QED
      BY <1>0, <2>1, <3>1 DEF AccountInv, InWrite
  <2>9. PerformedOnce'
    BY <1>0, <2>1 DEF AccountInv, PerformedOnce
  <2> QED
    BY <2>7, <2>8, <2>9 DEF AccountInv
<1> QED
  BY <1>5, <1>6

(* A guest that is replayed and stays so, or is stopped.                   *)
LEMMA RestTallies ==
  ASSUME AccountInv, ~Running, ~Running',
         UNCHANGED <<program, oplogVars, timeline, kept, effects>>
  PROVE  TallyInv' /\ (mode' # "done" => AccountInv')
<1>1. oplog' = oplog /\ DeletedRegions' = DeletedRegions /\ durable' = durable
  BY SameOplog DEF oplogVars
<1>2. TallyRest'
  BY <1>1 DEF AccountInv, TallyInv, TallyRest, Tallied
<1>3. TallyInv'
  BY <1>2 DEF AccountInv, TallyInv
<1> QED
  BY <1>3, StepDone

(* A log with an invocation is not fresh.                                  *)
LEMMA RecordedNotFresh ==
  ASSUME NEW D, NEW R, NEW p, NEW tl, NEW at, NEW n, Recorded(D, R, p, tl, at, n)
  PROVE  ~Fresh(D, R)
BY DEF Recorded, Chain, Begins, Fresh

(* The replay has come to the end of the oplog.                            *)
LEMMA RestTurns ==
  ASSUME ~MixedBatch, ReplayInv, ReplayInv', AccountInv, ~Running, Running', step' = "none",
         UNCHANGED <<program, oplogVars, kept, effects>>
  PROVE  AccountInv'
<1>0. /\ LogType /\ program \in Programs /\ kept \in Nat /\ effects \in Seq(Nat) /\ TallyRest
      /\ Live'
  BY DEF ReplayInv, ModeInv, GuestType, AccountInv, TallyInv, Running
<1>1. oplog' = oplog /\ DeletedRegions' = DeletedRegions /\ durable' = durable
  BY SameOplog DEF oplogVars
<1>2. oplog \in Seq(Entries) /\ Len(durable) \in Nat /\ Len(program) \in Nat
      /\ NoBackFirst(program)
  BY <1>0, OplogIs, RegionsAre DEF LogType
<1>3. PICK to : LiveAt(to)'
  BY <1>0 DEF Live
<1>4. PICK m : m = Len(seen')
  OBVIOUS
<1>5. /\ Recorded(oplog, DeletedRegions, program, timeline', to, m)
      /\ Chain(oplog, DeletedRegions, program, timeline', to, m)
      /\ Clear(oplog, DeletedRegions, to[m], Len(oplog))
  BY <1>1, <1>3, <1>4 DEF LiveAt, Recorded
<1>6. PICK n, at : Recorded(oplog, DeletedRegions, program, timeline, at, n) /\ Tallied(at, n)
  BY <1>0, <1>5, RecordedNotFresh DEF TallyRest
<1>7. Account(oplog, Len(durable), DeletedRegions, program, to, m, kept, effects)
  BY <1>0, <1>2, <1>5, <1>6, AccountTurn DEF Tallied
<1>8. TallyLive'
  BY <1>1, <1>3, <1>4, <1>7 DEF TallyLive, Tallied
<1>9. TallyInv'
  BY <1>0, <1>8 DEF TallyInv
<1> QED
  BY <1>9, StepDone DEF Running

LEMMA FollowTallies ==
  ASSUME ~MixedBatch, ReplayInv, ReplayInv', AccountInv, ~Running, mode' # "done", step' = "none",
         UNCHANGED <<program, oplogVars, kept, effects>>, ~Running' => timeline' = timeline
  PROVE  AccountInv'
<1>1. CASE Running'
  BY <1>1, RestTurns
<1>2. CASE ~Running'
  BY <1>2, RestTallies
<1> QED
  BY <1>1, <1>2

LEMMA CreateInstanceTallies ==
  ASSUME ~MixedBatch, ReplayInv, ReplayInv', AccountInv, CreateInstance
  PROVE  AccountInv'
BY FollowTallies DEF CreateInstance, ghosts, Running

LEMMA FailsTallies ==
  ASSUME AccountInv, ~Running, NEW outcome \in {"stuck", "refused"}, Fails(outcome),
         program' = program
  PROVE  AccountInv'
BY RestTallies DEF Fails, ghosts, Running

LEMMA ReplayCallTallies ==
  ASSUME ~MixedBatch,
         ReplayInv, ReplayInv', AccountInv, NEW op \in {"call", "part", "save", "end", "close"},
         ReplayCall(op)
  PROVE  AccountInv'
<1>1. ~Running /\ mode = "guest" /\ step = "none" /\ program' = program
  BY DEF ReplayCall, InCall, IsLive, Running
<1>2. CASE Found(KindRead[op])
  <2>1. /\ UNCHANGED <<oplogVars, target, mode, step, kept, effects>>
        /\ timeline' = IF last' = target THEN seen' ELSE timeline
    BY <1>2 DEF ReplayCall, Returns
  <2> QED
    BY <1>1, <2>1, FollowTallies DEF Running
<1>3. CASE ~Found(KindRead[op])
  BY <1>1, <1>3, FailsTallies DEF ReplayCall
<1> QED
  BY <1>2, <1>3

LEMMA ReplayOnceTallies ==
  ASSUME ~MixedBatch, ReplayInv, ReplayInv', AccountInv, ReplayOnce
  PROVE  AccountInv'
<1>1. ~Running /\ mode = "guest" /\ step = "none" /\ program' = program
  BY DEF ReplayOnce, InCall, IsLive, Running
<1>2. CASE Fails("stuck")
  BY <1>1, <1>2, FailsTallies
<1>3. CASE Fails("refused")
  BY <1>1, <1>3, FailsTallies
<1>4. CASE /\ UNCHANGED <<oplogVars, target, mode, step, kept, effects>>
           /\ timeline' = IF last' = target THEN seen' ELSE timeline
  BY <1>1, <1>4, FollowTallies DEF Running
<1> QED
  BY <1>2, <1>3, <1>4 DEF ReplayOnce, Returns

LEMMA NoJumpTallies ==
  ASSUME ~MixedBatch, ReplayInv, ReplayInv', AccountInv, NoJump
  PROVE  AccountInv'
<1>0. /\ mode = "guest" /\ step = "none" /\ Op = "back" /\ program[pc] = "back"
      /\ UNCHANGED <<program, oplogVars, kept, effects, last, target, mode, step>>
  BY InGuest DEF NoJump, replayVars
<1>1. CASE last # target
  BY <1>0, <1>1, FollowTallies DEF NoJump, Returns, IsLive, Running
<1>2. CASE last = target
  <2>1. Running /\ Running'
    BY <1>0, <1>2 DEF Running
  <2>2. GuestType /\ kept \in Nat /\ effects \in Seq(Nat)
    BY <2>1, RunningIs
  <2>3. PICK n \in Nat : n = Len(seen) /\ pc = n + 1 /\ Len(seen') = n + 1
    <3>1. Len(seen') = Len(seen) + 1
      BY <2>2 DEF NoJump, Returns, GuestType
    <3> QED
      BY <2>1, <3>1, RunningIs
  <2>4. PICK at : /\ Recorded(oplog, DeletedRegions, program, timeline, at, n)
                  /\ Chain(oplog, DeletedRegions, program, timeline, at, n)
                  /\ Account(oplog, Len(durable), DeletedRegions, program, at, n, kept, effects)
    BY <2>1, <2>3, RunningIs
  <2>5. oplog' = oplog /\ DeletedRegions' = DeletedRegions /\ durable' = durable
    BY <1>0, SameOplog DEF oplogVars
  <2>6. \/ Clear(oplog, DeletedRegions, at[n], Len(oplog))
        \/ \E x \in Nat : NextVis(oplog, DeletedRegions, at[n], x) /\ oplog[x].kind # "Invoked"
    BY <2>4, RestBegins DEF Recorded
  <2>7. ~OnlyOnce(program, n + 1) /\ \A k \in 1 .. n : ~Closes(program, k, n + 1)
    BY <1>0, <2>3 DEF OnlyOnce, Closes, Closing
  <2>8. step' = "none" /\ kept' = kept /\ program' = program /\ effects' = effects
        /\ mode' = "guest"
    BY <1>0
  <2>9. TallyInv'
    BY <2>1, <2>2, <2>3, <2>4, <2>5, <2>6, <2>7, <2>8, TallyArrives
  <2> QED
    BY <2>8, <2>9, StepDone
<1> QED
  BY <1>1, <1>2

LEMMA JumpTallies ==
  ASSUME ~MixedBatch, ReplayInv, ReplayInv', AccountInv, Jump, ~misread'
  PROVE  AccountInv'
<1>0. /\ mode = "guest" /\ step = "jump" /\ last = target /\ Op = "back" /\ Running
      /\ pc <= Len(program) /\ program[pc] = "back"
  BY InGuest, InsideIsLive DEF Jump, Running
<1>1. /\ LogType /\ kept \in Nat /\ effects \in Seq(Nat) /\ program \in Programs
      /\ Len(program) \in Nat /\ oplog \in Seq(Entries) /\ Len(oplog) \in Nat
      /\ Len(durable) \in Nat /\ Len(durable) <= Len(oplog)
  BY <1>0, RunningIs
<1>2. PICK n \in Nat : n = Len(seen) /\ pc = n + 1
  BY <1>0, RunningIs
<1>3. PICK at : /\ LiveAt(at) /\ Chain(oplog, DeletedRegions, program, timeline, at, n)
                /\ Account(oplog, Len(durable), DeletedRegions, program, at, n, kept, effects)
  BY <1>0, <1>2, RunningIs
<1>4. Clear(oplog, DeletedRegions, at[n], Len(oplog))
  BY <1>0, <1>2, <1>3 DEF LiveAt
<1>5. PICK k \in 1 .. n, e \in Entries :
        /\ k = LastOf("save") /\ program[k] = "save" /\ e.kind = "Jump"
        /\ LogType' /\ Longer(oplog, e, oplog') /\ buffer' = <<>>
        /\ CutAfter(DeletedRegions, at[k], Len(oplog) + 1, DeletedRegions')
        /\ Recorded(oplog', DeletedRegions', program, timeline, [j \in 0 .. k |-> at[j]], k)
  BY <1>2, <1>3, JumpCuts
<1>6. /\ mode' = "down" /\ UNCHANGED <<program, effects, timeline>> /\ ~Running'
      /\ kept' = Min({kept, k})
  BY <1>5 DEF Jump, Running
<1>7. kept' \in Nat /\ kept' <= kept /\ kept' <= k
  <2>1. k \in Nat
    OBVIOUS
  <2>2. \E x \in {kept, k} : \A y \in {kept, k} : x <= y
    BY <1>1, <2>1
  <2>3. Min({kept, k}) \in {kept, k} /\ \A y \in {kept, k} : Min({kept, k}) <= y
    BY <2>2 DEF Min
  <2> QED
    BY <1>1, <1>6, <2>1, <2>3
<1>8. ASSUME NEW c \in Nat, Protected(program, kept', effects, c) PROVE c <= k
  <2>1. CASE c \in 1 .. kept'
    BY <1>7, <2>1
  <2>2. CASE OnlyOnce(program, c) /\ Performed(effects, c)
    <3>1. c <= n
      BY <1>1, <1>3, <1>4, <2>2, NotPerformed
    <3>2. ASSUME ~(c <= k) PROVE FALSE
      <4>1. k \in 1 .. c - 1 /\ n + 1 \in c + 1 .. Len(program)
        BY <1>0, <1>1, <1>2, <3>1, <3>2
      <4>2. Repeats(program, c)
        BY <1>0, <1>2, <1>5, <4>1 DEF Repeats
      <4> QED
        BY <2>2, <4>2 DEF OnlyOnce
    <3> QED
      BY <3>2
  <2> QED
    BY <1>8, <2>1, <2>2 DEF Protected
<1> DEFINE to == [j \in 0 .. k |-> at[j]]
<1>9. \A j \in 0 .. k : to[j] = at[j]
  OBVIOUS
<1>10. /\ ~SideEffect(e) /\ program[k] \notin {"back", "open"}
       /\ Len(durable) \in 0 .. Len(oplog) /\ Len(durable') \in Nat
       /\ Len(durable) <= Len(durable')
  <2>1. Len(durable') \in Nat /\ Len(durable') = Len(oplog')
    BY <1>5, NextLog
  <2>2. Len(oplog') = Len(oplog) + 1
    BY <1>5 DEF Longer
  <2> QED
    BY <1>1, <1>5, <2>1, <2>2 DEF SideEffect
<1>11. Recorded(oplog', DeletedRegions', program, timeline, to, k)
  BY <1>5
<1> HIDE DEF to
<1>12. Account(oplog', Len(durable'), DeletedRegions', program, to, k, kept', effects)
  <2>1. PICK L \in 0 .. Len(oplog), M \in Nat :
          L = Len(durable) /\ M = Len(durable') /\ L <= M
    BY <1>10
  <2>2. /\ oplog \in Seq(Entries) /\ Len(program) \in Nat /\ kept \in Nat /\ kept' \in Nat
        /\ kept' <= kept /\ Chain(oplog, DeletedRegions, program, timeline, at, n)
        /\ Account(oplog, L, DeletedRegions, program, at, n, kept, effects)
    BY <1>1, <1>3, <1>7, <2>1
  <2>3. /\ Longer(oplog, e, oplog') /\ ~SideEffect(e) /\ program[k] \notin {"back", "open"}
        /\ CutAfter(DeletedRegions, at[k], Len(oplog) + 1, DeletedRegions')
        /\ \A j \in 0 .. k : to[j] = at[j]
    BY <1>5, <1>9, <1>10
  <2>4. \A c \in Nat : Protected(program, kept', effects, c) => c <= k
    BY <1>8
  <2>5. PICK K \in Nat : K = kept'
    BY <1>7
  <2>6. Account(oplog', M, DeletedRegions', program, to, k, K, effects)
    BY <2>1, <2>2, <2>3, <2>4, <2>5, AccountCut
  <2> QED
    BY <2>1, <2>5, <2>6
<1>13. TallyRest'
  BY <1>6, <1>11, <1>12 DEF TallyRest, Tallied
<1>14. TallyInv'
  BY <1>1, <1>6, <1>7, <1>13 DEF TallyInv
<1> QED
  BY <1>6, <1>14, StepDone

LEMMA CrashTallies ==
  ASSUME ~MixedBatch, ReplayInv, ReplayInv', AccountInv, Crash
  PROVE  AccountInv'
<1>0. /\ LogType /\ mode \in {"loading", "guest", "done"} /\ mode' = "down" /\ ~Running'
      /\ buffer' = <<>> /\ durable' = durable
      /\ UNCHANGED <<program, timeline, kept, effects>>
  BY DEF ReplayInv, Crash, ghosts, Running
<1>1. CASE ~Running
  <2>1. buffer = <<>>
    BY <1>0, <1>1 DEF ReplayInv, ModeInv, Loading, Following, Replayed, Stopped, Running
  <2> QED
    BY <1>0, <1>1, <2>1, RestTallies DEF oplogVars
<1>2. CASE Running
  <2>1. /\ kept \in Nat /\ effects \in Seq(Nat) /\ program \in Programs
        /\ Len(program) \in Nat /\ oplog \in Seq(Entries)
    BY <1>2, RunningIs
  <2>2. PICK n, at :
          /\ n \in Nat
          /\ Recorded(oplog, DeletedRegions, program, timeline, at, n)
          /\ Chain(oplog, DeletedRegions, program, timeline, at, n)
          /\ Account(oplog, Len(durable), DeletedRegions, program, at, n, kept, effects)
    BY <1>2, RunningIs
  <2>3. /\ durable \in Seq(Entries) /\ DeletedRegions \subseteq 2 .. Len(durable)
        /\ Same(oplog, DeletedRegions, durable, DeletedRegions, Len(durable))
        /\ \A i \in Len(durable) + 1 .. Len(oplog) : Buffered(oplog[i].kind)
    BY <1>0, OplogIs DEF LogType
  <2>4. PICK m \in 0 .. n :
          /\ Recorded(durable, DeletedRegions, program, timeline, [j \in 0 .. m |-> at[j]], m)
          /\ at[m] <= Len(durable) /\ \A k \in 0 .. n : at[k] <= Len(durable) => k <= m
    BY <2>1, <2>2, <2>3, CutOff
  <2> DEFINE to == [j \in 0 .. m |-> at[j]]
  <2>5. Recorded(durable, DeletedRegions, program, timeline, to, m)
        /\ \A j \in 0 .. m : to[j] = at[j]
    BY <2>4
  <2> HIDE DEF to
  <2>6. Account(durable, Len(durable), DeletedRegions, program, to, m, kept, effects)
    BY <2>1, <2>2, <2>3, <2>4, <2>5, AccountOff
  <2>7. oplog' = durable /\ DeletedRegions' = DeletedRegions
    BY <1>0, DroppedIs
  <2>8. TallyRest'
    BY <1>0, <2>5, <2>6, <2>7 DEF TallyRest, Tallied
  <2>9. TallyInv'
    BY <1>0, <2>1, <2>8 DEF TallyInv
  <2> QED
    BY <1>0, <2>9, StepDone
<1> QED
  BY <1>1, <1>2

(* The invocation is complete: every write that must not be repeated was   *)
(* performed.                                                              *)
LEMMA AllPerformed ==
  ASSUME NEW D, NEW L, NEW R, NEW p, NEW at, NEW n, NEW K, NEW F, Len(p) \in Nat, n = Len(p),
         Account(D, L, R, p, at, n, K, F)
  PROVE  \A q \in Nat : OnlyOnce(p, q) => Performed(F, q)
<1> SUFFICES ASSUME NEW q \in Nat, OnlyOnce(p, q) PROVE Performed(F, q)
  OBVIOUS
<1>1. q <= n
  BY DEF OnlyOnce
<1> QED
  BY <1>1 DEF Account, Written

LEMMA CompleteTallies ==
  ASSUME ~MixedBatch, ReplayInv, ReplayInv', AccountInv, Complete
  PROVE  AccountInv'
<1>0. /\ LogType /\ GuestType /\ mode = "guest" /\ pc > Len(program)
      /\ pc = Len(seen) + 1 /\ Len(seen) \in Nat /\ Len(program) \in Nat
      /\ program \in Programs /\ kept \in Nat /\ effects \in Seq(Nat)
      /\ (last = target => Live) /\ (last # target => Following)
  BY ProgramIs DEF ReplayInv, ModeInv, Complete, GuestType, pc, AccountInv, TallyInv
<1>1. UNCHANGED <<program, timeline, effects>> /\ mode' \in {"done", "stuck"} /\ ~Running'
  BY DEF Complete, Running
<1>2. ASSUME TallyInv',
             mode' = "done" => \A q \in Nat : OnlyOnce(program, q) => Performed(effects, q)
      PROVE  AccountInv'
  BY <1>1, <1>2 DEF AccountInv, InWrite, PerformedOnce
<1>3. CASE last = target
  <2>0. Running
    BY <1>0, <1>3 DEF Running
  <2>1. AddAndCommit(<<[kind |-> "Completed"]>>) /\ kept' = Len(seen) /\ buffer' = <<>>
    BY <1>0, <1>3 DEF Complete, IsLive, AddAndCommit
  <2>2. PICK at : /\ LiveAt(at) /\ Tallied(at, Len(seen))
                  /\ Recorded(oplog, DeletedRegions, program, timeline, at, Len(seen))
    BY <2>0, RunningIs
  <2>3. step = "none"
    BY <1>0, <1>3 DEF Live
  <2>4. PICK e \in Entries : e = [kind |-> "Completed"] /\ e.kind = "Completed"
    <3>1. [kind |-> "Completed"] \in Entries
      BY EntryTyped
    <3> QED
      BY <3>1
  <2>5. Grows(e) /\ e.kind \notin {"Pending", "Jump"}
    BY <2>1, <2>4 DEF Grows
  <2>6. /\ LogType' /\ DeletedRegions' = DeletedRegions
        /\ Chain(oplog', DeletedRegions, program, timeline, at, Len(seen))
        /\ Anchored(oplog', DeletedRegions, at[0])
        /\ NextVis(oplog', DeletedRegions, at[Len(seen)], Len(oplog'))
        /\ oplog'[Len(oplog')] = e /\ Len(oplog') \in Nat
        /\ Clear(oplog', DeletedRegions, Len(oplog'), Len(oplog'))
    BY <1>0, <2>2, <2>3, <2>5, LiveAdds
  <2>7. PICK n \in Nat : n = Len(seen) /\ n = Len(program)
    BY <1>0, <2>6 DEF Chain
  <2>8. Recorded(oplog', DeletedRegions', program, timeline, at, n)
    BY <2>4, <2>6, <2>7 DEF Rest, Unanswered, Recorded
  <2>9. Account(oplog', Len(durable'), DeletedRegions', program, at, n, kept, effects)
    BY <1>0, <2>2, <2>5, <2>6, <2>7, TallyAdds
  <2>10. Keep(n)
    <3>1. ~InRegion(n + 1)
      BY <1>0, <2>7, RegionsAre, AllClosed
    <3> QED
      BY <2>1, <2>7, <3>1 DEF Keep
  <2>11. /\ kept' \in Nat
         /\ Account(oplog', Len(durable'), DeletedRegions', program, at, n, kept', effects)
    <3>1. Chain(oplog', DeletedRegions', program, timeline, at, n)
      BY <2>8 DEF Recorded
    <3> QED
      BY <1>0, <2>1, <2>6, <2>9, <2>10, <3>1, TallyKeep
  <2>12. TallyRest'
    BY <1>1, <2>8, <2>11 DEF TallyRest, Tallied
  <2>13. TallyInv'
    BY <1>0, <1>1, <2>11, <2>12 DEF TallyInv
  <2>14. \A q \in Nat : OnlyOnce(program, q) => Performed(effects, q)
    BY <1>0, <2>7, <2>9, AllPerformed
  <2> QED
    BY <1>2, <2>13, <2>14
<1>4. CASE last # target
  <2>0. ~Running /\ UNCHANGED <<oplogVars, kept>> /\ Following
    BY <1>0, <1>4 DEF Running, Complete, IsLive
  <2>1. TallyInv' /\ TallyRest
    BY <1>1, <2>0, RestTallies DEF AccountInv, TallyInv
  <2>2. ASSUME mode' = "done" PROVE \A q \in Nat : OnlyOnce(program, q) => Performed(effects, q)
    <3>1. /\ EntryAfter(last) = last + 1 /\ regions = DeletedRegions
          /\ oplog \in Seq(Entries) /\ last + 1 \in Nat
      BY <1>0, <2>0, FollowingReads DEF Reading, GuestType
    <3>2. oplog[last + 1].kind = "Completed"
      BY <1>4, <2>2, <3>1 DEF Complete, IsLive
    <3>3. PICK n, at : FollowAt(n, at)
      BY <2>0, <3>2 DEF Following, Lost
    <3>4. /\ Len(seen) \in 0 .. n /\ NextVis(oplog, DeletedRegions, at[Len(seen)], last + 1)
          /\ Recorded(oplog, DeletedRegions, program, timeline, at, n)
      BY <1>0, <2>0, <3>1, <3>3, FollowNext DEF FollowAt
    <3>5. PICK m, to : Recorded(oplog, DeletedRegions, program, timeline, to, m) /\ Tallied(to, m)
      BY <2>1, <3>4, RecordedNotFresh DEF TallyRest
    <3>6. Len(seen) <= m
      BY <1>0, <3>1, <3>4, <3>5, RegionsAre, ChainReaches
    <3>7. m = Len(program)
      BY <1>0, <3>5, <3>6 DEF Recorded, Chain
    <3> QED
      BY <1>0, <3>5, <3>7, AllPerformed DEF Tallied
  <2> QED
    BY <1>2, <2>1, <2>2
<1> QED
  BY <1>3, <1>4

(* The invocation is recorded, for the first time or again: nothing was    *)
(* made before it.                                                         *)
LEMMA TallyInvokes ==
  ASSUME ~MixedBatch,
         ReplayInv, ReplayInv', AccountInv, ~Running, Running', step' = "none", seen' = <<>>,
         AddAndCommit(<<[kind |-> "Invoked"]>>), UNCHANGED <<program, kept, effects>>
  PROVE  AccountInv'
<1>0. /\ LogType /\ program \in Programs /\ kept \in Nat /\ effects \in Seq(Nat) /\ TallyRest
      /\ Live' /\ Len(seen') = 0
  BY DEF ReplayInv, ModeInv, GuestType, AccountInv, TallyInv, Running
<1>1. PICK e \in Entries : e = [kind |-> "Invoked"] /\ e.kind = "Invoked"
  <2>1. [kind |-> "Invoked"] \in Entries
    BY EntryTyped
  <2> QED
    BY <2>1
<1>2. Longer(oplog, e, oplog') /\ LogType' /\ DeletedRegions' = DeletedRegions
  BY <1>0, <1>1, GrowsIs DEF Grows
<1>3. /\ oplog \in Seq(Entries) /\ Len(oplog) \in Nat /\ DeletedRegions \subseteq 2 .. Len(oplog)
      /\ Len(oplog) >= 1 /\ Len(program) \in Nat /\ NoBackFirst(program)
      /\ oplog' \in Seq(Entries)
  BY <1>0, <1>2, OplogIs, RegionsAre, NextLog DEF LogType
<1>4. PICK to : LiveAt(to)'
  BY <1>0 DEF Live
<1>5. /\ Chain(oplog', DeletedRegions, program, timeline', to, 0)
      /\ Clear(oplog', DeletedRegions, to[0], Len(oplog'))
  BY <1>0, <1>2, <1>4 DEF LiveAt, Recorded
<1>6. to[0] = Len(oplog) + 1 /\ Begins(oplog', DeletedRegions, to[0])
  <2>1. Len(oplog') = Len(oplog) + 1 /\ oplog'[Len(oplog) + 1] = e
    BY <1>2 DEF Longer
  <2>2. Vis(oplog', DeletedRegions, Len(oplog) + 1)
    BY <1>1, <1>3, <2>1 DEF Vis
  <2>3. Begins(oplog', DeletedRegions, to[0]) /\ to[0] \in 2 .. Len(oplog')
    BY <1>5 DEF Chain, Begins
  <2>4. ~(Len(oplog) + 1 \in to[0] + 1 .. Len(oplog'))
    BY <1>5, <2>2 DEF Clear
  <2> QED
    BY <1>3, <2>1, <2>3, <2>4
<1>7. ASSUME NEW i \in 2 .. Len(oplog) PROVE oplog[i].kind \in {"Invoked", "Pending"}
  <2>1. i \in 2 .. to[0] /\ i \in 1 .. Len(oplog)
    BY <1>3, <1>6
  <2> QED
    BY <1>2, <1>6, <2>1 DEF Begins, Longer
<1>8. ASSUME NEW c \in Nat, Protected(program, kept, effects, c) PROVE FALSE
  <2>1. CASE kept = 0 /\ effects = <<>>
    <3>1. ~Performed(effects, c)
      BY <2>1 DEF Performed
    <3> QED
      BY <1>8, <2>1, <3>1 DEF Protected
  <2>2. ASSUME NEW n, NEW at, Recorded(oplog, DeletedRegions, program, timeline, at, n),
               Tallied(at, n)
        PROVE  FALSE
    <3>1. /\ Chain(oplog, DeletedRegions, program, timeline, at, n) /\ n \in Nat
          /\ Committed(program, at, n, Len(durable), kept)
          /\ Written(oplog, DeletedRegions, program, at, n, effects)
      BY <2>2 DEF Recorded, Chain, Tallied, Account
    <3>2. n = 0
      <4> SUFFICES ASSUME n # 0 PROVE FALSE
        OBVIOUS
      <4>1. 1 \in 1 .. n /\ 1 <= Len(program) /\ 0 \in 0 .. n /\ 1 \in 0 .. n
        BY <1>3, <3>1 DEF Chain
      <4>2. program[1] # "back"
        BY <1>3, <4>1 DEF NoBackFirst
      <4>3. Link(oplog, DeletedRegions, program[1], at[0], at[1], timeline[1])
            /\ at[1] \in 2 .. Len(oplog)
        <5>1. Link(oplog, DeletedRegions, program[1], at[1 - 1], at[1], timeline[1])
          BY <3>1, <4>1 DEF Chain
        <5> QED
          BY <3>1, <4>1, <5>1 DEF Chain
      <4>4. oplog[at[1]].kind \notin {"Invoked", "Pending"}
        BY <4>2, <4>3 DEF Link, Records, Marks, Once
      <4> QED
        BY <1>7, <4>3, <4>4
    <3>3. CASE c \in 1 .. kept /\ IsCall(program[c])
      BY <3>1, <3>2, <3>3 DEF Committed
    <3>4. CASE OnlyOnce(program, c) /\ Performed(effects, c)
      <4>1. c # 0
        BY <3>4 DEF OnlyOnce
      <4>2. c <= n \/ \E x \in Nat : /\ NextVis(oplog, DeletedRegions, at[n], x)
                                     /\ oplog[x].kind = "BeginWrite"
        BY <3>1, <3>4 DEF Written
      <4>3. PICK x \in Nat : /\ NextVis(oplog, DeletedRegions, at[n], x)
                             /\ oplog[x].kind = "BeginWrite"
        BY <3>2, <4>1, <4>2
      <4> QED
        BY <1>7, <4>3 DEF NextVis, Vis
    <3> QED
      BY <1>8, <3>3, <3>4 DEF Protected
  <2> QED
    BY <1>0, <2>1, <2>2 DEF TallyRest
<1>9. Account(oplog', Len(durable'), DeletedRegions, program, to, 0, kept, effects)
  BY <1>0, <1>3, <1>5, <1>8, AccountStart
<1>10. TallyLive'
  BY <1>0, <1>2, <1>4, <1>9 DEF TallyLive, Tallied
<1>11. TallyInv'
  BY <1>0, <1>10 DEF TallyInv
<1> QED
  BY <1>11, StepDone DEF Running

LEMMA InvokeTallies ==
  ASSUME ~MixedBatch, ReplayInv, ReplayInv', AccountInv, Invoke
  PROVE  AccountInv'
<1>1. mode = "loading" /\ Loading /\ last = target
  BY DEF ReplayInv, ModeInv, Invoke, IsLive
<1>2. seen = <<>> /\ step = "none"
  BY <1>1 DEF Loading, Replayed
<1>3. /\ ~Running /\ Running' /\ step' = "none" /\ seen' = <<>>
      /\ AddAndCommit(<<[kind |-> "Invoked"]>>) /\ UNCHANGED <<program, kept, effects>>
  BY <1>1, <1>2 DEF Invoke, replayVars, ghosts, Running
<1> QED
  BY <1>3, TallyInvokes

LEMMA ResumeReplayTallies ==
  ASSUME ~MixedBatch, ReplayInv, ReplayInv', AccountInv, ResumeReplay
  PROVE  AccountInv'
<1>1. mode = "loading" /\ Loading
  BY DEF ReplayInv, ModeInv, ResumeReplay
<1>2. seen = <<>> /\ step = "none" /\ ~Running
  BY <1>1 DEF Loading, Replayed, Running
<1>3. /\ UNCHANGED <<program, target, seen, step, timeline, kept, effects>>
      /\ \/ mode' = mode /\ UNCHANGED oplogVars
         \/ mode' = "guest" /\ last' = target /\ AddAndCommit(<<[kind |-> "Invoked"]>>)
         \/ mode' = "guest" /\ last' # target /\ UNCHANGED oplogVars
         \/ mode' = "stuck" /\ UNCHANGED oplogVars
  BY DEF ResumeReplay, ghosts
<1>4. CASE mode' = "guest" /\ last' = target /\ AddAndCommit(<<[kind |-> "Invoked"]>>)
  <2>1. Running' /\ step' = "none" /\ seen' = <<>>
    BY <1>2, <1>3, <1>4 DEF Running
  <2> QED
    BY <1>2, <1>3, <1>4, <2>1, TallyInvokes
<1>5. CASE (mode' \in {"loading", "stuck"} \/ last' # target) /\ UNCHANGED oplogVars
  <2>1. ~Running' /\ mode' # "done"
    BY <1>1, <1>3, <1>5 DEF Running
  <2> QED
    BY <1>2, <1>3, <1>5, <2>1, RestTallies
<1> QED
  BY <1>1, <1>3, <1>4, <1>5

(* The region whose begin is the next entry is part of the account.        *)
LEMMA RetryChain ==
  ASSUME NEW D \in Seq(Entries), NEW R, NEW p, NEW tl, NEW ul, NEW at, NEW n, NEW L \in Nat,
         NEW K \in Nat, NEW F, Len(p) \in Nat, NoBackFirst(p), Recorded(D, R, p, tl, at, n),
         Account(D, L, R, p, at, n, K, F), NEW s \in 0 .. n, s < Len(p), Opens(p[s + 1]),
         NEW v \in Nat, NextVis(D, R, at[s], v), Marks(p[s + 1], D[v].kind),
         s + 1 <= Len(ul), \A j \in 1 .. s : ul[j] = tl[j], ul[s + 1] = Answer(v, 0)
  PROVE  \E m, to, vl : /\ Chain(D, R, p, vl, to, m) /\ s + 1 \in 1 .. m /\ to[s + 1] = v
                        /\ Anchored(D, R, to[0]) /\ Account(D, L, R, p, to, m, K, F)
<1>0. /\ Chain(D, R, p, tl, at, n) /\ Anchored(D, R, at[0]) /\ n \in Nat /\ s \in Nat
      /\ Len(D) \in Nat /\ at \in [0 .. n -> 2 .. Len(D)] /\ at[s] \in Nat
      /\ at[s] < v /\ Vis(D, R, v) /\ v \in 2 .. Len(D)
  <2>1. Chain(D, R, p, tl, at, n) /\ Anchored(D, R, at[0])
    BY DEF Recorded
  <2>2. n \in Nat /\ at \in [0 .. n -> 2 .. Len(D)]
    BY <2>1 DEF Chain
  <2> QED
    BY <2>1, <2>2 DEF NextVis, Vis
<1>1. CASE s < n
  <2>1. s + 1 \in 1 .. n /\ s + 1 \in 0 .. n /\ s + 1 - 1 = s
    BY <1>0, <1>1
  <2>2. PICK b \in Nat : b = at[s + 1] /\ Link(D, R, p[s + 1], at[s], b, tl[s + 1])
    <3>1. Link(D, R, p[s + 1], at[s], at[s + 1], tl[s + 1])
      BY <1>0, <2>1 DEF Chain
    <3>2. at[s + 1] \in Nat
      BY <1>0, <2>1
    <3> QED
      BY <3>1, <3>2
  <2>3. p[s + 1] \notin {"back", "once"}
    BY DEF Opens
  <2>4. NextVis(D, R, at[s], b)
    BY <1>0, <2>2, <2>3, LinkMoves
  <2>5. b = v
    BY <1>0, <2>4, OneNext
  <2> QED
    BY <1>0, <2>1, <2>2, <2>5
<1>2. CASE s = n
  <2>1. Clear(D, R, v, Len(D))
    <3>1. ~Clear(D, R, at[n], Len(D))
      BY <1>0, <1>2 DEF Clear
    <3>2. PICK x \in Nat : NextVis(D, R, at[n], x) /\ Clear(D, R, x, Len(D))
      BY <3>1 DEF Recorded, Rest
    <3>3. x = v
      BY <1>0, <1>2, <3>2, OneNext
    <3> QED
      BY <3>2, <3>3
  <2>2. Link(D, R, p[n + 1], at[n], v, Answer(v, 0))
    BY <1>2 DEF Link
  <2>3. /\ n < Len(p) /\ n + 1 <= Len(ul) /\ \A j \in 1 .. n : ul[j] = tl[j]
        /\ ul[n + 1] = Answer(v, 0)
    BY <1>2
  <2> DEFINE to == [j \in 0 .. n + 1 |-> IF j = n + 1 THEN v ELSE at[j]]
  <2>4. Chain(D, R, p, ul, to, n + 1)
    <3>1. PICK answer : answer = Answer(v, 0)
      OBVIOUS
    <3>2. /\ Link(D, R, p[n + 1], at[n], v, answer) /\ ul[n + 1] = answer /\ n + 1 <= Len(ul)
          /\ \A j \in 1 .. n : ul[j] = tl[j]
      BY <2>2, <2>3, <3>1
    <3>3. Chain(D, R, p, tl, at, n) /\ n < Len(p) /\ v \in 2 .. Len(D)
      BY <1>0, <2>3
    <3> QED
      BY <3>2, <3>3, ChainNext
  <2>5. to[n + 1] = v /\ to[0] = at[0]
    BY <1>0
  <2> HIDE DEF to
  <2>6. Account(D, L, R, p, to, n + 1, K, F)
    <3>1. Clear(D, R, to[n + 1], Len(D))
      BY <2>1, <2>5
    <3> QED
      BY <2>4, <3>1, AccountTurn
  <2>7. n + 1 \in 1 .. n + 1 /\ Anchored(D, R, to[0])
    BY <1>0, <2>5
  <2> QED
    BY <1>2, <2>4, <2>5, <2>6, <2>7
<1> QED
  BY <1>0, <1>1, <1>2

(* A side effect after a batch that was not ended is not possible.         *)
LEMMA NoSideEffect ==
  ASSUME NEW D \in Seq(Entries), NEW R, NEW p, NEW at, NEW n \in Nat, NEW m \in 1 .. n,
         BatchesEnd(D, R, p, at, n), NEW v \in Nat, at[m] = v, p[m] = "open",
         ~RegionOver(D, Len(D), R, "open", v)
  PROVE  \A w \in v + 1 .. Len(D) : ~SideEffect(D[w])
<1> DEFINE W == {w \in v + 1 .. Len(D) : SideEffect(D[w])}
<1>0. Len(D) \in Nat
  OBVIOUS
<1> SUFFICES ASSUME W # {} PROVE FALSE
  OBVIOUS
<1>1. W \in SUBSET Nat
  BY <1>0
<1>2. PICK w \in W : \A u \in W : w <= u
  <2> HIDE DEF W
  <2> QED
    BY <1>1, LeastIndex
<1>3. w \in v + 1 .. Len(D) /\ SideEffect(D[w]) /\ w \in Nat
  BY <1>0, <1>2
<1>4. Begun(D, R, p, at, n, m, v) /\ m \in Nat
  BY DEF Begun
<1>5. PICK j \in Nat, x \in Nat :
        v < x /\ x <= j /\ j < w /\ Vis(D, R, x) /\ EndsAt(D, j, "open", v)
  BY <1>3, <1>4 DEF BatchesEnd, EndedBefore
<1>6. ASSUME NEW u \in v + 1 .. j - 1 PROVE ~SideEffect(D[u])
  <2>1. u \in v + 1 .. Len(D) /\ ~(w <= u)
    BY <1>0, <1>3, <1>5
  <2> QED
    BY <1>2, <2>1
<1>7. j <= Len(D) /\ x < Len(D)
  BY <1>0, <1>3, <1>5
<1> QED
  BY <1>5, <1>6, <1>7 DEF RegionOver

(* The region was not found to have ended.                                 *)
LEMMA NotEnded ==
  ASSUME durable \in Seq(Entries), oplog = durable, target = Len(oplog),
         NEW op \in {"begin", "open"}, NEW v \in Nat, NEW i \in Nat, v <= i, NEW R,
         Clear(oplog, R, v, i), RegionOver(oplog, Len(oplog), R, op, v)
  PROVE  IF op = "begin" THEN HasEntry(i, "EndAtomic", v) ELSE HasBatchEnd(i, v)
<1>0. Len(oplog) \in Nat
  OBVIOUS
<1>1. PICK j \in Nat, x \in Nat :
        /\ v < x /\ x <= j /\ j <= Len(oplog) /\ x < Len(oplog) /\ Vis(oplog, R, x)
        /\ EndsAt(oplog, j, op, v)
        /\ op = "open" => \A w \in v + 1 .. j - 1 : ~SideEffect(oplog[w])
  BY DEF RegionOver
<1>2. ~(x \in v + 1 .. i)
  BY <1>1 DEF Clear
<1>3. i + 1 < target /\ j \in i + 1 .. Len(durable)
  BY <1>0, <1>1, <1>2
<1>4. CASE op = "begin"
  BY <1>1, <1>3, <1>4 DEF HasEntry, EndsAt
<1>5. CASE op = "open"
  <2>1. durable[j].kind = "EndWrite" /\ durable[j].begin = v
    BY <1>1, <1>5 DEF EndsAt
  <2>2. ASSUME NEW k \in i + 1 .. j - 1 PROVE durable[k].kind \notin {"Write", "Completed"}
    <3>1. k \in v + 1 .. j - 1
      BY <1>1
    <3> QED
      BY <1>1, <1>5, <3>1 DEF SideEffect
  <2>3. HasBatchEnd(i, v)
    BY <1>3, <2>1, <2>2 DEF HasBatchEnd
  <2> QED
    BY <1>5, <2>3
<1> QED
  BY <1>4, <1>5

LEMMA ReplayBeginTallies ==
  ASSUME ~MixedBatch,
         ReplayInv, ReplayInv', AccountInv, NEW op \in {"begin", "open"}, ReplayBegin(op),
         ~misread'
  PROVE  AccountInv'
<1>0. /\ LogType /\ GuestType /\ mode = "guest" /\ step = "none" /\ last # target /\ ~Running
      /\ pc <= Len(program) /\ Op = op /\ Following /\ pc = Len(seen) + 1 /\ Len(seen) \in Nat
      /\ Len(program) \in Nat /\ program \in Programs
      /\ kept \in Nat /\ effects \in Seq(Nat) /\ TallyRest
  BY InGuest DEF ReplayBegin, IsLive, Running, GuestType, AccountInv, TallyInv
<1>1. PICK v \in Nat, i \in Nat :
        /\ v = last + 1 /\ EntryAfter(last) = v /\ i = IndexAfter(last) /\ v <= i
        /\ Clear(oplog, DeletedRegions, v, i) /\ v >= 1
  <2>1. /\ EntryAfter(last) = last + 1 /\ last + 1 \in 2 .. target /\ target \in Nat
        /\ IndexAfter(last) \in last + 1 .. target /\ regions = DeletedRegions
        /\ Clear(oplog, regions, last + 1, IndexAfter(last))
    BY <1>0, FollowingReads DEF Reading
  <2>2. last + 1 \in Nat /\ IndexAfter(last) \in Nat /\ last + 1 <= IndexAfter(last)
        /\ last + 1 >= 1
    BY <2>1
  <2> QED
    BY <2>1, <2>2
<1>2. /\ oplog = durable /\ target \in 1 .. Len(oplog) /\ regions = DeletedRegions
      /\ oplog \in Seq(Entries) /\ Len(oplog) \in Nat /\ DeletedRegions \subseteq 2 .. Len(oplog)
  BY <1>0, FollowingReads, OplogIs
<1> DEFINE ended == IF op = "begin" THEN HasEntry(i, "EndAtomic", v) ELSE HasBatchEnd(i, v)
<1>3. CASE ~Found(EntryOf[op])
  BY <1>0, <1>3, FailsTallies DEF ReplayBegin
<1>4. CASE Found(EntryOf[op])
  <2>1. /\ Returns(Answer(v, 0), ~ended)
        /\ IF ended
           THEN last' = i /\ UNCHANGED <<regions, oplogVars>>
           ELSE /\ last' = target
                /\ AddAndCommit(<<[kind |-> "Jump", start |-> v + 1, end |-> target + 1]>>)
                /\ target + 1 = Len(oplog) + 1
        /\ UNCHANGED <<target, mode, step, program, kept, effects>>
    BY <1>1, <1>4 DEF ReplayBegin, Takes
  <2>2. CASE ended
    <3>1. i # target
      BY <1>1, <1>2, <2>2 DEF HasEntry, HasBatchEnd
    <3>2. ~Running' /\ mode' # "done" /\ timeline' = timeline /\ UNCHANGED oplogVars
      BY <1>0, <2>1, <2>2, <3>1 DEF Returns, Running
    <3> QED
      BY <1>0, <2>1, <3>2, RestTallies
  <2>3. CASE ~ended
    <3>0. /\ Running' /\ step' = "none" /\ mode' = "guest"
          /\ UNCHANGED <<program, kept, effects>>
          /\ AddAndCommit(<<[kind |-> "Jump", start |-> v + 1, end |-> Len(oplog) + 1]>>)
          /\ seen' = Append(seen, Answer(v, 0))
      BY <1>0, <1>2, <2>1, <2>3 DEF Running, Returns
    <3>1. ~RegionOver(oplog, Len(oplog), DeletedRegions, op, v)
      <4>1. target = Len(oplog)
        BY <1>2, <2>1, <2>3
      <4> QED
        BY <1>1, <1>2, <2>3, <4>1, NotEnded
    <3> HIDE DEF ended
    <3>2. oplog[v].kind = EntryOf[op] /\ Marks(op, oplog[v].kind) /\ Opens(op)
      BY <1>1, <1>4, KindsAre DEF Found, Marks, Opens
    <3>3. PICK n, at : FollowAt(n, at)
      <4>1. ~Lost
        BY <1>1, <3>2 DEF Lost, Marks
      <4> QED
        BY <1>0, <4>1 DEF Following
    <3>4. PICK s \in Nat : s = Len(seen) /\ s + 1 = pc /\ s + 1 = Len(seen')
                           /\ program[s + 1] = op /\ s < Len(program)
      <4>1. Len(seen') = Len(seen) + 1
        BY <1>0, <3>0 DEF GuestType
      <4> QED
        BY <1>0, <4>1 DEF Op
    <3>5. /\ s \in 0 .. n /\ NextVis(oplog, DeletedRegions, at[s], v)
          /\ Recorded(oplog, DeletedRegions, program, timeline, at, n)
          /\ Agrees(seen, timeline)
      BY <1>0, <1>1, <1>2, <3>3, <3>4, FollowNext DEF FollowAt
    <3>6. PICK k, kt : Recorded(oplog, DeletedRegions, program, timeline, kt, k) /\ Tallied(kt, k)
      BY <1>0, <3>5, RecordedNotFresh DEF TallyRest
    <3>7. s \in 0 .. k /\ kt[s] = at[s]
      <4>1. s <= k
        BY <1>0, <1>2, <3>5, <3>6, RegionsAre, ChainReaches
      <4>2. /\ \/ Clear(oplog, DeletedRegions, at[n], Len(oplog))
               \/ \E x \in Nat : /\ NextVis(oplog, DeletedRegions, at[n], x)
                                 /\ oplog[x].kind # "Invoked"
            /\ \/ Clear(oplog, DeletedRegions, kt[k], Len(oplog))
               \/ \E x \in Nat : /\ NextVis(oplog, DeletedRegions, kt[k], x)
                                 /\ oplog[x].kind # "Invoked"
        BY <3>5, <3>6, RestBegins DEF Recorded
      <4>3. /\ Chain(oplog, DeletedRegions, program, timeline, at, n)
            /\ Chain(oplog, DeletedRegions, program, timeline, kt, k) /\ k \in Nat
        BY <3>5, <3>6 DEF Recorded, Chain
      <4>4. NoBackFirst(program)
        BY <1>0, RegionsAre
      <4>5. \A j \in 0 .. n : j <= k => at[j] = kt[j]
        BY <1>0, <1>2, <4>2, <4>3, <4>4, ChainsAgree
      <4> QED
        BY <3>5, <4>1, <4>3, <4>5
    <3>8. PICK m, cc, vl :
            /\ Chain(oplog, DeletedRegions, program, vl, cc, m) /\ s + 1 \in 1 .. m
            /\ cc[s + 1] = v /\ Anchored(oplog, DeletedRegions, cc[0])
            /\ Account(oplog, Len(durable), DeletedRegions, program, cc, m, kept, effects)
      <4>1. /\ s + 1 <= Len(seen') /\ seen'[s + 1] = Answer(v, 0)
            /\ \A j \in 1 .. s : seen'[j] = timeline[j]
        BY <1>0, <3>0, <3>4, <3>5 DEF GuestType, Agrees
      <4>2. /\ Account(oplog, Len(durable), DeletedRegions, program, kt, k, kept, effects)
            /\ Opens(program[s + 1]) /\ Marks(program[s + 1], oplog[v].kind)
            /\ NextVis(oplog, DeletedRegions, kt[s], v) /\ Len(durable) \in Nat
            /\ NoBackFirst(program)
        BY <1>0, <1>2, <3>2, <3>4, <3>5, <3>6, <3>7, RegionsAre DEF Tallied
      <4>3. /\ oplog \in Seq(Entries) /\ Len(program) \in Nat /\ kept \in Nat
            /\ Recorded(oplog, DeletedRegions, program, timeline, kt, k)
            /\ s \in 0 .. k /\ s < Len(program)
        BY <1>0, <1>2, <3>4, <3>6, <3>7
      <4>4. PICK L \in Nat : L = Len(durable)
        BY <4>2
      <4>5. Account(oplog, L, DeletedRegions, program, kt, k, kept, effects)
        BY <4>2, <4>4
      <4>6. \E m, to, vl :
              /\ Chain(oplog, DeletedRegions, program, vl, to, m) /\ s + 1 \in 1 .. m
              /\ to[s + 1] = v /\ Anchored(oplog, DeletedRegions, to[0])
              /\ Account(oplog, L, DeletedRegions, program, to, m, kept, effects)
        BY <4>1, <4>2, <4>3, <4>5, RetryChain
      <4> QED
        BY <4>4, <4>6
    <3>9. PICK q \in 1 .. m : q = s + 1 /\ cc[q] = v /\ program[q] = op /\ m \in Nat
                              /\ q = Len(seen')
      BY <3>4, <3>8 DEF Chain
    <3>10. ASSUME NEW c \in Nat, Protected(program, kept, effects, c) PROVE c <= q
      <4> SUFFICES ASSUME ~(c <= q) PROVE FALSE
        OBVIOUS
      <4>1. q \in 1 .. c - 1 /\ q \in Nat /\ Opens(program[q])
        BY <3>2, <3>9
      <4>2. RegionOver(oplog, Len(oplog), DeletedRegions, program[q], cc[q])
        BY <1>2, <3>8, <3>10, <4>1 DEF Account, RegionsOver
      <4> QED
        BY <3>1, <3>9, <4>2
    <3>11. program[q] = "open" => \A w \in cc[q] + 1 .. Len(oplog) : ~SideEffect(oplog[w])
      <4> SUFFICES ASSUME op = "open" PROVE \A w \in v + 1 .. Len(oplog) : ~SideEffect(oplog[w])
        BY <3>9
      <4>1. BatchesEnd(oplog, DeletedRegions, program, cc, m)
        BY <3>8 DEF Account
      <4> QED
        BY <1>2, <3>1, <3>9, <4>1, NoSideEffect
    <3>12. PICK e \in Entries :
             /\ e = [kind |-> "Jump", start |-> v + 1, end |-> Len(oplog) + 1] /\ ~SideEffect(e)
      <4>1. [kind |-> "Jump", start |-> v + 1, end |-> Len(oplog) + 1] \in Entries
        BY <1>2 DEF Entries
      <4> QED
        BY <4>1 DEF SideEffect
    <3>13. /\ LogType' /\ Longer(oplog, e, oplog') /\ buffer' = <<>>
           /\ CutAfter(DeletedRegions, cc[q], Len(oplog) + 1, DeletedRegions')
      BY <1>0, <1>1, <3>0, <3>9, <3>12, JumpIs
    <3>14. cc[0] < cc[q] /\ Vis(oplog, DeletedRegions, cc[q]) /\ q \in 0 .. m
      <4>1. 0 \in 0 .. m /\ q \in 0 .. m /\ 0 < q /\ program[q] # "back"
        BY <3>9
      <4> QED
        BY <1>2, <3>8, <4>1, ChainStrict
    <3> DEFINE to == [j \in 0 .. q |-> cc[j]]
    <3>15. /\ Chain(oplog', DeletedRegions', program, vl, to, q)
           /\ Clear(oplog', DeletedRegions', cc[q], Len(oplog'))
      BY <1>0, <1>2, <3>8, <3>13, <3>14, CutBack
    <3>16. to[q] = cc[q] /\ \A j \in 0 .. q : to[j] = cc[j]
      BY <3>9
    <3> HIDE DEF to
    <3>17. Account(oplog', Len(durable'), DeletedRegions', program, to, q, kept, effects)
      <4>1. /\ Len(durable) \in 0 .. Len(oplog) /\ Len(durable') \in Nat
            /\ Len(durable) <= Len(durable') /\ program[q] # "back" /\ kept <= kept
        <5>1. Len(durable') = Len(oplog') /\ Len(oplog') = Len(oplog) + 1
          BY <3>13, NextLog DEF Longer
        <5> QED
          BY <1>0, <1>2, <3>9, <5>1
      <4>2. PICK L \in 0 .. Len(oplog), M \in Nat :
              L = Len(durable) /\ M = Len(durable') /\ L <= M
        BY <4>1
      <4>3. /\ oplog \in Seq(Entries) /\ Len(program) \in Nat /\ kept \in Nat /\ kept <= kept
            /\ Chain(oplog, DeletedRegions, program, vl, cc, m) /\ program[q] # "back"
            /\ Account(oplog, L, DeletedRegions, program, cc, m, kept, effects)
        BY <1>0, <1>2, <3>8, <4>1, <4>2
      <4>4. \A c \in Nat : Protected(program, kept, effects, c) => c <= q
        BY <3>10
      <4>5. /\ Longer(oplog, e, oplog') /\ ~SideEffect(e) /\ \A j \in 0 .. q : to[j] = cc[j]
            /\ CutAfter(DeletedRegions, cc[q], Len(oplog) + 1, DeletedRegions')
        BY <3>12, <3>13, <3>16
      <4>6. Account(oplog', M, DeletedRegions', program, to, q, kept, effects)
        BY <3>11, <4>2, <4>3, <4>4, <4>5, AccountCut
      <4> QED
        BY <4>2, <4>6
    <3>18. TallyInv'
      <4>1. /\ Account(oplog', Len(durable'), DeletedRegions', program, to, q, kept', effects')
            /\ kept' \in Nat /\ effects' \in Seq(Nat) /\ q = Len(seen')
            /\ Clear(oplog', DeletedRegions', to[q], Len(oplog'))
        BY <1>0, <3>0, <3>9, <3>15, <3>16, <3>17
      <4> QED
        BY <1>0, <3>0, <3>15, <4>1, TallyStays
    <3> QED
      BY <3>0, <3>18, StepDone
  <2> QED
    BY <2>2, <2>3
<1> QED
  BY <1>3, <1>4

LEMMA AccountInvInit ==
  ASSUME Init
  PROVE  AccountInv
<1>1. /\ program \in Programs /\ durable = <<[kind |-> "Create"]>> /\ buffer = <<>>
      /\ mode = "down" /\ kept = 0 /\ effects = <<>>
  BY DEF Init
<1>2. LogType /\ ~Running
  BY <1>1, ReplayInvInit DEF ReplayInv, Running
<1>3. oplog = durable /\ Len(oplog) = 1 /\ DeletedRegions \subseteq 2 .. Len(oplog)
  BY <1>1, <1>2, EmptyBuffer, OplogIs
<1>4. Fresh(oplog, DeletedRegions)
  BY <1>3 DEF Fresh
<1>5. kept \in Nat /\ effects \in Seq(Nat) /\ DOMAIN effects = {}
  BY <1>1
<1> QED
  BY <1>1, <1>2, <1>4, <1>5
  DEF AccountInv, TallyInv, TallyRest, InWrite, PerformedOnce

LEMMA AccountInvStep ==
  ASSUME ~MixedBatch, ReplayInv, AccountInv, [Next]_vars, ~misread'
  PROVE  AccountInv'
<1>0. ReplayInv'
  BY ReplayInvStep
<1>1. CASE UNCHANGED vars
  <2>1. /\ UNCHANGED <<oplogVars, program, durable, buffer, last, target, mode, seen, step>>
        /\ UNCHANGED <<source, timeline, kept, effects>>
    BY <1>1 DEF vars, oplogVars, replayVars, guestVars, ghosts
  <2>2. oplog' = oplog /\ DeletedRegions' = DeletedRegions /\ pc' = pc /\ Op' = Op
        /\ (Running' <=> Running)
    BY <2>1, SameOplog DEF pc, Op, Running
  <2>3. TallyLive' <=> TallyLive
    BY <2>1, <2>2 DEF TallyLive, LiveAt, Tallied
  <2>4. TallyRest' <=> TallyRest
    BY <2>1, <2>2 DEF TallyRest, Tallied
  <2> QED
    BY <2>1, <2>2, <2>3, <2>4 DEF AccountInv, TallyInv, InWrite, PerformedOnce
<1>2. CASE HostCall
  BY <1>0, <1>2, CallLiveTallies, AddMarkerTallies, ReadIndexTallies, EndLiveTallies,
     BeginOnceTallies, PerformOnceTallies, RecordOnceTallies, StartJumpTallies, JumpTallies,
     NoJumpTallies, ReplayCallTallies, ReplayBeginTallies, ReplayOnceTallies DEF HostCall
<1>3. CASE Worker /\ ~HostCall
  BY <1>0, <1>3, CreateInstanceTallies, ResumeReplayTallies, InvokeTallies, CompleteTallies
  DEF Worker
<1>4. CASE Commit \/ Request \/ Crash
  BY <1>0, <1>4, CommitTallies, RequestTallies, CrashTallies
<1> QED
  BY <1>1, <1>2, <1>3, <1>4 DEF Next

LEMMA MixedStays ==
  ASSUME [Next]_vars
  PROVE  MixedBatch' <=> MixedBatch
<1>1. program' = program
  BY DEF Next, Worker, HostCall, vars, CreateInstance, ResumeReplay, Invoke, Complete, CallLive,
         AddMarker, ReadIndex, EndLive, BeginOnce, PerformOnce, RecordOnce, StartJump, Jump,
         NoJump, ReplayCall, ReplayBegin, ReplayOnce, Commit, Request, Crash
<1> QED
  BY <1>1 DEF MixedBatch, OpensBefore

LEMMA AccountInvHolds ==
  Spec => [](misread \/ MixedBatch \/ (ReplayInv /\ AccountInv))
<1>1. Init => ReplayInv /\ AccountInv
  BY ReplayInvInit, AccountInvInit
<1>2. (misread \/ MixedBatch \/ (ReplayInv /\ AccountInv)) /\ [Next]_vars
      => (misread \/ MixedBatch \/ (ReplayInv /\ AccountInv))'
  BY ReplayInvStep, AccountInvStep, MisreadStays, MixedStays
<1> QED
  BY <1>1, <1>2, PTL DEF Spec

(* A guest that turns live, because its oplog is exhausted or because it   *)
(* retries a region that was not ended, does so behind every call whose    *)
(* result was committed, the regions that were not ended and the jumps it  *)
(* made itself excepted: no such call is made a second time, until a host  *)
(* call was misled by a request, and unless a batch is mixed.              *)
THEOREM WhatIsCommittedIsNotRepeated ==
  Spec => []NothingForgotten
<1>1. misread \/ MixedBatch \/ (ReplayInv /\ AccountInv) => NothingForgotten
  <2> SUFFICES ASSUME ~MixedBatch, ReplayInv, AccountInv, mode \in {"loading", "guest"},
                      last = target,
                      NEW c \in Calls(kept)
               PROVE  c \in Calls(Len(seen))
    BY DEF NothingForgotten, IsLive
  <2>1. kept \in Nat /\ c \in 1 .. kept /\ IsCall(program[c]) /\ c \in Nat
    BY DEF Calls, AccountInv, TallyInv, IsCall
  <2>2. CASE mode = "guest"
    <3>1. Running
      BY <2>2 DEF Running
    <3>2. PICK at : Tallied(at, Len(seen))
      BY <3>1, RunningIs
    <3>3. c <= Len(seen)
      BY <2>1, <3>2 DEF Tallied, Account, Committed
    <3>4. Len(seen) \in Nat
      BY <3>1, RunningIs
    <3> QED
      BY <2>1, <3>3, <3>4 DEF Calls, IsCall
  <2>3. CASE mode = "loading"
    <3>1. TallyRest /\ Loading /\ LogType
      BY <2>3 DEF AccountInv, TallyInv, Running, ReplayInv, ModeInv
    <3>2. kept # 0
      BY <2>1
    <3>3. PICK n, at : Recorded(oplog, DeletedRegions, program, timeline, at, n)
      BY <3>1, <3>2 DEF TallyRest
    <3>4. ~Fresh(oplog, DeletedRegions)
      BY <3>3, RecordedNotFresh
    <3>5. OnlyHints(oplog, 1)
      BY <3>1, <3>4 DEF Loading, Replayed
    <3>6. at[0] \in 2 .. Len(oplog) /\ oplog[at[0]].kind = "Invoked"
      BY <3>3 DEF Recorded, Chain, Begins
    <3>7. at[0] \in 1 + 1 .. Len(oplog)
      BY <3>6
    <3> QED
      BY <3>5, <3>6, <3>7 DEF OnlyHints
  <2> QED
    BY <2>2, <2>3
<1>2. Spec => [](misread \/ MixedBatch \/ (ReplayInv /\ AccountInv))
  BY AccountInvHolds
<1> QED
  BY <1>1, <1>2, PTL

(* A remote write that is not idempotent is performed at most once, and    *)
(* exactly once by an invocation that completes, unless the guest itself   *)
(* asked for its repetition by a region or a jump: the committed begin of  *)
(* the write makes a replay without its end fail, whenever the executor    *)
(* stopped (begin_function and end_function); until a host call was misled *)
(* by a request, and unless a batch is mixed.                              *)
THEOREM WritesAreNotRepeated ==
  Spec => []WrittenOnce
<1>1. misread \/ MixedBatch \/ (ReplayInv /\ AccountInv) => WrittenOnce
  <2> SUFFICES ASSUME ~MixedBatch, ReplayInv, AccountInv, NEW n \in OnceOnly
               PROVE  Times(n) <= 1 /\ (mode = "done" => Times(n) = 1)
    BY DEF WrittenOnce
  <2>0. n \in DOMAIN program /\ program[n] = "once" /\ ~MayRepeat(n)
    BY DEF OnceOnly
  <2> DEFINE S == {k \in DOMAIN effects : effects[k] = n}
  <2>1. program \in Programs /\ PerformedOnce
    BY DEF ReplayInv, GuestType, AccountInv
  <2>2. n \in 1 .. Len(program) /\ n \in Nat
    BY <2>0, <2>1, ProgramIs
  <2>3. OnlyOnce(program, n)
    BY <2>0, <2>1, <2>2, RegionsAre DEF OnlyOnce
  <2>4. \A i \in S, j \in S : i = j
    BY <2>1, <2>3 DEF PerformedOnce
  <2>5. mode = "done" => S # {}
    BY <2>1, <2>2, <2>3 DEF PerformedOnce, Performed
  <2> HIDE DEF S
  <2>6. S = {} \/ \E i : S = {i}
    BY <2>4
  <2>7. Cardinality(S) <= 1 /\ (S # {} => Cardinality(S) = 1)
    <3>1. CASE S = {}
      <4>1. Cardinality(S) = 0
        BY <3>1, FS_EmptySet
      <4> QED
        BY <3>1, <4>1
    <3>2. CASE \E i : S = {i}
      <4>1. Cardinality(S) = 1
        BY <3>2, FS_Singleton
      <4> QED
        BY <4>1
    <3> QED
      BY <2>6, <3>1, <3>2
  <2> QED
    BY <2>5, <2>7 DEF S, Times
<1>2. Spec => [](misread \/ MixedBatch \/ (ReplayInv /\ AccountInv))
  BY AccountInvHolds
<1> QED
  BY <1>1, <1>2, PTL

-----------------------------------------------------------------------------
(* A region the guest does not take up in its middle is found to have      *)
(* ended only if the calls of the log reach its end, and what they have of *)
(* it is from one instance.                                                *)

(* MayResume, of a program, and the regions it leaves.                     *)
Resumes(p, k, e) ==
  \E i \in k + 1 .. e - 1 :
    \/ p[i] = "save" /\ \E j \in e + 1 .. Len(p) : p[j] = "back"
    \/ Opens(p[i]) /\ \A j \in i .. e : p[j] # Closing(p[i])

Clean(p, k, e) == Closes(p, k, e) /\ ~Resumes(p, k, e)

(* The entry at j, deleted or not, lets the region that begins at a count  *)
(* as ended.                                                               *)
EndedAt(D, R, op, a, j) ==
  /\ j <= Len(D) /\ EndsAt(D, j, op, a)
  /\ \E x \in Nat : a < x /\ x <= j /\ Vis(D, R, x)

Ends(D, R, p, at, n) ==
  \A k \in 1 .. n, e \in 1 .. Len(p), j \in Nat :
    Clean(p, k, e) /\ EndedAt(D, R, p[k], at[k], j) => e <= n /\ at[e] <= j

Whole(p, tl, n) ==
  \A k \in 1 .. Len(p), e \in 1 .. Len(p), i \in 1 .. n, j \in 1 .. n :
    /\ Clean(p, k, e) /\ k < i /\ i < j /\ j < e /\ IsCall(p[i]) /\ IsCall(p[j])
    => tl[i].boot = tl[j].boot

(* What an end of the chain leaves behind it is not the end of a region,   *)
(* nor a call that was answered.                                           *)
LEMMA NoneBehind ==
  ASSUME NEW D \in Seq(Entries), NEW R, NEW p, Len(p) \in Nat, NEW tl, NEW at, NEW n,
         Chain(D, R, p, tl, at, n), NEW m \in 0 .. n, NEW b \in Nat, b = at[m],
         NEW q \in Nat, Rest(D, R, p, b, q), NEW c \in m + 1 .. n
  PROVE  p[c] \notin {"end", "close", "call", "part", "once"}
<1>0. /\ n \in Nat /\ m \in Nat /\ c \in 1 .. n /\ c \in 0 .. n /\ m < c /\ c - 1 \in 0 .. n
      /\ at \in [0 .. n -> 2 .. Len(D)] /\ Len(D) \in Nat /\ m <= c - 1
  BY DEF Chain
<1> SUFFICES ASSUME p[c] \in {"end", "close", "call", "part", "once"} PROVE FALSE
  OBVIOUS
<1>1. at[m] <= at[c - 1] /\ at[c - 1] \in Nat /\ at[c] \in Nat /\ at[m] \in Nat
      /\ at[c] <= Len(D)
  <2>1. \A j, k \in 0 .. n : j <= k => at[j] <= at[k]
    BY DEF Chain
  <2>2. at[m] \in 2 .. Len(D) /\ at[c - 1] \in 2 .. Len(D) /\ at[c] \in 2 .. Len(D)
    BY <1>0
  <2> QED
    BY <1>0, <2>1, <2>2
<1>2. Link(D, R, p[c], at[c - 1], at[c], tl[c])
  BY <1>0 DEF Chain
<1>3. CASE p[c] # "once"
  <2>1. /\ NextVis(D, R, at[c - 1], at[c])
        /\ D[at[c]].kind \in {"call", "part", "EndAtomic", "EndWrite"}
    BY <1>2, <1>3 DEF Link, Records, Marks
  <2>2. Vis(D, R, at[c]) /\ b < at[c]
    BY <1>1, <2>1 DEF NextVis
  <2>3. at[c] \in b + 1 .. Len(D)
    BY <1>0, <1>1, <2>2
  <2>4. PICK x \in Nat : /\ NextVis(D, R, b, x) /\ Clear(D, R, x, Len(D))
                         /\ Unanswered(p, q, D[x].kind)
    BY <2>2, <2>3 DEF Rest, Clear
  <2>5. ~(at[c] \in b + 1 .. x - 1) /\ ~(at[c] \in x + 1 .. Len(D))
    BY <2>2, <2>4 DEF Clear, NextVis
  <2>6. at[c] = x
    BY <1>0, <1>1, <2>3, <2>5
  <2> QED
    BY <2>1, <2>4, <2>6 DEF Unanswered, Marks
<1>4. CASE p[c] = "once"
  <2>1. PICK x \in Nat, y \in Nat : Once(D, R, at[c - 1], x, y, at[c])
    BY <1>2, <1>4 DEF Link, Records, Marks
  <2>2. /\ Vis(D, R, x) /\ Vis(D, R, y) /\ b < x /\ x < y /\ D[y].kind = "Write"
        /\ x \in b + 1 .. Len(D) /\ y \in b + 1 .. Len(D)
    <3>1. Vis(D, R, x) /\ Vis(D, R, y) /\ at[c - 1] < x /\ x < y /\ D[y].kind = "Write"
          /\ y <= Len(D)
      BY <2>1 DEF Once, NextVis, Vis
    <3> QED
      BY <1>0, <1>1, <3>1
  <2>3. PICK z \in Nat : /\ NextVis(D, R, b, z) /\ Clear(D, R, z, Len(D))
    BY <2>2 DEF Rest, Clear
  <2>4. ~(x \in b + 1 .. z - 1) /\ ~(y \in z + 1 .. Len(D))
    BY <2>2, <2>3 DEF Clear, NextVis
  <2> QED
    BY <2>2, <2>4
<1> QED
  BY <1>3, <1>4

(* The answer of a call is in its entries.                                 *)
LEMMA LinkAnswer ==
  ASSUME NEW D \in Seq(Entries), NEW R, NEW op, NEW a \in Nat, NEW b \in Nat,
         NEW u, NEW v, Link(D, R, op, a, b, u), Link(D, R, op, a, b, v)
  PROVE  u = v
<1>1. CASE op = "once"
  <2>1. PICK x \in Nat, y \in Nat : /\ Once(D, R, a, x, y, b)
                                    /\ u = Answer(D[y].value, D[y].boot)
    BY <1>1 DEF Link, Records, Marks
  <2>2. PICK z \in Nat, w \in Nat : /\ Once(D, R, a, z, w, b)
                                    /\ v = Answer(D[w].value, D[w].boot)
    BY <1>1 DEF Link, Records, Marks
  <2>3. x = z
    BY <2>1, <2>2, OneNext DEF Once
  <2>4. y = w
    BY <2>1, <2>2, <2>3, OneNext DEF Once
  <2> QED
    BY <2>1, <2>2, <2>4
<1>2. CASE op # "once"
  BY <1>2 DEF Link, Records, Marks, NextVis
<1> QED
  BY <1>1, <1>2

(* Two chains of a log agree.                                              *)
LEMMA RecordsAgree ==
  ASSUME NEW D \in Seq(Entries), NEW R, NEW p, Len(p) \in Nat, NoBackFirst(p),
         NEW tl, NEW ul, NEW at, NEW to, NEW n, NEW m,
         Recorded(D, R, p, tl, at, n), Recorded(D, R, p, ul, to, m)
  PROVE  \A k \in 0 .. n : k <= m => at[k] = to[k]
<1>1. Chain(D, R, p, tl, at, n) /\ Chain(D, R, p, ul, to, m)
  BY DEF Recorded
<1>2. /\ \/ Clear(D, R, at[n], Len(D))
         \/ \E x \in Nat : NextVis(D, R, at[n], x) /\ D[x].kind # "Invoked"
      /\ \/ Clear(D, R, to[m], Len(D))
         \/ \E x \in Nat : NextVis(D, R, to[m], x) /\ D[x].kind # "Invoked"
  BY RestBegins DEF Recorded
<1> QED
  BY <1>1, <1>2, ChainsAgree

(* The log has grown from D to E, and the calls from n to m.               *)
LEMMA EndsGrow ==
  ASSUME NEW D \in Seq(Entries), NEW E \in Seq(Entries), NEW R, Same(D, R, E, R, Len(D)),
         NEW p, Len(p) \in Nat, NEW tl, NEW ul, NEW at, NEW to, NEW n, NEW m,
         Chain(E, R, p, tl, at, n), Ends(D, R, p, at, n),
         Recorded(E, R, p, ul, to, m), \A k \in 0 .. n : k <= m => at[k] = to[k],
         \A j \in Len(D) + 1 .. Len(E), k \in 1 .. n :
           Opens(p[k]) /\ EndsAt(E, j, p[k], at[k]) =>
             n < m /\ p[n + 1] = Closing(p[k]) /\ to[n + 1] <= j,
         \A k \in n + 1 .. m : Opens(p[k]) => Clear(E, R, to[k], Len(E))
  PROVE  Ends(E, R, p, to, m)
<1>0. /\ n \in Nat /\ m \in Nat /\ Chain(E, R, p, ul, to, m) /\ m <= Len(p) /\ n <= Len(p)
      /\ to \in [0 .. m -> 2 .. Len(E)] /\ Len(D) \in Nat /\ Len(E) \in Nat
      /\ \A j, k \in 0 .. m : j <= k => to[j] <= to[k]
      /\ Rest(E, R, p, to[m], m)
  BY DEF Recorded, Chain
<1> SUFFICES ASSUME NEW k \in 1 .. m, NEW e \in 1 .. Len(p), NEW j \in Nat, Clean(p, k, e),
                    EndedAt(E, R, p[k], to[k], j)
             PROVE  e <= m /\ to[e] <= j
  BY DEF Ends
<1>1. /\ Opens(p[k]) /\ k < e /\ p[e] = Closing(p[k]) /\ to[k] \in Nat
      /\ \A i \in k + 1 .. e - 1 : p[i] # Closing(p[k])
  BY <1>0 DEF Clean, Closes
<1>2. PICK x \in Nat : to[k] < x /\ x <= j /\ Vis(E, R, x) /\ j <= Len(E)
  BY DEF EndedAt
<1>3. k <= n
  <2> SUFFICES ASSUME ~(k <= n) PROVE FALSE
    OBVIOUS
  <2>1. Clear(E, R, to[k], Len(E))
    BY <1>0, <1>1
  <2>2. x \in to[k] + 1 .. Len(E)
    BY <1>0, <1>1, <1>2
  <2> QED
    BY <1>2, <2>1, <2>2 DEF Clear
<1>4. k \in 1 .. n /\ at[k] = to[k]
  BY <1>0, <1>3
<1>5. CASE j <= Len(D)
  <2>1. Vis(D, R, x)
    BY <1>0, <1>2, <1>5, SameVis
  <2>2. EndedAt(D, R, p[k], at[k], j)
    <3>1. j \in 1 .. Len(D)
      BY <1>1, <1>2, <1>5
    <3>2. D[j] = E[j]
      BY <3>1 DEF Same
    <3> QED
      BY <1>2, <1>4, <1>5, <2>1, <3>2 DEF EndedAt, EndsAt
  <2>3. e <= n /\ at[e] <= j
    BY <1>4, <2>2 DEF Ends
  <2>4. e <= m
    <3> SUFFICES ASSUME ~(e <= m) PROVE FALSE
      OBVIOUS
    <3>1. m \in 0 .. n /\ e \in m + 1 .. n
      BY <1>0, <2>3
    <3>2. at[m] = to[m] /\ to[m] \in Nat
      BY <1>0, <3>1
    <3>3. p[e] \in {"end", "close"}
      BY <1>1 DEF Closing
    <3>4. PICK b \in Nat : b = at[m] /\ Rest(E, R, p, b, m)
      BY <1>0, <3>2
    <3>5. p[e] \notin {"end", "close", "call", "part", "once"}
      BY <1>0, <3>1, <3>4, NoneBehind
    <3> QED
      BY <3>3, <3>5
  <2> QED
    BY <1>0, <2>3, <2>4
<1>6. CASE ~(j <= Len(D))
  <2>1. EndsAt(E, j, p[k], at[k]) /\ j \in Len(D) + 1 .. Len(E)
    BY <1>0, <1>2, <1>4, <1>6 DEF EndedAt
  <2>2. n < m /\ p[n + 1] = Closing(p[k]) /\ to[n + 1] <= j
    BY <1>1, <1>4, <2>1
  <2>3. ~(n + 1 \in k + 1 .. e - 1)
    BY <1>1, <2>2
  <2>4. e <= n + 1
    BY <1>0, <1>3, <2>3
  <2>5. to[e] <= to[n + 1] /\ to[e] \in Nat /\ to[n + 1] \in Nat
    <3>1. e \in 0 .. m /\ n + 1 \in 0 .. m
      BY <1>0, <2>2, <2>4
    <3> QED
      BY <1>0, <2>4, <3>1
  <2> QED
    BY <1>0, <2>2, <2>4, <2>5
<1> QED
  BY <1>5, <1>6

(* The entries behind the calls of one chain are those of no region.       *)
LEMMA OpenedLast ==
  ASSUME NEW D \in Seq(Entries), NEW R, NEW p, Len(p) \in Nat, NEW ul, NEW to, NEW m,
         Chain(D, R, p, ul, to, m), NEW n \in Nat, NEW b \in Nat, Rest(D, R, p, b, n),
         n <= m => b <= to[n], NEW k \in n + 1 .. m, Opens(p[k])
  PROVE  Clear(D, R, to[k], Len(D))
<1>0. /\ m \in Nat /\ n \in 0 .. m /\ k \in 0 .. m /\ n < k /\ Len(D) \in Nat
      /\ p[k] # "back"
  BY DEF Chain, Opens
<1>1. to[n] < to[k] /\ Vis(D, R, to[k]) /\ to[n] \in Nat /\ to[k] \in Nat /\ to[k] <= Len(D)
  BY <1>0, ChainStrict
<1>2. to[k] \in b + 1 .. Len(D)
  BY <1>0, <1>1
<1>3. PICK x \in Nat : NextVis(D, R, b, x) /\ Clear(D, R, x, Len(D))
  BY <1>1, <1>2 DEF Rest, Clear
<1>4. ~(to[k] \in b + 1 .. x - 1) /\ ~(to[k] \in x + 1 .. Len(D))
  BY <1>1, <1>3 DEF Clear, NextVis
<1>5. to[k] = x
  BY <1>0, <1>1, <1>2, <1>4
<1> QED
  BY <1>3, <1>5

(* What is known of one chain of a log is known of every other.            *)
LEMMA WholeTurn ==
  ASSUME NEW D \in Seq(Entries), NEW R, NEW p, Len(p) \in Nat, NoBackFirst(p),
         NEW tl, NEW ul, NEW at, NEW to, NEW n, NEW m,
         Recorded(D, R, p, tl, at, n), Recorded(D, R, p, ul, to, m),
         Ends(D, R, p, at, n), Whole(p, tl, n)
  PROVE  Ends(D, R, p, to, m) /\ Whole(p, ul, m)
<1>0. /\ n \in Nat /\ m \in Nat /\ Chain(D, R, p, tl, at, n) /\ Chain(D, R, p, ul, to, m)
      /\ at \in [0 .. n -> 2 .. Len(D)] /\ to \in [0 .. m -> 2 .. Len(D)] /\ Len(D) \in Nat
      /\ Rest(D, R, p, at[n], n)
  BY DEF Recorded, Chain
<1>1. \A k \in 0 .. n : k <= m => at[k] = to[k]
  BY RecordsAgree
<1>2. Same(D, R, D, R, Len(D))
  BY <1>0 DEF Same
<1>3. at[n] \in Nat /\ (n <= m => at[n] <= to[n])
  BY <1>0, <1>1
<1>4. \A k \in n + 1 .. m : Opens(p[k]) => Clear(D, R, to[k], Len(D))
  BY <1>0, <1>3, OpenedLast
<1>5. Ends(D, R, p, to, m)
  <2>1. \A j \in Len(D) + 1 .. Len(D), k \in 1 .. n :
          Opens(p[k]) /\ EndsAt(D, j, p[k], at[k]) =>
            n < m /\ p[n + 1] = Closing(p[k]) /\ to[n + 1] <= j
    BY <1>0
  <2>2. /\ Chain(D, R, p, tl, at, n) /\ Ends(D, R, p, at, n) /\ Same(D, R, D, R, Len(D))
        /\ Recorded(D, R, p, ul, to, m) /\ \A k \in 0 .. n : k <= m => at[k] = to[k]
        /\ \A k \in n + 1 .. m : Opens(p[k]) => Clear(D, R, to[k], Len(D))
    BY <1>0, <1>1, <1>2, <1>4
  <2> QED
    BY <2>1, <2>2, EndsGrow
<1>6. ASSUME NEW k \in 1 .. m, IsCall(p[k]) PROVE k <= n /\ ul[k] = tl[k]
  <2>1. k <= n
    <3> SUFFICES ASSUME ~(k <= n) PROVE FALSE
      OBVIOUS
    <3>1. n \in 0 .. m /\ k \in n + 1 .. m
      BY <1>0
    <3>2. to[n] = at[n] /\ at[n] \in Nat
      BY <1>0, <1>1, <3>1
    <3>3. p[k] \notin {"end", "close", "call", "part", "once"}
      BY <1>0, <3>1, <3>2, NoneBehind
    <3> QED
      BY <1>6, <3>3 DEF IsCall
  <2>2. /\ k \in 1 .. n /\ k \in 0 .. n /\ k - 1 \in 0 .. n /\ k <= m /\ k - 1 <= m
        /\ k \in 0 .. m /\ k - 1 \in 0 .. m
    BY <1>0, <2>1
  <2>3. at[k] = to[k] /\ at[k - 1] = to[k - 1] /\ at[k] \in Nat /\ at[k - 1] \in Nat
    BY <1>0, <1>1, <2>2
  <2>4. Link(D, R, p[k], at[k - 1], at[k], tl[k]) /\ Link(D, R, p[k], at[k - 1], at[k], ul[k])
    BY <1>0, <2>2, <2>3 DEF Chain
  <2> QED
    BY <2>1, <2>3, <2>4, LinkAnswer
<1>7. Whole(p, ul, m)
  <2> SUFFICES ASSUME NEW k \in 1 .. Len(p), NEW e \in 1 .. Len(p), NEW i \in 1 .. m,
                      NEW j \in 1 .. m, Clean(p, k, e), k < i, i < j, j < e,
                      IsCall(p[i]), IsCall(p[j])
               PROVE  ul[i].boot = ul[j].boot
    BY DEF Whole
  <2>1. i \in 1 .. n /\ j \in 1 .. n /\ ul[i] = tl[i] /\ ul[j] = tl[j]
    BY <1>0, <1>6
  <2> QED
    BY <2>1 DEF Whole
<1> QED
  BY <1>5, <1>7

LEMMA RestGrows ==
  ASSUME NEW D \in Seq(Entries), NEW E \in Seq(Entries), NEW R, Same(D, R, E, R, Len(D)),
         NEW p, NEW a \in Nat, NEW n, Rest(D, R, p, a, n),
         \A j \in Len(D) + 1 .. Len(E) : E[j].kind # "Invoked"
  PROVE  \/ Clear(E, R, a, Len(E))
         \/ \E x \in Nat : NextVis(E, R, a, x) /\ E[x].kind # "Invoked"
<1>0. Len(D) \in Nat /\ Len(E) \in Nat /\ Len(D) <= Len(E)
  BY DEF Same
<1>1. CASE \E x \in Nat : NextVis(D, R, a, x) /\ D[x].kind # "Invoked"
  <2>1. PICK x \in Nat : NextVis(D, R, a, x) /\ D[x].kind # "Invoked"
    BY <1>1
  <2>2. x <= Len(D)
    BY <2>1 DEF NextVis, Vis
  <2>3. NextVis(E, R, a, x) /\ E[x] = D[x]
    BY <1>0, <2>1, <2>2, SameNext
  <2> QED
    BY <2>1, <2>3
<1>2. CASE Clear(D, R, a, Len(D)) /\ ~Clear(E, R, a, Len(E))
  <2> DEFINE W == {w \in a + 1 .. Len(E) : Vis(E, R, w)}
  <2>1. W \in SUBSET Nat /\ W # {}
    BY <1>0, <1>2 DEF Clear
  <2>2. PICK x \in W : \A w \in W : x <= w
    <3> HIDE DEF W
    <3> QED
      BY <2>1, LeastIndex
  <2>3. x \in a + 1 .. Len(E) /\ Vis(E, R, x) /\ x \in Nat
    BY <1>0, <2>2
  <2>4. Clear(E, R, a, x - 1)
    <3> SUFFICES ASSUME NEW i \in a + 1 .. x - 1, Vis(E, R, i) PROVE FALSE
      BY DEF Clear
    <3>1. i \in W /\ ~(x <= i)
      BY <1>0, <2>3
    <3> QED
      BY <2>2, <3>1
  <2>5. ~(x <= Len(D))
    <3> SUFFICES ASSUME x <= Len(D) PROVE FALSE
      OBVIOUS
    <3>1. Vis(D, R, x) /\ x \in a + 1 .. Len(D)
      BY <1>0, <2>3, SameVis
    <3> QED
      BY <1>2, <3>1 DEF Clear
  <2>6. E[x].kind # "Invoked"
    BY <1>0, <2>3, <2>5
  <2> QED
    BY <2>3, <2>4, <2>6 DEF NextVis
<1> QED
  BY <1>1, <1>2, RestBegins

LEMMA WholeGrow ==
  ASSUME NEW D \in Seq(Entries), NEW E \in Seq(Entries), NEW R, Same(D, R, E, R, Len(D)),
         NEW p, Len(p) \in Nat, NoBackFirst(p), NEW tl, NEW ul, NEW at, NEW to, NEW n, NEW m,
         Recorded(D, R, p, tl, at, n), Ends(D, R, p, at, n), Recorded(E, R, p, ul, to, m),
         \A j \in Len(D) + 1 .. Len(E) : E[j].kind # "Invoked",
         \A j \in Len(D) + 1 .. Len(E), k \in 1 .. n :
           Opens(p[k]) /\ EndsAt(E, j, p[k], at[k]) =>
             n < m /\ p[n + 1] = Closing(p[k]) /\ to[n + 1] <= j,
         \A k \in n + 1 .. m : Opens(p[k]) => Clear(E, R, to[k], Len(E))
  PROVE  Ends(E, R, p, to, m)
<1>0. /\ n \in Nat /\ m \in Nat /\ Chain(D, R, p, tl, at, n) /\ Chain(E, R, p, ul, to, m)
      /\ at \in [0 .. n -> 2 .. Len(D)] /\ Len(D) \in Nat /\ n <= Len(tl)
      /\ Len(E) \in Nat /\ Len(D) <= Len(E) /\ Rest(D, R, p, at[n], n)
      /\ to \in [0 .. m -> 2 .. Len(E)] /\ Rest(E, R, p, to[m], m)
  <2>1. /\ Chain(D, R, p, tl, at, n) /\ Chain(E, R, p, ul, to, m)
        /\ Rest(D, R, p, at[n], n) /\ Rest(E, R, p, to[m], m)
    BY DEF Recorded
  <2>2. n \in Nat /\ m \in Nat /\ at \in [0 .. n -> 2 .. Len(D)] /\ n <= Len(tl)
        /\ to \in [0 .. m -> 2 .. Len(E)]
    BY <2>1 DEF Chain
  <2>3. Len(D) <= Len(E)
    BY DEF Same
  <2> QED
    BY <2>1, <2>2, <2>3
<1>1. at[n] \in Nat /\ at[n] <= Len(D) /\ n \in 0 .. n
  BY <1>0
<1>2. Chain(E, R, p, tl, at, n)
  <2>1. Same(D, R, E, R, at[n])
    BY <1>0, <1>1 DEF Same
  <2>2. Chain(E, R, p, tl, [j \in 0 .. n |-> at[j]], n)
    <3>1. PICK k \in 0 .. n : k = n
      BY <1>1
    <3>2. k <= Len(tl) /\ Same(D, R, E, R, at[k]) /\ \A j \in 1 .. k : tl[j] = tl[j]
      BY <1>0, <2>1, <3>1
    <3>3. Chain(D, R, p, tl, at, n)
      BY <1>0
    <3>4. Chain(E, R, p, tl, [j \in 0 .. k |-> at[j]], k)
      BY <3>2, <3>3, ChainSame
    <3> QED
      BY <3>1, <3>4
  <2>3. [j \in 0 .. n |-> at[j]] = at
    BY <1>0
  <2> QED
    BY <2>2, <2>3
<1>3. /\ \/ Clear(E, R, at[n], Len(E))
         \/ \E x \in Nat : NextVis(E, R, at[n], x) /\ E[x].kind # "Invoked"
      /\ \/ Clear(E, R, to[m], Len(E))
         \/ \E x \in Nat : NextVis(E, R, to[m], x) /\ E[x].kind # "Invoked"
  <2>1. PICK a \in Nat : a = at[n] /\ Rest(D, R, p, a, n)
    BY <1>0, <1>1
  <2>2. \/ Clear(E, R, a, Len(E))
        \/ \E x \in Nat : NextVis(E, R, a, x) /\ E[x].kind # "Invoked"
    BY <2>1, RestGrows
  <2> QED
    BY <1>0, <2>1, <2>2, RestBegins
<1>4. \A k \in 0 .. n : k <= m => at[k] = to[k]
  <2>1. Chain(E, R, p, ul, to, m)
    BY <1>0
  <2> QED
    BY <1>2, <1>3, <2>1, ChainsAgree
<1> QED
  BY <1>2, <1>4, EndsGrow

(* What comes after the m-th call is deleted.                              *)
LEMMA EndsCut ==
  ASSUME NEW D \in Seq(Entries), NEW R, NEW e \in Entries, e.kind = "Jump",
         NEW p, Len(p) \in Nat, NEW tl, NEW at, NEW n, Chain(D, R, p, tl, at, n),
         NEW m \in 1 .. n, NEW E, Longer(D, e, E), NEW S,
         CutAfter(R, at[m], Len(D) + 1, S), Ends(D, R, p, at, n),
         \A k \in 1 .. m - 1, c \in m + 1 .. n, j \in Nat :
           Clean(p, k, c) => ~EndedAt(D, R, p[k], at[k], j),
         NEW to, \A k \in 0 .. m : to[k] = at[k]
  PROVE  Ends(E, S, p, to, m)
<1>0. /\ n \in Nat /\ m \in Nat /\ m <= n /\ n <= Len(p) /\ Len(D) \in Nat
      /\ at \in [0 .. n -> 2 .. Len(D)] /\ at[m] \in Nat /\ at[m] <= Len(D)
      /\ E \in Seq(Entries) /\ Len(E) = Len(D) + 1 /\ E[Len(D) + 1] = e
      /\ \A i \in 1 .. Len(D) : E[i] = D[i]
  <2>1. n \in Nat /\ n <= Len(p) /\ at \in [0 .. n -> 2 .. Len(D)]
    BY DEF Chain
  <2>2. at[m] \in 2 .. Len(D)
    BY <2>1
  <2> QED
    BY <2>1, <2>2 DEF Longer
<1> SUFFICES ASSUME NEW k \in 1 .. m, NEW c \in 1 .. Len(p), NEW j \in Nat, Clean(p, k, c),
                    EndedAt(E, S, p[k], to[k], j)
             PROVE  c <= m /\ to[c] <= j
  BY DEF Ends
<1>1. /\ j <= Len(E) /\ EndsAt(E, j, p[k], at[k]) /\ to[k] = at[k] /\ at[k] \in Nat
      /\ k \in 1 .. n
  BY <1>0 DEF EndedAt
<1>2. PICK x \in Nat : at[k] < x /\ x <= j /\ Vis(E, S, x)
  BY <1>1 DEF EndedAt
<1>3. x <= at[m] /\ x \in 2 .. Len(D) /\ x \notin R
  <2>1. x \notin S /\ x \in 2 .. Len(E)
    BY <1>2 DEF Vis
  <2>2. ~(x \in at[m] + 1 .. Len(D) + 1) /\ x \notin R
    BY <2>1 DEF CutAfter
  <2> QED
    BY <1>0, <2>1, <2>2
<1>4. Vis(D, R, x)
  BY <1>0, <1>2, <1>3 DEF Vis
<1>5. k # m
  BY <1>0, <1>1, <1>2, <1>3
<1>6. j # Len(D) + 1
  BY <1>0, <1>1 DEF EndsAt
<1>7. EndedAt(D, R, p[k], at[k], j)
  <2>1. j \in 1 .. Len(D)
    BY <1>0, <1>1, <1>2, <1>6
  <2> QED
    BY <1>0, <1>1, <1>2, <1>4, <2>1 DEF EndedAt, EndsAt
<1>8. c <= n /\ at[c] <= j
  BY <1>1, <1>7 DEF Ends
<1>9. c <= m
  <2> SUFFICES ASSUME ~(c <= m) PROVE FALSE
    OBVIOUS
  <2>1. k \in 1 .. m - 1 /\ c \in m + 1 .. n
    BY <1>0, <1>5, <1>8
  <2> QED
    BY <1>7, <2>1
<1> QED
  BY <1>0, <1>8, <1>9

(* What was not committed is lost.                                         *)
LEMMA EndsOff ==
  ASSUME NEW D \in Seq(Entries), NEW E \in Seq(Entries), NEW R, Same(E, R, D, R, Len(D)),
         NEW p, Len(p) \in Nat, NEW tl, NEW at, NEW n, Chain(E, R, p, tl, at, n),
         Ends(E, R, p, at, n), NEW m \in 0 .. n,
         \A k \in 0 .. n : at[k] <= Len(D) => k <= m,
         NEW to, \A k \in 0 .. m : to[k] = at[k]
  PROVE  Ends(D, R, p, to, m)
<1>0. /\ n \in Nat /\ m \in Nat /\ m <= n /\ n <= Len(p) /\ Len(D) \in Nat /\ Len(E) \in Nat
      /\ at \in [0 .. n -> 2 .. Len(E)] /\ Len(D) <= Len(E)
  BY DEF Chain, Same
<1> SUFFICES ASSUME NEW k \in 1 .. m, NEW c \in 1 .. Len(p), NEW j \in Nat, Clean(p, k, c),
                    EndedAt(D, R, p[k], to[k], j)
             PROVE  c <= m /\ to[c] <= j
  BY DEF Ends
<1>1. to[k] = at[k] /\ k \in 1 .. n /\ at[k] \in Nat /\ j <= Len(D)
      /\ EndsAt(D, j, p[k], at[k])
  BY <1>0 DEF EndedAt
<1>2. PICK x \in Nat : at[k] < x /\ x <= j /\ Vis(D, R, x)
  BY <1>1 DEF EndedAt
<1>3. Vis(E, R, x)
  BY <1>0, <1>1, <1>2, SameVis
<1>4. EndedAt(E, R, p[k], at[k], j)
  <2>1. j \in 1 .. Len(D)
    BY <1>0, <1>1, <1>2
  <2>2. D[j] = E[j] /\ j <= Len(E)
    BY <1>0, <2>1 DEF Same
  <2> QED
    BY <1>1, <1>2, <1>3, <2>2 DEF EndedAt, EndsAt
<1>5. c <= n /\ at[c] <= j
  BY <1>1, <1>4 DEF Ends
<1>6. c \in 0 .. n /\ at[c] \in Nat
  BY <1>0, <1>5
<1>7. at[c] <= Len(D)
  BY <1>0, <1>1, <1>5, <1>6
<1> QED
  BY <1>0, <1>5, <1>6, <1>7

LEMMA WholeLess ==
  ASSUME NEW p, NEW tl, NEW ul, NEW n \in Nat, NEW m \in Nat, m <= n, Whole(p, tl, n),
         \A k \in 1 .. m : ul[k] = tl[k]
  PROVE  Whole(p, ul, m)
<1> SUFFICES ASSUME NEW k \in 1 .. Len(p), NEW e \in 1 .. Len(p), NEW i \in 1 .. m,
                    NEW j \in 1 .. m, Clean(p, k, e), k < i, i < j, j < e,
                    IsCall(p[i]), IsCall(p[j])
             PROVE  ul[i].boot = ul[j].boot
  BY DEF Whole
<1>1. i \in 1 .. n /\ j \in 1 .. n
  OBVIOUS
<1> QED
  BY <1>1 DEF Whole

-----------------------------------------------------------------------------
(* Every chain of the oplog has what was said.                             *)
LogWhole ==
  \A tl, n, at : Recorded(oplog, DeletedRegions, program, tl, at, n) =>
    Ends(oplog, DeletedRegions, program, at, n) /\ Whole(program, tl, n)

(* In a region it has not ended, a live guest has seen only results of its *)
(* own, and a guest that is replayed will find the end.                    *)
LiveBoots ==
  \A k \in 1 .. Len(seen), e \in Len(seen) + 1 .. Len(program) : Clean(program, k, e) =>
    \A i \in k + 1 .. Len(seen) : IsCall(program[i]) => seen[i].boot = boots

FollowEnds ==
  \A k \in 1 .. Len(seen), e \in Len(seen) + 1 .. Len(program) : Clean(program, k, e) =>
    \E j \in Nat : EndedAt(oplog, regions, program[k], seen[k].value, j)

WholeInv ==
  /\ LogWhole /\ Whole(program, seen, Len(seen))
  /\ Running => LiveBoots
  /\ mode = "guest" /\ last # target => FollowEnds

(* The write was begun before its source: after it there are only hints.   *)
BegunBefore == mode = "guest" /\ step = "record" => OnlyHints(oplog, source)

LEMMA BegunBeforeStep ==
  ASSUME ReplayInv, BegunBefore, [Next]_vars
  PROVE  BegunBefore'
<1> SUFFICES ASSUME mode' = "guest", step' = "record" PROVE OnlyHints(oplog', source')
  BY DEF BegunBefore
<1>0. LogType /\ Len(oplog) \in Nat
  BY OplogIs DEF ReplayInv
<1>1. CASE PerformOnce
  <2>1. oplog' = oplog /\ source' = Len(oplog)
    BY <1>1, SameOplog DEF PerformOnce
  <2> QED
    BY <1>0, <2>1 DEF OnlyHints
<1>2. CASE Request
  <2>1. /\ AddAndCommit(<<[kind |-> "Pending"]>>) /\ source' = source /\ mode = "guest"
        /\ step = "record"
    BY <1>2 DEF Request, guestVars
  <2>2. PICK e \in Entries : e.kind = "Pending" /\ Grows(e)
    <3>1. [kind |-> "Pending"] \in Entries
      BY EntryTyped
    <3> QED
      BY <2>1, <3>1 DEF Grows
  <2>3. Longer(oplog, e, oplog')
    BY <1>0, <2>2, GrowsIs
  <2>4. source \in Nat
    BY DEF ReplayInv, GuestType
  <2>5. ASSUME NEW i \in source + 1 .. Len(oplog') PROVE oplog'[i].kind = "Pending"
    <3>1. i = Len(oplog) + 1 \/ (i \in source + 1 .. Len(oplog) /\ i \in 1 .. Len(oplog))
      BY <1>0, <2>3, <2>4 DEF Longer
    <3> QED
      BY <2>1, <2>2, <2>3, <3>1 DEF Longer, BegunBefore, OnlyHints
  <2> QED
    BY <2>1, <2>5 DEF OnlyHints
<1>3. CASE Commit
  <2>1. oplog' = oplog /\ source' = source /\ mode = "guest" /\ step = "record"
    BY <1>0, <1>3, CommitIs DEF Commit, guestVars
  <2> QED
    BY <2>1 DEF BegunBefore
<1>4. CASE UNCHANGED vars
  <2>1. oplog' = oplog /\ source' = source /\ mode = "guest" /\ step = "record"
    BY <1>4, SameOplog DEF vars, oplogVars, guestVars
  <2> QED
    BY <2>1 DEF BegunBefore
<1>5. CASE ResumeReplay \/ Invoke
  <2>1. mode = "loading" /\ step = "record"
    BY <1>5 DEF ResumeReplay, Invoke
  <2> QED
    BY <2>1 DEF ReplayInv, ModeInv, Loading, Replayed
<1>6. CASE HostCall /\ ~PerformOnce
  BY <1>6 DEF HostCall, InCall, CallLive, AddMarker, ReadIndex, EndLive, BeginOnce, RecordOnce,
              StartJump, Jump, NoJump, ReplayCall, ReplayBegin, ReplayOnce, Fails
<1>7. CASE CreateInstance \/ Complete \/ Crash
  BY <1>7 DEF CreateInstance, Complete, Crash
<1> QED
  BY <1>1, <1>2, <1>3, <1>4, <1>5, <1>6, <1>7 DEF Next, Worker

LEMMA LogBy ==
  ASSUME ~MixedBatch, LogType', program \in Programs, program' = program, NEW tl, NEW n, NEW at,
         Recorded(oplog', DeletedRegions', program, tl, at, n),
         Ends(oplog', DeletedRegions', program, at, n), Whole(program, tl, n)
  PROVE  LogWhole'
<1>1. oplog' \in Seq(Entries) /\ Len(program) \in Nat /\ NoBackFirst(program)
  BY NextLog, RegionsAre
<1>2. ASSUME NEW ul, NEW m, NEW to, Recorded(oplog', DeletedRegions', program, ul, to, m)
      PROVE  Ends(oplog', DeletedRegions', program, to, m) /\ Whole(program, ul, m)
  BY <1>1, <1>2, WholeTurn
<1> QED
  BY <1>2 DEF LogWhole

LEMMA LogStays ==
  ASSUME LogWhole, program' = program, oplog' = oplog, DeletedRegions' = DeletedRegions
  PROVE  LogWhole'
BY DEF LogWhole

LEMMA SeenIsWhole ==
  ASSUME ReplayInv', LogWhole', mode' = "guest", program' = program
  PROVE  Whole(program, seen', Len(seen'))
<1>0. GuestType' /\ Len(seen') \in Nat
  BY DEF ReplayInv, GuestType
<1>1. CASE last' = target'
  <2>1. Live'
    BY <1>1 DEF ReplayInv, ModeInv
  <2>2. PICK at : Recorded(oplog', DeletedRegions', program, timeline', at, Len(seen'))
    BY <2>1 DEF Live, LiveAt
  <2>3. Whole(program, timeline', Len(seen'))
    BY <2>2 DEF LogWhole
  <2>4. \A k \in 1 .. Len(seen') : seen'[k] = timeline'[k]
    BY <2>1 DEF Live, Agrees
  <2> QED
    BY <1>0, <2>3, <2>4, WholeLess
<1>2. CASE last' # target'
  <2>1. Following'
    BY <1>2 DEF ReplayInv, ModeInv
  <2>2. CASE Lost'
    BY <2>2 DEF Lost, Whole
  <2>3. CASE ~Lost'
    <3>1. PICK n, at : FollowAt(n, at)'
      BY <2>1, <2>3 DEF Following
    <3>2. /\ Recorded(oplog', DeletedRegions', program, timeline', at, n) /\ Len(seen') <= n
          /\ \A k \in 1 .. Len(seen') : seen'[k] = timeline'[k]
      BY <2>1, <3>1 DEF FollowAt, Agrees, Following, Replayed
    <3>3. Whole(program, timeline', n) /\ n \in Nat
      BY <3>2 DEF LogWhole, Recorded, Chain
    <3> QED
      BY <1>0, <3>2, <3>3, WholeLess
  <2> QED
    BY <2>2, <2>3
<1> QED
  BY <1>1, <1>2

LEMMA WholeStep ==
  ASSUME ReplayInv', WholeInv, LogWhole', program' = program,
         mode' = "guest" \/ seen' = seen \/ seen' = <<>>,
         Running' => LiveBoots', mode' = "guest" /\ last' # target' => FollowEnds'
  PROVE  WholeInv'
<1>1. CASE mode' = "guest"
  <2>1. Whole(program, seen', Len(seen'))
    BY <1>1, SeenIsWhole
  <2> QED
    BY <2>1 DEF WholeInv
<1>2. CASE seen' = seen
  BY <1>2 DEF WholeInv
<1>3. CASE seen' = <<>>
  BY <1>3 DEF WholeInv, Whole
<1> QED
  BY <1>1, <1>2, <1>3

(* A live guest goes on.                                                   *)
LEMMA BootsStay ==
  ASSUME LiveBoots, UNCHANGED <<program, boots>>, Len(seen) \in Nat,
         \/ seen' = seen
         \/ /\ Len(seen') = Len(seen) + 1 /\ \A k \in 1 .. Len(seen) : seen'[k] = seen[k]
            /\ IsCall(program[Len(seen) + 1]) => seen'[Len(seen) + 1].boot = boots
  PROVE  LiveBoots'
<1>1. CASE seen' = seen
  BY <1>1 DEF LiveBoots
<1>2. CASE seen' # seen
  <2>0. /\ Len(seen') = Len(seen) + 1 /\ \A k \in 1 .. Len(seen) : seen'[k] = seen[k]
        /\ IsCall(program[Len(seen) + 1]) => seen'[Len(seen) + 1].boot = boots
    BY <1>2
  <2> SUFFICES ASSUME NEW k \in 1 .. Len(seen'), NEW e \in Len(seen') + 1 .. Len(program),
                      Clean(program, k, e), NEW i \in k + 1 .. Len(seen'), IsCall(program[i])
               PROVE  seen'[i].boot = boots
    BY DEF LiveBoots
  <2>1. k \in 1 .. Len(seen) /\ e \in Len(seen) + 1 .. Len(program)
    BY <2>0
  <2>2. CASE i = Len(seen) + 1
    BY <2>0, <2>2
  <2>3. CASE i # Len(seen) + 1
    <3>1. i \in k + 1 .. Len(seen) /\ i \in 1 .. Len(seen)
      BY <2>0, <2>1, <2>3
    <3> QED
      BY <2>0, <2>1, <3>1 DEF LiveBoots
  <2> QED
    BY <2>2, <2>3
<1> QED
  BY <1>1, <1>2

(* A step of a live guest that records nothing.                            *)
LEMMA LiveWhole ==
  ASSUME ReplayInv, ReplayInv', WholeInv, Running, mode' = "guest", last' = target',
         UNCHANGED <<program, boots>>, oplog' = oplog, DeletedRegions' = DeletedRegions,
         \/ seen' = seen
         \/ /\ Len(seen') = Len(seen) + 1 /\ \A k \in 1 .. Len(seen) : seen'[k] = seen[k]
            /\ IsCall(program[Len(seen) + 1]) => seen'[Len(seen) + 1].boot = boots
  PROVE  WholeInv'
<1>1. LogWhole'
  BY LogStays DEF WholeInv
<1>2. LiveBoots'
  BY BootsStay DEF WholeInv, ReplayInv, GuestType
<1> QED
  BY <1>1, <1>2, WholeStep DEF WholeInv

(* An entry is added behind a chain of the oplog.                          *)
LEMMA LogGrows ==
  ASSUME ~MixedBatch,
         LogType, LogWhole, program \in Programs, program' = program, NEW e \in Entries,
         e.kind \notin {"Jump", "Invoked"}, Grows(e), NEW tl, NEW n, NEW at,
         Recorded(oplog, DeletedRegions, program, tl, at, n), NEW ul, NEW m, NEW to,
         Recorded(oplog', DeletedRegions', program, ul, to, m), Whole(program, ul, m),
         e.kind = "EndAtomic" => n < m /\ program[n + 1] = "end",
         e.kind = "EndWrite" => n < m /\ program[n + 1] = "close",
         \A k \in n + 1 .. m : Opens(program[k]) =>
           Clear(oplog', DeletedRegions', to[k], Len(oplog'))
  PROVE  LogWhole'
<1> DEFINE R == DeletedRegions
<1>1. Longer(oplog, e, oplog') /\ LogType' /\ DeletedRegions' = R
  BY GrowsIs
<1>2. /\ oplog \in Seq(Entries) /\ oplog' \in Seq(Entries) /\ Len(oplog) \in Nat
      /\ Len(oplog') = Len(oplog) + 1 /\ oplog'[Len(oplog) + 1] = e
      /\ \A i \in 1 .. Len(oplog) : oplog'[i] = oplog[i]
      /\ Len(program) \in Nat /\ NoBackFirst(program)
  BY <1>1, OplogIs, RegionsAre DEF Longer
<1>3. Same(oplog, R, oplog', R, Len(oplog))
  BY <1>2 DEF Same
<1>4. Ends(oplog, R, program, at, n)
  BY DEF LogWhole
<1>5. m \in Nat /\ n \in Nat /\ to \in [0 .. m -> 2 .. Len(oplog')]
  BY DEF Recorded, Chain
<1>6. ASSUME NEW j \in Len(oplog) + 1 .. Len(oplog') PROVE j = Len(oplog) + 1 /\ oplog'[j] = e
  BY <1>2
<1>7. ASSUME NEW j \in Len(oplog) + 1 .. Len(oplog'), NEW k \in 1 .. n, Opens(program[k]),
             EndsAt(oplog', j, program[k], at[k])
      PROVE  n < m /\ program[n + 1] = Closing(program[k]) /\ to[n + 1] <= j
  <2>1. n < m /\ program[n + 1] = Closing(program[k])
    BY <1>6, <1>7 DEF EndsAt, Opens, Closing
  <2>2. n + 1 \in 0 .. m
    BY <1>5, <2>1
  <2>3. to[n + 1] \in 2 .. Len(oplog')
    BY <1>5, <2>2
  <2> QED
    BY <1>2, <1>6, <2>1, <2>3
<1>8. Ends(oplog', R, program, to, m)
  <2>1. /\ Recorded(oplog, R, program, tl, at, n) /\ Recorded(oplog', R, program, ul, to, m)
        /\ \A j \in Len(oplog) + 1 .. Len(oplog') : oplog'[j].kind # "Invoked"
        /\ \A k \in n + 1 .. m : Opens(program[k]) => Clear(oplog', R, to[k], Len(oplog'))
    BY <1>1, <1>6
  <2> HIDE DEF R
  <2> QED
    BY <1>2, <1>3, <1>4, <1>7, <2>1, WholeGrow
<1> QED
  BY <1>1, <1>8, LogBy

LEMMA LiveIs ==
  ASSUME ~MixedBatch, ReplayInv, WholeInv, Running
  PROVE  /\ LogType /\ GuestType /\ Live /\ LogWhole /\ LiveBoots
         /\ program \in Programs /\ Len(program) \in Nat /\ Len(seen) \in Nat
         /\ pc = Len(seen) + 1
         /\ \E at : LiveAt(at)
                    /\ Recorded(oplog, DeletedRegions, program, timeline, at, Len(seen))
<1>1. LogType /\ GuestType /\ Live /\ LogWhole /\ LiveBoots
  BY DEF ReplayInv, ModeInv, Running, WholeInv
<1>2. program \in Programs /\ Len(program) \in Nat /\ Len(seen) \in Nat /\ pc = Len(seen) + 1
  BY <1>1, RegionsAre DEF GuestType, pc
<1> QED
  BY <1>1, <1>2 DEF Live, LiveAt

LEMMA LiveNext ==
  ASSUME ReplayInv', Running', program' = program
  PROVE  /\ LogType' /\ GuestType' /\ Live'
         /\ \E to : LiveAt(to)'
                    /\ Recorded(oplog', DeletedRegions', program, timeline', to, Len(seen'))
<1>1. LogType' /\ GuestType' /\ Live'
  BY DEF ReplayInv, ModeInv, Running
<1> QED
  BY <1>1 DEF Live, LiveAt

(* One result more, of the same instance.                                  *)
LEMMA WholeMore ==
  ASSUME ~MixedBatch,
         ReplayInv, WholeInv, Running, Live', program' = program, Len(seen') = Len(seen) + 1,
         \A k \in 1 .. Len(seen) : seen'[k] = seen[k],
         IsCall(program[Len(seen) + 1]) => seen'[Len(seen) + 1].boot = boots
  PROVE  Whole(program, timeline', Len(seen'))
<1>0. Len(seen) \in Nat /\ LiveBoots /\ Whole(program, seen, Len(seen)) /\ Len(program) \in Nat
  BY LiveIs DEF WholeInv
<1> SUFFICES ASSUME NEW k \in 1 .. Len(program), NEW e \in 1 .. Len(program),
                    NEW i \in 1 .. Len(seen'), NEW j \in 1 .. Len(seen'), Clean(program, k, e),
                    k < i, i < j, j < e, IsCall(program[i]), IsCall(program[j])
             PROVE  timeline'[i].boot = timeline'[j].boot
  BY DEF Whole
<1>1. timeline'[i] = seen'[i] /\ timeline'[j] = seen'[j] /\ seen'[i] = seen[i]
      /\ i \in 1 .. Len(seen)
  BY <1>0 DEF Live, Agrees
<1>2. CASE j <= Len(seen)
  <2>1. j \in 1 .. Len(seen) /\ seen'[j] = seen[j]
    BY <1>0, <1>2
  <2> QED
    BY <1>0, <1>1, <2>1 DEF Whole
<1>3. CASE j = Len(seen) + 1
  <2>1. k \in 1 .. Len(seen) /\ e \in Len(seen) + 1 .. Len(program) /\ i \in k + 1 .. Len(seen)
    BY <1>0, <1>1, <1>3
  <2>2. seen[i].boot = boots
    BY <1>0, <2>1 DEF LiveBoots
  <2> QED
    BY <1>1, <1>3, <2>2
<1> QED
  BY <1>0, <1>2, <1>3

(* The entry of a call is recorded, and the call returns.                  *)
LEMMA LiveRecords ==
  ASSUME ~MixedBatch, ReplayInv, ReplayInv', WholeInv, Running, Running', step' = "none",
         UNCHANGED <<program, boots>>, NEW e \in Entries, e.kind \notin {"Jump", "Invoked"},
         Grows(e), Len(seen') = Len(seen) + 1, \A k \in 1 .. Len(seen) : seen'[k] = seen[k],
         IsCall(program[Len(seen) + 1]) => seen'[Len(seen) + 1].boot = boots,
         e.kind = "EndAtomic" => program[Len(seen) + 1] = "end",
         e.kind = "EndWrite" => program[Len(seen) + 1] = "close"
  PROVE  WholeInv'
<1>1. /\ LogType /\ LogWhole /\ LiveBoots /\ program \in Programs /\ Len(seen) \in Nat
  BY LiveIs
<1>2. PICK at : Recorded(oplog, DeletedRegions, program, timeline, at, Len(seen))
  BY LiveIs
<1>3. Live'
  BY LiveNext
<1>4. PICK to : /\ LiveAt(to)'
                /\ Recorded(oplog', DeletedRegions', program, timeline', to, Len(seen'))
  BY LiveNext
<1>5. Whole(program, timeline', Len(seen'))
  BY <1>3, WholeMore
<1>6. \A k \in Len(seen) + 1 .. Len(seen') : Opens(program[k]) =>
        Clear(oplog', DeletedRegions', to[k], Len(oplog'))
  <2>1. Clear(oplog', DeletedRegions', to[Len(seen')], Len(oplog'))
    BY <1>4 DEF LiveAt
  <2> QED
    BY <1>1, <2>1
<1>7. LogWhole'
  <2>1. PICK n, m : n = Len(seen) /\ m = Len(seen')
    OBVIOUS
  <2>2. n < m
    BY <1>1, <2>1
  <2> QED
    BY <1>1, <1>2, <1>4, <1>5, <1>6, <2>1, <2>2, LogGrows
<1>8. LiveBoots'
  BY <1>1, BootsStay
<1> QED
  BY <1>7, <1>8, WholeStep DEF Running

(* The first entry of a call is recorded, or a request.                    *)
LEMMA LiveMarks ==
  ASSUME ~MixedBatch,
         ReplayInv, ReplayInv', WholeInv, Running, Running', UNCHANGED <<program, boots, seen>>,
         NEW e \in Entries, e.kind \notin {"Jump", "Invoked", "EndAtomic", "EndWrite"}, Grows(e)
  PROVE  WholeInv'
<1>1. /\ LogType /\ LogWhole /\ LiveBoots /\ program \in Programs /\ Len(seen) \in Nat
  BY LiveIs
<1>2. PICK at : Recorded(oplog, DeletedRegions, program, timeline, at, Len(seen))
  BY LiveIs
<1>3. Live'
  BY LiveNext
<1>4. PICK to : Recorded(oplog', DeletedRegions', program, timeline', to, Len(seen))
  BY LiveNext
<1>5. Whole(program, timeline', Len(seen))
  <2>1. Whole(program, seen, Len(seen)) /\ \A k \in 1 .. Len(seen) : timeline'[k] = seen[k]
    BY <1>3 DEF WholeInv, Live, Agrees
  <2> QED
    BY <1>1, <2>1, WholeLess
<1>6. \A k \in Len(seen) + 1 .. Len(seen) : Opens(program[k]) =>
        Clear(oplog', DeletedRegions', to[k], Len(oplog'))
  BY <1>1
<1>7. LogWhole'
  BY <1>1, <1>2, <1>4, <1>5, <1>6, LogGrows
<1>8. LiveBoots'
  BY <1>1, BootsStay
<1> QED
  BY <1>7, <1>8, WholeStep DEF Running

LEMMA CallLiveWhole ==
  ASSUME ~MixedBatch, ReplayInv, ReplayInv', WholeInv, NEW op \in {"call", "part"}, CallLive(op)
  PROVE  WholeInv'
<1>0. /\ mode = "guest" /\ step = "none" /\ last = target /\ Op = op /\ Running
  BY InGuest DEF CallLive, IsLive, Running
<1>1. step' = "none" /\ UNCHANGED <<program, boots>> /\ Running'
  BY <1>0 DEF CallLive, replayVars, Running
<1>2. boots \in Nat /\ seen \in Seq(Answers) /\ Len(seen) \in Nat
  BY <1>0, LiveIs DEF GuestType
<1>3. PICK again \in {0, 1} :
        /\ LET e == [kind |-> op, value |-> again, boot |-> boots]
           IN  IF op = "part" THEN AddAndCommit(<<e>>) ELSE AddEntry(e)
        /\ seen' = Append(seen, Answer(again, boots))
  BY DEF CallLive, Returns
<1>4. PICK e \in Entries : e = [kind |-> op, value |-> again, boot |-> boots] /\ e.kind = op
  <2>1. [kind |-> op, value |-> again, boot |-> boots] \in Entries
    BY <1>2, EntryTyped
  <2> QED
    BY <2>1
<1>5. Grows(e)
  BY <1>3, <1>4 DEF Grows, Buffered
<1>6. /\ Len(seen') = Len(seen) + 1 /\ \A k \in 1 .. Len(seen) : seen'[k] = seen[k]
      /\ seen'[Len(seen) + 1].boot = boots
  BY <1>2, <1>3, AnswerTyped DEF Answer
<1> QED
  BY <1>0, <1>1, <1>4, <1>5, <1>6, LiveRecords

LEMMA EndLiveWhole ==
  ASSUME ~MixedBatch, ReplayInv, ReplayInv', WholeInv, NEW op \in {"end", "close"}, EndLive(op)
  PROVE  WholeInv'
<1>0. /\ mode = "guest" /\ step = "none" /\ last = target /\ Op = op /\ Running
      /\ pc <= Len(program)
  BY InGuest DEF EndLive, IsLive, Running
<1>1. step' = "none" /\ UNCHANGED <<program, boots>> /\ Running'
  BY <1>0 DEF EndLive, replayVars, Running
<1>2. /\ seen \in Seq(Answers) /\ Len(seen) \in Nat /\ program[Len(seen) + 1] = op /\ GuestType
  BY <1>0, LiveIs DEF GuestType, Op
<1>3. PICK b \in Nat : b = seen[LastOf(IF op = "end" THEN "begin" ELSE "open")].value
  <2>1. <<Op, IF op = "end" THEN "begin" ELSE "open">> \in Needs
    BY <1>0 DEF Needs
  <2>2. LastOf(IF op = "end" THEN "begin" ELSE "open") \in 1 .. Len(seen)
    BY <1>0, <1>2, <2>1, LastOfIs
  <2>3. PICK i \in 1 .. Len(seen) : i = LastOf(IF op = "end" THEN "begin" ELSE "open")
    BY <2>2
  <2>4. seen[i] \in Answers
    BY <1>2
  <2>5. seen[i].value \in Nat
    BY <2>4 DEF Answers
  <2> QED
    BY <2>3, <2>5
<1>4. PICK e \in Entries :
        /\ e = [kind |-> IF op = "end" THEN "EndAtomic" ELSE "EndWrite", begin |-> b]
        /\ e.kind = IF op = "end" THEN "EndAtomic" ELSE "EndWrite"
  <2>1. [kind |-> IF op = "end" THEN "EndAtomic" ELSE "EndWrite", begin |-> b] \in Entries
    BY EntryTyped
  <2> QED
    BY <2>1
<1>5. Grows(e)
  BY <1>3, <1>4 DEF EndLive, Grows, Buffered
<1>6. seen' = Append(seen, Nothing)
  BY DEF EndLive, Returns
<1>7. Len(seen') = Len(seen) + 1 /\ \A k \in 1 .. Len(seen) : seen'[k] = seen[k]
  BY <1>2, <1>6
<1>8. /\ e.kind = "EndAtomic" => program[Len(seen) + 1] = "end"
      /\ e.kind = "EndWrite" => program[Len(seen) + 1] = "close"
      /\ e.kind \notin {"Jump", "Invoked"} /\ ~IsCall(program[Len(seen) + 1])
  BY <1>2, <1>4 DEF IsCall
<1> QED
  BY <1>0, <1>1, <1>5, <1>7, <1>8, LiveRecords

LEMMA AddMarkerWhole ==
  ASSUME ~MixedBatch,
         ReplayInv, ReplayInv', WholeInv, NEW op \in {"save", "begin", "open"}, AddMarker(op)
  PROVE  WholeInv'
<1>0. /\ mode = "guest" /\ last = target /\ Running
  BY InGuest DEF AddMarker, IsLive, Running
<1>1. UNCHANGED <<program, boots, seen>> /\ Running'
  BY <1>0 DEF AddMarker, replayVars, Running
<1>2. PICK e \in Entries : e = [kind |-> EntryOf[op]] /\ e.kind = EntryOf[op]
                           /\ e.kind \in {"NoOp", "BeginAtomic", "BeginWrite"}
  <2>1. EntryOf[op] \in {"NoOp", "BeginAtomic", "BeginWrite"}
    BY KindsAre
  <2>2. [kind |-> EntryOf[op]] \in Entries
    BY <2>1, EntryTyped
  <2> QED
    BY <2>1, <2>2
<1>3. Grows(e)
  BY <1>2, KindsAre DEF AddMarker, Grows, Buffered
<1> QED
  BY <1>0, <1>1, <1>2, <1>3, LiveMarks

LEMMA BeginOnceWhole ==
  ASSUME ~MixedBatch, ReplayInv, ReplayInv', WholeInv, BeginOnce
  PROVE  WholeInv'
<1>0. /\ mode = "guest" /\ last = target /\ Running
  BY InGuest DEF BeginOnce, IsLive, Running
<1>1. UNCHANGED <<program, boots, seen>> /\ Running'
  BY <1>0 DEF BeginOnce, replayVars, Running
<1>2. PICK e \in Entries : e = [kind |-> "BeginWrite"] /\ e.kind = "BeginWrite"
  <2>1. [kind |-> "BeginWrite"] \in Entries
    BY EntryTyped
  <2> QED
    BY <2>1
<1>3. Grows(e)
  BY <1>2 DEF BeginOnce, Grows
<1> QED
  BY <1>0, <1>1, <1>2, <1>3, LiveMarks

LEMMA RecordOnceWhole ==
  ASSUME ~MixedBatch, ReplayInv, ReplayInv', BegunBefore, WholeInv, RecordOnce
  PROVE  WholeInv'
<1>0. /\ mode = "guest" /\ step = "record" /\ last = target /\ Op = "once" /\ Running
  BY InGuest, InsideIsLive DEF RecordOnce, Running
<1>1. step' = "none" /\ UNCHANGED <<program, boots>> /\ Running'
  BY <1>0 DEF RecordOnce, replayVars, Running
<1>2. /\ LogType /\ GuestType /\ LogWhole /\ LiveBoots /\ program \in Programs
      /\ Len(program) \in Nat /\ oplog \in Seq(Entries) /\ Len(oplog) \in Nat
      /\ boots \in Nat /\ source \in Nat /\ seen \in Seq(Answers) /\ Len(seen) \in Nat
      /\ NoBackFirst(program) /\ program[Len(seen) + 1] = "once"
  BY <1>0, LiveIs, OplogIs, RegionsAre DEF GuestType, Op
<1>3. PICK n \in Nat : n = Len(seen)
  BY <1>2
<1>4. seen' = Append(seen, Answer(0, boots))
  BY DEF RecordOnce, Returns
<1>5. /\ Len(seen') = n + 1 /\ \A k \in 1 .. Len(seen) : seen'[k] = seen[k]
      /\ seen'[Len(seen) + 1].boot = boots
  BY <1>2, <1>3, <1>4, AnswerTyped DEF Answer
<1>6. PICK at : LiveAt(at) /\ Recorded(oplog, DeletedRegions, program, timeline, at, n)
  BY <1>0, <1>3, LiveIs
<1>7. PICK to : Recorded(oplog', DeletedRegions', program, timeline', to, n + 1)
  BY <1>1, <1>5, LiveNext
<1>8. PICK e \in Entries, f \in Entries :
        /\ e = [kind |-> "Write", value |-> 0, boot |-> boots] /\ e.kind = "Write"
        /\ f = [kind |-> "EndWrite", begin |-> source] /\ f.kind = "EndWrite"
        /\ f.begin = source
  <2>1. /\ [kind |-> "Write", value |-> 0, boot |-> boots] \in Entries
        /\ [kind |-> "EndWrite", begin |-> source] \in Entries
    BY <1>2, EntryTyped
  <2> QED
    BY <2>1
<1>9. PICK mid : /\ LogType' /\ DeletedRegions' = DeletedRegions
                 /\ Longer(oplog, e, mid) /\ Longer(mid, f, oplog')
  <2>1. AddAndCommit(<<e, f>>) /\ e.kind # "Jump" /\ f.kind # "Jump"
    BY <1>8 DEF RecordOnce
  <2> QED
    BY <1>2, <2>1, TwoAre
<1>10. /\ oplog' \in Seq(Entries) /\ Len(oplog') = Len(oplog) + 2
       /\ oplog'[Len(oplog) + 1] = e /\ oplog'[Len(oplog) + 2] = f
       /\ \A i \in 1 .. Len(oplog) : oplog'[i] = oplog[i]
  <2>1. /\ mid \in Seq(Entries) /\ Len(mid) = Len(oplog) + 1 /\ mid[Len(oplog) + 1] = e
        /\ \A i \in 1 .. Len(oplog) : mid[i] = oplog[i]
    BY <1>9 DEF Longer
  <2>2. /\ oplog' \in Seq(Entries) /\ Len(oplog') = Len(mid) + 1 /\ oplog'[Len(mid) + 1] = f
        /\ \A i \in 1 .. Len(mid) : oplog'[i] = mid[i]
    BY <1>9 DEF Longer
  <2>3. Len(mid) + 1 = Len(oplog) + 2 /\ Len(oplog) + 1 \in 1 .. Len(mid)
        /\ \A i \in 1 .. Len(oplog) : i \in 1 .. Len(mid)
    BY <1>2, <2>1
  <2>4. oplog'[Len(oplog) + 1] = e /\ \A i \in 1 .. Len(oplog) : oplog'[i] = oplog[i]
    BY <2>1, <2>2, <2>3
  <2> QED
    BY <2>2, <2>3, <2>4
<1>11. Same(oplog, DeletedRegions, oplog', DeletedRegions, Len(oplog))
  BY <1>2, <1>10 DEF Same
<1>12. \A j \in Len(oplog) + 1 .. Len(oplog') : oplog'[j] = e \/ oplog'[j] = f
  <2>1. \A j \in Len(oplog) + 1 .. Len(oplog') : j = Len(oplog) + 1 \/ j = Len(oplog) + 2
    BY <1>2, <1>10
  <2> QED
    BY <1>10, <2>1
<1>13. ASSUME NEW k \in 1 .. n PROVE at[k] # source
  <2>1. PICK x \in Nat : NextVis(oplog, DeletedRegions, at[n], x)
    BY <1>0, <1>3, <1>6 DEF LiveAt
  <2>2. at[n] < source
    <3>1. at[n] < x /\ Vis(oplog, DeletedRegions, x) /\ at[n] \in Nat
      BY <1>3, <1>6, <2>1 DEF NextVis, Recorded, Chain
    <3>2. x <= source
      <4>1. OnlyHints(oplog, source)
        BY <1>0 DEF BegunBefore
      <4> QED
        BY <1>2, <3>1, <4>1 DEF OnlyHints, Vis
    <3> QED
      BY <1>2, <3>1, <3>2
  <2>3. at \in [0 .. n -> 2 .. Len(oplog)] /\ \A i, j \in 0 .. n : i <= j => at[i] <= at[j]
    BY <1>6 DEF Recorded, Chain
  <2>4. at[k] <= at[n] /\ at[k] \in Nat /\ at[n] \in Nat
    BY <2>3
  <2> QED
    BY <1>2, <2>2, <2>4
<1>14. ASSUME NEW j \in Len(oplog) + 1 .. Len(oplog'), NEW k \in 1 .. n, Opens(program[k]),
              EndsAt(oplog', j, program[k], at[k])
       PROVE  FALSE
  BY <1>8, <1>12, <1>13, <1>14 DEF EndsAt
<1>15. Ends(oplog', DeletedRegions, program, to, n + 1)
  <2>1. PICK m : m = n + 1
    OBVIOUS
  <2>2. /\ Recorded(oplog', DeletedRegions, program, timeline', to, m)
        /\ \A j \in Len(oplog) + 1 .. Len(oplog') : oplog'[j].kind # "Invoked"
        /\ \A k \in n + 1 .. m : Opens(program[k]) =>
             Clear(oplog', DeletedRegions, to[k], Len(oplog'))
        /\ \A j \in Len(oplog) + 1 .. Len(oplog'), k \in 1 .. n :
             Opens(program[k]) /\ EndsAt(oplog', j, program[k], at[k]) =>
               n < m /\ program[n + 1] = Closing(program[k]) /\ to[n + 1] <= j
    BY <1>2, <1>3, <1>7, <1>8, <1>9, <1>12, <1>14, <2>1 DEF Opens
  <2>3. Ends(oplog, DeletedRegions, program, at, n)
    BY <1>2, <1>6 DEF LogWhole
  <2>4. Ends(oplog', DeletedRegions, program, to, m)
    BY <1>2, <1>6, <1>10, <1>11, <2>2, <2>3, WholeGrow
  <2> QED
    BY <2>1, <2>4
<1>16. Whole(program, timeline', n + 1)
  <2>1. Live'
    BY <1>1, LiveNext
  <2> QED
    BY <1>0, <1>1, <1>3, <1>5, <2>1, WholeMore
<1>17. LogWhole'
  BY <1>1, <1>2, <1>7, <1>9, <1>15, <1>16, LogBy
<1>18. LiveBoots'
  BY <1>1, <1>2, <1>3, <1>5, BootsStay
<1> QED
  BY <1>1, <1>17, <1>18, WholeStep DEF Running

LEMMA ReadIndexWhole ==
  ASSUME ~MixedBatch,
         ReplayInv, ReplayInv', WholeInv, NEW op \in {"save", "begin", "open"}, ReadIndex(op)
  PROVE  WholeInv'
<1>0. mode = "guest" /\ last = target /\ Op = op /\ Running
  BY InGuest, InsideIsLive DEF ReadIndex, Running
<1>1. /\ UNCHANGED <<program, boots, oplogVars>> /\ mode' = "guest" /\ last' = target'
      /\ seen' = Append(seen, Answer(Len(oplog), 0))
  BY <1>0 DEF ReadIndex, replayVars, Returns
<1>2. seen \in Seq(Answers) /\ Len(seen) \in Nat /\ ~IsCall(program[Len(seen) + 1])
  BY <1>0, LiveIs DEF GuestType, Op, IsCall
<1>3. Len(seen') = Len(seen) + 1 /\ \A k \in 1 .. Len(seen) : seen'[k] = seen[k]
  BY <1>1, <1>2
<1>4. oplog' = oplog /\ DeletedRegions' = DeletedRegions
  BY <1>1, SameOplog
<1> QED
  BY <1>0, <1>1, <1>2, <1>3, <1>4, LiveWhole

LEMMA PerformOnceWhole ==
  ASSUME ReplayInv, ReplayInv', WholeInv, PerformOnce
  PROVE  WholeInv'
<1>0. mode = "guest" /\ last = target /\ Running
  BY InGuest, InsideIsLive DEF PerformOnce, Running
<1>1. /\ UNCHANGED <<program, boots, oplogVars, seen>> /\ mode' = "guest" /\ last' = target'
  BY <1>0 DEF PerformOnce, replayVars
<1> QED
  BY <1>0, <1>1, SameOplog, LiveWhole

LEMMA StartJumpWhole ==
  ASSUME ReplayInv, ReplayInv', WholeInv, StartJump
  PROVE  WholeInv'
<1>0. mode = "guest" /\ last = target /\ Running
  BY InGuest DEF StartJump, IsLive, Running
<1>1. /\ UNCHANGED <<program, boots, oplogVars, seen>> /\ mode' = "guest" /\ last' = target'
  BY <1>0 DEF StartJump, replayVars
<1> QED
  BY <1>0, <1>1, SameOplog, LiveWhole

LEMMA CommitWhole ==
  ASSUME ReplayInv, ReplayInv', WholeInv, Commit
  PROVE  WholeInv'
<1>0. /\ mode = "guest" /\ buffer # <<>> /\ AddAndCommit(<<>>)
      /\ UNCHANGED <<program, last, target, mode, seen, boots>>
  BY DEF Commit, replayVars, guestVars
<1>1. Running /\ LogType
  BY <1>0 DEF ReplayInv, ModeInv, Following, Replayed, Stopped, Running
<1>2. oplog' = oplog /\ DeletedRegions' = DeletedRegions
  BY <1>0, <1>1, CommitIs
<1> QED
  BY <1>0, <1>1, <1>2, LiveWhole DEF Running

(* The worker is not running, and its oplog is the same.                   *)
LEMMA RestWhole ==
  ASSUME ReplayInv', WholeInv, mode' # "guest", UNCHANGED <<program, oplogVars>>,
         seen' = seen \/ seen' = <<>>
  PROVE  WholeInv'
<1>1. LogWhole'
  BY SameOplog, LogStays DEF WholeInv
<1> QED
  BY <1>1, WholeStep DEF Running

LEMMA CreateInstanceWhole ==
  ASSUME ReplayInv, ReplayInv', WholeInv, CreateInstance
  PROVE  WholeInv'
BY RestWhole DEF CreateInstance

LEMMA FailsWhole ==
  ASSUME ReplayInv', WholeInv, NEW outcome \in {"stuck", "refused"}, Fails(outcome),
         program' = program
  PROVE  WholeInv'
BY RestWhole DEF Fails

(* A guest is live from the beginning.                                     *)
LEMMA InvokesWhole ==
  ASSUME ~MixedBatch, ReplayInv, ReplayInv', WholeInv, Running', seen' = <<>>, program' = program
  PROVE  WholeInv'
<1>1. LogType' /\ program \in Programs /\ Len(seen') = 0
  BY DEF ReplayInv, GuestType
<1>2. PICK to : Recorded(oplog', DeletedRegions', program, timeline', to, 0)
  BY <1>1, LiveNext
<1>3. Ends(oplog', DeletedRegions', program, to, 0) /\ Whole(program, timeline', 0)
  BY DEF Ends, Whole
<1>4. LogWhole'
  BY <1>1, <1>2, <1>3, LogBy
<1>5. LiveBoots'
  BY <1>1 DEF LiveBoots
<1> QED
  BY <1>4, <1>5, WholeStep DEF Running

LEMMA InvokeWhole ==
  ASSUME ~MixedBatch, ReplayInv, ReplayInv', WholeInv, Invoke
  PROVE  WholeInv'
<1>1. seen' = <<>> /\ program' = program
  BY DEF Invoke, ReplayInv, ModeInv, Loading
<1>2. Running'
  BY DEF Invoke, IsLive, replayVars, Running
<1> QED
  BY <1>1, <1>2, InvokesWhole

LEMMA ResumeReplayWhole ==
  ASSUME ~MixedBatch, ReplayInv, ReplayInv', WholeInv, ResumeReplay
  PROVE  WholeInv'
<1>1. seen' = <<>> /\ Len(seen') = 0 /\ program' = program
  BY DEF ResumeReplay, ReplayInv, ModeInv, Loading
<1>2. CASE Running'
  BY <1>1, <1>2, InvokesWhole
<1>3. CASE ~Running'
  <2>1. UNCHANGED oplogVars
    BY <1>3 DEF ResumeReplay, Running
  <2>2. LogWhole'
    BY <1>1, <2>1, SameOplog, LogStays DEF WholeInv
  <2>3. FollowEnds'
    BY <1>1 DEF FollowEnds
  <2> QED
    BY <1>1, <1>3, <2>2, <2>3, WholeStep
<1> QED
  BY <1>2, <1>3

(* A guest that is replayed goes on, or turns live.                        *)
LEMMA FollowWhole ==
  ASSUME ~MixedBatch,
         ReplayInv, ReplayInv', WholeInv, mode = "guest", last # target, mode' = "guest",
         UNCHANGED <<program, oplogVars, regions, target>>, Len(seen') = Len(seen) + 1,
         \A k \in 1 .. Len(seen) : seen'[k] = seen[k],
         \/ ~Opens(program[Len(seen) + 1])
         \/ /\ last' # target'
            /\ \E j \in Nat : EndedAt(oplog, regions, program[Len(seen) + 1],
                                      seen'[Len(seen) + 1].value, j)
  PROVE  WholeInv'
<1>0. /\ LogType /\ GuestType /\ Following /\ FollowEnds /\ LogWhole /\ Len(seen) \in Nat
      /\ Len(program) \in Nat /\ regions = DeletedRegions
  BY RegionsAre DEF ReplayInv, ModeInv, WholeInv, GuestType, Following, Replayed
<1>1. oplog' = oplog /\ DeletedRegions' = DeletedRegions
  BY SameOplog
<1>2. LogWhole'
  BY <1>0, <1>1, LogStays
<1>3. ASSUME NEW k \in 1 .. Len(seen'), NEW e \in Len(seen') + 1 .. Len(program),
             Clean(program, k, e)
      PROVE  /\ \E j \in Nat : EndedAt(oplog, regions, program[k], seen'[k].value, j)
             /\ last' = target' => k \in 1 .. Len(seen)
             /\ Opens(program[k])
  <2>0. Opens(program[k])
    BY <1>3 DEF Clean, Closes
  <2>1. CASE k = Len(seen) + 1
    BY <2>0, <2>1
  <2>2. CASE k # Len(seen) + 1
    <3>1. k \in 1 .. Len(seen) /\ e \in Len(seen) + 1 .. Len(program)
      BY <1>0, <2>2
    <3>2. seen'[k] = seen[k]
      BY <3>1
    <3> QED
      BY <1>0, <1>3, <2>0, <3>1, <3>2 DEF FollowEnds
  <2> QED
    BY <2>1, <2>2
<1>4. mode' = "guest" /\ last' # target' => FollowEnds'
  BY <1>1, <1>3 DEF FollowEnds
<1>5. ASSUME Running' PROVE LiveBoots'
  <2>1. PICK to : Recorded(oplog', DeletedRegions', program, timeline', to, Len(seen'))
    BY <1>5, LiveNext
  <2>2. Live'
    BY <1>5, LiveNext
  <2>3. ASSUME NEW k \in 1 .. Len(seen'), NEW e \in Len(seen') + 1 .. Len(program),
               Clean(program, k, e)
        PROVE  FALSE
    <3>1. PICK j \in Nat : EndedAt(oplog, regions, program[k], seen'[k].value, j)
      BY <1>3, <2>3
    <3>2. Opens(program[k])
      BY <1>3, <2>3
    <3>3. timeline'[k] = Answer(to[k], 0) /\ seen'[k] = timeline'[k]
      BY <2>1, <2>2, <3>2, OpenedIndex DEF Recorded, Live, Agrees
    <3>4. EndedAt(oplog', DeletedRegions', program[k], to[k], j)
      BY <1>0, <1>1, <3>1, <3>3 DEF Answer
    <3>5. Ends(oplog', DeletedRegions', program, to, Len(seen'))
      BY <1>2, <2>1 DEF LogWhole
    <3>6. e \in 1 .. Len(program)
      BY <1>0
    <3>7. e <= Len(seen')
      BY <2>3, <3>4, <3>5, <3>6 DEF Ends
    <3> QED
      BY <1>0, <3>7
  <2> QED
    BY <2>3 DEF LiveBoots
<1> QED
  BY <1>2, <1>4, <1>5, WholeStep

LEMMA ReplayCallWhole ==
  ASSUME ~MixedBatch,
         ReplayInv, ReplayInv', WholeInv, NEW op \in {"call", "part", "save", "end", "close"},
         ReplayCall(op)
  PROVE  WholeInv'
<1>0. /\ mode = "guest" /\ last # target /\ program' = program /\ seen \in Seq(Answers)
      /\ Len(seen) \in Nat /\ Op = op /\ ~Opens(program[Len(seen) + 1])
  BY DEF ReplayCall, InCall, IsLive, ReplayInv, GuestType, Opens, Op, pc
<1>1. CASE Found(KindRead[op])
  <2>1. PICK answer : /\ UNCHANGED <<oplogVars, regions, target, mode>>
                      /\ seen' = Append(seen, answer)
    BY <1>1 DEF ReplayCall, Returns
  <2>2. Len(seen') = Len(seen) + 1 /\ \A k \in 1 .. Len(seen) : seen'[k] = seen[k]
    BY <1>0, <2>1
  <2> QED
    BY <1>0, <2>1, <2>2, FollowWhole
<1>2. CASE ~Found(KindRead[op])
  BY <1>0, <1>2, FailsWhole DEF ReplayCall
<1> QED
  BY <1>1, <1>2

LEMMA ReplayOnceWhole ==
  ASSUME ~MixedBatch, ReplayInv, ReplayInv', WholeInv, ReplayOnce
  PROVE  WholeInv'
<1>0. /\ mode = "guest" /\ last # target /\ program' = program /\ seen \in Seq(Answers)
      /\ Len(seen) \in Nat /\ ~Opens(program[Len(seen) + 1])
  BY DEF ReplayOnce, InCall, IsLive, ReplayInv, GuestType, Opens, Op, pc
<1>1. CASE Fails("stuck") \/ Fails("refused")
  BY <1>0, <1>1, FailsWhole
<1>2. CASE \E answer : /\ UNCHANGED <<oplogVars, regions, target, mode>>
                       /\ seen' = Append(seen, answer)
  <2>1. PICK answer : /\ UNCHANGED <<oplogVars, regions, target, mode>>
                      /\ seen' = Append(seen, answer)
    BY <1>2
  <2>2. Len(seen') = Len(seen) + 1 /\ \A k \in 1 .. Len(seen) : seen'[k] = seen[k]
    BY <1>0, <2>1
  <2> QED
    BY <1>0, <2>1, <2>2, FollowWhole
<1> QED
  BY <1>1, <1>2 DEF ReplayOnce, Returns

LEMMA NoJumpWhole ==
  ASSUME ~MixedBatch, ReplayInv, ReplayInv', WholeInv, NoJump
  PROVE  WholeInv'
<1>0. /\ mode = "guest" /\ seen \in Seq(Answers) /\ Len(seen) \in Nat
      /\ program[Len(seen) + 1] = "back" /\ seen' = Append(seen, Nothing)
      /\ UNCHANGED <<program, oplogVars, last, target, regions, mode, boots>>
  BY DEF NoJump, InCall, ReplayInv, GuestType, Op, pc, replayVars, Returns
<1>1. /\ Len(seen') = Len(seen) + 1 /\ \A k \in 1 .. Len(seen) : seen'[k] = seen[k]
      /\ ~Opens(program[Len(seen) + 1]) /\ ~IsCall(program[Len(seen) + 1])
  BY <1>0 DEF Opens, IsCall
<1>2. CASE last # target
  BY <1>0, <1>1, <1>2, FollowWhole
<1>3. CASE last = target
  BY <1>0, <1>1, <1>3, SameOplog, LiveWhole DEF Running
<1> QED
  BY <1>2, <1>3

LEMMA RequestWhole ==
  ASSUME ~MixedBatch, ReplayInv, ReplayInv', WholeInv, Request
  PROVE  WholeInv'
<1>0. /\ LogType /\ GuestType /\ LogWhole /\ AddAndCommit(<<[kind |-> "Pending"]>>)
      /\ mode \notin Ended
      /\ UNCHANGED <<program, last, target, regions, mode, boots, seen, timeline>>
  BY DEF ReplayInv, Request, replayVars, guestVars, IsLive, WholeInv
<1>1. PICK e \in Entries : e.kind = "Pending" /\ Grows(e)
  <2>1. [kind |-> "Pending"] \in Entries
    BY EntryTyped
  <2> QED
    BY <1>0, <2>1 DEF Grows
<1>2. Longer(oplog, e, oplog') /\ LogType' /\ DeletedRegions' = DeletedRegions
  BY <1>0, <1>1, GrowsIs
<1>3. /\ oplog \in Seq(Entries) /\ Len(oplog) \in Nat /\ DeletedRegions \subseteq 2 .. Len(oplog)
      /\ Len(program) \in Nat /\ program \in Programs
  BY <1>0, OplogIs, RegionsAre DEF GuestType
<1>4. CASE Running
  BY <1>0, <1>1, <1>4, LiveMarks DEF Running
<1>5. CASE ~Running
  <2>0. mode' = "guest" /\ last' # target' => FollowEnds'
    <3> SUFFICES ASSUME mode = "guest", last # target PROVE FollowEnds'
      BY <1>0
    <3>1. FollowEnds /\ regions = DeletedRegions
      BY DEF WholeInv, ReplayInv, ModeInv, Following, Replayed
    <3>2. ASSUME NEW op, NEW a, NEW j \in Nat, EndedAt(oplog, regions, op, a, j)
          PROVE  EndedAt(oplog', regions, op, a, j)
      <4>1. Len(oplog') = Len(oplog) + 1 /\ \A i \in 1 .. Len(oplog) : oplog'[i] = oplog[i]
        BY <1>2 DEF Longer
      <4>2. PICK x \in Nat : a < x /\ x <= j /\ Vis(oplog, regions, x)
        BY <3>2 DEF EndedAt
      <4>3. j <= Len(oplog) /\ EndsAt(oplog, j, op, a)
        BY <3>2 DEF EndedAt
      <4>4. x \in 2 .. Len(oplog) /\ x \in 1 .. Len(oplog) /\ j \in 1 .. Len(oplog)
        BY <1>3, <4>2, <4>3 DEF Vis
      <4>5. Vis(oplog', regions, x)
        BY <1>3, <4>1, <4>2, <4>4 DEF Vis
      <4>6. EndsAt(oplog', j, op, a) /\ j <= Len(oplog')
        BY <1>3, <4>1, <4>3, <4>4 DEF EndsAt
      <4> QED
        BY <4>2, <4>5, <4>6 DEF EndedAt
    <3> QED
      BY <1>0, <3>1, <3>2 DEF FollowEnds
  <2>1. CASE Fresh(oplog, DeletedRegions)
    <3>1. Len(oplog') = Len(oplog) + 1 /\ oplog'[Len(oplog) + 1] = e
          /\ \A i \in 1 .. Len(oplog) : oplog'[i] = oplog[i]
      BY <1>2 DEF Longer
    <3>2. \A i \in 2 .. Len(oplog') :
            i = Len(oplog) + 1 \/ (i \in 2 .. Len(oplog) /\ i \in 1 .. Len(oplog))
      BY <1>3, <3>1
    <3>3. Fresh(oplog', DeletedRegions')
      BY <1>1, <1>2, <2>1, <3>1, <3>2 DEF Fresh
    <3>4. LogWhole'
      BY <3>3, RecordedNotFresh DEF LogWhole
    <3> QED
      BY <1>0, <1>5, <2>0, <3>4, WholeStep DEF Running
  <2>2. CASE \E n, at : Recorded(oplog, DeletedRegions, program, timeline, at, n)
    <3>1. PICK n, at : Recorded(oplog, DeletedRegions, program, timeline, at, n)
      BY <2>2
    <3>2. Recorded(oplog', DeletedRegions', program, timeline, at, n)
      BY <1>1, <1>2, <1>3, <3>1, RecordedHint
    <3>3. Whole(program, timeline, n) /\ n \in Nat
      BY <1>0, <3>1 DEF LogWhole, Recorded, Chain
    <3>4. LogWhole'
      <4>1. \A k \in n + 1 .. n : Opens(program[k]) =>
              Clear(oplog', DeletedRegions', at[k], Len(oplog'))
        BY <3>3
      <4> QED
        BY <1>0, <1>1, <1>3, <3>1, <3>2, <3>3, <4>1, LogGrows
    <3> QED
      BY <1>0, <1>5, <2>0, <3>4, WholeStep DEF Running
  <2> QED
    <3>1. Stopped
      BY <1>0, <1>5 DEF ReplayInv, ModeInv, Running, Ended, Loading, Following, Replayed
    <3> QED
      BY <2>1, <2>2, <3>1 DEF Stopped, LogOK
<1> QED
  BY <1>4, <1>5

LEMMA CompleteWhole ==
  ASSUME ~MixedBatch, ReplayInv, ReplayInv', WholeInv, Complete
  PROVE  WholeInv'
<1>0. mode = "guest" /\ pc > Len(program) /\ mode' # "guest" /\ UNCHANGED <<program, seen>>
  BY DEF Complete
<1>1. CASE last # target
  BY <1>0, <1>1, RestWhole DEF Complete, IsLive
<1>2. CASE last = target
  <2>0. Running /\ AddAndCommit(<<[kind |-> "Completed"]>>) /\ mode' = "done"
        /\ timeline' = timeline
    BY <1>0, <1>2 DEF Running, Complete, IsLive
  <2>1. /\ LogType /\ LogWhole /\ program \in Programs /\ Len(program) \in Nat
        /\ Len(seen) \in Nat
    BY <2>0, LiveIs
  <2>2. PICK n, at : n = Len(seen) /\ Recorded(oplog, DeletedRegions, program, timeline, at, n)
    BY <2>0, LiveIs
  <2>3. n = Len(program) /\ n \in Nat
    <3>1. n <= Len(program)
      BY <2>2 DEF Recorded, Chain
    <3> QED
      BY <1>0, <2>0, <2>1, <2>2, <3>1, LiveIs
  <2>4. PICK e \in Entries : e.kind = "Completed" /\ Grows(e)
    <3>1. [kind |-> "Completed"] \in Entries
      BY EntryTyped
    <3> QED
      BY <2>0, <3>1 DEF Grows
  <2>5. LogOK(oplog', DeletedRegions', program, timeline)
    BY <1>0, <2>0 DEF ReplayInv, ModeInv, Stopped
  <2>6. CASE Fresh(oplog', DeletedRegions')
    <3>1. LogWhole'
      BY <2>6, RecordedNotFresh DEF LogWhole
    <3> QED
      BY <1>0, <3>1, WholeStep DEF Running
  <2>7. CASE \E m, to : Recorded(oplog', DeletedRegions', program, timeline, to, m)
    <3>1. PICK m, to : Recorded(oplog', DeletedRegions', program, timeline, to, m)
      BY <2>7
    <3>2. m \in Nat /\ m <= n
      BY <2>3, <3>1 DEF Recorded, Chain
    <3>3. Whole(program, timeline, m)
      <4>1. Whole(program, timeline, n)
        BY <2>1, <2>2 DEF LogWhole
      <4> QED
        BY <2>3, <3>2, <4>1, WholeLess
    <3>4. \A k \in n + 1 .. m : Opens(program[k]) =>
            Clear(oplog', DeletedRegions', to[k], Len(oplog'))
      BY <2>3, <3>2
    <3>5. LogWhole'
      BY <1>0, <2>1, <2>2, <2>4, <3>1, <3>3, <3>4, LogGrows
    <3> QED
      BY <1>0, <3>5, WholeStep DEF Running
  <2> QED
    BY <2>5, <2>6, <2>7 DEF LogOK
<1> QED
  BY <1>1, <1>2

(* What the guest jumps back over may not be taken up in its middle.       *)
LEMMA JumpWhole ==
  ASSUME ~MixedBatch, ReplayInv, ReplayInv', WholeInv, Jump, ~misread'
  PROVE  WholeInv'
<1>0. /\ Running /\ pc <= Len(program) /\ program[pc] = "back"
      /\ mode' = "down" /\ UNCHANGED <<program, seen>>
  BY InGuest, InsideIsLive DEF Jump, Running, Op
<1>1. /\ LogType /\ LogWhole /\ program \in Programs /\ Len(program) \in Nat
      /\ oplog \in Seq(Entries)
  BY <1>0, LiveIs, OplogIs
<1>2. PICK n \in Nat : n = Len(seen) /\ pc = n + 1
  BY <1>0, LiveIs
<1>3. PICK at : LiveAt(at) /\ Recorded(oplog, DeletedRegions, program, timeline, at, n)
  BY <1>0, <1>2, LiveIs
<1>4. PICK k \in 1 .. n, e \in Entries :
        /\ program[k] = "save" /\ e.kind = "Jump" /\ LogType' /\ Longer(oplog, e, oplog')
        /\ CutAfter(DeletedRegions, at[k], Len(oplog) + 1, DeletedRegions')
        /\ Recorded(oplog', DeletedRegions', program, timeline, [j \in 0 .. k |-> at[j]], k)
  BY <1>2, <1>3, JumpCuts
<1>5. ASSUME NEW o \in 1 .. k - 1, NEW c \in k + 1 .. n PROVE ~Clean(program, o, c)
  <2>1. k \in o + 1 .. c - 1 /\ n + 1 \in c + 1 .. Len(program)
    BY <1>0, <1>1, <1>2
  <2> QED
    BY <1>0, <1>2, <1>4, <2>1 DEF Clean, Resumes
<1> DEFINE to == [j \in 0 .. k |-> at[j]]
<1>6. /\ Recorded(oplog', DeletedRegions', program, timeline, to, k)
      /\ \A j \in 0 .. k : to[j] = at[j]
  BY <1>4
<1> HIDE DEF to
<1>7. Ends(oplog', DeletedRegions', program, to, k)
  <2>1. Ends(oplog, DeletedRegions, program, at, n)
        /\ Chain(oplog, DeletedRegions, program, timeline, at, n)
    BY <1>1, <1>3 DEF LogWhole, Recorded
  <2> QED
    BY <1>1, <1>4, <1>5, <1>6, <2>1, EndsCut
<1>8. Whole(program, timeline, k)
  <2>1. Whole(program, timeline, n) /\ k \in Nat /\ k <= n
    BY <1>1, <1>3 DEF LogWhole
  <2> QED
    BY <2>1, WholeLess
<1>9. LogWhole'
  BY <1>0, <1>1, <1>4, <1>6, <1>7, <1>8, LogBy
<1> QED
  BY <1>0, <1>9, WholeStep DEF Running

LEMMA CrashWhole ==
  ASSUME ~MixedBatch, ReplayInv, ReplayInv', WholeInv, Crash
  PROVE  WholeInv'
<1>0. /\ LogType /\ mode \in {"loading", "guest", "done"} /\ mode' = "down"
      /\ buffer' = <<>> /\ durable' = durable /\ UNCHANGED <<program, seen>>
  BY DEF ReplayInv, Crash
<1>1. CASE ~Running
  <2>1. buffer = <<>>
    BY <1>0, <1>1 DEF ReplayInv, ModeInv, Loading, Following, Replayed, Stopped, Running
  <2> QED
    BY <1>0, <2>1, RestWhole DEF oplogVars
<1>2. CASE Running
  <2>1. LogWhole /\ program \in Programs /\ Len(program) \in Nat /\ oplog \in Seq(Entries)
    BY <1>0, <1>2, LiveIs, OplogIs
  <2>2. PICK n, at : /\ n \in Nat /\ Recorded(oplog, DeletedRegions, program, timeline, at, n)
                     /\ Chain(oplog, DeletedRegions, program, timeline, at, n)
    BY <1>2, LiveIs DEF Recorded
  <2>3. /\ durable \in Seq(Entries) /\ DeletedRegions \subseteq 2 .. Len(durable)
        /\ Same(oplog, DeletedRegions, durable, DeletedRegions, Len(durable))
        /\ \A i \in Len(durable) + 1 .. Len(oplog) : Buffered(oplog[i].kind)
    BY <1>0, OplogIs DEF LogType
  <2>4. PICK m \in 0 .. n :
          /\ Recorded(durable, DeletedRegions, program, timeline, [j \in 0 .. m |-> at[j]], m)
          /\ \A k \in 0 .. n : at[k] <= Len(durable) => k <= m
    BY <2>1, <2>2, <2>3, CutOff
  <2> DEFINE to == [j \in 0 .. m |-> at[j]]
  <2>5. Recorded(durable, DeletedRegions, program, timeline, to, m)
        /\ \A j \in 0 .. m : to[j] = at[j]
    BY <2>4
  <2> HIDE DEF to
  <2>6. Ends(durable, DeletedRegions, program, to, m)
    <3>1. Ends(oplog, DeletedRegions, program, at, n)
      BY <2>1, <2>2 DEF LogWhole
    <3> QED
      BY <2>1, <2>2, <2>3, <2>4, <2>5, <3>1, EndsOff
  <2>7. Whole(program, timeline, m)
    <3>1. Whole(program, timeline, n) /\ m \in Nat /\ m <= n
      BY <2>1, <2>2 DEF LogWhole
    <3> QED
      BY <2>2, <3>1, WholeLess
  <2>8. LogType' /\ oplog' = durable /\ DeletedRegions' = DeletedRegions
    BY <1>0, DroppedIs
  <2>9. LogWhole'
    BY <1>0, <2>1, <2>5, <2>6, <2>7, <2>8, LogBy
  <2> QED
    BY <1>0, <2>9, WholeStep DEF Running
<1> QED
  BY <1>1, <1>2

(* A region whose end is found was left by those that begin inside it:     *)
(* none of them is retried.                                                *)
LEMMA InnerEnds ==
  ASSUME NEW D \in Seq(Entries), NEW R, NEW p, Len(p) \in Nat, Bracketed(p),
         NEW tl, NEW at, NEW n, Chain(D, R, p, tl, at, n), Ends(D, R, p, at, n),
         Matched(D, p, at, n), BatchesEnd(D, R, p, at, n), NEW s \in 0 .. n, s < Len(p),
         Opens(p[s + 1]), NEW v \in Nat, NextVis(D, R, at[s], v),
         ~RegionOver(D, Len(D), R, p[s + 1], v),
         NEW k \in 1 .. s, NEW c \in s + 2 .. Len(p), Clean(p, k, c), NEW j \in Nat
  PROVE  ~EndedAt(D, R, p[k], at[k], j)
<1> SUFFICES ASSUME EndedAt(D, R, p[k], at[k], j) PROVE FALSE
  OBVIOUS
<1>0. /\ n \in Nat /\ s \in Nat /\ n <= Len(p) /\ at \in [0 .. n -> 2 .. Len(D)]
      /\ Len(D) \in Nat /\ at[s] \in Nat
  <2>1. n \in Nat /\ n <= Len(p) /\ at \in [0 .. n -> 2 .. Len(D)]
    BY DEF Chain
  <2> QED
    BY <2>1
<1>1. c <= n
  BY <1>0 DEF Ends
<1>2. PICK q \in 1 .. n : q = s + 1 /\ q - 1 = s /\ q \in k + 1 .. c - 1 /\ q \in 0 .. n
                          /\ q \in Nat /\ q \in 1 .. Len(p)
  BY <1>0, <1>1
<1>3. at[q] = v
  <2>1. Link(D, R, p[q], at[q - 1], at[q], tl[q])
    BY DEF Chain
  <2>2. NextVis(D, R, at[s], at[q])
    BY <1>2, <2>1 DEF Link, Opens
  <2>3. at[q] \in Nat
    BY <1>0, <1>2
  <2> QED
    BY <1>0, <2>2, <2>3, OneNext
<1>4. PICK e \in q + 1 .. Len(p) : Closes(p, q, e)
  BY <1>2 DEF Bracketed
<1>5. PICK i \in q .. c : p[i] = Closing(p[q])
  BY <1>2 DEF Clean, Resumes
<1>6. i # q
  BY <1>2, <1>5 DEF Opens, Closing
<1>7. e <= i
  <2> SUFFICES ASSUME ~(e <= i) PROVE FALSE
    OBVIOUS
  <2>1. i \in q + 1 .. e - 1
    BY <1>2, <1>4, <1>5, <1>6
  <2> QED
    BY <1>4, <1>5, <2>1 DEF Closes
<1>8. e # c
  <2>1. Opens(p[k]) /\ p[c] = Closing(p[k]) /\ p[q] # p[k] /\ Opens(p[q])
    BY <1>2 DEF Clean, Closes
  <2>2. p[e] = Closing(p[q])
    BY <1>4 DEF Closes
  <2> QED
    BY <2>1, <2>2 DEF Opens, Closing
<1>9. e < c /\ e \in 0 .. n /\ c \in 0 .. n /\ e \in 1 .. n /\ q < c
  BY <1>0, <1>1, <1>2, <1>4, <1>5, <1>7, <1>8
<1>10. p[c] # "back"
  BY DEF Clean, Closes, Closing
<1>11. at[e] < at[c] /\ at[q] < at[c] /\ Vis(D, R, at[c]) /\ at[c] \in Nat /\ at[e] \in Nat
  BY <1>2, <1>9, <1>10, ChainStrict
<1>12. RegionOver(D, Len(D), R, p[q], at[q])
  <2>1. at[c] # at[e]
    BY <1>11
  <2> QED
    BY <1>4, <1>9, <1>11, <2>1, RegionIsOver
<1> QED
  BY <1>2, <1>3, <1>12

(* What comes after the begin of a region is deleted.                      *)
LEMMA EndsRetry ==
  ASSUME NEW D \in Seq(Entries), NEW R, NEW p, Len(p) \in Nat, NEW tl, NEW at, NEW n,
         Chain(D, R, p, tl, at, n), Ends(D, R, p, at, n), NEW s \in 0 .. n, Opens(p[s + 1]),
         NEW v \in Nat, v <= Len(D),
         \A k \in 1 .. s, c \in s + 2 .. Len(p), j \in Nat :
           Clean(p, k, c) => ~EndedAt(D, R, p[k], at[k], j),
         NEW e \in Entries, e.kind = "Jump", NEW E, Longer(D, e, E), NEW S,
         CutAfter(R, v, Len(D) + 1, S), NEW to, to[s + 1] = v, \A k \in 0 .. s : to[k] = at[k]
  PROVE  Ends(E, S, p, to, s + 1)
<1>0. /\ n \in Nat /\ s \in Nat /\ n <= Len(p) /\ Len(D) \in Nat
      /\ at \in [0 .. n -> 2 .. Len(D)]
      /\ E \in Seq(Entries) /\ Len(E) = Len(D) + 1 /\ E[Len(D) + 1] = e
      /\ \A i \in 1 .. Len(D) : E[i] = D[i]
  BY DEF Chain, Longer
<1> SUFFICES ASSUME NEW k \in 1 .. s + 1, NEW c \in 1 .. Len(p), NEW j \in Nat,
                    Clean(p, k, c), EndedAt(E, S, p[k], to[k], j)
             PROVE  c <= s + 1 /\ to[c] <= j
  BY DEF Ends
<1>1. j <= Len(E) /\ EndsAt(E, j, p[k], to[k])
  BY DEF EndedAt
<1>2. PICK x \in Nat : to[k] < x /\ x <= j /\ Vis(E, S, x)
  BY DEF EndedAt
<1>3. x <= v /\ x \in 2 .. Len(D) /\ x \notin R
  <2>1. x \notin S /\ x \in 2 .. Len(E)
    BY <1>2 DEF Vis
  <2>2. ~(x \in v + 1 .. Len(D) + 1) /\ x \notin R
    BY <2>1 DEF CutAfter
  <2> QED
    BY <1>0, <2>1, <2>2
<1>4. Vis(D, R, x)
  <2>1. E[x] = D[x]
    BY <1>0, <1>3
  <2> QED
    BY <1>2, <1>3, <2>1 DEF Vis
<1>5. k # s + 1
  BY <1>2, <1>3
<1>6. k \in 1 .. s /\ k \in 1 .. n /\ to[k] = at[k]
  BY <1>0, <1>5
<1>7. j # Len(D) + 1
  BY <1>0, <1>1 DEF EndsAt
<1>8. EndedAt(D, R, p[k], at[k], j)
  <2>1. j \in 1 .. Len(D)
    <3>1. 1 <= j
      BY <1>2, <1>3
    <3>2. j <= Len(D) + 1
      BY <1>0, <1>1
    <3> QED
      BY <1>0, <1>7, <3>1, <3>2
  <2>2. E[j] = D[j]
    BY <1>0, <2>1
  <2> QED
    BY <1>1, <1>2, <1>4, <1>6, <2>1, <2>2 DEF EndedAt, EndsAt
<1>9. c <= n /\ at[c] <= j
  BY <1>6, <1>8 DEF Ends
<1>10. c # s + 1
  BY DEF Clean, Closes, Closing, Opens
<1>11. ~(c \in s + 2 .. Len(p))
  BY <1>6, <1>8
<1>12. c \in 0 .. s
  BY <1>0, <1>10, <1>11
<1> QED
  BY <1>0, <1>9, <1>12

(* One call more that has no result.                                       *)
LEMMA WholeOn ==
  ASSUME NEW p, NEW tl, NEW ul, NEW n \in Nat, Whole(p, tl, n), ~IsCall(p[n + 1]),
         \A k \in 1 .. n : ul[k] = tl[k], NEW m \in Nat, m = n + 1
  PROVE  Whole(p, ul, m)
<1> SUFFICES ASSUME NEW k \in 1 .. Len(p), NEW e \in 1 .. Len(p), NEW i \in 1 .. m,
                    NEW j \in 1 .. m, Clean(p, k, e), k < i, i < j, j < e,
                    IsCall(p[i]), IsCall(p[j])
             PROVE  ul[i].boot = ul[j].boot
  BY DEF Whole
<1>1. i \in 1 .. n /\ j \in 1 .. n
  OBVIOUS
<1> QED
  BY <1>1 DEF Whole

LEMMA RetryWhole ==
  ASSUME ~MixedBatch, ReplayInv, ReplayInv', AccountInv, WholeInv, NEW op \in {"begin", "open"},
         mode = "guest", last # target, Op = op, pc <= Len(program), Running',
         UNCHANGED <<program, boots>>, NEW v \in Nat, v = last + 1,
         Marks(op, oplog[v].kind), seen' = Append(seen, Answer(v, 0)),
         AddAndCommit(<<[kind |-> "Jump", start |-> v + 1, end |-> Len(oplog) + 1]>>),
         ~RegionOver(oplog, Len(oplog), DeletedRegions, op, v)
  PROVE  WholeInv'
<1>0. /\ LogType /\ GuestType /\ Following /\ FollowEnds /\ LogWhole /\ ~Running
      /\ pc = Len(seen) + 1 /\ Len(seen) \in Nat /\ seen \in Seq(Answers)
      /\ program \in Programs /\ TallyRest
  BY DEF ReplayInv, ModeInv, WholeInv, GuestType, Running, pc, AccountInv, TallyInv
<1>1. /\ Len(program) \in Nat /\ NoBackFirst(program) /\ Bracketed(program)
      /\ oplog \in Seq(Entries) /\ Len(oplog) \in Nat /\ regions = DeletedRegions
      /\ DeletedRegions \subseteq 2 .. Len(oplog)
  BY <1>0, RegionsAre, FollowingReads, OplogIs
<1>2. PICK s \in Nat : /\ s = Len(seen) /\ s < Len(program) /\ program[s + 1] = op
                       /\ Opens(program[s + 1]) /\ ~IsCall(program[s + 1])
  BY <1>0, <1>1 DEF Op, Opens, IsCall
<1>3. PICK q \in Nat : /\ q = s + 1 /\ Len(seen') = q /\ seen'[q] = Answer(v, 0)
                       /\ \A k \in 1 .. s : seen'[k] = seen[k]
  BY <1>0, <1>2
<1>4. PICK m, bt : FollowAt(m, bt)
  <2>1. ~Lost
    BY DEF Lost, Marks
  <2> QED
    BY <1>0, <2>1 DEF Following
<1>5. /\ s \in 0 .. m /\ NextVis(oplog, DeletedRegions, bt[s], v)
      /\ Recorded(oplog, DeletedRegions, program, timeline, bt, m)
      /\ Agrees(seen, timeline)
  BY <1>0, <1>1, <1>2, <1>4, FollowNext DEF FollowAt
<1>6. PICK n, at : Recorded(oplog, DeletedRegions, program, timeline, at, n) /\ Tallied(at, n)
  BY <1>0, <1>5, RecordedNotFresh DEF TallyRest
<1>7. n \in Nat /\ s \in 0 .. n /\ at[s] = bt[s]
  <2>1. s <= n
    BY <1>0, <1>1, <1>2, <1>5, <1>6, ChainReaches
  <2>2. \A j \in 0 .. m : j <= n => bt[j] = at[j]
    <3>1. /\ oplog \in Seq(Entries) /\ Len(program) \in Nat /\ NoBackFirst(program)
          /\ Recorded(oplog, DeletedRegions, program, timeline, bt, m)
          /\ Recorded(oplog, DeletedRegions, program, timeline, at, n)
      BY <1>1, <1>5, <1>6
    <3> QED
      BY <3>1, RecordsAgree
  <2>3. n \in Nat
    BY <1>6 DEF Recorded, Chain
  <2> QED
    BY <1>5, <2>1, <2>2, <2>3
<1>8. /\ Chain(oplog, DeletedRegions, program, timeline, at, n)
      /\ Anchored(oplog, DeletedRegions, at[0]) /\ Ends(oplog, DeletedRegions, program, at, n)
      /\ Matched(oplog, program, at, n) /\ BatchesEnd(oplog, DeletedRegions, program, at, n)
      /\ NextVis(oplog, DeletedRegions, at[s], v)
      /\ v <= Len(oplog) /\ Vis(oplog, DeletedRegions, v) /\ v \in 2 .. Len(oplog)
  BY <1>0, <1>5, <1>6, <1>7 DEF LogWhole, Recorded, Tallied, Account, NextVis, Vis
<1>9. \A k \in 1 .. s, c \in s + 2 .. Len(program), j \in Nat :
        Clean(program, k, c) => ~EndedAt(oplog, DeletedRegions, program[k], at[k], j)
  BY <1>1, <1>2, <1>7, <1>8, InnerEnds
<1>10. PICK e \in Entries : /\ e = [kind |-> "Jump", start |-> v + 1, end |-> Len(oplog) + 1]
                            /\ e.kind = "Jump"
  <2>1. [kind |-> "Jump", start |-> v + 1, end |-> Len(oplog) + 1] \in Entries
    BY <1>1 DEF Entries
  <2> QED
    BY <2>1
<1>11. /\ LogType' /\ Longer(oplog, e, oplog') /\ buffer' = <<>>
       /\ CutAfter(DeletedRegions, v, Len(oplog) + 1, DeletedRegions')
  <2>1. v >= 1
    BY <1>8
  <2> QED
    BY <1>0, <1>10, <2>1, JumpIs
<1>12. PICK bs : /\ Chain(oplog, DeletedRegions, program, seen', bs, s)
                 /\ \A k \in 0 .. s : bs[k] = at[k]
  <2>1. s <= Len(seen') /\ \A j \in 1 .. s : seen'[j] = timeline[j]
    BY <1>2, <1>3, <1>5 DEF Agrees
  <2>2. Same(oplog, DeletedRegions, oplog, DeletedRegions, at[s])
    <3>1. at[s] \in 2 .. Len(oplog)
      BY <1>7, <1>8 DEF Chain
    <3> QED
      BY <1>1, <3>1 DEF Same
  <2>3. Chain(oplog, DeletedRegions, program, seen', [j \in 0 .. s |-> at[j]], s)
    <3>1. PICK ul : ul = seen'
      OBVIOUS
    <3>2. /\ s \in 0 .. n /\ Chain(oplog, DeletedRegions, program, timeline, at, n)
          /\ s <= Len(ul) /\ \A j \in 1 .. s : ul[j] = timeline[j]
          /\ Len(program) \in Nat /\ oplog \in Seq(Entries)
      BY <1>1, <1>7, <1>8, <2>1, <3>1
    <3>3. Chain(oplog, DeletedRegions, program, ul, [j \in 0 .. s |-> at[j]], s)
      BY <2>2, <3>2, ChainSame
    <3> QED
      BY <3>1, <3>3
  <2> QED
    BY <2>3
<1>13. PICK to : /\ Chain(oplog, DeletedRegions, program, seen', to, q)
                 /\ to[q] = v /\ \A k \in 0 .. s : to[k] = at[k]
                 /\ to = [j \in 0 .. q |-> to[j]]
  <2>1. PICK answer, ul : answer = Answer(v, 0) /\ ul = seen'
    OBVIOUS
  <2>2. /\ Link(oplog, DeletedRegions, program[s + 1], bs[s], v, answer)
        /\ s + 1 <= Len(ul) /\ ul[s + 1] = answer /\ \A j \in 1 .. s : ul[j] = ul[j]
        /\ Chain(oplog, DeletedRegions, program, ul, bs, s) /\ v \in 2 .. Len(oplog)
        /\ oplog \in Seq(Entries) /\ Len(program) \in Nat /\ s < Len(program)
    BY <1>1, <1>2, <1>3, <1>8, <1>12, <2>1 DEF Link
  <2>3. Chain(oplog, DeletedRegions, program, ul,
              [j \in 0 .. s + 1 |-> IF j = s + 1 THEN v ELSE bs[j]], s + 1)
    BY <2>2, ChainNext
  <2> DEFINE to == [j \in 0 .. s + 1 |-> IF j = s + 1 THEN v ELSE bs[j]]
  <2>4. to[s + 1] = v /\ \A k \in 0 .. s : to[k] = bs[k]
    OBVIOUS
  <2>5. to = [j \in 0 .. s + 1 |-> to[j]]
    OBVIOUS
  <2>6. Chain(oplog, DeletedRegions, program, ul, to, s + 1)
    BY <2>3
  <2> HIDE DEF to
  <2> QED
    BY <1>3, <1>12, <2>1, <2>4, <2>5, <2>6
<1>14. /\ 0 \in 0 .. s /\ 0 \in 0 .. q /\ q \in 0 .. q /\ 0 < q /\ program[q] # "back"
       /\ to[0] = at[0]
  <2>1. program[q] # "back"
    BY <1>2, <1>3 DEF Opens
  <2>2. 0 \in 0 .. s /\ 0 \in 0 .. q /\ q \in 0 .. q /\ 0 < q
    BY <1>3
  <2> QED
    BY <1>13, <2>1, <2>2
<1>15. /\ Chain(oplog', DeletedRegions', program, seen', to, q)
       /\ Anchored(oplog', DeletedRegions', to[0])
       /\ Clear(oplog', DeletedRegions', to[q], Len(oplog'))
  <2>1. to[0] < to[q]
    <3>1. oplog \in Seq(Entries) /\ Chain(oplog, DeletedRegions, program, seen', to, q)
      BY <1>1, <1>13
    <3> QED
      BY <1>14, <3>1, ChainStrict
  <2>2. /\ Chain(oplog', DeletedRegions', program, seen', [j \in 0 .. q |-> to[j]], q)
        /\ Anchored(oplog', DeletedRegions', to[0])
        /\ Clear(oplog', DeletedRegions', to[q], Len(oplog'))
    <3>1. /\ oplog \in Seq(Entries) /\ DeletedRegions \subseteq 2 .. Len(oplog)
          /\ Len(program) \in Nat /\ Chain(oplog, DeletedRegions, program, seen', to, q)
          /\ Anchored(oplog, DeletedRegions, to[0]) /\ Vis(oplog, DeletedRegions, to[q])
          /\ Longer(oplog, e, oplog')
          /\ CutAfter(DeletedRegions, to[q], Len(oplog) + 1, DeletedRegions')
      BY <1>1, <1>8, <1>11, <1>13, <1>14
    <3> QED
      BY <1>14, <2>1, <3>1, CutBack
  <2> QED
    BY <1>13, <2>2
<1>16. Recorded(oplog', DeletedRegions', program, seen', to, q)
  BY <1>15 DEF Recorded, Rest
<1>17. Ends(oplog', DeletedRegions', program, to, q)
  <2>1. to[s + 1] = v
    BY <1>3, <1>13
  <2>2. Ends(oplog', DeletedRegions', program, to, s + 1)
    <3>1. /\ oplog \in Seq(Entries) /\ Len(program) \in Nat /\ s \in 0 .. n
          /\ Chain(oplog, DeletedRegions, program, timeline, at, n)
          /\ Ends(oplog, DeletedRegions, program, at, n) /\ Opens(program[s + 1])
          /\ v <= Len(oplog) /\ e.kind = "Jump" /\ Longer(oplog, e, oplog')
          /\ CutAfter(DeletedRegions, v, Len(oplog) + 1, DeletedRegions')
          /\ \A k \in 0 .. s : to[k] = at[k]
      BY <1>1, <1>2, <1>7, <1>8, <1>10, <1>11, <1>13
    <3> QED
      BY <1>9, <2>1, <3>1, EndsRetry
  <2> QED
    BY <1>3, <2>2
<1>18. Whole(program, seen', q)
  BY <1>2, <1>3, WholeOn DEF WholeInv
<1>19. LogWhole'
  BY <1>0, <1>11, <1>16, <1>17, <1>18, LogBy
<1>20. LiveBoots'
  <2> SUFFICES ASSUME NEW k \in 1 .. Len(seen'), NEW c \in Len(seen') + 1 .. Len(program),
                      Clean(program, k, c), NEW i \in k + 1 .. Len(seen'), IsCall(program[i])
               PROVE  FALSE
    BY DEF LiveBoots
  <2>1. /\ k \in 1 .. s /\ c \in s + 2 .. Len(program) /\ c \in Len(seen) + 1 .. Len(program)
        /\ k \in 1 .. n
    BY <1>2, <1>3, <1>7
  <2>2. PICK j \in Nat : EndedAt(oplog, DeletedRegions, program[k], seen[k].value, j)
    BY <1>0, <1>1, <1>2, <2>1 DEF FollowEnds
  <2>3. seen[k].value = at[k]
    <3>1. timeline[k] = Answer(at[k], 0)
      BY <1>8, <2>1, OpenedIndex DEF Clean, Closes
    <3> QED
      BY <1>2, <1>5, <2>1, <3>1 DEF Agrees, Answer
  <2> QED
    BY <1>9, <2>1, <2>2, <2>3
<1> QED
  BY <1>19, <1>20, WholeStep DEF Running

LEMMA ReplayBeginWhole ==
  ASSUME ~MixedBatch, ReplayInv, ReplayInv', AccountInv, WholeInv, NEW op \in {"begin", "open"},
         ReplayBegin(op), ~misread'
  PROVE  WholeInv'
<1>0. /\ LogType /\ GuestType /\ mode = "guest" /\ last # target /\ pc <= Len(program)
      /\ Op = op /\ Following /\ pc = Len(seen) + 1 /\ Len(seen) \in Nat /\ program' = program
      /\ seen \in Seq(Answers)
  BY InGuest DEF ReplayBegin, IsLive, GuestType
<1>1. PICK v \in Nat, i \in Nat :
        /\ v = last + 1 /\ EntryAfter(last) = v /\ i = IndexAfter(last) /\ v <= i
        /\ Clear(oplog, DeletedRegions, v, i)
        /\ i = target \/ Vis(oplog, DeletedRegions, i + 1)
  <2>1. /\ EntryAfter(last) = last + 1 /\ last + 1 \in 2 .. target /\ target \in Nat
        /\ IndexAfter(last) \in last + 1 .. target /\ regions = DeletedRegions
        /\ Clear(oplog, regions, last + 1, IndexAfter(last))
        /\ IndexAfter(last) = target \/ Vis(oplog, regions, IndexAfter(last) + 1)
    BY <1>0, FollowingReads DEF Reading
  <2>2. last + 1 \in Nat /\ IndexAfter(last) \in Nat /\ last + 1 <= IndexAfter(last)
    BY <2>1
  <2> QED
    BY <2>1, <2>2
<1>2. /\ oplog = durable /\ target \in 1 .. Len(oplog) /\ regions = DeletedRegions
      /\ oplog \in Seq(Entries) /\ Len(oplog) \in Nat
  BY <1>0, FollowingReads, OplogIs
<1> DEFINE ended == IF op = "begin" THEN HasEntry(i, "EndAtomic", v) ELSE HasBatchEnd(i, v)
<1>3. CASE ~Found(EntryOf[op])
  BY <1>0, <1>3, FailsWhole DEF ReplayBegin
<1>4. CASE Found(EntryOf[op])
  <2>1. /\ seen' = Append(seen, Answer(v, 0))
        /\ IF ended
           THEN last' = i /\ UNCHANGED <<regions, oplogVars>>
           ELSE /\ last' = target
                /\ AddAndCommit(<<[kind |-> "Jump", start |-> v + 1, end |-> target + 1]>>)
                /\ target + 1 = Len(oplog) + 1
        /\ UNCHANGED <<target, mode, program, boots>>
    BY <1>1, <1>4 DEF ReplayBegin, Returns, Takes
  <2>2. /\ Len(seen') = Len(seen) + 1 /\ \A k \in 1 .. Len(seen) : seen'[k] = seen[k]
        /\ seen'[Len(seen) + 1].value = v
    BY <1>0, <2>1, AnswerTyped DEF Answer
  <2>3. CASE ended
    <3>1. PICK j \in i + 1 .. Len(durable) : EndsAt(oplog, j, op, v) /\ i + 1 < target
      BY <1>2, <2>3 DEF HasEntry, HasBatchEnd, EndsAt
    <3>2. i # target /\ i + 1 \in Nat /\ v < i + 1 /\ i + 1 <= j /\ j <= Len(oplog) /\ j \in Nat
      BY <1>1, <1>2, <3>1
    <3>3. EndedAt(oplog, regions, op, v, j)
      BY <1>1, <1>2, <3>1, <3>2 DEF EndedAt
    <3>4. last' # target' /\ UNCHANGED <<program, oplogVars, regions, target>> /\ mode' = "guest"
      BY <1>0, <2>1, <2>3, <3>2
    <3>5. program[Len(seen) + 1] = op
      BY <1>0 DEF Op
    <3>6. \E w \in Nat : EndedAt(oplog, regions, program[Len(seen) + 1],
                                 seen'[Len(seen) + 1].value, w)
      BY <2>2, <3>2, <3>3, <3>5
    <3> QED
      BY <1>0, <2>2, <3>4, <3>6, FollowWhole
  <2>4. CASE ~ended
    <3>1. /\ Running' /\ UNCHANGED <<program, boots>>
          /\ AddAndCommit(<<[kind |-> "Jump", start |-> v + 1, end |-> Len(oplog) + 1]>>)
      BY <1>0, <1>2, <2>1, <2>4 DEF Running
    <3>2. ~RegionOver(oplog, Len(oplog), DeletedRegions, op, v)
      <4>1. target = Len(oplog)
        BY <1>2, <2>1, <2>4
      <4> QED
        BY <1>1, <1>2, <2>4, <4>1, NotEnded
    <3> HIDE DEF ended
    <3>3. Marks(op, oplog[v].kind)
      BY <1>1, <1>4, KindsAre DEF Found, Marks
    <3> QED
      BY <1>0, <1>1, <2>1, <3>1, <3>2, <3>3, RetryWhole
  <2> QED
    BY <2>3, <2>4
<1> QED
  BY <1>3, <1>4

LEMMA WholeInvInit ==
  ASSUME Init
  PROVE  WholeInv
<1>1. /\ program \in Programs /\ buffer = <<>> /\ durable = <<[kind |-> "Create"]>>
      /\ mode = "down" /\ seen = <<>> /\ LogType
  BY ReplayInvInit DEF Init, ReplayInv
<1>2. oplog = durable /\ Len(oplog) = 1 /\ DeletedRegions \subseteq 2 .. Len(oplog)
  BY <1>1, EmptyBuffer, OplogIs
<1>3. Fresh(oplog, DeletedRegions)
  BY <1>2 DEF Fresh
<1>4. LogWhole
  BY <1>3, RecordedNotFresh DEF LogWhole
<1>5. Whole(program, seen, Len(seen))
  BY <1>1 DEF Whole
<1> QED
  BY <1>1, <1>4, <1>5 DEF WholeInv, Running

LEMMA WholeInvStep ==
  ASSUME ~MixedBatch, ReplayInv, AccountInv, BegunBefore, WholeInv, [Next]_vars,
         ~misread'
  PROVE  WholeInv'
<1>0. ReplayInv'
  BY ReplayInvStep
<1>1. CASE UNCHANGED vars
  <2>1. /\ UNCHANGED <<oplogVars, program, last, target, mode, seen, boots, regions>>
    BY <1>1 DEF vars, replayVars, guestVars
  <2>2. oplog' = oplog /\ DeletedRegions' = DeletedRegions
    BY <2>1, SameOplog
  <2>3. LogWhole' /\ (LiveBoots' <=> LiveBoots) /\ (FollowEnds' <=> FollowEnds)
    BY <2>1, <2>2, LogStays DEF LiveBoots, FollowEnds, WholeInv
  <2> QED
    BY <2>1, <2>3 DEF WholeInv, Running
<1>2. CASE HostCall
  BY <1>0, <1>2, CallLiveWhole, AddMarkerWhole, ReadIndexWhole, EndLiveWhole, BeginOnceWhole,
     PerformOnceWhole, RecordOnceWhole, StartJumpWhole, JumpWhole, NoJumpWhole,
     ReplayCallWhole, ReplayBeginWhole, ReplayOnceWhole DEF HostCall
<1>3. CASE Worker /\ ~HostCall
  BY <1>0, <1>3, CreateInstanceWhole, ResumeReplayWhole, InvokeWhole, CompleteWhole DEF Worker
<1>4. CASE Commit \/ Request \/ Crash
  BY <1>0, <1>4, CommitWhole, RequestWhole, CrashWhole
<1> QED
  BY <1>1, <1>2, <1>3, <1>4 DEF Next

LEMMA WholeInvHolds ==
  Spec => [](misread \/ MixedBatch \/ (ReplayInv /\ AccountInv /\ BegunBefore /\ WholeInv))
<1>1. Init => ReplayInv /\ AccountInv /\ BegunBefore /\ WholeInv
  BY ReplayInvInit, AccountInvInit, WholeInvInit DEF BegunBefore, Init
<1>2. (misread \/ MixedBatch \/ (ReplayInv /\ AccountInv /\ BegunBefore /\ WholeInv))
      /\ [Next]_vars
      => (misread \/ MixedBatch \/ (ReplayInv /\ AccountInv /\ BegunBefore /\ WholeInv))'
  BY ReplayInvStep, AccountInvStep, BegunBeforeStep, WholeInvStep, MisreadStays, MixedStays
<1> QED
  BY <1>1, <1>2, PTL DEF Spec

(* The results a guest has from one atomic region, or one batch, are from  *)
(* one instance of the worker: when the executor stops inside a region,    *)
(* the replay deletes all of it and executes all of it again, however      *)
(* regions lie in each other, unless the guest takes it up in its middle   *)
(* (mark_begin_operation and begin_function, which look for the end of a   *)
(* region also among the entries that are deleted); until a host call was  *)
(* misled by a request, and unless a batch is mixed.                       *)
THEOREM RegionsAreWhole ==
  Spec => []RegionsWhole
<1>1. misread \/ MixedBatch \/ (ReplayInv /\ AccountInv /\ BegunBefore /\ WholeInv)
      => RegionsWhole
  <2> SUFFICES ASSUME ~MixedBatch, ReplayInv, WholeInv, NEW i \in DOMAIN seen,
                      NEW j \in DOMAIN seen,
                      i < j, {i, j} \subseteq Calls(j), SameRegion(i, j)
               PROVE  seen[i].boot = seen[j].boot
    BY DEF RegionsWhole
  <2>1. /\ Len(seen) \in Nat /\ i \in 1 .. Len(seen) /\ j \in 1 .. Len(seen)
        /\ Len(program) \in Nat /\ IsCall(program[i]) /\ IsCall(program[j])
    BY RegionsAre DEF ReplayInv, GuestType, Calls, IsCall
  <2>2. PICK b \in Brackets, o \in 1 .. i, c \in j .. Len(program) :
          /\ program[o] = b[1] /\ program[c] = b[2] /\ ~MayResume(o, c)
          /\ \A k \in o + 1 .. c - 1 : program[k] \notin {b[1], b[2]}
    BY DEF SameRegion
  <2>3. /\ Opens(program[o]) /\ program[c] = Closing(program[o])
        /\ b[1] = program[o] /\ b[2] = Closing(program[o])
    BY <2>2 DEF Brackets, Opens, Closing
  <2>4. o # i /\ c # j
    BY <2>1, <2>3 DEF IsCall, Opens, Closing
  <2>5. /\ o \in 1 .. Len(program) /\ c \in 1 .. Len(program) /\ o < i /\ j < c /\ o < c
    BY <2>1, <2>4
  <2>6. ~Resumes(program, o, c)
    <3> SUFFICES ASSUME Resumes(program, o, c) PROVE MayResume(o, c)
      BY <2>2
    <3>1. PICK k \in o + 1 .. c - 1 :
            \/ program[k] = "save" /\ \E w \in c + 1 .. Len(program) : program[w] = "back"
            \/ Opens(program[k]) /\ \A w \in k .. c : program[w] # Closing(program[k])
      BY DEF Resumes
    <3>2. CASE program[k] = "save" /\ \E w \in c + 1 .. Len(program) : program[w] = "back"
      BY <3>2 DEF MayResume
    <3>3. CASE Opens(program[k]) /\ \A w \in k .. c : program[w] # Closing(program[k])
      <4>1. PICK d \in Brackets : program[k] = d[1] /\ d[2] = Closing(program[k])
        BY <3>3 DEF Brackets, Opens, Closing
      <4> QED
        BY <3>3, <4>1 DEF MayResume
    <3> QED
      BY <3>1, <3>2, <3>3
  <2>7. Clean(program, o, c)
    BY <2>2, <2>3, <2>5, <2>6 DEF Clean, Closes
  <2>8. Whole(program, seen, Len(seen))
    BY DEF WholeInv
  <2> QED
    BY <2>1, <2>5, <2>7, <2>8 DEF Whole
<1>2. Spec => [](misread \/ MixedBatch
                 \/ (ReplayInv /\ AccountInv /\ BegunBefore /\ WholeInv))
  BY WholeInvHolds
<1> QED
  BY <1>1, <1>2, PTL

=============================================================================
