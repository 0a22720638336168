----------------------------- MODULE IndexLemmas -----------------------------
(***************************************************************************)
(* Least and greatest elements of sets of indexes, and entries of a        *)
(* sequence that grows by one: facts that the proofs about oplogs share.   *)
(***************************************************************************)
EXTENDS Integers, Sequences, Selection, WellFoundedInduction, TLAPS

(* A set of indexes that is not empty has a least element.                 *)
LEMMA LeastIndex ==
  ASSUME NEW S \in SUBSET Nat, S # {}
  PROVE  \E m \in S : \A i \in S : m <= i
<1>1. IsWellFoundedOn(OpToRel(<, Nat), Nat)
  BY NatLessThanWellFounded
<1>2. PICK m \in S : \A i \in S : ~ (<<i, m>> \in OpToRel(<, Nat))
  BY <1>1, WFMin
<1>3. \A i \in S : ~ (i < m)
  BY <1>2 DEF OpToRel
<1> QED
  BY <1>3

(* A bounded one has a greatest element.                                   *)
LEMMA GreatestIndex ==
  ASSUME NEW S \in SUBSET Nat, S # {}, NEW n \in Nat, \A i \in S : i <= n
  PROVE  \E m \in S : \A i \in S : i <= m
<1> DEFINE U == {b \in Nat : \A i \in S : i <= b}
<1>1. U \in SUBSET Nat /\ U # {}
  OBVIOUS
<1>2. PICK m \in U : \A b \in U : m <= b
  BY <1>1, LeastIndex
<1>3. ASSUME m \notin S PROVE FALSE
  <2>1. \A i \in S : i <= m /\ i # m
    BY <1>2, <1>3
  <2>2. m # 0
    <3>1. PICK x \in S : TRUE
      OBVIOUS
    <3> QED
      BY <2>1, <3>1
  <2>3. m - 1 \in Nat /\ \A i \in S : i <= m - 1
    BY <1>2, <2>1, <2>2
  <2>4. m - 1 \in U
    BY <2>3
  <2> QED
    BY <1>2, <2>4
<1> QED
  BY <1>2, <1>3

(* Appending to a sequence keeps its entries and adds one at the end.      *)
LEMMA AppendEntries ==
  ASSUME NEW T, NEW q \in Seq(T), NEW e \in T
  PROVE  /\ Append(q, e) \in Seq(T)
         /\ Len(Append(q, e)) = Len(q) + 1
         /\ DOMAIN Append(q, e) = DOMAIN q \cup {Len(q) + 1}
         /\ \A i \in DOMAIN q : Append(q, e)[i] = q[i]
         /\ Append(q, e)[Len(q) + 1] = e
OBVIOUS

(* Taking the first entry moves the others forward by one.                 *)
LEMMA TailEntries ==
  ASSUME NEW T, NEW q \in Seq(T), q # <<>>
  PROVE  /\ Tail(q) \in Seq(T) /\ Head(q) = q[1] /\ 1 \in DOMAIN q
         /\ Len(q) \in Nat \ {0} /\ Len(Tail(q)) = Len(q) - 1
         /\ \A i \in DOMAIN Tail(q) : i + 1 \in DOMAIN q /\ Tail(q)[i] = q[i + 1]
OBVIOUS

-----------------------------------------------------------------------------
(* Folds.  The community modules fold a sequence from the greatest index   *)
(* of its domain downwards, by a recursive function on sets of indexes.    *)

Top(S) == CHOOSE x \in S : \A y \in S : x >= y

LEMMA TopIs ==
  ASSUME NEW S \in SUBSET Nat, NEW m \in S, \A i \in S : i <= m
  PROVE  Top(S) = m
<1>1. \A x \in S : (\A y \in S : x >= y) <=> x = m
  OBVIOUS
<1> QED
  BY <1>1 DEF Top

IsFold(g, n, base, Step) ==
  g = [s \in SUBSET (1 .. n) |->
         IF s = {} THEN base ELSE Step[<<g[s \ {Top(s)}], Top(s)>>]]

(* Such a function exists when its steps stay in a set.                    *)
LEMMA FoldExists ==
  ASSUME NEW A, NEW base \in A, NEW n \in Nat, NEW Step \in [A \X (1 .. n) -> A]
  PROVE  \E g \in [SUBSET (1 .. n) -> A] : IsFold(g, n, base, Step)
<1> DEFINE Good(m) == \E g \in [SUBSET (1 .. m) -> A] : IsFold(g, m, base, Step)
           Bad == {m \in 0 .. n : ~Good(m)}
<1>1. SUFFICES ASSUME Bad # {} PROVE FALSE
  <2>1. n \in 0 .. n
    OBVIOUS
  <2> QED
    BY <2>1
<1>2. PICK m \in Bad : \A i \in Bad : m <= i
  <2>1. Bad \in SUBSET Nat
    OBVIOUS
  <2> HIDE DEF Bad
  <2> QED
    BY <1>1, <2>1, LeastIndex
<1>3. Good(0)
  <2> DEFINE g == [s \in SUBSET (1 .. 0) |-> base]
  <2>1. \A s \in SUBSET (1 .. 0) : s = {}
    OBVIOUS
  <2>2. g \in [SUBSET (1 .. 0) -> A]
    OBVIOUS
  <2>3. IsFold(g, 0, base, Step)
    BY <2>1 DEF IsFold
  <2> QED
    BY <2>2, <2>3
<1>4. m # 0 /\ m \in 1 .. n /\ m - 1 \in 0 .. n /\ ~Good(m)
  <2> HIDE DEF Good
  <2> QED
    BY <1>2, <1>3
<1>5. Good(m - 1)
  <2> HIDE DEF Good
  <2> QED
    BY <1>2, <1>4
<1>6. PICK g \in [SUBSET (1 .. m - 1) -> A] : IsFold(g, m - 1, base, Step)
  BY <1>5
<1> DEFINE h == [s \in SUBSET (1 .. m) |->
                   IF m \in s THEN Step[<<g[s \ {m}], m>>] ELSE g[s]]
<1>7. \A s \in SUBSET (1 .. m) :
         IF m \in s THEN s \ {m} \in SUBSET (1 .. m - 1) /\ Top(s) = m /\ s # {}
         ELSE s \in SUBSET (1 .. m - 1)
  <2> SUFFICES ASSUME NEW s \in SUBSET (1 .. m)
      PROVE IF m \in s THEN s \ {m} \in SUBSET (1 .. m - 1) /\ Top(s) = m /\ s # {}
            ELSE s \in SUBSET (1 .. m - 1)
    OBVIOUS
  <2>1. m \in Nat /\ \A i \in s : i \in Nat /\ i <= m
    BY <1>4
  <2>2. CASE m \in s
    <3>1. s \in SUBSET Nat
      BY <2>1
    <3>2. Top(s) = m
      BY <2>1, <2>2, <3>1, TopIs
    <3> QED
      BY <2>1, <2>2, <3>2
  <2>3. CASE m \notin s
    BY <2>1, <2>3
  <2> QED
    BY <2>2, <2>3
<1>8. \A s \in SUBSET (1 .. m - 1) : m \notin s /\ s \in SUBSET (1 .. m)
  BY <1>4
<1>9. h \in [SUBSET (1 .. m) -> A]
  <2> SUFFICES ASSUME NEW s \in SUBSET (1 .. m)
      PROVE (IF m \in s THEN Step[<<g[s \ {m}], m>>] ELSE g[s]) \in A
    OBVIOUS
  <2>1. CASE m \in s
    <3>1. g[s \ {m}] \in A
      BY <1>6, <1>7, <2>1
    <3> QED
      BY <1>4, <2>1, <3>1
  <2>2. CASE m \notin s
    BY <1>6, <1>7, <2>2
  <2> QED
    BY <2>1, <2>2
<1>10. \A s \in SUBSET (1 .. m - 1) : h[s] = g[s]
  BY <1>8
<1>11. IsFold(h, m, base, Step)
  <2> SUFFICES \A s \in SUBSET (1 .. m) :
                  h[s] = IF s = {} THEN base ELSE Step[<<h[s \ {Top(s)}], Top(s)>>]
    BY <1>9 DEF IsFold
  <2> TAKE s \in SUBSET (1 .. m)
  <2>1. CASE m \in s
    <3>1. h[s] = Step[<<g[s \ {m}], m>>] /\ Top(s) = m /\ s # {} /\ h[s \ {m}] = g[s \ {m}]
      BY <1>7, <1>10, <2>1
    <3> HIDE DEF h
    <3> QED
      BY <3>1
  <2>2. CASE m \notin s
    <3>1. s \in SUBSET (1 .. m - 1) /\ h[s] = g[s]
      BY <1>7, <2>2
    <3>2. g[s] = IF s = {} THEN base ELSE Step[<<g[s \ {Top(s)}], Top(s)>>]
      BY <1>6, <3>1 DEF IsFold
    <3>3. s # {} => s \ {Top(s)} \in SUBSET (1 .. m - 1)
      BY <3>1
    <3> HIDE DEF h
    <3> QED
      BY <1>10, <3>1, <3>2, <3>3
  <2> QED
    BY <2>1, <2>2
<1> QED
  BY <1>4, <1>9, <1>11

(* Its values on the first indexes are the steps from left to right.       *)
LEMMA FoldSteps ==
  ASSUME NEW A, NEW base \in A, NEW n \in Nat, NEW Step \in [A \X (1 .. n) -> A],
         NEW g \in [SUBSET (1 .. n) -> A], IsFold(g, n, base, Step)
  PROVE  /\ g[{}] = base
         /\ \A m \in 1 .. n : g[1 .. m] = Step[<<g[1 .. m - 1], m>>]
<1>1. g[{}] = base
  BY DEF IsFold
<1>2. ASSUME NEW m \in 1 .. n PROVE g[1 .. m] = Step[<<g[1 .. m - 1], m>>]
  <2>1. 1 .. m \in SUBSET (1 .. n) /\ 1 .. m \in SUBSET Nat /\ m \in 1 .. m
        /\ (\A i \in 1 .. m : i <= m) /\ (1 .. m) \ {m} = 1 .. m - 1
    OBVIOUS
  <2>2. Top(1 .. m) = m
    BY <2>1, TopIs
  <2> QED
    BY <2>1, <2>2 DEF IsFold
<1> QED
  BY <1>1, <1>2

-----------------------------------------------------------------------------
(* Only keeps the entries of a set.                                        *)

IsKept(kept, s, n, S) ==
  kept = [i \in 0 .. n |->
            IF i = 0 THEN <<>>
            ELSE IF s[i] \in S THEN Append(kept[i - 1], s[i]) ELSE kept[i - 1]]

LEMMA KeptExists ==
  ASSUME NEW s, NEW S, NEW n \in Nat
  PROVE  \E kept : IsKept(kept, s, n, S)
<1> DEFINE Good(m) == \E kept : IsKept(kept, s, m, S)
           Bad == {m \in Nat : ~Good(m)}
<1>1. SUFFICES ASSUME Bad # {} PROVE FALSE
  OBVIOUS
<1>2. PICK m \in Bad : \A i \in Bad : m <= i
  <2>1. Bad \in SUBSET Nat
    OBVIOUS
  <2> HIDE DEF Bad
  <2> QED
    BY <1>1, <2>1, LeastIndex
<1>3. Good(0)
  <2> DEFINE kept == [i \in 0 .. 0 |-> <<>>]
  <2>1. IsKept(kept, s, 0, S)
    BY DEF IsKept
  <2> QED
    BY <2>1
<1>4. m # 0 /\ m \in Nat /\ m - 1 \in Nat /\ ~Good(m)
  <2> HIDE DEF Good
  <2> QED
    BY <1>2, <1>3
<1>5. PICK k : IsKept(k, s, m - 1, S)
  <2>1. Good(m - 1)
    <3> HIDE DEF Good
    <3> QED
      BY <1>2, <1>4
  <2> QED
    BY <2>1
<1> DEFINE h == [i \in 0 .. m |->
                   IF i = m THEN IF s[m] \in S THEN Append(k[m - 1], s[m]) ELSE k[m - 1]
                   ELSE k[i]]
<1>6. \A i \in 0 .. m : i = m \/ i \in 0 .. m - 1
  BY <1>4
<1>7. \A i \in 0 .. m - 1 : h[i] = k[i] /\ (i # 0 => h[i - 1] = k[i - 1])
  BY <1>4
<1>8. h[m] = (IF s[m] \in S THEN Append(k[m - 1], s[m]) ELSE k[m - 1]) /\ h[m - 1] = k[m - 1]
  BY <1>4
<1>9. IsKept(h, s, m, S)
  <2> SUFFICES ASSUME NEW i \in 0 .. m
               PROVE  h[i] = IF i = 0 THEN <<>>
                             ELSE IF s[i] \in S THEN Append(h[i - 1], s[i]) ELSE h[i - 1]
    BY DEF IsKept
  <2>1. CASE i = m
    <3> HIDE DEF h
    <3> QED
      BY <1>4, <1>8, <2>1
  <2>2. CASE i \in 0 .. m - 1
    <3>1. k[i] = IF i = 0 THEN <<>>
                 ELSE IF s[i] \in S THEN Append(k[i - 1], s[i]) ELSE k[i - 1]
      BY <1>5, <2>2 DEF IsKept
    <3> HIDE DEF h
    <3> QED
      BY <1>7, <2>2, <3>1
  <2> QED
    BY <1>6, <2>1, <2>2
<1> QED
  BY <1>4, <1>9

(* e tells where the entries of t were in the first n entries of s.        *)
Picks(e, t, s, n, S) ==
  /\ e \in [1 .. Len(t) -> 1 .. n]
  /\ \A i, j \in 1 .. Len(t) : i < j => e[i] < e[j]
  /\ \A j \in 1 .. Len(t) : t[j] = s[e[j]] /\ t[j] \in S
  /\ \A i \in 1 .. n : s[i] \in S => \E j \in 1 .. Len(t) : e[j] = i

LEMMA PickNext ==
  ASSUME NEW T, NEW s \in Seq(T), NEW S, NEW n \in 1 .. Len(s), NEW t \in Seq(T),
         NEW e, Picks(e, t, s, n - 1, S)
  PROVE  IF s[n] \in S THEN \E d : Picks(d, Append(t, s[n]), s, n, S)
         ELSE Picks(e, t, s, n, S)
<1>0. n \in Nat /\ n >= 1 /\ s[n] \in T
  OBVIOUS
<1>1. CASE s[n] \in S
  <2>1. PICK l \in Nat : l = Len(t)
    OBVIOUS
  <2>2. PICK u : u = Append(t, s[n])
    OBVIOUS
  <2>3. Len(u) = l + 1 /\ u[l + 1] = s[n] /\ \A i \in 1 .. l : u[i] = t[i]
    BY <1>0, <2>1, <2>2, AppendEntries
  <2>4. /\ e \in [1 .. l -> 1 .. n - 1]
        /\ \A i, j \in 1 .. l : i < j => e[i] < e[j]
        /\ \A j \in 1 .. l : t[j] = s[e[j]] /\ t[j] \in S
        /\ \A i \in 1 .. n - 1 : s[i] \in S => \E j \in 1 .. l : e[j] = i
    BY <2>1 DEF Picks
  <2> DEFINE d == [j \in 1 .. l + 1 |-> IF j = l + 1 THEN n ELSE e[j]]
  <2>5. \A j \in 1 .. l + 1 : j = l + 1 \/ j \in 1 .. l
    BY <2>1
  <2>6. \A j \in 1 .. l : e[j] \in 1 .. n /\ e[j] < n /\ e[j] \in Nat /\ d[j] = e[j] /\ j # l + 1
    BY <1>0, <2>1, <2>4
  <2>7. d[l + 1] = n /\ d \in [1 .. l + 1 -> 1 .. n]
    <3>1. l + 1 \in 1 .. l + 1 /\ n \in 1 .. n
      BY <1>0, <2>1
    <3>2. \A j \in 1 .. l + 1 : (IF j = l + 1 THEN n ELSE e[j]) \in 1 .. n
      BY <2>5, <2>6, <3>1
    <3> QED
      BY <3>1, <3>2
  <2>8. \A i, j \in 1 .. l + 1 : i < j => d[i] < d[j]
    <3> SUFFICES ASSUME NEW i \in 1 .. l + 1, NEW j \in 1 .. l + 1, i < j PROVE d[i] < d[j]
      OBVIOUS
    <3>1. i \in 1 .. l
      BY <2>1, <2>5
    <3> HIDE DEF d
    <3> QED
      BY <2>4, <2>5, <2>6, <2>7, <3>1
  <2>9. \A j \in 1 .. l + 1 : u[j] = s[d[j]] /\ u[j] \in S
    <3> HIDE DEF d
    <3> QED
      BY <1>1, <2>3, <2>4, <2>5, <2>6, <2>7
  <2>10. \A i \in 1 .. n : s[i] \in S => \E j \in 1 .. l + 1 : d[j] = i
    <3> SUFFICES ASSUME NEW i \in 1 .. n, s[i] \in S PROVE \E j \in 1 .. l + 1 : d[j] = i
      OBVIOUS
    <3>1. CASE i = n
      <4> HIDE DEF d
      <4> QED
        BY <2>1, <2>7, <3>1
    <3>2. CASE i # n
      <4>1. i \in 1 .. n - 1
        BY <1>0, <3>2
      <4>2. PICK j \in 1 .. l : e[j] = i
        BY <2>4, <4>1
      <4> HIDE DEF d
      <4> QED
        BY <2>1, <2>6, <4>2
    <3> QED
      BY <3>1, <3>2
  <2>11. Picks(d, u, s, n, S)
    <3> HIDE DEF d
    <3> QED
      BY <2>3, <2>7, <2>8, <2>9, <2>10 DEF Picks
  <2> QED
    BY <1>1, <2>2, <2>11
<1>2. CASE s[n] \notin S
  <2>1. 1 .. n = (1 .. n - 1) \cup {n}
    BY <1>0
  <2> QED
    BY <1>2, <2>1 DEF Picks
<1> QED
  BY <1>1, <1>2

LEMMA OnlyPicks ==
  ASSUME NEW T, NEW s \in Seq(T), NEW S
  PROVE  Only(s, S) \in Seq(T) /\ \E e : Picks(e, Only(s, S), s, Len(s), S)
<1>1. PICK kept : IsKept(kept, s, Len(s), S) /\ Only(s, S) = kept[Len(s)]
  <2>1. Len(s) \in Nat
    OBVIOUS
  <2>2. \E kept : IsKept(kept, s, Len(s), S)
    BY ONLY <2>1, KeptExists
  <2> QED
    BY <2>2 DEF Only, IsKept
<1>2. PICK l \in Nat : l = Len(s)
  OBVIOUS
<1> DEFINE Good(n) == kept[n] \in Seq(T) /\ \E e : Picks(e, kept[n], s, n, S)
           Bad == {n \in 0 .. l : ~Good(n)}
<1>3. SUFFICES ASSUME Bad # {} PROVE FALSE
  BY <1>1, <1>2
<1>4. PICK n \in Bad : \A i \in Bad : n <= i
  <2>1. Bad \in SUBSET Nat
    OBVIOUS
  <2> HIDE DEF Bad
  <2> QED
    BY <1>3, <2>1, LeastIndex
<1>5. Good(0)
  <2>1. kept[0] = <<>>
    BY <1>1, <1>2 DEF IsKept
  <2>2. Picks(<<>>, <<>>, s, 0, S)
    BY DEF Picks
  <2> QED
    BY <2>1, <2>2
<1>6. n \in 1 .. l /\ n - 1 \in 0 .. l /\ ~Good(n)
  <2> HIDE DEF Good
  <2> QED
    BY <1>4, <1>5
<1>7. Good(n - 1)
  <2> HIDE DEF Good
  <2> QED
    BY <1>4, <1>6
<1>8. kept[n] = IF s[n] \in S THEN Append(kept[n - 1], s[n]) ELSE kept[n - 1]
  <2>1. n \in 0 .. l /\ n # 0
    BY <1>6
  <2> QED
    BY <1>1, <1>2, <2>1 DEF IsKept
<1>9. PICK t \in Seq(T) : t = kept[n - 1]
  BY <1>7
<1>10. PICK e : Picks(e, t, s, n - 1, S)
  BY <1>7, <1>9
<1>11. IF s[n] \in S THEN \E d : Picks(d, Append(t, s[n]), s, n, S) ELSE Picks(e, t, s, n, S)
  BY <1>2, <1>6, <1>10, PickNext
<1>12. s[n] \in T
  BY <1>2, <1>6
<1>13. Good(n)
  <2>1. CASE s[n] \in S
    BY <1>8, <1>9, <1>11, <1>12, <2>1, AppendEntries
  <2>2. CASE s[n] \notin S
    BY <1>8, <1>9, <1>11, <2>2
  <2> QED
    BY <2>1, <2>2
<1> QED
  BY <1>6, <1>13
=============================================================================
