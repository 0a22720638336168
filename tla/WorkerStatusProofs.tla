------------------------- MODULE WorkerStatusProofs -------------------------
(***************************************************************************)
(* Proofs about the status record of a worker, for every oplog.            *)
(***************************************************************************)
EXTENDS WorkerStatus, IndexLemmas, FiniteSetTheorems, TLAPS

-----------------------------------------------------------------------------
(* The loop of a calculation, from the record that covers the first a      *)
(* entries to the n-th entry.                                              *)

IsRun(after, first, a, n) ==
  after = [i \in a .. n |-> IF i = a THEN first ELSE Round(after[i - 1], i)]

LEMMA RunExists ==
  ASSUME NEW first, NEW a \in Nat, NEW n \in Nat, a <= n
  PROVE  \E after : IsRun(after, first, a, n)
<1> DEFINE Good(m) == \E after : IsRun(after, first, a, m)
           Bad == {m \in a .. n : ~Good(m)}
<1>1. SUFFICES ASSUME Bad # {} PROVE FALSE
  <2>1. n \in a .. n
    OBVIOUS
  <2> HIDE DEF Good
  <2>2. Good(n)
    BY <1>1, <2>1
  <2> QED
    BY <2>2 DEF Good
<1>2. PICK m \in Bad : \A i \in Bad : m <= i
  <2>1. Bad \in SUBSET Nat
    OBVIOUS
  <2> HIDE DEF Bad
  <2> QED
    BY <1>1, <2>1, LeastIndex
<1>3. Good(a)
  <2>1. IsRun([i \in a .. a |-> first], first, a, a)
    BY DEF IsRun
  <2> QED
    BY <2>1
<1>4. m \in Nat /\ a < m /\ m - 1 \in a .. n /\ ~Good(m)
  <2> HIDE DEF Good
  <2> QED
    BY <1>2, <1>3
<1>5. Good(m - 1)
  <2> HIDE DEF Good
  <2> QED
    BY <1>2, <1>4
<1>6. PICK k : IsRun(k, first, a, m - 1)
  BY <1>5
<1>7. PICK v : v = Round(k[m - 1], m)
  OBVIOUS
<1> DEFINE h == [i \in a .. m |-> IF i = m THEN v ELSE k[i]]
<1>8. \A i \in a .. m : h[i] = IF i = a THEN first ELSE Round(h[i - 1], i)
  <2> SUFFICES ASSUME NEW i \in a .. m
               PROVE  h[i] = IF i = a THEN first ELSE Round(h[i - 1], i)
    OBVIOUS
  <2>1. CASE i = m
    <3>1. h[i] = v /\ h[i - 1] = k[i - 1] /\ i # a
      BY <1>4, <2>1
    <3> HIDE DEF h
    <3> QED
      BY <1>7, <2>1, <3>1
  <2>2. CASE i # m
    <3>1. i \in a .. m - 1 /\ h[i] = k[i]
      BY <1>4, <2>2
    <3>2. k[i] = IF i = a THEN first ELSE Round(k[i - 1], i)
      BY <1>6, <3>1 DEF IsRun
    <3>3. i # a => h[i - 1] = k[i - 1]
      BY <1>4, <2>2
    <3> HIDE DEF h
    <3> QED
      BY <3>1, <3>2, <3>3
  <2> QED
    BY <2>1, <2>2
<1>9. h = [i \in a .. m |-> IF i = a THEN first ELSE Round(h[i - 1], i)]
  <2>1. h = [i \in a .. m |-> h[i]]
    OBVIOUS
  <2> HIDE DEF h
  <2> QED
    BY <1>8, <2>1
<1>10. IsRun(h, first, a, m)
  <2> HIDE DEF h
  <2> QED
    BY <1>9 DEF IsRun
<1> QED
  BY <1>4, <1>10

(* Its first and its other values.                                         *)
LEMMA RunSteps ==
  ASSUME NEW first, NEW a \in Nat, NEW n \in Nat, a <= n, NEW after,
         IsRun(after, first, a, n)
  PROVE  /\ after[a] = first
         /\ \A i \in a + 1 .. n : after[i] = Round(after[i - 1], i)
<1>1. a \in a .. n /\ \A i \in a + 1 .. n : i \in a .. n /\ i # a
  OBVIOUS
<1> QED
  BY <1>1 DEF IsRun

(* A shorter run is the beginning of a longer one.                         *)
LEMMA RunStart ==
  ASSUME NEW first, NEW n \in Nat, NEW m \in 0 .. n, NEW after, IsRun(after, first, 0, n)
  PROVE  /\ IsRun([i \in 0 .. m |-> after[i]], first, 0, m)
         /\ [i \in 0 .. m |-> after[i]][m] = after[m]
<1> DEFINE h == [i \in 0 .. m |-> after[i]]
<1>1. \A i \in 0 .. m : h[i] = IF i = 0 THEN first ELSE Round(h[i - 1], i)
  <2> SUFFICES ASSUME NEW i \in 0 .. m
               PROVE  h[i] = IF i = 0 THEN first ELSE Round(h[i - 1], i)
    OBVIOUS
  <2>1. i \in 0 .. n /\ h[i] = after[i]
    OBVIOUS
  <2>2. i # 0 => h[i - 1] = after[i - 1]
    OBVIOUS
  <2> HIDE DEF h
  <2> QED
    BY <2>1, <2>2 DEF IsRun
<1>2. h = [i \in 0 .. m |-> h[i]]
  OBVIOUS
<1>3. h[m] = after[m]
  OBVIOUS
<1> HIDE DEF h
<1>4. IsRun(h, first, 0, m)
  BY <1>1, <1>2 DEF IsRun
<1> QED
  BY <1>3, <1>4 DEF h

(* What a calculation returns is the end of such a run, with the override. *)
Published(r) ==
  [r EXCEPT !.override = SnapshotOverride(r.regions, r.pending_updates)]

LEMMA CalculationRuns ==
  ASSUME NEW r, r.oplog_idx \in Nat, Len(oplog) \in Nat, r.oplog_idx < Len(oplog)
  PROVE  \E after : /\ IsRun(after, Start(r), r.oplog_idx, Len(oplog))
                    /\ calculate_last_known_status(r) = Published(after[Len(oplog)])
<1>1. PICK a, n, first :
         a \in Nat /\ n \in Nat /\ a = r.oplog_idx /\ n = Len(oplog) /\ first = Start(r) /\ a < n
  OBVIOUS
<1>2. \E after : IsRun(after, first, a, n)
  <2>1. a <= n
    BY <1>1
  <2> QED
    BY <1>1, <2>1, RunExists
<1>3. PICK after : after = CHOOSE f : IsRun(f, first, a, n)
  OBVIOUS
<1>4. IsRun(after, first, a, n)
  BY <1>2, <1>3
<1>5. calculate_last_known_status(r) = Published(after[n])
  BY <1>1, <1>3 DEF calculate_last_known_status, IsRun, Published
<1> QED
  BY <1>1, <1>4, <1>5

-----------------------------------------------------------------------------
(* The oplog: what its entries hold.                                       *)

IsSeq(q) == \E E : q \in Seq(E)

TypedEntry(e, i) ==
  /\ e.kind = "Create" => i = 1 /\ e.version = 0
  /\ e.kind \in {"Invoked", "PendingInvocation"} => e.key \in Keys
  /\ e.kind = "ChangeRetryPolicy" => e.policy \in Policies
  /\ e.kind \in {"CreateResource", "DropResource", "DescribeResource"} =>
       e.id \in Resources
  /\ e.kind \in {"ActivatePlugin", "DeactivatePlugin"} => e.plugin \in Plugins
  /\ e.kind = "SuccessfulUpdate" => e.plugins \subseteq Plugins

LogOK ==
  /\ IsSeq(oplog) /\ Len(oplog) \in Nat \ {0}
  /\ \A i \in 1 .. Len(oplog) : TypedEntry(oplog[i], i)

(* An entry that can be written is a good one.                             *)
LEMMA EntryTyped ==
  ASSUME LogOK, NEW e \in NextEntries
  PROVE  /\ TypedEntry(e, Len(oplog) + 1)
         /\ e.kind \in {"SuccessfulUpdate", "FailedUpdate"} =>
              Cardinality(Upto(Len(oplog), {"PendingUpdate"}))
                > Cardinality(FinishedUpdates(Len(oplog)))
<1>0. PICK n \in Nat \ {0} : n = Len(oplog)
  BY DEF LogOK
<1> DEFINE Good == /\ TypedEntry(e, n + 1)
                   /\ e.kind \notin {"SuccessfulUpdate", "FailedUpdate"}
<1>1. CASE e \in ExternalEntries
  <2>1. Good
    BY <1>1 DEF ExternalEntries, TypedEntry
  <2> QED
    BY <1>0, <2>1
<1>2. CASE e \in GuestEntries
  <2>1. OwnedResources(Len(oplog)) \subseteq Resources
    BY DEF OwnedResources
  <2>2. Good
    BY <1>2, <2>1 DEF GuestEntries, TypedEntry
  <2> QED
    BY <1>0, <2>2
<1>3. CASE e \in [kind : {"Invoked"}, key : Keys] \cup [kind : {"Restart"}]
                  \cup [kind : {"Error"}, error : {"InvalidRequest"}]
  <2>1. Good
    BY <1>3 DEF TypedEntry
  <2> QED
    BY <1>0, <2>1
<1>4. CASE e = oplog[Len(oplog)] /\ oplog[Len(oplog)].kind = "Invoked"
  <2>1. e.key \in Keys
    BY <1>0, <1>4 DEF LogOK, TypedEntry
  <2>2. Good
    BY <1>4, <2>1 DEF TypedEntry
  <2> QED
    BY <1>0, <2>2
<1>5. CASE /\ e \in UpdateResults
           /\ Cardinality(Upto(Len(oplog), {"PendingUpdate"}))
                > Cardinality(FinishedUpdates(Len(oplog)))
  <2>1. TypedEntry(e, n + 1)
    BY <1>5 DEF UpdateResults, TypedEntry
  <2> QED
    BY <1>0, <1>5, <2>1
<1> HIDE DEF Good
<1> QED
  BY <1>1, <1>2, <1>3, <1>4, <1>5 DEF NextEntries

(* A new entry leaves the others as they are.                              *)
LEMMA EntriesKept ==
  ASSUME LogOK, NEW e, oplog' = Append(oplog, e)
  PROVE  /\ IsSeq(oplog') /\ Len(oplog') = Len(oplog) + 1
         /\ \A i \in 1 .. Len(oplog) : oplog'[i] = oplog[i]
         /\ oplog'[Len(oplog) + 1] = e
<1>1. PICK E : oplog \in Seq(E)
  BY DEF LogOK, IsSeq
<1>2. oplog \in Seq(E \cup {e})
  BY <1>1
<1>3. Append(oplog, e) \in Seq(E \cup {e})
  BY <1>2
<1>4. IsSeq(oplog')
  BY <1>3 DEF IsSeq
<1> QED
  BY <1>2, <1>4

LEMMA LogStep ==
  ASSUME LogOK, AddEntry
  PROVE  LogOK'
<1>1. PICK e \in NextEntries : oplog' = Append(oplog, e)
  BY DEF AddEntry
<1>2. /\ IsSeq(oplog') /\ Len(oplog') = Len(oplog) + 1 /\ Len(oplog) \in Nat \ {0}
      /\ \A i \in 1 .. Len(oplog) : oplog'[i] = oplog[i]
      /\ oplog'[Len(oplog) + 1] = e
  BY <1>1, EntriesKept DEF LogOK
<1>3. TypedEntry(e, Len(oplog) + 1)
  BY <1>1, EntryTyped
<1>4. \A i \in 1 .. Len(oplog') : TypedEntry(oplog'[i], i)
  <2> SUFFICES ASSUME NEW i \in 1 .. Len(oplog') PROVE TypedEntry(oplog'[i], i)
    OBVIOUS
  <2>1. i \in 1 .. Len(oplog) \/ i = Len(oplog) + 1
    BY <1>2
  <2>2. i \in 1 .. Len(oplog) => TypedEntry(oplog[i], i)
    BY DEF LogOK
  <2> QED
    BY <1>2, <1>3, <2>1, <2>2
<1>5. Len(oplog') \in Nat \ {0}
  BY <1>2
<1>6. LogOK' <=> /\ IsSeq(oplog') /\ Len(oplog') \in Nat \ {0}
                 /\ \A i \in 1 .. Len(oplog') : TypedEntry(oplog'[i], i)
  BY DEF LogOK, IsSeq, TypedEntry
<1> QED
  BY <1>2, <1>4, <1>5, <1>6

LEMMA LogKept ==
  ASSUME LogOK, [Next]_vars
  PROVE  LogOK'
<1>1. CASE AddEntry
  BY <1>1, LogStep
<1>2. CASE UpdateMetadata \/ UNCHANGED vars
  BY <1>2 DEF UpdateMetadata, vars, LogOK, IsSeq, TypedEntry
<1> QED
  BY <1>1, <1>2 DEF Next

(* Entries and rounds that a record covers do not change.                  *)
LEMMA RoundKept ==
  ASSUME LogOK, NEW e, oplog' = Append(oplog, e), NEW r, NEW i \in 1 .. Len(oplog)
  PROVE  Round(r, i)' = Round(r, i)
<1>1. oplog'[i] = oplog[i] /\ \A j \in 1 .. i : oplog'[j] = oplog[j]
  BY EntriesKept DEF LogOK
<1>2. PendingStep(r.pending_invocations, i)' = PendingStep(r.pending_invocations, i)
  <2>1. {j \in 1 .. i : ~TakesUp(oplog'[i], oplog'[j])}
          = {j \in 1 .. i : ~TakesUp(oplog[i], oplog[j])}
    BY <1>1
  <2> QED
    BY <1>1, <2>1 DEF PendingStep, TakesUp
<1>3. UpdateStep(r, i)' = UpdateStep(r, i)
  BY <1>1 DEF UpdateStep
<1>4. ResultStep(r, i)' = ResultStep(r, i)
  BY <1>1 DEF ResultStep
<1>5. ResourceStep(r.resources, i)' = ResourceStep(r.resources, i)
  BY <1>1 DEF ResourceStep
<1> QED
  BY <1>1, <1>2, <1>3, <1>4, <1>5 DEF Round

LEMMA RunKept ==
  ASSUME LogOK, NEW e, oplog' = Append(oplog, e), NEW first, NEW n \in 0 .. Len(oplog),
         NEW after
  PROVE  IsRun(after, first, 0, n)' <=> IsRun(after, first, 0, n)
<1>1. \A i \in 0 .. n : i # 0 => i \in 1 .. Len(oplog)
  BY DEF LogOK
<1>2. \A i \in 0 .. n : i # 0 => Round(after[i - 1], i)' = Round(after[i - 1], i)
  BY <1>1, RoundKept
<1> QED
  BY <1>2 DEF IsRun

-----------------------------------------------------------------------------
(* The status.                                                             *)

KnownOK ==
  /\ DOMAIN known = DOMAIN InitialStatus
  /\ known.oplog_idx \in 0 .. Len(oplog)

(* c was calculated from several pieces of the oplog, w at once.           *)
AsFarAlong(c, w) ==
  /\ c.retry = w.retry /\ c.retry \in Policies \cup {None}
  /\ c.status = w.status \/ (c.status = "Retrying" /\ w.status = "Failed")

FewerErrors(c, w) ==
  /\ AsFarAlong(c, w)
  /\ c.errors \in Nat /\ w.errors \in Nat /\ c.errors <= w.errors

StatusInv ==
  \A after : IsRun(after, Start(InitialStatus), 0, known.oplog_idx)
               => AsFarAlong(known, after[known.oplog_idx])
             /\ after[known.oplog_idx].errors \in Nat

(* One round on both sides.                                                *)
LEMMA StatusRound ==
  ASSUME LogOK, NEW i \in 1 .. Len(oplog), NEW c, NEW w, FewerErrors(c, w)
  PROVE  FewerErrors(Round(c, i), Round(w, i))
<1>1. PICK e : e = oplog[i] /\ TypedEntry(e, i)
  BY DEF LogOK
<1>2. PICK cs : cs = StatusStep(c, e)
  OBVIOUS
<1>3. PICK ws : ws = StatusStep(w, e)
  OBVIOUS
<1>4. /\ Round(c, i).errors = cs.errors /\ Round(c, i).retry = cs.retry
      /\ Round(c, i).status = cs.status
      /\ Round(w, i).errors = ws.errors /\ Round(w, i).retry = ws.retry
      /\ Round(w, i).status = ws.status
  BY <1>1, <1>2, <1>3 DEF Round
<1>5. /\ cs.errors = IF e.kind = "Error" THEN c.errors + 1 ELSE 0
      /\ ws.errors = IF e.kind = "Error" THEN w.errors + 1 ELSE 0
      /\ cs.retry = IF e.kind = "ChangeRetryPolicy" THEN e.policy ELSE c.retry
      /\ ws.retry = IF e.kind = "ChangeRetryPolicy" THEN e.policy ELSE w.retry
  BY <1>2, <1>3 DEF StatusStep
<1>6. cs.errors \in Nat /\ ws.errors \in Nat /\ cs.errors <= ws.errors
  BY <1>5 DEF FewerErrors
<1>7. cs.retry = ws.retry /\ cs.retry \in Policies \cup {None}
  BY <1>1, <1>5 DEF FewerErrors, AsFarAlong, TypedEntry
<1>8. cs.status = ws.status \/ (cs.status = "Retrying" /\ ws.status = "Failed")
  <2>0. c.status = w.status \/ (c.status = "Retrying" /\ w.status = "Failed")
    BY DEF FewerErrors, AsFarAlong
  <2>1. CASE e.kind \in DOMAIN StatusOf
    BY <1>2, <1>3, <2>1 DEF StatusStep
  <2>2. CASE e.kind \notin DOMAIN StatusOf /\ e.kind = "Error"
    <3>1. PICK p \in Nat : p = PolicyInForce(cs.retry) /\ p = PolicyInForce(ws.retry)
      BY <1>7, StatusAssumption DEF PolicyInForce
    <3>2. /\ cs.status = IF IsRetriable(p, e.error, cs.errors) THEN "Retrying" ELSE "Failed"
          /\ ws.status = IF IsRetriable(p, e.error, ws.errors) THEN "Retrying" ELSE "Failed"
      BY <1>2, <1>3, <2>2, <3>1 DEF StatusStep
    <3>3. IsRetriable(p, e.error, ws.errors) => IsRetriable(p, e.error, cs.errors)
      BY <1>6, <3>1 DEF IsRetriable
    <3> QED
      BY <3>2, <3>3
  <2>3. CASE e.kind \notin DOMAIN StatusOf /\ e.kind # "Error"
    <3>1. /\ cs.status = IF e.kind = "PendingUpdate" /\ c.status = "Failed" THEN "Retrying"
                         ELSE c.status
          /\ ws.status = IF e.kind = "PendingUpdate" /\ w.status = "Failed" THEN "Retrying"
                         ELSE w.status
      BY <1>2, <1>3, <2>3 DEF StatusStep
    <3> QED
      BY <2>0, <3>1
  <2> QED
    BY <2>1, <2>2, <2>3
<1> QED
  BY <1>4, <1>6, <1>7, <1>8 DEF FewerErrors, AsFarAlong

(* The end of two runs over the same entries.                              *)
LEMMA StatusRuns ==
  ASSUME LogOK, NEW a \in Nat, NEW n \in Nat, a <= n, n <= Len(oplog),
         NEW c, NEW first, IsRun(c, first, a, n),
         NEW w, NEW start, IsRun(w, start, 0, n),
         FewerErrors(c[a], w[a])
  PROVE  FewerErrors(c[n], w[n])
<1>1. \A i \in a + 1 .. n : c[i] = Round(c[i - 1], i)
  BY RunSteps
<1>2. \A i \in a + 1 .. n : w[i] = Round(w[i - 1], i)
  <2>1. \A i \in 0 + 1 .. n : w[i] = Round(w[i - 1], i)
    <3>1. 0 \in Nat /\ 0 <= n
      OBVIOUS
    <3> QED
      BY <3>1, RunSteps
  <2> QED
    BY <2>1
<1> DEFINE Bad == {i \in a .. n : ~FewerErrors(c[i], w[i])}
<1>3. SUFFICES ASSUME Bad # {} PROVE FALSE
  OBVIOUS
<1>4. PICK m \in Bad : \A i \in Bad : m <= i
  <2>1. Bad \in SUBSET Nat
    OBVIOUS
  <2> HIDE DEF Bad
  <2> QED
    BY <1>3, <2>1, LeastIndex
<1>5. m # a /\ m \in a + 1 .. n /\ m - 1 \in a .. n /\ ~FewerErrors(c[m], w[m])
  BY <1>4
<1>6. FewerErrors(c[m - 1], w[m - 1])
  <2>1. m - 1 \notin Bad
    <3> HIDE DEF Bad
    <3> QED
      BY <1>4, <1>5
  <2> QED
    BY <1>5, <2>1
<1>7. m \in 1 .. Len(oplog)
  BY <1>5 DEF LogOK
<1>8. FewerErrors(Round(c[m - 1], m), Round(w[m - 1], m))
  BY ONLY <1>6, <1>7, StatusRound, LogOK
<1>9. c[m] = Round(c[m - 1], m) /\ w[m] = Round(w[m - 1], m)
  BY ONLY <1>1, <1>2, <1>5
<1> QED
  BY ONLY <1>5, <1>8, <1>9

(* Starting and publishing leave the status alone.                         *)
LEMMA StartFields ==
  ASSUME NEW r, DOMAIN r = DOMAIN InitialStatus
  PROVE  /\ DOMAIN Start(r) = DOMAIN InitialStatus
         /\ Start(r).errors = 0 /\ Start(r).override = {}
         /\ Start(r).oplog_idx = r.oplog_idx
         /\ Start(r).status = r.status /\ Start(r).retry = r.retry
         /\ Start(r).regions = r.regions
         /\ Start(r).pending_invocations = r.pending_invocations
         /\ Start(r).pending_updates = r.pending_updates
         /\ Start(r).version = r.version
         /\ Start(r).results = r.results /\ Start(r).current = r.current
         /\ Start(r).memory = r.memory /\ Start(r).resources = r.resources
         /\ Start(r).plugins = r.plugins
BY DEF Start, InitialStatus

LEMMA PublishedFields ==
  ASSUME NEW x, NEW i, NEW r, r = Round(x, i)
  PROVE  /\ DOMAIN Published(r) = DOMAIN InitialStatus
         /\ Published(r).oplog_idx = i
         /\ Published(r).override = SnapshotOverride(r.regions, r.pending_updates)
         /\ Published(r).status = r.status /\ Published(r).retry = r.retry
         /\ Published(r).regions = r.regions
         /\ Published(r).pending_invocations = r.pending_invocations
         /\ Published(r).pending_updates = r.pending_updates
         /\ Published(r).version = r.version
         /\ Published(r).results = r.results /\ Published(r).current = r.current
         /\ Published(r).memory = r.memory /\ Published(r).resources = r.resources
         /\ Published(r).plugins = r.plugins
<1>1. /\ DOMAIN r = DOMAIN InitialStatus /\ r.oplog_idx = i
  BY DEF Round, InitialStatus
<1> QED
  BY <1>1 DEF Published, InitialStatus

(* A calculation that has something to do: its run, and the end of it.     *)
LEMMA CalculationEnds ==
  ASSUME LogOK, NEW r, r.oplog_idx \in 0 .. Len(oplog), r.oplog_idx # Len(oplog)
  PROVE  \E after : /\ IsRun(after, Start(r), r.oplog_idx, Len(oplog))
                    /\ calculate_last_known_status(r) = Published(after[Len(oplog)])
                    /\ after[Len(oplog)] = Round(after[Len(oplog) - 1], Len(oplog))
<1>1. r.oplog_idx \in Nat /\ Len(oplog) \in Nat /\ r.oplog_idx < Len(oplog)
      /\ r.oplog_idx <= Len(oplog)
      /\ Len(oplog) \in r.oplog_idx + 1 .. Len(oplog)
  BY DEF LogOK
<1>2. PICK after : /\ IsRun(after, Start(r), r.oplog_idx, Len(oplog))
                   /\ calculate_last_known_status(r) = Published(after[Len(oplog)])
  BY <1>1, CalculationRuns
<1>3. \A i \in r.oplog_idx + 1 .. Len(oplog) : after[i] = Round(after[i - 1], i)
  BY <1>1, <1>2, RunSteps
<1> QED
  BY <1>1, <1>2, <1>3

(* The record calculated now is as far along as a calculation at once.     *)
LEMMA CalculatedStatus ==
  ASSUME LogOK, KnownOK, StatusInv,
         NEW w, IsRun(w, Start(InitialStatus), 0, Len(oplog))
  PROVE  AsFarAlong(Current, w[Len(oplog)]) /\ w[Len(oplog)].errors \in Nat
<1>1. PICK a \in Nat, n \in Nat :
         a = known.oplog_idx /\ n = Len(oplog) /\ a \in 0 .. n /\ a <= n
  BY DEF LogOK, KnownOK
<1>2. AsFarAlong(known, w[a]) /\ w[a].errors \in Nat
  <2>1. PICK h : h = [i \in 0 .. a |-> w[i]]
    OBVIOUS
  <2>2. IsRun(h, Start(InitialStatus), 0, a) /\ h[a] = w[a]
    BY <1>1, <2>1, RunStart
  <2> QED
    BY <1>1, <2>2 DEF StatusInv
<1>3. CASE a = n
  BY <1>1, <1>2, <1>3 DEF Current, calculate_last_known_status
<1>4. CASE a # n
  <2>1. PICK c : /\ IsRun(c, Start(known), a, n)
                 /\ Current = Published(c[n])
                 /\ c[n] = Round(c[n - 1], n)
    BY <1>1, <1>4, CalculationEnds DEF KnownOK, Current
  <2>2. c[a] = Start(known)
    BY <1>1, <2>1, RunSteps
  <2>3. FewerErrors(c[a], w[a])
    <3>1. /\ c[a].errors = 0 /\ c[a].status = known.status /\ c[a].retry = known.retry
      BY <2>2, StartFields DEF KnownOK
    <3> QED
      BY <1>2, <3>1 DEF FewerErrors, AsFarAlong
  <2>4. FewerErrors(c[n], w[n])
    <3>1. n <= Len(oplog)
      BY <1>1
    <3>2. IsRun(w, Start(InitialStatus), 0, n)
      BY <1>1
    <3> QED
      BY <1>1, <2>1, <2>3, <3>1, <3>2, StatusRuns
  <2>5. Published(c[n]).status = c[n].status /\ Published(c[n]).retry = c[n].retry
    BY <2>1, PublishedFields
  <2> QED
    BY <1>1, <2>1, <2>4, <2>5 DEF FewerErrors, AsFarAlong
<1> QED
  BY <1>3, <1>4

LEMMA KnownStep ==
  ASSUME LogOK, KnownOK, [Next]_vars
  PROVE  KnownOK'
<1>1. CASE AddEntry
  <2>1. known' = known /\ Len(oplog') = Len(oplog) + 1 /\ Len(oplog) \in Nat
    BY <1>1, EntriesKept DEF AddEntry, LogOK
  <2> QED
    BY <2>1 DEF KnownOK, LogOK, InitialStatus
<1>2. CASE UpdateMetadata
  <2>1. oplog' = oplog /\ known' = calculate_last_known_status(known)
    BY <1>2 DEF UpdateMetadata
  <2>2. CASE known.oplog_idx = Len(oplog)
    BY <2>1, <2>2 DEF KnownOK, calculate_last_known_status
  <2>3. CASE known.oplog_idx # Len(oplog)
    <3>1. PICK c : /\ known' = Published(c[Len(oplog)])
                   /\ c[Len(oplog)] = Round(c[Len(oplog) - 1], Len(oplog))
      BY <2>1, <2>3, CalculationEnds DEF KnownOK
    <3>2. DOMAIN known' = DOMAIN InitialStatus /\ known'.oplog_idx = Len(oplog)
      BY <3>1, PublishedFields
    <3> QED
      BY <2>1, <3>2 DEF KnownOK, LogOK
  <2> QED
    BY <2>2, <2>3
<1>3. CASE UNCHANGED vars
  BY <1>3 DEF KnownOK, vars
<1> QED
  BY <1>1, <1>2, <1>3 DEF Next

LEMMA StatusStepKept ==
  ASSUME LogOK, KnownOK, StatusInv, [Next]_vars
  PROVE  StatusInv'
<1>1. CASE AddEntry
  <2>1. PICK e : oplog' = Append(oplog, e) /\ known' = known
    BY <1>1 DEF AddEntry
  <2>2. PICK n : n = known.oplog_idx /\ n \in 0 .. Len(oplog)
    BY DEF KnownOK
  <2>3. ASSUME NEW w, IsRun(w, Start(InitialStatus), 0, n)'
        PROVE  AsFarAlong(known, w[n]) /\ w[n].errors \in Nat
    <3>1. IsRun(w, Start(InitialStatus), 0, n)
      BY <2>1, <2>2, <2>3, RunKept
    <3> QED
      BY <2>2, <3>1 DEF StatusInv
  <2> QED
    BY <2>1, <2>2, <2>3 DEF StatusInv, AsFarAlong
<1>2. CASE UpdateMetadata
  <2>1. oplog' = oplog /\ known' = calculate_last_known_status(known)
    BY <1>2 DEF UpdateMetadata
  <2>2. CASE known.oplog_idx = Len(oplog)
    <3>1. known' = known
      BY <2>1, <2>2 DEF calculate_last_known_status
    <3>2. \A w, n : IsRun(w, Start(InitialStatus), 0, n)' = IsRun(w, Start(InitialStatus), 0, n)
      BY <2>1 DEF IsRun, Round, PendingStep, UpdateStep, ResultStep, ResourceStep
    <3> QED
      BY <3>1, <3>2 DEF StatusInv, AsFarAlong
  <2>3. CASE known.oplog_idx # Len(oplog)
    <3>1. known'.oplog_idx = Len(oplog)
      <4>1. PICK c : /\ known' = Published(c[Len(oplog)])
                     /\ c[Len(oplog)] = Round(c[Len(oplog) - 1], Len(oplog))
        BY <2>1, <2>3, CalculationEnds DEF KnownOK
      <4> QED
        BY <4>1, PublishedFields
    <3>2. \A w, n : IsRun(w, Start(InitialStatus), 0, n)' = IsRun(w, Start(InitialStatus), 0, n)
      BY <2>1 DEF IsRun, Round, PendingStep, UpdateStep, ResultStep, ResourceStep
    <3>3. ASSUME NEW w, IsRun(w, Start(InitialStatus), 0, Len(oplog))
          PROVE  AsFarAlong(known', w[Len(oplog)]) /\ w[Len(oplog)].errors \in Nat
      BY <2>1, <3>3, CalculatedStatus DEF Current
    <3> QED
      BY <3>1, <3>2, <3>3 DEF StatusInv, AsFarAlong
  <2> QED
    BY <2>2, <2>3
<1>3. CASE UNCHANGED vars
  <2>1. oplog' = oplog /\ known' = known
    BY <1>3 DEF vars
  <2>2. \A w, n : IsRun(w, Start(InitialStatus), 0, n)' = IsRun(w, Start(InitialStatus), 0, n)
    BY <2>1 DEF IsRun, Round, PendingStep, UpdateStep, ResultStep, ResourceStep
  <2> QED
    BY <2>1, <2>2 DEF StatusInv, AsFarAlong
<1> QED
  BY <1>1, <1>2, <1>3 DEF Next

LEMMA StatusInit ==
  ASSUME Init
  PROVE  LogOK /\ KnownOK /\ StatusInv
<1>1. LogOK
  <2>1. oplog \in Seq({[kind |-> "Create", version |-> 0]}) /\ Len(oplog) = 1
        /\ oplog[1] = [kind |-> "Create", version |-> 0]
    BY DEF Init
  <2>2. \A i \in 1 .. 1 : TypedEntry(oplog[i], i)
    BY <2>1 DEF TypedEntry
  <2>3. IsSeq(oplog)
    BY <2>1 DEF IsSeq
  <2> QED
    BY <2>1, <2>2, <2>3 DEF LogOK
<1>2. KnownOK
  BY <1>1 DEF Init, KnownOK, InitialStatus, LogOK
<1>3. ASSUME NEW w, IsRun(w, Start(InitialStatus), 0, 0)
      PROVE  AsFarAlong(InitialStatus, w[0]) /\ w[0].errors \in Nat
  <2>1. w[0] = Start(InitialStatus)
    BY <1>3 DEF IsRun
  <2>2. Start(InitialStatus).errors = 0 /\ Start(InitialStatus).status = InitialStatus.status
        /\ Start(InitialStatus).retry = InitialStatus.retry
    BY StartFields
  <2>3. InitialStatus.retry = None
    BY DEF InitialStatus
  <2> QED
    BY <2>1, <2>2, <2>3 DEF AsFarAlong
<1>4. known = InitialStatus /\ known.oplog_idx = 0
  BY DEF Init, InitialStatus
<1> QED
  BY <1>1, <1>2, <1>3, <1>4 DEF StatusInv

(* Wherever the oplog was cut, the status calculated from a cached record  *)
(* is the one calculated from the whole oplog, but for a worker out of     *)
(* retries that is taken for one that is retrying (worker.rs               *)
(* calculate_latest_worker_status).                                        *)
THEOREM StatusIsFromOplog == Spec => []StatusFromOplog
<1> DEFINE Inv == LogOK /\ KnownOK /\ StatusInv
<1>1. Init => Inv
  BY StatusInit
<1>2. Inv /\ [Next]_vars => Inv'
  <2> SUFFICES ASSUME Inv, [Next]_vars PROVE Inv'
    OBVIOUS
  <2>1. LogOK'
    BY LogKept
  <2>2. KnownOK' /\ StatusInv'
    BY KnownStep, StatusStepKept
  <2> QED
    BY <2>1, <2>2
<1>3. Inv => StatusFromOplog
  <2> SUFFICES ASSUME Inv PROVE StatusFromOplog
    OBVIOUS
  <2>1. InitialStatus.oplog_idx = 0 /\ InitialStatus.oplog_idx \in 0 .. Len(oplog)
        /\ InitialStatus.oplog_idx # Len(oplog)
    BY DEF InitialStatus, LogOK
  <2>2. PICK w : /\ IsRun(w, Start(InitialStatus), 0, Len(oplog))
                 /\ calculate_last_known_status(InitialStatus) = Published(w[Len(oplog)])
                 /\ w[Len(oplog)] = Round(w[Len(oplog) - 1], Len(oplog))
    BY <2>1, CalculationEnds
  <2>3. calculate_last_known_status(InitialStatus).status = w[Len(oplog)].status
    BY <2>2, PublishedFields
  <2>4. AsFarAlong(Current, w[Len(oplog)])
    BY <2>2, CalculatedStatus
  <2> QED
    BY <2>3, <2>4 DEF StatusFromOplog, AsFarAlong
<1> QED
  BY <1>1, <1>2, <1>3, PTL DEF Spec

-----------------------------------------------------------------------------
(* The other fields: a round takes what the first n - 1 entries say to     *)
(* what the first n say, field by field.                                   *)

(* The greatest of some indexes.                                           *)
LEMMA MaxIs ==
  ASSUME NEW S \in SUBSET Nat, NEW m \in S, \A i \in S : i <= m
  PROVE  Max(S) = m
<1>1. Top(S) = m
  BY TopIs
<1> QED
  BY <1>1 DEF Max, Top

LEMMA MaxIn ==
  ASSUME NEW n \in Nat, NEW S \in SUBSET (1 .. n), S # {}
  PROVE  Max(S) \in S /\ \A i \in S : i <= Max(S)
<1>1. S \in SUBSET Nat /\ \A i \in S : i <= n
  OBVIOUS
<1>2. PICK m \in S : \A i \in S : i <= m
  BY <1>1, GreatestIndex
<1>3. Max(S) = m
  BY <1>1, <1>2, MaxIs
<1> QED
  BY <1>2, <1>3

LEMMA UptoNext ==
  ASSUME NEW n \in Nat \ {0}, NEW K
  PROVE  /\ Upto(n, K) = IF oplog[n].kind \in K THEN Upto(n - 1, K) \cup {n}
                         ELSE Upto(n - 1, K)
         /\ Upto(n - 1, K) \in SUBSET (1 .. n - 1) /\ Upto(n, K) \in SUBSET (1 .. n)
         /\ n - 1 \in Nat
<1>1. 1 .. n = (1 .. n - 1) \cup {n} /\ n - 1 \in Nat
  OBVIOUS
<1> QED
  BY <1>1 DEF Upto

LEMMA UptoFinite ==
  ASSUME NEW n \in Nat, NEW K
  PROVE  IsFiniteSet(Upto(n, K)) /\ Cardinality(Upto(n, K)) \in Nat
         /\ Upto(n, K) \in SUBSET (1 .. n)
<1>1. IsFiniteSet(1 .. n)
  BY FS_Interval
<1>2. Upto(n, K) \in SUBSET (1 .. n)
  BY DEF Upto
<1>3. IsFiniteSet(Upto(n, K))
  BY <1>1, <1>2, FS_Subset
<1> QED
  BY <1>2, <1>3, FS_CardinalityType

(* Lists with one more index, and with some of their indexes.              *)
IndexList(q, S) == q \in Seq(Nat) /\ Lists(q, S)

LEMMA ListsMore ==
  ASSUME NEW q, NEW S, IndexList(q, S), NEW n \in Nat, \A i \in S : i < n
  PROVE  IndexList(Append(q, n), S \cup {n})
<1>1. q \in Seq(Nat) /\ Len(q) \in Nat /\ DOMAIN q = 1 .. Len(q)
  BY DEF IndexList
<1>2. PICK t : t = Append(q, n)
  OBVIOUS
<1>3. /\ t \in Seq(Nat) /\ Len(t) = Len(q) + 1 /\ DOMAIN t = (1 .. Len(q)) \cup {Len(q) + 1}
      /\ \A i \in 1 .. Len(q) : t[i] = q[i]
      /\ t[Len(q) + 1] = n
  BY <1>1, <1>2
<1>4. \A i \in 1 .. Len(q) : q[i] \in S /\ q[i] < n /\ i < Len(q) + 1
  BY <1>1 DEF IndexList, Lists
<1>5. \A i, j \in DOMAIN t : i < j => t[i] < t[j]
  BY <1>1, <1>3, <1>4 DEF IndexList, Lists
<1>6. S \cup {n} = {t[i] : i \in DOMAIN t}
  BY <1>1, <1>3 DEF IndexList, Lists
<1> QED
  BY <1>2, <1>3, <1>5, <1>6 DEF IndexList, Lists

LEMMA ListsSome ==
  ASSUME NEW q, NEW S, IndexList(q, S), NEW R
  PROVE  IndexList(Only(q, R), S \cap R)
<1>1. q \in Seq(Nat) /\ Len(q) \in Nat /\ DOMAIN q = 1 .. Len(q)
  BY DEF IndexList
<1>2. PICK t \in Seq(Nat) : t = Only(q, R)
  BY <1>1, OnlyPicks
<1>3. PICK e : Picks(e, t, q, Len(q), R)
  BY <1>1, <1>2, OnlyPicks
<1>4. Len(t) \in Nat /\ DOMAIN t = 1 .. Len(t)
  OBVIOUS
<1>5. ASSUME NEW i \in 1 .. Len(t), NEW j \in 1 .. Len(t), i < j PROVE t[i] < t[j]
  <2>1. e[i] < e[j] /\ e[i] \in 1 .. Len(q) /\ e[j] \in 1 .. Len(q)
        /\ t[i] = q[e[i]] /\ t[j] = q[e[j]]
    BY <1>3, <1>5 DEF Picks
  <2> QED
    BY <1>1, <2>1 DEF IndexList, Lists
<1>6. S \cap R = {t[i] : i \in 1 .. Len(t)}
  <2>1. \A i \in 1 .. Len(t) : t[i] \in S /\ t[i] \in R
    BY <1>1, <1>3 DEF Picks, IndexList, Lists
  <2>2. ASSUME NEW x \in S \cap R PROVE \E i \in 1 .. Len(t) : x = t[i]
    <3>1. PICK n \in 1 .. Len(q) : x = q[n]
      BY <1>1 DEF IndexList, Lists
    <3>2. PICK i \in 1 .. Len(t) : e[i] = n
      BY <1>3, <3>1 DEF Picks
    <3> QED
      BY <1>3, <3>1, <3>2 DEF Picks
  <2> QED
    BY <2>1, <2>2
<1> QED
  BY <1>2, <1>4, <1>5, <1>6 DEF IndexList, Lists

(* The queue.                                                              *)
LEMMA PendingRound ==
  ASSUME LogOK, NEW n \in 1 .. Len(oplog), NEW r,
         IndexList(r.pending_invocations, WaitingRequests(n - 1))
  PROVE  IndexList(Round(r, n).pending_invocations, WaitingRequests(n))
<1> DEFINE K == {"PendingInvocation", "PendingManualUpdate"}
<1>0. n \in Nat \ {0} /\ Round(r, n).pending_invocations = PendingStep(r.pending_invocations, n)
  BY DEF LogOK, Round
<1>1. /\ Upto(n, K) = IF oplog[n].kind \in K THEN Upto(n - 1, K) \cup {n} ELSE Upto(n - 1, K)
      /\ Upto(n - 1, K) \in SUBSET (1 .. n - 1)
  BY <1>0, UptoNext
<1>2. \A i \in 1 .. n - 1 : i .. n = (i .. n - 1) \cup {n} /\ i < n /\ i \in 1 .. n /\ i # n
  BY <1>0
<1>3. CASE oplog[n].kind \in K
  <2>1. \A i : ~TakesUp(oplog[n], oplog[i])
    BY <1>3 DEF TakesUp
  <2>2. n .. n = {n}
    BY <1>0
  <2>3. WaitingRequests(n) = WaitingRequests(n - 1) \cup {n}
    <3>1. WaitingRequests(n) = {i \in Upto(n - 1, K) \cup {n} :
                                  \A j \in i .. n : ~TakesUp(oplog[j], oplog[i])}
      BY <1>1, <1>3 DEF WaitingRequests
    <3>2. WaitingRequests(n - 1) = {i \in Upto(n - 1, K) :
                                  \A j \in i .. n - 1 : ~TakesUp(oplog[j], oplog[i])}
      BY DEF WaitingRequests
    <3> HIDE DEF K
    <3> QED
      BY <1>1, <1>2, <2>1, <2>2, <3>1, <3>2
  <2>4. \A i \in WaitingRequests(n - 1) : i < n
    BY <1>1, <1>2 DEF WaitingRequests
  <2>5. IndexList(Append(r.pending_invocations, n), WaitingRequests(n - 1) \cup {n})
    BY <1>0, <2>4, ListsMore
  <2>6. PendingStep(r.pending_invocations, n) = Append(r.pending_invocations, n)
    BY <1>3 DEF PendingStep
  <2> QED
    BY <1>0, <2>3, <2>5, <2>6
<1>4. CASE oplog[n].kind \notin K
  <2> DEFINE R == {j \in 1 .. n : ~TakesUp(oplog[n], oplog[j])}
  <2>1. WaitingRequests(n) = WaitingRequests(n - 1) \cap R
    <3>1. WaitingRequests(n) = {i \in Upto(n - 1, K) :
                                  \A j \in i .. n : ~TakesUp(oplog[j], oplog[i])}
      BY <1>1, <1>4 DEF WaitingRequests
    <3>2. WaitingRequests(n - 1) = {i \in Upto(n - 1, K) :
                                  \A j \in i .. n - 1 : ~TakesUp(oplog[j], oplog[i])}
      BY DEF WaitingRequests
    <3> HIDE DEF K
    <3> QED
      BY <1>1, <1>2, <3>1, <3>2
  <2>2. IndexList(Only(r.pending_invocations, R), WaitingRequests(n - 1) \cap R)
    BY ListsSome
  <2>3. PendingStep(r.pending_invocations, n) = Only(r.pending_invocations, R)
    BY <1>4 DEF PendingStep
  <2> HIDE DEF R
  <2> QED
    BY <1>0, <2>1, <2>2, <2>3
<1> QED
  BY <1>3, <1>4

LEMMA UptoCount ==
  ASSUME NEW n \in Nat \ {0}, NEW K
  PROVE  Cardinality(Upto(n, K)) = IF oplog[n].kind \in K THEN Cardinality(Upto(n - 1, K)) + 1
                                   ELSE Cardinality(Upto(n - 1, K))
<1>1. Upto(n, K) = IF oplog[n].kind \in K THEN Upto(n - 1, K) \cup {n} ELSE Upto(n - 1, K)
  BY UptoNext
<1>2. IsFiniteSet(Upto(n - 1, K)) /\ n \notin Upto(n - 1, K)
  <2>1. n - 1 \in Nat /\ n \notin 1 .. n - 1
    OBVIOUS
  <2> QED
    BY <2>1, UptoFinite
<1>3. Cardinality(Upto(n - 1, K) \cup {n}) = Cardinality(Upto(n - 1, K)) + 1
  BY <1>2, FS_AddElement
<1> QED
  BY <1>1, <1>3

LEMMA MaxNext ==
  ASSUME NEW n \in Nat \ {0}, NEW S \in SUBSET (1 .. n - 1)
  PROVE  Max(S \cup {n}) = n
<1>1. S \cup {n} \in SUBSET Nat /\ n \in S \cup {n} /\ \A i \in S \cup {n} : i <= n
  OBVIOUS
<1> QED
  BY <1>1, MaxIs

(* Memory and regions.                                                     *)
LEMMA MemoryRound ==
  ASSUME LogOK, NEW n \in 1 .. Len(oplog), NEW r,
         r.memory = Cardinality(Upto(n - 1, {"GrowMemory"}))
  PROVE  Round(r, n).memory = Cardinality(Upto(n, {"GrowMemory"}))
<1>1. n \in Nat \ {0} /\ Round(r, n).memory = MemoryStep(r.memory, oplog[n])
  BY DEF LogOK, Round
<1>2. Cardinality(Upto(n, {"GrowMemory"}))
        = IF oplog[n].kind \in {"GrowMemory"} THEN Cardinality(Upto(n - 1, {"GrowMemory"})) + 1
          ELSE Cardinality(Upto(n - 1, {"GrowMemory"}))
  BY <1>1, UptoCount
<1> QED
  BY <1>1, <1>2 DEF MemoryStep

LEMMA RegionsRound ==
  ASSUME LogOK, NEW n \in 1 .. Len(oplog), NEW r, r.regions = JumpedOver(n - 1)
  PROVE  Round(r, n).regions = JumpedOver(n)
<1>1. n \in Nat \ {0} /\ Round(r, n).regions = RegionStep(r.regions, oplog[n])
  BY DEF LogOK, Round
<1>2. Upto(n, {"Jump"}) = IF oplog[n].kind \in {"Jump"} THEN Upto(n - 1, {"Jump"}) \cup {n}
                          ELSE Upto(n - 1, {"Jump"})
  BY <1>1, UptoNext
<1>3. CASE oplog[n].kind = "Jump"
  <2>1. PICK U : U = Upto(n - 1, {"Jump"}) /\ Upto(n, {"Jump"}) = U \cup {n}
    BY <1>2, <1>3
  <2>2. JumpedOver(n - 1) = UNION {oplog[i].start .. oplog[i].end : i \in U}
        /\ JumpedOver(n) = UNION {oplog[i].start .. oplog[i].end : i \in U \cup {n}}
    BY <2>1 DEF JumpedOver
  <2>3. UNION {oplog[i].start .. oplog[i].end : i \in U \cup {n}}
          = (UNION {oplog[i].start .. oplog[i].end : i \in U})
              \cup (oplog[n].start .. oplog[n].end)
    OBVIOUS
  <2> QED
    BY <1>1, <1>3, <2>2, <2>3 DEF RegionStep
<1>4. CASE oplog[n].kind # "Jump"
  BY <1>1, <1>2, <1>4 DEF RegionStep, JumpedOver
<1> QED
  BY <1>3, <1>4

(* The last successful update and the version.                             *)
LEMMA LastUpdateNext ==
  ASSUME NEW n \in Nat \ {0}
  PROVE  LastUpdate(n) = IF oplog[n].kind = "SuccessfulUpdate" THEN n ELSE LastUpdate(n - 1)
<1> DEFINE U == Upto(n - 1, {"SuccessfulUpdate"})
<1>1. /\ Upto(n, {"SuccessfulUpdate"})
           = IF oplog[n].kind \in {"SuccessfulUpdate"} THEN U \cup {n} ELSE U
      /\ U \in SUBSET (1 .. n - 1)
  BY UptoNext
<1>2. Max(U \cup {n}) = n
  BY <1>1, MaxNext
<1> QED
  BY <1>1, <1>2 DEF LastUpdate

LEMMA LastUpdateIn ==
  ASSUME NEW n \in Nat
  PROVE  /\ LastUpdate(n) \in 0 .. n
         /\ LastUpdate(n) # 0 => LastUpdate(n) \in Upto(n, {"SuccessfulUpdate"})
<1> DEFINE U == Upto(n, {"SuccessfulUpdate"})
<1>1. U \in SUBSET (1 .. n)
  BY UptoFinite
<1>2. U # {} => Max(U) \in U
  BY <1>1, MaxIn
<1>3. LastUpdate(n) = IF U = {} THEN 0 ELSE Max(U)
  BY DEF LastUpdate
<1> HIDE DEF U
<1>4. LastUpdate(n) \in 0 .. n /\ (LastUpdate(n) # 0 => LastUpdate(n) \in U)
  <2>1. CASE U = {}
    BY <1>3, <2>1
  <2>2. CASE U # {}
    <3>1. LastUpdate(n) \in U
      BY <1>2, <1>3, <2>2
    <3>2. LastUpdate(n) \in 1 .. n
      BY <1>1, <3>1
    <3> QED
      BY <3>1, <3>2
  <2> QED
    BY <2>1, <2>2
<1> QED
  BY <1>4 DEF U

VersionOf(n) == IF LastUpdate(n) = 0 THEN 0 ELSE oplog[LastUpdate(n)].version

LEMMA VersionRound ==
  ASSUME LogOK, NEW n \in 1 .. Len(oplog), NEW r, r.version = VersionOf(n - 1)
  PROVE  Round(r, n).version = VersionOf(n)
<1>1. /\ n \in Nat \ {0} /\ TypedEntry(oplog[n], n)
      /\ Round(r, n).version = UpdateStep(r, n).version
  BY DEF LogOK, Round
<1>2. UpdateStep(r, n).version = IF oplog[n].kind \in {"Create", "SuccessfulUpdate"}
                                 THEN oplog[n].version ELSE r.version
  BY DEF UpdateStep
<1>3. LastUpdate(n) = IF oplog[n].kind = "SuccessfulUpdate" THEN n ELSE LastUpdate(n - 1)
  BY <1>1, LastUpdateNext
<1>4. CASE oplog[n].kind = "SuccessfulUpdate"
  BY <1>1, <1>2, <1>3, <1>4 DEF VersionOf
<1>5. CASE oplog[n].kind = "Create"
  <2>1. n = 1 /\ oplog[n].version = 0
    BY <1>1, <1>5 DEF TypedEntry
  <2>2. LastUpdate(n - 1) = 0
    BY <2>1, LastUpdateIn
  <2> QED
    BY <1>1, <1>2, <1>3, <1>5, <2>1, <2>2 DEF VersionOf
<1>6. CASE oplog[n].kind \notin {"Create", "SuccessfulUpdate"}
  BY <1>1, <1>2, <1>3, <1>6 DEF VersionOf
<1> QED
  BY <1>4, <1>5, <1>6

(* The results.                                                            *)
LEMMA InvocationNext ==
  ASSUME LogOK, NEW n \in 1 .. Len(oplog)
  PROVE  /\ InInvocation(n) <=> (\/ oplog[n].kind = "Invoked"
                                 \/ oplog[n].kind # "Completed" /\ InInvocation(n - 1))
         /\ InInvocation(n) => InvokedKey(n) = IF oplog[n].kind = "Invoked" THEN oplog[n].key
                                               ELSE InvokedKey(n - 1)
<1> DEFINE U == Upto(n - 1, {"Invoked"})
           C == Upto(n - 1, {"Completed"})
<1>0. n \in Nat \ {0} /\ n - 1 \in Nat
  BY DEF LogOK
<1>1. /\ Upto(n, {"Invoked"}) = IF oplog[n].kind \in {"Invoked"} THEN U \cup {n} ELSE U
      /\ U \in SUBSET (1 .. n - 1)
  BY <1>0, UptoNext
<1>2. /\ Upto(n, {"Completed"}) = IF oplog[n].kind \in {"Completed"} THEN C \cup {n} ELSE C
      /\ C \in SUBSET (1 .. n - 1)
  BY <1>0, UptoNext
<1>3. InInvocation(n - 1) = (U # {} /\ \A i \in C : i < Max(U))
  BY DEF InInvocation
<1>4. InvokedKey(n - 1) = oplog[Max(U)].key
  BY DEF InvokedKey
<1>5. CASE oplog[n].kind = "Invoked"
  <2>1. Upto(n, {"Invoked"}) = U \cup {n} /\ Upto(n, {"Completed"}) = C /\ Max(U \cup {n}) = n
    BY <1>0, <1>1, <1>2, <1>5, MaxNext
  <2>2. \A i \in C : i < n
    BY <1>0, <1>2
  <2> HIDE DEF U, C
  <2>3. InInvocation(n) /\ InvokedKey(n) = oplog[n].key
    BY <2>1, <2>2 DEF InInvocation, InvokedKey
  <2> QED
    BY ONLY <1>5, <2>3
<1>6. CASE oplog[n].kind = "Completed"
  <2>1. Upto(n, {"Invoked"}) = U /\ Upto(n, {"Completed"}) = C \cup {n}
    BY <1>1, <1>2, <1>6
  <2>2. U # {} => Max(U) \in U
    BY <1>0, <1>1, MaxIn
  <2> HIDE DEF U, C
  <2>3. U # {} => ~(n < Max(U))
    <3>1. \A m \in U : ~(n < m)
      BY <1>0, <1>1
    <3> QED
      BY <2>2, <3>1
  <2>4. ~InInvocation(n)
    BY <2>1, <2>3 DEF InInvocation
  <2> QED
    BY ONLY <1>6, <2>4
<1>7. CASE oplog[n].kind \notin {"Invoked", "Completed"}
  <2>1. Upto(n, {"Invoked"}) = U /\ Upto(n, {"Completed"}) = C
    BY <1>1, <1>2, <1>7
  <2>2. InInvocation(n) = InInvocation(n - 1) /\ InvokedKey(n) = InvokedKey(n - 1)
    BY <2>1 DEF InInvocation, InvokedKey
  <2> QED
    BY ONLY <1>7, <2>2
<1> QED
  BY <1>5, <1>6, <1>7

EndKinds == {"Completed", "Error", "Exited"}

LEMMA EndsNext ==
  ASSUME LogOK, NEW n \in 1 .. Len(oplog), NEW k
  PROVE  /\ EndsOf(k, n) = IF /\ oplog[n].kind \in EndKinds
                              /\ InInvocation(n - 1) /\ InvokedKey(n - 1) = k
                           THEN EndsOf(k, n - 1) \cup {n} ELSE EndsOf(k, n - 1)
         /\ EndsOf(k, n - 1) \in SUBSET (1 .. n - 1)
<1>0. n \in Nat \ {0}
  BY DEF LogOK
<1>1. /\ Upto(n, EndKinds) = IF oplog[n].kind \in EndKinds
                             THEN Upto(n - 1, EndKinds) \cup {n} ELSE Upto(n - 1, EndKinds)
      /\ Upto(n - 1, EndKinds) \in SUBSET (1 .. n - 1)
  BY <1>0, UptoNext
<1>2. \A m : EndsOf(k, m) = {i \in Upto(m, EndKinds) :
                               InInvocation(i - 1) /\ InvokedKey(i - 1) = k}
  BY DEF EndsOf, EndKinds
<1>3. \A i \in 1 .. n - 1 : i # n
  BY <1>0
<1> QED
  BY <1>1, <1>2, <1>3

ResultsOf(r, n) ==
  /\ DOMAIN r.results = {k \in Keys : EndsOf(k, n) # {}}
  /\ \A k \in DOMAIN r.results : r.results[k] = Max(EndsOf(k, n))
  /\ r.current = IF InInvocation(n) THEN InvokedKey(n) ELSE None
  /\ InInvocation(n) => InvokedKey(n) \in Keys

LEMMA ResultsRound ==
  ASSUME LogOK, NEW n \in 1 .. Len(oplog), NEW r, ResultsOf(r, n - 1)
  PROVE  ResultsOf(Round(r, n), n)
<1>0. PICK s : s = ResultStep(r, n) /\ Round(r, n).results = s.results
                /\ Round(r, n).current = s.current
  BY DEF Round
<1>1. /\ s.results = IF oplog[n].kind \in EndKinds /\ r.current # None
                     THEN Put(r.results, r.current, n) ELSE r.results
      /\ s.current = IF oplog[n].kind = "Invoked" THEN oplog[n].key
                     ELSE IF oplog[n].kind = "Completed" THEN None ELSE r.current
  BY <1>0 DEF ResultStep, EndKinds
<1>2. /\ InInvocation(n) <=> (\/ oplog[n].kind = "Invoked"
                              \/ oplog[n].kind # "Completed" /\ InInvocation(n - 1))
      /\ InInvocation(n) => InvokedKey(n) = IF oplog[n].kind = "Invoked" THEN oplog[n].key
                                            ELSE InvokedKey(n - 1)
  BY InvocationNext
<1>3. oplog[n].kind = "Invoked" => oplog[n].key \in Keys
  BY DEF LogOK, TypedEntry
<1>4. /\ s.current = IF InInvocation(n) THEN InvokedKey(n) ELSE None
      /\ InInvocation(n) => InvokedKey(n) \in Keys
  BY <1>1, <1>2, <1>3 DEF ResultsOf
<1>5. None \notin Keys
  BY StatusAssumption
<1>6. /\ DOMAIN s.results = {k \in Keys : EndsOf(k, n) # {}}
      /\ \A k \in DOMAIN s.results : s.results[k] = Max(EndsOf(k, n))
  <2>0. n \in Nat \ {0}
    BY DEF LogOK
  <2>1. CASE oplog[n].kind \in EndKinds /\ InInvocation(n - 1)
    <3>1. PICK c \in Keys : c = r.current /\ c = InvokedKey(n - 1)
      BY <2>1 DEF ResultsOf
    <3>2. s.results = Put(r.results, c, n)
      BY <1>1, <1>5, <2>1, <3>1
    <3>3. EndsOf(c, n) = EndsOf(c, n - 1) \cup {n} /\ EndsOf(c, n - 1) \in SUBSET (1 .. n - 1)
      BY <2>1, <3>1, EndsNext
    <3>4. Max(EndsOf(c, n)) = n /\ EndsOf(c, n) # {}
      BY <2>0, <3>3, MaxNext
    <3>5. \A k : k # c => EndsOf(k, n) = EndsOf(k, n - 1)
      BY <3>1, EndsNext
    <3>6. /\ DOMAIN s.results = DOMAIN r.results \cup {c}
          /\ \A k \in DOMAIN r.results \cup {c} :
               s.results[k] = IF k = c THEN n ELSE r.results[k]
      BY <3>2 DEF Put
    <3> QED
      BY <3>4, <3>5, <3>6 DEF ResultsOf
  <2>2. CASE ~(oplog[n].kind \in EndKinds /\ InInvocation(n - 1))
    <3>1. s.results = r.results
      BY <1>1, <2>2 DEF ResultsOf
    <3>2. \A k : EndsOf(k, n) = EndsOf(k, n - 1)
      BY <2>2, EndsNext
    <3> QED
      BY <3>1, <3>2 DEF ResultsOf
  <2> QED
    BY <2>1, <2>2
<1> QED
  BY <1>0, <1>4, <1>6 DEF ResultsOf

(* The plugins.                                                            *)
LEMMA PluginsRound ==
  ASSUME LogOK, NEW n \in 1 .. Len(oplog), NEW r, r.plugins = ActivePlugins(n - 1)
  PROVE  Round(r, n).plugins = ActivePlugins(n)
<1>0. PICK e : e = oplog[n] /\ TypedEntry(e, n) /\ Round(r, n).plugins = PluginStep(r.plugins, e)
               /\ n \in Nat \ {0} /\ n - 1 \in Nat
  BY DEF LogOK, Round
<1>1. PICK A : /\ A = Upto(n - 1, {"ActivatePlugin"}) /\ A \in SUBSET (1 .. n - 1)
               /\ Upto(n, {"ActivatePlugin"})
                    = IF e.kind = "ActivatePlugin" THEN A \cup {n} ELSE A
  BY <1>0, UptoNext
<1>2. PICK D : /\ D = Upto(n - 1, {"DeactivatePlugin"}) /\ D \in SUBSET (1 .. n - 1)
               /\ Upto(n, {"DeactivatePlugin"})
                    = IF e.kind = "DeactivatePlugin" THEN D \cup {n} ELSE D
  BY <1>0, UptoNext
<1>3. PICK l \in 0 .. n - 1 : /\ l = LastUpdate(n - 1)
                              /\ LastUpdate(n) = IF e.kind = "SuccessfulUpdate" THEN n ELSE l
  BY <1>0, LastUpdateIn, LastUpdateNext
<1> DEFINE Kept(p, i) == \A d \in D : d > i => oplog[d].plugin # p
<1>4. \A p : p \in ActivePlugins(n - 1) <=>
               /\ p \in Plugins
               /\ \/ \E i \in A : i > l /\ oplog[i].plugin = p /\ Kept(p, i)
                  \/ l # 0 /\ p \in oplog[l].plugins /\ Kept(p, l)
  BY <1>1, <1>2, <1>3 DEF ActivePlugins, NotDeactivated
<1>5. \A i \in 1 .. n - 1 : i < n /\ ~(i > n) /\ n > i /\ i # n
  BY <1>0
<1>6. \A p : Kept(p, n)
  BY <1>2, <1>5
<1>a. CASE e.kind = "ActivatePlugin"
  <2>1. \A p : p \in ActivePlugins(n) <=>
               /\ p \in Plugins
               /\ \/ \E i \in A \cup {n} : i > l /\ oplog[i].plugin = p /\ Kept(p, i)
                  \/ l # 0 /\ p \in oplog[l].plugins /\ Kept(p, l)
    BY <1>1, <1>2, <1>3, <1>a DEF ActivePlugins, NotDeactivated
  <2>2. PluginStep(r.plugins, e) = r.plugins \cup {e.plugin} /\ e.plugin \in Plugins
    BY <1>0, <1>a DEF PluginStep, TypedEntry
  <2>3. n > l /\ oplog[n] = e
    BY <1>0, <1>3
  <2> HIDE DEF Kept
  <2>4. \A p : p \in ActivePlugins(n) <=> p \in ActivePlugins(n - 1) \cup {e.plugin}
    BY ONLY <1>4, <1>6, <2>1, <2>2, <2>3
  <2> QED
    BY <1>0, <2>2, <2>4
<1>b. CASE e.kind = "DeactivatePlugin"
  <2>1. \A p : p \in ActivePlugins(n) <=>
               /\ p \in Plugins
               /\ \/ \E i \in A : /\ i > l /\ oplog[i].plugin = p
                                  /\ \A d \in D \cup {n} : d > i => oplog[d].plugin # p
                  \/ /\ l # 0 /\ p \in oplog[l].plugins
                     /\ \A d \in D \cup {n} : d > l => oplog[d].plugin # p
    BY <1>1, <1>2, <1>3, <1>b DEF ActivePlugins, NotDeactivated
  <2>2. PluginStep(r.plugins, e) = r.plugins \ {e.plugin}
    BY <1>0, <1>b DEF PluginStep
  <2>3. n > l /\ oplog[n] = e /\ \A i \in A : n > i
    BY <1>0, <1>1, <1>3
  <2>4. \A p, i : n > i => ((\A d \in D \cup {n} : d > i => oplog[d].plugin # p)
                              <=> Kept(p, i) /\ e.plugin # p)
    BY <2>3
  <2> HIDE DEF Kept
  <2>5. \A p : p \in ActivePlugins(n) <=> p \in ActivePlugins(n - 1) \ {e.plugin}
    BY ONLY <1>4, <2>1, <2>3, <2>4
  <2> QED
    BY <1>0, <2>2, <2>5
<1>c. CASE e.kind = "SuccessfulUpdate"
  <2>1. \A p : p \in ActivePlugins(n) <=>
               /\ p \in Plugins
               /\ \/ \E i \in A : i > n /\ oplog[i].plugin = p /\ Kept(p, i)
                  \/ n # 0 /\ p \in oplog[n].plugins /\ Kept(p, n)
    BY <1>1, <1>2, <1>3, <1>c DEF ActivePlugins, NotDeactivated
  <2>2. PluginStep(r.plugins, e) = e.plugins /\ e.plugins \subseteq Plugins
    BY <1>0, <1>c DEF PluginStep, TypedEntry
  <2>3. n # 0 /\ oplog[n] = e /\ \A i \in A : ~(i > n)
    BY <1>0, <1>1, <1>5
  <2> HIDE DEF Kept
  <2>4. \A p : p \in ActivePlugins(n) <=> p \in e.plugins
    BY ONLY <1>6, <2>1, <2>2, <2>3
  <2>5. ActivePlugins(n) = e.plugins
    <3>1. ActivePlugins(n) \subseteq Plugins
      BY DEF ActivePlugins
    <3> QED
      BY <2>2, <2>4, <3>1
  <2> QED
    BY <1>0, <2>2, <2>5
<1>d. CASE e.kind \notin {"ActivatePlugin", "DeactivatePlugin", "SuccessfulUpdate"}
  <2>1. PluginStep(r.plugins, e) = r.plugins
    BY <1>d DEF PluginStep
  <2>2. ActivePlugins(n) = ActivePlugins(n - 1)
    BY <1>1, <1>2, <1>3, <1>d DEF ActivePlugins, NotDeactivated
  <2> QED
    BY <1>0, <2>1, <2>2
<1> QED
  BY <1>a, <1>b, <1>c, <1>d

(* The resources.                                                          *)
ResourcesOf(r, n) ==
  /\ DOMAIN r.resources = OwnedResources(n)
  /\ \A x \in OwnedResources(n) : r.resources[x] = DescriptionOf(x, n)

Description(x, C, T) ==
  [created_at |-> Max(C), described |-> \E i \in T : oplog[i].id = x /\ i > Max(C)]

LEMMA DescriptionFrom ==
  ASSUME NEW x, NEW n
  PROVE  DescriptionOf(x, n)
           = Description(x, CreationsOf(x, n), Upto(n, {"DescribeResource"}))
BY Zenon DEF DescriptionOf, Description

LEMMA DescriptionSame ==
  ASSUME NEW x, NEW n, NEW m, CreationsOf(x, n) = CreationsOf(x, m),
         Upto(n, {"DescribeResource"}) = Upto(m, {"DescribeResource"})
  PROVE  DescriptionOf(x, n) = DescriptionOf(x, m)
BY DescriptionFrom

LEMMA ResourcesRound ==
  ASSUME LogOK, NEW n \in 1 .. Len(oplog), NEW r, ResourcesOf(r, n - 1)
  PROVE  ResourcesOf(Round(r, n), n)
<1>0. PICK e, s : /\ e = oplog[n] /\ TypedEntry(e, n) /\ s = ResourceStep(r.resources, n)
                  /\ Round(r, n).resources = s /\ n \in Nat \ {0} /\ n - 1 \in Nat
  BY DEF LogOK, Round
<1>1. \A x : /\ CreationsOf(x, n) = IF e.kind = "CreateResource" /\ e.id = x
                                    THEN CreationsOf(x, n - 1) \cup {n}
                                    ELSE CreationsOf(x, n - 1)
             /\ CreationsOf(x, n - 1) \in SUBSET (1 .. n - 1)
  <2>1. PICK A : /\ A = Upto(n - 1, {"CreateResource"}) /\ A \in SUBSET (1 .. n - 1)
                 /\ Upto(n, {"CreateResource"})
                      = IF e.kind = "CreateResource" THEN A \cup {n} ELSE A
    BY <1>0, UptoNext
  <2>2. \A i \in A : i # n
    BY <1>0, <2>1
  <2> QED
    BY <1>0, <2>1, <2>2 DEF CreationsOf
<1>2. PICK D : /\ D = Upto(n - 1, {"DropResource"}) /\ D \in SUBSET (1 .. n - 1)
               /\ Upto(n, {"DropResource"}) = IF e.kind = "DropResource" THEN D \cup {n} ELSE D
  BY <1>0, UptoNext
<1>3. PICK T : /\ T = Upto(n - 1, {"DescribeResource"}) /\ T \in SUBSET (1 .. n - 1)
               /\ Upto(n, {"DescribeResource"})
                    = IF e.kind = "DescribeResource" THEN T \cup {n} ELSE T
  BY <1>0, UptoNext
<1>4. \A i \in 1 .. n - 1 : i < n /\ ~(i > n) /\ ~(n < i) /\ n > i /\ i # n
  BY <1>0
<1>5. \A x : CreationsOf(x, n - 1) # {} => Max(CreationsOf(x, n - 1)) \in 1 .. n - 1
  <2> SUFFICES ASSUME NEW x, CreationsOf(x, n - 1) # {}
               PROVE  Max(CreationsOf(x, n - 1)) \in 1 .. n - 1
    OBVIOUS
  <2>1. Max(CreationsOf(x, n - 1)) \in CreationsOf(x, n - 1)
    BY <1>0, <1>1, MaxIn
  <2> QED
    BY <1>1, <2>1
<1> DEFINE Owned(x) == /\ CreationsOf(x, n - 1) # {}
                       /\ \A j \in D : oplog[j].id = x => j < Max(CreationsOf(x, n - 1))
<1>6. \A x : x \in OwnedResources(n - 1) <=> x \in Resources /\ Owned(x)
  BY <1>2 DEF OwnedResources
<1>7. \A x : DescriptionOf(x, n - 1)
               = [created_at |-> Max(CreationsOf(x, n - 1)),
                  described |-> \E i \in T : oplog[i].id = x /\ i > Max(CreationsOf(x, n - 1))]
  BY <1>3 DEF DescriptionOf
<1>a. CASE e.kind = "CreateResource"
  <2>0. PICK y \in Resources : y = e.id
    BY <1>0, <1>a DEF TypedEntry
  <2>1. s = Put(r.resources, y, [created_at |-> n, described |-> FALSE])
    BY <1>0, <1>a, <2>0 DEF ResourceStep
  <2>2. Upto(n, {"DropResource"}) = D /\ Upto(n, {"DescribeResource"}) = T
    BY <1>2, <1>3, <1>a
  <2>3. CreationsOf(y, n) = CreationsOf(y, n - 1) \cup {n} /\ Max(CreationsOf(y, n)) = n
    BY <1>0, <1>1, <1>a, <2>0, MaxNext
  <2>4. \A x : x # y => CreationsOf(x, n) = CreationsOf(x, n - 1)
    BY <1>1, <2>0
  <2>5. \A x : x # y => /\ x \in OwnedResources(n) <=> x \in OwnedResources(n - 1)
                        /\ DescriptionOf(x, n) = DescriptionOf(x, n - 1)
    <3>1. \A x : x # y => (x \in OwnedResources(n) <=> x \in OwnedResources(n - 1))
      BY <1>2, <2>2, <2>4 DEF OwnedResources
    <3>2. \A x : x # y => DescriptionOf(x, n) = DescriptionOf(x, n - 1)
      BY <1>3, <2>2, <2>4, DescriptionSame
    <3> QED
      BY <3>1, <3>2
  <2>6. y \in OwnedResources(n)
    BY <1>2, <1>4, <2>2, <2>3 DEF OwnedResources
  <2>7. DescriptionOf(y, n) = [created_at |-> n, described |-> FALSE]
    <3>1. ~ \E i \in T : oplog[i].id = y /\ i > n
      BY <1>3, <1>4
    <3>2. DescriptionOf(y, n) = [created_at |-> n,
                                 described |-> \E i \in T : oplog[i].id = y /\ i > n]
      BY <2>2, <2>3 DEF DescriptionOf
    <3> QED
      BY <3>1, <3>2
  <2>8. /\ DOMAIN s = DOMAIN r.resources \cup {y}
        /\ \A x \in DOMAIN s : s[x] = IF x = y THEN [created_at |-> n, described |-> FALSE]
                                      ELSE r.resources[x]
    BY <2>1 DEF Put
  <2> QED
    BY <1>0, <2>5, <2>6, <2>7, <2>8 DEF ResourcesOf
<1>b. CASE e.kind = "DropResource"
  <2>0. PICK y : y = e.id
    OBVIOUS
  <2>1. s = [x \in DOMAIN r.resources \ {y} |-> r.resources[x]]
    BY <1>0, <1>b, <2>0 DEF ResourceStep
  <2>2. Upto(n, {"DropResource"}) = D \cup {n} /\ Upto(n, {"DescribeResource"}) = T
    BY <1>2, <1>3, <1>b
  <2>3. \A x : CreationsOf(x, n) = CreationsOf(x, n - 1)
    BY <1>1, <1>b
  <2>4. \A x : x # y => (x \in OwnedResources(n) <=> x \in OwnedResources(n - 1))
    BY <1>0, <1>2, <2>0, <2>2, <2>3 DEF OwnedResources
  <2>5. \A x : DescriptionOf(x, n) = DescriptionOf(x, n - 1)
    BY <1>3, <2>2, <2>3, DescriptionSame
  <2>6. y \notin OwnedResources(n)
    BY <1>0, <1>4, <1>5, <2>0, <2>2, <2>3 DEF OwnedResources
  <2> QED
    BY <1>0, <2>1, <2>4, <2>5, <2>6 DEF ResourcesOf
<1>c. CASE e.kind = "DescribeResource"
  <2>0. PICK y : y = e.id
    OBVIOUS
  <2>2. Upto(n, {"DropResource"}) = D /\ Upto(n, {"DescribeResource"}) = T \cup {n}
    BY <1>2, <1>3, <1>c
  <2>3. \A x : CreationsOf(x, n) = CreationsOf(x, n - 1)
    BY <1>1, <1>c
  <2>4. OwnedResources(n) = OwnedResources(n - 1)
    BY <1>2, <2>2, <2>3 DEF OwnedResources
  <2>5. \A x : x # y => DescriptionOf(x, n) = DescriptionOf(x, n - 1)
    <3>1. \A x : x # y => ((\E i \in T \cup {n} : oplog[i].id = x
                                                 /\ i > Max(CreationsOf(x, n - 1)))
                             = \E i \in T : oplog[i].id = x /\ i > Max(CreationsOf(x, n - 1)))
      BY <1>0, <2>0
    <3> QED
      BY <1>7, <2>2, <2>3, <3>1 DEF DescriptionOf
  <2>6. CASE y \in DOMAIN r.resources
    <3>1. s = Put(r.resources, y, [created_at |-> r.resources[y].created_at,
                                   described |-> TRUE])
      BY <1>0, <1>c, <2>0, <2>6 DEF ResourceStep
    <3>2. r.resources[y].created_at = Max(CreationsOf(y, n - 1))
      <4>1. r.resources[y] = DescriptionOf(y, n - 1)
        BY <2>6 DEF ResourcesOf
      <4>2. DescriptionOf(y, n - 1).created_at = Max(CreationsOf(y, n - 1))
        BY Zenon DEF DescriptionOf
      <4> QED
        BY <4>1, <4>2
    <3>3. n > Max(CreationsOf(y, n - 1))
      <4>1. CreationsOf(y, n - 1) # {}
        BY <1>6, <2>6 DEF ResourcesOf
      <4> QED
        BY <1>4, <1>5, <4>1
    <3>4. DescriptionOf(y, n) = [created_at |-> Max(CreationsOf(y, n - 1)), described |-> TRUE]
      <4>1. \E i \in T \cup {n} : oplog[i].id = y /\ i > Max(CreationsOf(y, n - 1))
        BY <1>0, <2>0, <3>3
      <4>2. DescriptionOf(y, n) = Description(y, CreationsOf(y, n - 1), T \cup {n})
        BY <2>2, <2>3, DescriptionFrom
      <4> QED
        BY <4>1, <4>2 DEF Description
    <3>5. PICK d : d = [created_at |-> Max(CreationsOf(y, n - 1)), described |-> TRUE]
      OBVIOUS
    <3>6. /\ DOMAIN s = DOMAIN r.resources
          /\ \A x \in DOMAIN s : s[x] = IF x = y THEN d ELSE r.resources[x]
      BY <2>6, <3>1, <3>2, <3>5 DEF Put
    <3> QED
      BY <1>0, <2>4, <2>5, <3>4, <3>5, <3>6 DEF ResourcesOf
  <2>7. CASE y \notin DOMAIN r.resources
    <3>1. s = r.resources
      BY <1>0, <1>c, <2>0, <2>7 DEF ResourceStep
    <3> QED
      BY <1>0, <2>4, <2>5, <2>7, <3>1 DEF ResourcesOf
  <2> QED
    BY <2>6, <2>7
<1>d. CASE e.kind \notin {"CreateResource", "DropResource", "DescribeResource"}
  <2>1. s = r.resources
    BY <1>0, <1>d DEF ResourceStep
  <2>2. Upto(n, {"DropResource"}) = D /\ Upto(n, {"DescribeResource"}) = T
    BY <1>2, <1>3, <1>d
  <2>3. \A x : CreationsOf(x, n) = CreationsOf(x, n - 1)
    BY <1>1, <1>d
  <2>4. OwnedResources(n) = OwnedResources(n - 1)
    BY <1>2, <2>2, <2>3 DEF OwnedResources
  <2>5. \A x : DescriptionOf(x, n) = DescriptionOf(x, n - 1)
    BY <1>3, <2>2, <2>3, DescriptionSame
  <2> QED
    BY <1>0, <2>1, <2>4, <2>5 DEF ResourcesOf
<1> QED
  BY <1>a, <1>b, <1>c, <1>d

(* The updates.  The rank of an update is its place among all of them: the *)
(* j-th of the list comes j places after those that have finished.         *)
Updates == {"PendingUpdate"}

UpdatesInTurn ==
  \A n \in 0 .. Len(oplog) :
    Cardinality(FinishedUpdates(n)) <= Cardinality(Upto(n, Updates))

UpdatesOf(r, n) ==
  LET q == r.pending_updates
      finished == Cardinality(FinishedUpdates(n))
  IN  /\ q \in Seq(Nat)
      /\ Len(q) + finished = Cardinality(Upto(n, Updates))
      /\ \A j \in 1 .. Len(q) : /\ q[j] \in Upto(n, Updates)
                                /\ Cardinality(Upto(q[j], Updates)) = finished + j

LEMMA RankGrows ==
  ASSUME NEW K, NEW i \in Nat, NEW j \in Nat
  PROVE  /\ Cardinality(Upto(i, K)) \in Nat /\ Cardinality(Upto(j, K)) \in Nat
         /\ i <= j => Cardinality(Upto(i, K)) <= Cardinality(Upto(j, K))
         /\ i < j /\ oplog[j].kind \in K => Cardinality(Upto(i, K)) < Cardinality(Upto(j, K))
<1>1. \A m \in Nat : IsFiniteSet(Upto(m, K)) /\ Cardinality(Upto(m, K)) \in Nat
  BY UptoFinite
<1>2. ASSUME NEW m \in Nat, i <= m PROVE Cardinality(Upto(i, K)) <= Cardinality(Upto(m, K))
  <2>1. Upto(i, K) \subseteq Upto(m, K)
    BY <1>2 DEF Upto
  <2> QED
    BY <1>1, <2>1, FS_Subset
<1>3. ASSUME i < j, oplog[j].kind \in K
      PROVE  Cardinality(Upto(i, K)) < Cardinality(Upto(j, K))
  <2>1. j \in Nat \ {0} /\ j - 1 \in Nat /\ i <= j - 1
    BY <1>3
  <2>2. Cardinality(Upto(i, K)) <= Cardinality(Upto(j - 1, K))
    BY <1>2, <2>1
  <2>3. Cardinality(Upto(j, K)) = Cardinality(Upto(j - 1, K)) + 1
    BY <1>3, <2>1, UptoCount
  <2> QED
    BY <1>1, <2>1, <2>2, <2>3
<1> QED
  BY <1>1, <1>2, <1>3

(* Such a list has the waiting updates.                                    *)
LEMMA UpdatesListed ==
  ASSUME NEW n \in Nat, NEW r, UpdatesOf(r, n)
  PROVE  Lists(r.pending_updates, WaitingUpdates(n))
<1> DEFINE rank(i) == Cardinality(Upto(i, Updates))
<1>1. PICK q, f :
         /\ q \in Seq(Nat) /\ q = r.pending_updates /\ f = Cardinality(FinishedUpdates(n))
         /\ Len(q) + f = rank(n)
         /\ \A j \in 1 .. Len(q) : q[j] \in Upto(n, Updates) /\ rank(q[j]) = f + j
  BY DEF UpdatesOf
<1>2. f \in Nat /\ Len(q) \in Nat /\ DOMAIN q = 1 .. Len(q)
  BY <1>1, UptoFinite DEF FinishedUpdates
<1>3. \A i \in Upto(n, Updates) : i \in 1 .. n /\ i \in Nat /\ oplog[i].kind \in Updates
  BY DEF Upto
<1>4. \A i, j \in Nat : /\ rank(i) \in Nat /\ rank(j) \in Nat
                        /\ i <= j => rank(i) <= rank(j)
                        /\ i < j /\ oplog[j].kind \in Updates => rank(i) < rank(j)
  BY RankGrows
<1>5. WaitingUpdates(n) = {i \in Upto(n, Updates) : rank(i) > f}
  BY <1>1 DEF WaitingUpdates, Updates
<1> HIDE DEF rank
<1>6. ASSUME NEW i \in 1 .. Len(q), NEW j \in 1 .. Len(q), i < j PROVE q[i] < q[j]
  <2>1. q[i] \in Nat /\ q[j] \in Nat /\ rank(q[i]) = f + i /\ rank(q[j]) = f + j
    BY <1>1
  <2>2. rank(q[i]) < rank(q[j])
    BY <1>2, <1>6, <2>1
  <2>3. q[j] <= q[i] => rank(q[j]) <= rank(q[i]) /\ rank(q[i]) \in Nat /\ rank(q[j]) \in Nat
    BY <1>4, <2>1
  <2> QED
    BY <2>1, <2>2, <2>3
<1>7. ASSUME NEW i \in 1 .. Len(q) PROVE q[i] \in WaitingUpdates(n)
  <2>1. rank(q[i]) > f
    BY <1>1, <1>2
  <2> QED
    BY <1>1, <1>5, <2>1
<1>8. ASSUME NEW x \in WaitingUpdates(n) PROVE \E i \in 1 .. Len(q) : x = q[i]
  <2>1. x \in Upto(n, Updates) /\ rank(x) > f /\ x \in Nat /\ x <= n
        /\ oplog[x].kind \in Updates
    BY <1>3, <1>5
  <2>2. rank(x) \in Nat /\ rank(x) <= rank(n)
    BY <1>4, <2>1
  <2>3. PICK j \in 1 .. Len(q) : f + j = rank(x)
    <3>1. rank(x) - f \in 1 .. Len(q) /\ f + (rank(x) - f) = rank(x)
      BY <1>1, <1>2, <2>1, <2>2
    <3> QED
      BY <3>1
  <2>4. q[j] \in Nat /\ oplog[q[j]].kind \in Updates /\ rank(q[j]) = rank(x)
    BY <1>1, <1>3, <2>3
  <2>5. ~(q[j] < x) /\ ~(x < q[j])
    <3>1. PICK u \in Nat : u = q[j] /\ oplog[u].kind \in Updates /\ rank(u) = rank(x)
      BY <2>4
    <3>2. (u < x => rank(u) < rank(x)) /\ (x < u => rank(x) < rank(u))
      BY <1>4, <2>1, <3>1
    <3> QED
      BY <2>2, <3>1, <3>2
  <2> QED
    BY <2>1, <2>4, <2>5
<1> QED
  BY <1>1, <1>2, <1>6, <1>7, <1>8 DEF Lists

LEMMA UpdatesRound ==
  ASSUME LogOK, UpdatesInTurn, NEW n \in 1 .. Len(oplog), NEW r, UpdatesOf(r, n - 1)
  PROVE  UpdatesOf(Round(r, n), n)
<1> DEFINE rank(i) == Cardinality(Upto(i, Updates))
<1>0. n \in Nat \ {0} /\ n - 1 \in Nat /\ n \in 0 .. Len(oplog)
  BY DEF LogOK
<1>1. PICK q, f :
         /\ q \in Seq(Nat) /\ q = r.pending_updates /\ f = Cardinality(FinishedUpdates(n - 1))
         /\ Len(q) + f = rank(n - 1)
         /\ \A j \in 1 .. Len(q) : q[j] \in Upto(n - 1, Updates) /\ rank(q[j]) = f + j
  BY DEF UpdatesOf
<1>2. f \in Nat /\ Len(q) \in Nat
  BY <1>0, <1>1, UptoFinite DEF FinishedUpdates
<1>3. PICK t : /\ t = Round(r, n).pending_updates
               /\ t = IF oplog[n].kind = "PendingUpdate" THEN Append(q, n)
                      ELSE IF oplog[n].kind \in {"FailedUpdate", "SuccessfulUpdate"}
                      THEN IF q = <<>> THEN <<>> ELSE Tail(q)
                      ELSE q
  BY <1>1 DEF Round, UpdateStep
<1>4. rank(n) = IF oplog[n].kind = "PendingUpdate" THEN rank(n - 1) + 1 ELSE rank(n - 1)
  BY <1>0, UptoCount DEF Updates
<1>5. Cardinality(FinishedUpdates(n))
        = IF oplog[n].kind \in {"FailedUpdate", "SuccessfulUpdate"} THEN f + 1 ELSE f
  BY <1>0, <1>1, UptoCount DEF FinishedUpdates
<1>6. Upto(n, Updates) = IF oplog[n].kind = "PendingUpdate" THEN Upto(n - 1, Updates) \cup {n}
                         ELSE Upto(n - 1, Updates)
  BY <1>0, UptoNext DEF Updates
<1>7. Cardinality(FinishedUpdates(n)) <= rank(n)
  BY <1>0 DEF UpdatesInTurn
<1> HIDE DEF rank
<1>8. PICK g : /\ g = Cardinality(FinishedUpdates(n)) /\ t \in Seq(Nat) /\ Len(t) + g = rank(n)
               /\ \A j \in 1 .. Len(t) : t[j] \in Upto(n, Updates) /\ rank(t[j]) = g + j
  <2>1. CASE oplog[n].kind = "PendingUpdate"
    <3>1. t = Append(q, n) /\ Cardinality(FinishedUpdates(n)) = f /\ rank(n) = rank(n - 1) + 1
          /\ Upto(n, Updates) = Upto(n - 1, Updates) \cup {n}
      BY <1>3, <1>4, <1>5, <1>6, <2>1
    <3>2. t \in Seq(Nat) /\ Len(t) = Len(q) + 1 /\ t[Len(q) + 1] = n
          /\ \A j \in 1 .. Len(q) : t[j] = q[j]
      BY <1>0, <1>1, <3>1
    <3>3. Len(t) + f = rank(n) /\ rank(n) = f + (Len(q) + 1)
      BY <1>1, <1>2, <3>1, <3>2
    <3>4. ASSUME NEW j \in 1 .. Len(t) PROVE t[j] \in Upto(n, Updates) /\ rank(t[j]) = f + j
      <4>1. j \in 1 .. Len(q) \/ j = Len(q) + 1
        BY <1>2, <3>2
      <4> QED
        BY <1>1, <3>1, <3>2, <3>3, <4>1
    <3> QED
      BY <3>1, <3>2, <3>3, <3>4
  <2>2. CASE oplog[n].kind \in {"FailedUpdate", "SuccessfulUpdate"}
    <3>1. Cardinality(FinishedUpdates(n)) = f + 1 /\ rank(n) = rank(n - 1)
          /\ Upto(n, Updates) = Upto(n - 1, Updates)
      BY <1>4, <1>5, <1>6, <2>2
    <3>2. Len(q) # 0 /\ q # <<>> /\ rank(n) = Len(q) + f
      BY <1>1, <1>2, <1>7, <3>1
    <3>3. t = Tail(q)
      BY <1>3, <2>2, <3>2
    <3>4. t \in Seq(Nat) /\ Len(t) = Len(q) - 1
          /\ \A j \in 1 .. Len(t) : j + 1 \in 1 .. Len(q) /\ t[j] = q[j + 1]
      BY <1>1, <3>2, <3>3
    <3>5. Len(t) + (f + 1) = rank(n)
      BY <1>2, <3>2, <3>4
    <3>6. \A j \in 1 .. Len(t) : t[j] \in Upto(n, Updates) /\ rank(t[j]) = (f + 1) + j
      <4> SUFFICES ASSUME NEW j \in 1 .. Len(t)
                   PROVE  t[j] \in Upto(n, Updates) /\ rank(t[j]) = (f + 1) + j
        OBVIOUS
      <4>1. t[j] = q[j + 1] /\ q[j + 1] \in Upto(n, Updates) /\ rank(q[j + 1]) = f + (j + 1)
        BY <1>1, <3>1, <3>4
      <4> QED
        BY <1>2, <4>1
    <3> QED
      BY <3>1, <3>4, <3>5, <3>6
  <2>3. CASE oplog[n].kind \notin {"PendingUpdate", "FailedUpdate", "SuccessfulUpdate"}
    BY <1>1, <1>3, <1>4, <1>5, <1>6, <2>3
  <2> QED
    BY <2>1, <2>2, <2>3
<1> QED
  BY <1>3, <1>8 DEF UpdatesOf, rank

(* While the first of them starts from a snapshot, the override is what is *)
(* skipped for it.                                                         *)
LEMMA OverrideIs ==
  ASSUME NEW n \in Nat, NEW r, UpdatesOf(r, n), r.regions = JumpedOver(n)
  PROVE  SnapshotOverride(r.regions, r.pending_updates) = SkippedFor(n)
<1>1. PICK q \in Seq(Nat) : q = r.pending_updates
  BY DEF UpdatesOf
<1>2. PICK W : W = WaitingUpdates(n)
  OBVIOUS
<1>3. Lists(q, W)
  BY <1>1, <1>2, UpdatesListed
<1>4. Len(q) \in Nat /\ DOMAIN q = 1 .. Len(q)
  BY <1>1
<1>5. CASE q = <<>>
  <2>1. W = {}
    BY <1>3, <1>5 DEF Lists
  <2> QED
    BY <1>1, <1>2, <1>5, <2>1 DEF SnapshotOverride, SkippedFor
<1>6. CASE q # <<>>
  <2>1. 1 \in 1 .. Len(q) /\ \A i \in 1 .. Len(q) : i # 1 => 1 < i
    BY <1>4, <1>6
  <2>2. PICK u \in Nat : u = q[1]
    BY <1>1, <2>1
  <2>3. W \in SUBSET Nat /\ u \in W /\ \A x \in W : u <= x
    BY <1>1, <1>3, <1>4, <2>1, <2>2 DEF Lists
  <2>4. Min(W) = u
    <3>1. \A x \in W : (\A y \in W : x <= y) <=> x = u
      BY <2>3
    <3> QED
      BY <2>3, <3>1 DEF Min
  <2>5. W # {}
    BY <2>3
  <2> QED
    BY <1>1, <1>2, <1>6, <2>2, <2>4, <2>5 DEF SnapshotOverride, SkippedFor
<1> QED
  BY <1>5, <1>6

-----------------------------------------------------------------------------
(* All of them, over a whole calculation.                                  *)

FieldsOf(r, n) ==
  /\ IndexList(r.pending_invocations, WaitingRequests(n))
  /\ ResultsOf(r, n)
  /\ r.regions = JumpedOver(n)
  /\ UpdatesOf(r, n)
  /\ r.memory = Cardinality(Upto(n, {"GrowMemory"}))
  /\ ResourcesOf(r, n)
  /\ r.plugins = ActivePlugins(n)
  /\ r.version = VersionOf(n)

RecordInv ==
  /\ FieldsOf(known, known.oplog_idx)
  /\ known.override = SkippedFor(known.oplog_idx)

LEMMA FieldsRound ==
  ASSUME LogOK, UpdatesInTurn, NEW n \in 1 .. Len(oplog), NEW r, FieldsOf(r, n - 1)
  PROVE  FieldsOf(Round(r, n), n)
<1>1. /\ IndexList(r.pending_invocations, WaitingRequests(n - 1)) /\ ResultsOf(r, n - 1)
      /\ r.regions = JumpedOver(n - 1) /\ UpdatesOf(r, n - 1)
      /\ r.memory = Cardinality(Upto(n - 1, {"GrowMemory"})) /\ ResourcesOf(r, n - 1)
      /\ r.plugins = ActivePlugins(n - 1) /\ r.version = VersionOf(n - 1)
  BY DEF FieldsOf
<1>2. PICK s : s = Round(r, n)
  OBVIOUS
<1>3. IndexList(s.pending_invocations, WaitingRequests(n)) /\ ResultsOf(s, n)
  BY <1>1, <1>2, PendingRound, ResultsRound
<1>4. s.regions = JumpedOver(n) /\ UpdatesOf(s, n)
  BY <1>1, <1>2, RegionsRound, UpdatesRound
<1>5. s.memory = Cardinality(Upto(n, {"GrowMemory"})) /\ ResourcesOf(s, n)
  BY <1>1, <1>2, MemoryRound, ResourcesRound
<1>6. s.plugins = ActivePlugins(n) /\ s.version = VersionOf(n)
  BY <1>1, <1>2, PluginsRound, VersionRound
<1> QED
  BY <1>2, <1>3, <1>4, <1>5, <1>6 DEF FieldsOf

LEMMA FieldsRun ==
  ASSUME LogOK, UpdatesInTurn, NEW a \in Nat, NEW n \in Nat, a <= n, n <= Len(oplog),
         NEW c, NEW first, IsRun(c, first, a, n), FieldsOf(c[a], a)
  PROVE  FieldsOf(c[n], n)
<1>1. \A i \in a + 1 .. n : c[i] = Round(c[i - 1], i)
  BY RunSteps
<1> DEFINE Bad == {i \in a .. n : ~FieldsOf(c[i], i)}
<1>2. SUFFICES ASSUME Bad # {} PROVE FALSE
  OBVIOUS
<1>3. PICK m \in Bad : \A i \in Bad : m <= i
  <2>1. Bad \in SUBSET Nat
    OBVIOUS
  <2> HIDE DEF Bad
  <2> QED
    BY <1>2, <2>1, LeastIndex
<1>4. m # a /\ m \in a + 1 .. n /\ m - 1 \in a .. n /\ ~FieldsOf(c[m], m)
  BY <1>3
<1>5. FieldsOf(c[m - 1], m - 1)
  <2>1. m - 1 \notin Bad
    <3> HIDE DEF Bad
    <3> QED
      BY <1>3, <1>4
  <2> QED
    BY <1>4, <2>1
<1>6. m \in 1 .. Len(oplog)
  BY <1>4 DEF LogOK
<1>7. FieldsOf(Round(c[m - 1], m), m)
  BY ONLY <1>5, <1>6, FieldsRound, LogOK, UpdatesInTurn
<1>8. c[m] = Round(c[m - 1], m)
  BY ONLY <1>1, <1>4
<1> QED
  BY ONLY <1>4, <1>7, <1>8

(* Starting and publishing leave these fields alone.                       *)
LEMMA FieldsSame ==
  ASSUME NEW r, NEW s, NEW n,
         s.pending_invocations = r.pending_invocations,
         s.results = r.results, s.current = r.current,
         s.regions = r.regions, s.pending_updates = r.pending_updates,
         s.memory = r.memory, s.resources = r.resources,
         s.plugins = r.plugins, s.version = r.version,
         FieldsOf(r, n)
  PROVE  FieldsOf(s, n)
<1>1. ResultsOf(r, n) => ResultsOf(s, n)
  BY DEF ResultsOf
<1>2. UpdatesOf(r, n) => UpdatesOf(s, n)
  BY DEF UpdatesOf
<1>3. ResourcesOf(r, n) => ResourcesOf(s, n)
  BY DEF ResourcesOf
<1> QED
  BY <1>1, <1>2, <1>3 DEF FieldsOf

LEMMA CalculatedRecord ==
  ASSUME LogOK, UpdatesInTurn, KnownOK, RecordInv
  PROVE  FieldsOf(Current, Len(oplog)) /\ Current.override = SkippedFor(Len(oplog))
<1>1. PICK a \in Nat, n \in Nat :
         a = known.oplog_idx /\ n = Len(oplog) /\ a \in 0 .. n /\ a <= n
  BY DEF LogOK, KnownOK
<1>2. CASE a = n
  BY <1>1, <1>2 DEF Current, calculate_last_known_status, RecordInv
<1>3. CASE a # n
  <2>1. PICK c : /\ IsRun(c, Start(known), a, n)
                 /\ Current = Published(c[n])
                 /\ c[n] = Round(c[n - 1], n)
    BY <1>1, <1>3, CalculationEnds DEF KnownOK, Current
  <2>2. c[a] = Start(known)
    BY <1>1, <2>1, RunSteps
  <2>3. FieldsOf(c[a], a)
    <3>1. PICK s, k : s = Start(known) /\ k = known
      OBVIOUS
    <3>2. /\ s.pending_invocations = k.pending_invocations
          /\ s.results = k.results /\ s.current = k.current
          /\ s.regions = k.regions /\ s.pending_updates = k.pending_updates
          /\ s.memory = k.memory /\ s.resources = k.resources
          /\ s.plugins = k.plugins /\ s.version = k.version
      BY <3>1, StartFields DEF KnownOK
    <3>3. FieldsOf(k, a)
      BY <1>1, <3>1 DEF RecordInv
    <3>4. FieldsOf(s, a)
      BY ONLY <3>2, <3>3, FieldsSame
    <3> QED
      BY <2>2, <3>1, <3>4
  <2>4. FieldsOf(c[n], n)
    <3>1. n <= Len(oplog)
      BY <1>1
    <3> QED
      BY <1>1, <2>1, <2>3, <3>1, FieldsRun
  <2>5. PICK s, k : s = Published(c[n]) /\ k = c[n]
    OBVIOUS
  <2>6. /\ s.pending_invocations = k.pending_invocations
        /\ s.results = k.results /\ s.current = k.current
        /\ s.regions = k.regions /\ s.pending_updates = k.pending_updates
        /\ s.memory = k.memory /\ s.resources = k.resources
        /\ s.plugins = k.plugins /\ s.version = k.version
        /\ s.override = SnapshotOverride(k.regions, k.pending_updates)
    BY <2>1, <2>5, PublishedFields
  <2>7. FieldsOf(k, n)
    BY <2>4, <2>5
  <2>8. FieldsOf(s, n)
    BY ONLY <2>6, <2>7, FieldsSame
  <2>9. SnapshotOverride(k.regions, k.pending_updates) = SkippedFor(n)
    <3>1. UpdatesOf(k, n) /\ k.regions = JumpedOver(n)
      BY <2>7 DEF FieldsOf
    <3> QED
      BY <3>1, OverrideIs
  <2> QED
    BY <1>1, <2>1, <2>5, <2>6, <2>8, <2>9
<1> QED
  BY <1>2, <1>3

(* They are what RecordOf says.                                            *)
LEMMA FieldsAreRecord ==
  ASSUME NEW r, NEW n \in Nat, FieldsOf(r, n), r.override = SkippedFor(n)
  PROVE  RecordOf(r, n)
<1>1. QueueOf(r, n)
  BY DEF FieldsOf, ResultsOf, IndexList, QueueOf
<1>2. RegionsOf(r, n)
  BY UpdatesListed DEF FieldsOf, RegionsOf
<1>3. OwnedOf(r, n)
  BY DEF FieldsOf, ResourcesOf, VersionOf, OwnedOf
<1> QED
  BY <1>1, <1>2, <1>3 DEF RecordOf

-----------------------------------------------------------------------------
(* What the first n entries say stays the same while they do.              *)

EntriesSame == \A i \in 1 .. Len(oplog) : oplog'[i] = oplog[i]

LEMMA UptoSame ==
  ASSUME LogOK, EntriesSame, NEW n \in 0 .. Len(oplog), NEW K
  PROVE  Upto(n, K)' = Upto(n, K)
<1>1. \A i \in 1 .. n : oplog'[i] = oplog[i]
  BY DEF LogOK, EntriesSame
<1> QED
  BY <1>1 DEF Upto

LEMMA InvocationKept ==
  ASSUME LogOK, EntriesSame, NEW n \in 0 .. Len(oplog)
  PROVE  /\ InInvocation(n)' <=> InInvocation(n)
         /\ InInvocation(n) => InvokedKey(n)' = InvokedKey(n)
<1>0. n \in Nat
  BY DEF LogOK
<1>1. PICK U : U = Upto(n, {"Invoked"}) /\ Upto(n, {"Invoked"})' = U
  BY UptoSame
<1>2. PICK C : C = Upto(n, {"Completed"}) /\ Upto(n, {"Completed"})' = C
  BY UptoSame
<1>3. (InInvocation(n)' <=> InInvocation(n)) /\ (InInvocation(n) => U # {})
  BY <1>1, <1>2 DEF InInvocation
<1>4. ASSUME U # {} PROVE oplog'[Max(U)] = oplog[Max(U)]
  <2>1. U \in SUBSET (1 .. n)
    BY <1>0, <1>1, UptoFinite
  <2>2. Max(U) \in 1 .. Len(oplog)
    <3>1. Max(U) \in U
      BY <1>0, <1>4, <2>1, MaxIn
    <3>2. \A i \in 1 .. n : i \in 1 .. Len(oplog)
      BY DEF LogOK
    <3> QED
      BY <2>1, <3>1, <3>2
  <2> QED
    BY <2>2 DEF EntriesSame
<1>5. InvokedKey(n) = oplog[Max(U)].key /\ InvokedKey(n)' = oplog'[Max(U)].key
  BY <1>1 DEF InvokedKey
<1> QED
  BY <1>3, <1>4, <1>5

LEMMA QueueKept ==
  ASSUME LogOK, EntriesSame, NEW n \in 0 .. Len(oplog)
  PROVE  /\ WaitingRequests(n)' = WaitingRequests(n)
         /\ \A k : EndsOf(k, n)' = EndsOf(k, n)
<1>0. n \in Nat /\ \A i \in 1 .. n : oplog'[i] = oplog[i] /\ i - 1 \in 0 .. Len(oplog)
  BY DEF LogOK, EntriesSame
<1>1. WaitingRequests(n)' = WaitingRequests(n)
  <2>1. PICK U : /\ U = Upto(n, {"PendingInvocation", "PendingManualUpdate"})
                 /\ Upto(n, {"PendingInvocation", "PendingManualUpdate"})' = U
    BY UptoSame
  <2>2. \A i \in U : i \in 1 .. n /\ \A j \in i .. n : j \in 1 .. n
    BY <1>0, <2>1, UptoFinite
  <2>3. WaitingRequests(n) = {i \in U : \A j \in i .. n : ~TakesUp(oplog[j], oplog[i])}
    BY <2>1 DEF WaitingRequests
  <2>4. WaitingRequests(n)' = {i \in U : \A j \in i .. n : ~TakesUp(oplog'[j], oplog'[i])}
    BY <2>1 DEF WaitingRequests, TakesUp
  <2> QED
    BY <1>0, <2>2, <2>3, <2>4
<1>2. ASSUME NEW k PROVE EndsOf(k, n)' = EndsOf(k, n)
  <2>1. PICK U : U = Upto(n, {"Completed", "Error", "Exited"})
                 /\ Upto(n, {"Completed", "Error", "Exited"})' = U
    BY UptoSame
  <2>2. \A i \in U : i \in 1 .. n
    BY <1>0, <2>1, UptoFinite
  <2>3. \A i \in U : /\ InInvocation(i - 1)' <=> InInvocation(i - 1)
                     /\ InInvocation(i - 1) => InvokedKey(i - 1)' = InvokedKey(i - 1)
    BY <1>0, <2>2, InvocationKept
  <2> QED
    BY <2>1, <2>3 DEF EndsOf
<1> QED
  BY <1>1, <1>2

LEMMA UpdatesKept ==
  ASSUME LogOK, EntriesSame, NEW n \in 0 .. Len(oplog)
  PROVE  /\ FinishedUpdates(n)' = FinishedUpdates(n)
         /\ WaitingUpdates(n)' = WaitingUpdates(n)
         /\ JumpedOver(n)' = JumpedOver(n)
         /\ SkippedFor(n)' = SkippedFor(n)
<1>0. n \in Nat /\ \A i \in 1 .. n : oplog'[i] = oplog[i] /\ i \in 0 .. Len(oplog)
  BY DEF LogOK, EntriesSame
<1>1. FinishedUpdates(n)' = FinishedUpdates(n)
  BY UptoSame DEF FinishedUpdates
<1>2. PICK U : U = Upto(n, {"PendingUpdate"}) /\ Upto(n, {"PendingUpdate"})' = U
               /\ U \in SUBSET (1 .. n)
  BY <1>0, UptoSame, UptoFinite
<1>3. WaitingUpdates(n)' = WaitingUpdates(n) /\ WaitingUpdates(n) \in SUBSET (1 .. n)
  <2>1. \A i \in U : Upto(i, {"PendingUpdate"})' = Upto(i, {"PendingUpdate"})
    BY <1>0, <1>2, UptoSame
  <2> QED
    BY <1>1, <1>2, <2>1 DEF WaitingUpdates
<1>4. JumpedOver(n)' = JumpedOver(n)
  <2>1. PICK J : J = Upto(n, {"Jump"}) /\ Upto(n, {"Jump"})' = J /\ J \in SUBSET (1 .. n)
    BY <1>0, UptoSame, UptoFinite
  <2>2. JumpedOver(n) = UNION {oplog[i].start .. oplog[i].end : i \in J}
        /\ JumpedOver(n)' = UNION {oplog'[i].start .. oplog'[i].end : i \in J}
    BY <2>1 DEF JumpedOver
  <2>3. {oplog[i].start .. oplog[i].end : i \in J} = {oplog'[i].start .. oplog'[i].end : i \in J}
    BY <1>0, <2>1
  <2> QED
    BY <2>2, <2>3
<1>5. SkippedFor(n)' = SkippedFor(n)
  <2>1. PICK W : W = WaitingUpdates(n) /\ WaitingUpdates(n)' = W /\ W \in SUBSET (1 .. n)
    BY <1>3
  <2>2. W # {} => oplog'[Min(W)] = oplog[Min(W)]
    <3>1. ASSUME W # {} PROVE Min(W) \in W
      <4>1. W \in SUBSET Nat
        BY <1>0, <2>1
      <4>2. PICK m \in W : \A i \in W : m <= i
        BY <3>1, <4>1, LeastIndex
      <4> QED
        BY <4>2 DEF Min
    <3> QED
      BY <1>0, <2>1, <3>1
  <2> QED
    BY <1>4, <2>1, <2>2 DEF SkippedFor
<1> QED
  BY <1>1, <1>3, <1>4, <1>5

LEMMA OwnedKept ==
  ASSUME LogOK, EntriesSame, NEW n \in 0 .. Len(oplog)
  PROVE  /\ VersionOf(n)' = VersionOf(n)
         /\ ActivePlugins(n)' = ActivePlugins(n)
         /\ OwnedResources(n)' = OwnedResources(n)
         /\ \A x : DescriptionOf(x, n)' = DescriptionOf(x, n)
<1>0. n \in Nat /\ \A i \in 1 .. n : oplog'[i] = oplog[i]
  BY DEF LogOK, EntriesSame
<1>1. \A K : Upto(n, K)' = Upto(n, K) /\ Upto(n, K) \in SUBSET (1 .. n)
  BY <1>0, UptoSame, UptoFinite
<1>2. PICK l \in 0 .. n : LastUpdate(n) = l /\ LastUpdate(n)' = l
  <2>1. LastUpdate(n)' = LastUpdate(n)
    BY <1>1 DEF LastUpdate
  <2> QED
    BY <1>0, <2>1, LastUpdateIn
<1>3. l # 0 => oplog'[l] = oplog[l]
  BY <1>0, <1>2
<1>4. VersionOf(n)' = VersionOf(n)
  BY <1>2, <1>3 DEF VersionOf
<1>5. ActivePlugins(n)' = ActivePlugins(n)
  <2>1. PICK A : A = Upto(n, {"ActivatePlugin"}) /\ Upto(n, {"ActivatePlugin"})' = A
                 /\ \A i \in A : oplog'[i] = oplog[i]
    BY <1>0, <1>1
  <2>2. PICK D : D = Upto(n, {"DeactivatePlugin"}) /\ Upto(n, {"DeactivatePlugin"})' = D
                 /\ \A i \in D : oplog'[i] = oplog[i]
    BY <1>0, <1>1
  <2>3. \A p, i : NotDeactivated(p, i, n)' <=> NotDeactivated(p, i, n)
    BY <2>2 DEF NotDeactivated
  <2>4. ActivePlugins(n) =
          {p \in Plugins : \/ \E i \in A : i > l /\ oplog[i].plugin = p /\ NotDeactivated(p, i, n)
                           \/ l # 0 /\ p \in oplog[l].plugins /\ NotDeactivated(p, l, n)}
    BY <1>2, <2>1 DEF ActivePlugins
  <2>5. ActivePlugins(n)' =
          {p \in Plugins : \/ \E i \in A : /\ i > l /\ oplog'[i].plugin = p
                                           /\ NotDeactivated(p, i, n)'
                           \/ l # 0 /\ p \in oplog'[l].plugins /\ NotDeactivated(p, l, n)'}
    BY <1>2, <2>1 DEF ActivePlugins
  <2> QED
    BY <1>3, <2>1, <2>3, <2>4, <2>5
<1>6. \A x : CreationsOf(x, n)' = CreationsOf(x, n)
  <2>1. PICK A : A = Upto(n, {"CreateResource"}) /\ Upto(n, {"CreateResource"})' = A
                 /\ \A i \in A : oplog'[i] = oplog[i]
    BY <1>0, <1>1
  <2> QED
    BY <2>1 DEF CreationsOf
<1>7. OwnedResources(n)' = OwnedResources(n)
  <2>1. PICK D : D = Upto(n, {"DropResource"}) /\ Upto(n, {"DropResource"})' = D
                 /\ \A i \in D : oplog'[i] = oplog[i]
    BY <1>0, <1>1
  <2>2. \A x : Max(CreationsOf(x, n))' = Max(CreationsOf(x, n))
    BY <1>6 DEF Max
  <2>3. \A x \in Resources :
          /\ x \in OwnedResources(n) <=>
               /\ CreationsOf(x, n) # {}
               /\ \A j \in D : oplog[j].id = x => j < Max(CreationsOf(x, n))
          /\ x \in OwnedResources(n)' <=>
               /\ CreationsOf(x, n)' # {}
               /\ \A j \in D : oplog'[j].id = x => j < Max(CreationsOf(x, n))'
    BY <2>1 DEF OwnedResources
  <2>4. OwnedResources(n) \subseteq Resources /\ OwnedResources(n)' \subseteq Resources
    BY DEF OwnedResources
  <2>5. \A x \in Resources : x \in OwnedResources(n)' <=> x \in OwnedResources(n)
    BY <1>6, <2>1, <2>2, <2>3
  <2> QED
    BY <2>4, <2>5
<1>8. ASSUME NEW x PROVE DescriptionOf(x, n)' = DescriptionOf(x, n)
  <2>1. PICK T : T = Upto(n, {"DescribeResource"}) /\ Upto(n, {"DescribeResource"})' = T
                 /\ \A i \in T : oplog'[i] = oplog[i]
    BY <1>0, <1>1
  <2>2. PICK m : m = Max(CreationsOf(x, n)) /\ Max(CreationsOf(x, n))' = m
    BY <1>6 DEF Max
  <2>3. DescriptionOf(x, n) = [created_at |-> m,
                               described |-> \E i \in T : oplog[i].id = x /\ i > m]
    BY Zenon, <2>1, <2>2 DEF DescriptionOf
  <2>4. DescriptionOf(x, n)' = [created_at |-> m,
                                described |-> \E i \in T : oplog'[i].id = x /\ i > m]
    BY Zenon, <2>1, <2>2 DEF DescriptionOf
  <2>5. (\E i \in T : oplog'[i].id = x /\ i > m) = (\E i \in T : oplog[i].id = x /\ i > m)
    BY <2>1
  <2> QED
    BY <2>3, <2>4, <2>5
<1> QED
  BY <1>4, <1>5, <1>7, <1>8

LEMMA FieldsKept ==
  ASSUME LogOK, EntriesSame, NEW n \in 0 .. Len(oplog),
         NEW r, FieldsOf(r, n)
  PROVE  FieldsOf(r, n)'
<1>0. n \in Nat
  BY DEF LogOK
<1>1. IndexList(r.pending_invocations, WaitingRequests(n))'
  BY QueueKept DEF FieldsOf, IndexList, Lists
<1>2. ResultsOf(r, n)'
  <2>1. /\ InInvocation(n)' <=> InInvocation(n)
        /\ InInvocation(n) => InvokedKey(n)' = InvokedKey(n)
    BY InvocationKept
  <2>2. \A k : EndsOf(k, n)' = EndsOf(k, n)
    BY QueueKept
  <2>3. \A k : Max(EndsOf(k, n))' = Max(EndsOf(k, n))
    BY <2>2 DEF Max
  <2> QED
    BY <2>1, <2>2, <2>3 DEF FieldsOf, ResultsOf
<1>3. (r.regions = JumpedOver(n))'
  BY UpdatesKept DEF FieldsOf
<1>4. UpdatesOf(r, n)'
  <2>1. PICK q, f :
           /\ q \in Seq(Nat) /\ q = r.pending_updates /\ f = Cardinality(FinishedUpdates(n))
           /\ Len(q) + f = Cardinality(Upto(n, Updates))
           /\ \A j \in 1 .. Len(q) : /\ q[j] \in Upto(n, Updates)
                                     /\ Cardinality(Upto(q[j], Updates)) = f + j
    BY DEF FieldsOf, UpdatesOf
  <2>2. Upto(n, Updates)' = Upto(n, Updates) /\ FinishedUpdates(n)' = FinishedUpdates(n)
    BY UptoSame, UpdatesKept
  <2>3. \A j \in 1 .. Len(q) : Upto(q[j], Updates)' = Upto(q[j], Updates)
    <3>1. \A j \in 1 .. Len(q) : q[j] \in 0 .. Len(oplog)
      <4>1. \A i \in Upto(n, Updates) : i \in 0 .. Len(oplog)
        BY <1>0 DEF Upto, LogOK
      <4> QED
        BY <2>1, <4>1
    <3> QED
      BY <3>1, UptoSame
  <2> QED
    BY <2>1, <2>2, <2>3 DEF UpdatesOf
<1>5. (r.memory = Cardinality(Upto(n, {"GrowMemory"})))'
  BY UptoSame DEF FieldsOf
<1>6. ResourcesOf(r, n)'
  BY OwnedKept DEF FieldsOf, ResourcesOf
<1>7. (r.plugins = ActivePlugins(n))' /\ (r.version = VersionOf(n))'
  BY OwnedKept DEF FieldsOf
<1> QED
  BY <1>1, <1>2, <1>3, <1>4, <1>5, <1>6, <1>7 DEF FieldsOf

(* An update comes to its end only when one is waiting.                    *)
LEMMA TurnsKept ==
  ASSUME LogOK, UpdatesInTurn, AddEntry
  PROVE  UpdatesInTurn'
<1>1. PICK e \in NextEntries, l \in Nat : oplog' = Append(oplog, e) /\ l = Len(oplog)
  BY DEF AddEntry, LogOK
<1>2. /\ Len(oplog') = l + 1 /\ oplog'[l + 1] = e /\ \A i \in 1 .. l : oplog'[i] = oplog[i]
      /\ EntriesSame
  BY <1>1, EntriesKept DEF EntriesSame
<1>3. ASSUME NEW n \in 0 .. l
      PROVE  Cardinality(FinishedUpdates(n))' <= Cardinality(Upto(n, Updates))'
  <2>1. FinishedUpdates(n)' = FinishedUpdates(n) /\ Upto(n, Updates)' = Upto(n, Updates)
    BY <1>1, <1>2, UptoSame, UpdatesKept
  <2> QED
    BY <1>1, <2>1 DEF UpdatesInTurn
<1>4. ASSUME NEW K
      PROVE  /\ Cardinality(Upto(l + 1, K))' = IF e.kind \in K
                                               THEN Cardinality(Upto(l, K)) + 1
                                               ELSE Cardinality(Upto(l, K))
             /\ Cardinality(Upto(l, K)) \in Nat
  <2>1. Upto(l + 1, K)' = IF e.kind \in K THEN Upto(l, K) \cup {l + 1} ELSE Upto(l, K)
    <3>1. 1 .. l + 1 = (1 .. l) \cup {l + 1}
      BY <1>1
    <3> QED
      BY <1>2, <3>1 DEF Upto
  <2>2. IsFiniteSet(Upto(l, K)) /\ Cardinality(Upto(l, K)) \in Nat /\ l + 1 \notin Upto(l, K)
    BY <1>1, UptoFinite
  <2>3. Cardinality(Upto(l, K) \cup {l + 1}) = Cardinality(Upto(l, K)) + 1
    BY <2>2, FS_AddElement
  <2> QED
    BY <2>1, <2>2, <2>3
<1>5. Cardinality(FinishedUpdates(l + 1))' <= Cardinality(Upto(l + 1, Updates))'
  <2> DEFINE F == {"SuccessfulUpdate", "FailedUpdate"}
  <2>1. /\ e.kind \in F => Cardinality(Upto(l, Updates)) > Cardinality(Upto(l, F))
        /\ Cardinality(Upto(l, F)) <= Cardinality(Upto(l, Updates))
    BY <1>1, EntryTyped DEF FinishedUpdates, Updates, UpdatesInTurn
  <2>2. FinishedUpdates(l + 1)' = Upto(l + 1, F)'
    BY DEF FinishedUpdates
  <2>3. Cardinality(Upto(l + 1, F))' = IF e.kind \in F THEN Cardinality(Upto(l, F)) + 1
                                       ELSE Cardinality(Upto(l, F))
    BY <1>4
  <2>4. Cardinality(Upto(l + 1, Updates))' >= Cardinality(Upto(l, Updates))
    BY <1>4
  <2>5. Cardinality(Upto(l, F)) \in Nat /\ Cardinality(Upto(l, Updates)) \in Nat
        /\ Cardinality(Upto(l + 1, Updates))' \in Nat
    BY <1>4
  <2> QED
    BY <2>1, <2>2, <2>3, <2>4, <2>5
<1>6. \A n \in 0 .. l + 1 : n \in 0 .. l \/ n = l + 1
  BY <1>1
<1> QED
  BY <1>2, <1>3, <1>5, <1>6 DEF UpdatesInTurn

LEMMA TurnsSame ==
  ASSUME LogOK, UpdatesInTurn, oplog' = oplog
  PROVE  UpdatesInTurn'
<1>1. ASSUME NEW n \in 0 .. Len(oplog)
      PROVE  FinishedUpdates(n)' = FinishedUpdates(n) /\ Upto(n, Updates)' = Upto(n, Updates)
  BY UptoSame, UpdatesKept DEF EntriesSame
<1> QED
  BY <1>1 DEF UpdatesInTurn

LEMMA RecordInit ==
  ASSUME Init
  PROVE  UpdatesInTurn /\ RecordInv
<1>0. oplog = <<[kind |-> "Create", version |-> 0]>> /\ Len(oplog) = 1
      /\ oplog[1].kind = "Create"
  BY DEF Init
<1>1. \A K : Upto(0, K) = {}
  BY DEF Upto
<1>2. \A K : "Create" \notin K => Upto(1, K) = {}
  BY <1>0 DEF Upto
<1>3. Cardinality({}) = 0
  BY FS_EmptySet
<1>4. UpdatesInTurn
  <2>1. \A n \in 0 .. 1 : FinishedUpdates(n) = {} /\ Upto(n, Updates) = {}
    BY <1>1, <1>2 DEF FinishedUpdates, Updates
  <2> QED
    BY <1>0, <1>3, <2>1 DEF UpdatesInTurn
<1>5. PICK k : k = known /\ k = InitialStatus
  BY DEF Init
<1>6. FieldsOf(k, 0)
  <2>1. IndexList(k.pending_invocations, WaitingRequests(0))
    BY <1>1, <1>5 DEF InitialStatus, IndexList, Lists, WaitingRequests
  <2>2. ResultsOf(k, 0)
    <3>1. ~InInvocation(0) /\ \A x : EndsOf(x, 0) = {}
      BY <1>1 DEF InInvocation, EndsOf
    <3>2. k.results = <<>> /\ k.current = None /\ DOMAIN k.results = {}
      BY <1>5 DEF InitialStatus
    <3> QED
      BY <3>1, <3>2 DEF ResultsOf
  <2>3. k.regions = JumpedOver(0)
    BY <1>1, <1>5 DEF InitialStatus, JumpedOver
  <2>4. UpdatesOf(k, 0)
    <3>1. k.pending_updates = <<>> /\ Len(<<>>) = 0 /\ <<>> \in Seq(Nat)
      BY <1>5 DEF InitialStatus
    <3>2. Cardinality(FinishedUpdates(0)) = 0 /\ Cardinality(Upto(0, Updates)) = 0
      BY <1>1, <1>3 DEF FinishedUpdates
    <3> QED
      BY <3>1, <3>2 DEF UpdatesOf
  <2>5. k.memory = Cardinality(Upto(0, {"GrowMemory"}))
    BY <1>1, <1>3, <1>5 DEF InitialStatus
  <2>6. ResourcesOf(k, 0)
    <3>1. OwnedResources(0) = {}
      BY <1>1 DEF OwnedResources, CreationsOf
    <3> QED
      BY <1>5, <3>1 DEF InitialStatus, ResourcesOf
  <2>7. LastUpdate(0) = 0
    BY <1>1 DEF LastUpdate
  <2>8. k.plugins = ActivePlugins(0) /\ k.version = VersionOf(0)
    BY <1>1, <1>5, <2>7 DEF InitialStatus, ActivePlugins, VersionOf
  <2> QED
    BY <2>1, <2>2, <2>3, <2>4, <2>5, <2>6, <2>8 DEF FieldsOf
<1>7. k.override = SkippedFor(0) /\ k.oplog_idx = 0
  BY <1>1, <1>5 DEF InitialStatus, SkippedFor, WaitingUpdates
<1> QED
  BY <1>4, <1>5, <1>6, <1>7 DEF RecordInv

LEMMA RecordStep ==
  ASSUME LogOK, UpdatesInTurn, KnownOK, RecordInv, [Next]_vars
  PROVE  UpdatesInTurn' /\ RecordInv'
<1>1. CASE AddEntry
  <2>0. EntriesSame
    BY <1>1, EntriesKept DEF AddEntry, EntriesSame
  <2>1. PICK k, n : /\ k = known /\ known' = k
                    /\ n = known.oplog_idx /\ n \in 0 .. Len(oplog)
    BY <1>1 DEF AddEntry, KnownOK
  <2>2. FieldsOf(k, n) /\ k.override = SkippedFor(n)
    BY <2>1 DEF RecordInv
  <2>3. FieldsOf(k, n)'
    BY <2>0, <2>1, <2>2, FieldsKept
  <2>4. SkippedFor(n)' = SkippedFor(n)
    BY <2>0, <2>1, UpdatesKept
  <2>5. known'.oplog_idx = n
    BY <2>1
  <2>6. RecordInv' <=> /\ FieldsOf(known, known.oplog_idx)'
                       /\ known'.override = SkippedFor(known.oplog_idx)'
    BY DEF RecordInv
  <2>7. FieldsOf(known, known.oplog_idx)' /\ SkippedFor(known.oplog_idx)' = SkippedFor(n)'
    BY <2>1, <2>3, <2>5
  <2> QED
    BY <1>1, <2>1, <2>2, <2>4, <2>6, <2>7, TurnsKept
<1>2. CASE UpdateMetadata
  <2>1. PICK n : oplog' = oplog /\ known' = Current /\ n = Len(oplog)
    BY <1>2 DEF UpdateMetadata, Current
  <2>2. PICK k : k = known' /\ k.oplog_idx = n
    <3>1. CASE known.oplog_idx = Len(oplog)
      BY <2>1, <3>1 DEF Current, calculate_last_known_status
    <3>2. CASE known.oplog_idx # Len(oplog)
      <4>1. PICK c : /\ Current = Published(c[Len(oplog)])
                     /\ c[Len(oplog)] = Round(c[Len(oplog) - 1], Len(oplog))
        BY <3>2, CalculationEnds DEF KnownOK, Current
      <4> QED
        BY <2>1, <4>1, PublishedFields
    <3> QED
      BY <3>1, <3>2
  <2>3. FieldsOf(k, n) /\ k.override = SkippedFor(n)
    BY <2>1, <2>2, CalculatedRecord
  <2>4. n \in 0 .. Len(oplog) /\ EntriesSame
    BY <2>1 DEF LogOK, EntriesSame
  <2>5. FieldsOf(k, n)' /\ SkippedFor(n)' = SkippedFor(n)
    BY <2>3, <2>4, FieldsKept, UpdatesKept
  <2>6. RecordInv' <=> /\ FieldsOf(known, known.oplog_idx)'
                       /\ known'.override = SkippedFor(known.oplog_idx)'
    BY DEF RecordInv
  <2>7. FieldsOf(known, known.oplog_idx)' /\ SkippedFor(known.oplog_idx)' = SkippedFor(n)'
    BY <2>2, <2>5
  <2> QED
    BY <2>1, <2>2, <2>3, <2>5, <2>6, <2>7, TurnsSame
<1>3. CASE UNCHANGED vars
  <2>1. PICK k, n : /\ k = known /\ known' = k /\ oplog' = oplog
                    /\ n = known.oplog_idx /\ n \in 0 .. Len(oplog)
    BY <1>3 DEF vars, KnownOK
  <2>2. FieldsOf(k, n) /\ k.override = SkippedFor(n)
    BY <2>1 DEF RecordInv
  <2>3. EntriesSame
    BY <2>1 DEF EntriesSame
  <2>4. FieldsOf(k, n)' /\ SkippedFor(n)' = SkippedFor(n)
    BY <2>1, <2>2, <2>3, FieldsKept, UpdatesKept
  <2>5. RecordInv' <=> /\ FieldsOf(known, known.oplog_idx)'
                       /\ known'.override = SkippedFor(known.oplog_idx)'
    BY DEF RecordInv
  <2>6. /\ FieldsOf(known, known.oplog_idx)'
        /\ SkippedFor(known.oplog_idx)' = SkippedFor(n)'
    BY <2>1, <2>4
  <2> QED
    BY <2>1, <2>2, <2>4, <2>5, <2>6, TurnsSame
<1> QED
  BY <1>1, <1>2, <1>3 DEF Next

(* Wherever the oplog was cut, the record calculated from a cached one     *)
(* says what the oplog says: its queue, results, regions, updates and what *)
(* the worker owns (worker.rs calculate_last_known_status).                *)
THEOREM RecordIsFromOplog == Spec => []RecordFromOplog
<1> DEFINE Inv == LogOK /\ UpdatesInTurn /\ KnownOK /\ RecordInv
<1>1. Init => Inv
  BY StatusInit, RecordInit
<1>2. Inv /\ [Next]_vars => Inv'
  <2> SUFFICES ASSUME Inv, [Next]_vars PROVE Inv'
    OBVIOUS
  <2>1. LogOK' /\ KnownOK'
    BY LogKept, KnownStep
  <2>2. UpdatesInTurn' /\ RecordInv'
    BY RecordStep
  <2> QED
    BY <2>1, <2>2
<1>3. Inv => RecordFromOplog
  <2> SUFFICES ASSUME Inv PROVE RecordFromOplog
    OBVIOUS
  <2>1. PICK r, n : r = Current /\ n = Len(oplog) /\ n \in Nat
    BY DEF LogOK
  <2>2. FieldsOf(r, n) /\ r.override = SkippedFor(n)
    BY <2>1, CalculatedRecord
  <2>3. RecordOf(r, n)
    BY <2>1, <2>2, FieldsAreRecord
  <2> QED
    BY <2>1, <2>3 DEF RecordFromOplog
<1> QED
  BY <1>1, <1>2, <1>3, PTL DEF Spec

=============================================================================
