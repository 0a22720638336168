-------------------------- MODULE SuspensionProofs --------------------------
(***************************************************************************)
(* Proofs about promises, sleeps and the scheduler, for every number of    *)
(* workers and clients, every program, deadline and length of an hour.     *)
(***************************************************************************)
EXTENDS Suspension, FiniteSetTheorems, TLAPS

Actions == {"complete", "archive"} \X Workers \X Nat
Items == [at : Nat, action : Actions]
PassSteps == {"none", "read", "perform", "complete", "archive", "unchanged"}

(* The part of the state that the two invariants are about.                *)
WorkersTypeOK ==
  /\ program \in [Workers -> Seq(Steps)]
  /\ now \in Nat
  /\ pc \in [Workers -> Nat \ {0}]
  /\ log \in [Workers -> Nat \ {0}]
  /\ recorded \in [Workers -> Nat]
  /\ promise \in [Workers -> Nat]

SchedulerTypeOK ==
  /\ schedule \subseteq Items
  /\ pass \in [step : PassSteps, at : Nat, batch : SUBSET Items,
               workers : SUBSET Workers, action : Actions \cup {<<>>}]

ClientsTypeOK ==
  /\ client \in [Clients -> {"start", "retry", "written", "lost", "answered", "done"}]
  /\ told \in [Clients -> {"nothing", "true", "false"}]
  /\ DOMAIN got = Workers

(* A step of a program is live only right after the recorded ones.         *)
PcFollows == \A w \in Workers :
  pc[w] <= recorded[w] + 1 /\ recorded[w] <= Len(program[w]) + 1

(* A promise was created by a recorded step, so it is not created again.   *)
PromiseRecorded == \A w \in Workers :
  /\ promise[w] <= log[w]
  /\ promise[w] # 0 => \E i \in 1..Len(program[w]) :
                          i <= recorded[w] /\ program[w][i] = "create"

(* While the promise is the last entry the worker has done nothing after   *)
(* its creation but await it.                                              *)
FreshPromise == \A w \in Workers : promise[w] = log[w] =>
  \E i \in 1..Len(program[w]) :
    /\ i <= recorded[w] /\ program[w][i] = "create"
    /\ \A n \in (i + 1)..Len(program[w]) : n <= recorded[w] => program[w][n] = "await"

(* A recorded sleep has lasted until its deadline.                         *)
SleptEnough == \A w \in Workers : \A i \in 1..Len(program[w]) :
  i <= recorded[w] /\ program[w][i] = "sleep" => Deadline[w] <= now

ProgramInv ==
  /\ \A w \in Workers : WellFormed(program[w])
  /\ PcFollows /\ PromiseRecorded /\ FreshPromise /\ SleptEnough

(* The index of a sleep's promise is in the oplog and is not the one that  *)
(* names the promise the worker has created, unless the program makes them *)
(* share it.                                                               *)
SleepIndex(w, n) == n \in 1..log[w] /\ (n # promise[w] \/ SharesName(program[w]))

ItemOK(x) == x.action[1] = "complete" =>
  x.at = Deadline[x.action[2]] /\ SleepIndex(x.action[2], x.action[3])

ScheduleInv == \A x \in schedule : ItemOK(x)

(* What a pass has read is due, and stays due until it is performed.       *)
PassInv ==
  /\ pass.at <= now
  /\ \A x \in pass.batch : ItemOK(x) /\ (x.action[1] = "complete" => x.at <= now)
  /\ pass.step = "complete" =>
       /\ pass.action \in Actions
       /\ SleepIndex(pass.action[2], pass.action[3])
       /\ Deadline[pass.action[2]] <= now
  /\ pass.step \in {"archive", "unchanged"} =>
       pass.action \in Actions /\ pass.action[1] = "archive"

(* An empty result is the one of a sleep that is over.                     *)
ResultInv == \A i \in DOMAIN result :
  /\ i \in Workers \X (Nat \ {0})
  /\ result[i] = Empty => SleepIndex(i[1], i[2]) /\ Deadline[i[1]] <= now

(* The client whose payload is the result is the one that wrote it, and    *)
(* what awaiting has returned is the result.                               *)
AnswerInv ==
  /\ \A c \in Clients : client[c] = "written" \/ told[c] = "true" =>
       /\ promise[Target[c]] # 0
       /\ PromiseOf(Target[c]) \in DOMAIN result
       /\ result[PromiseOf(Target[c])] = c
  /\ \A w \in Workers : \A x \in got[w] :
       /\ PromiseOf(w) \in DOMAIN result /\ x = result[PromiseOf(w)]

SuspensionInv ==
  /\ WorkersTypeOK /\ ProgramInv
  /\ SchedulerTypeOK /\ ScheduleInv /\ PassInv /\ ResultInv
  /\ ClientsTypeOK /\ AnswerInv

-----------------------------------------------------------------------------
(* The clock.                                                              *)

(* A time is its hour and the ticks since the hour began.                  *)
LEMMA HourAndTicks ==
  ASSUME NEW t \in Nat
  PROVE  /\ t \div HourLength \in Nat
         /\ t % HourLength \in Nat /\ t % HourLength < HourLength
         /\ t = HourLength * (t \div HourLength) + (t % HourLength)
BY SuspensionAssumption

LEMMA TimesMonotone == \A h, p, q \in Nat : p <= q => h * p <= h * q
OBVIOUS

LEMMA TimesNext == \A h, p \in Nat : h * (p + 1) = h * p + h
OBVIOUS

(* All actions of an earlier hour are due.                                 *)
LEMMA EarlierHour ==
  ASSUME NEW s \in Nat, NEW t \in Nat, Hour(s) < Hour(t)
  PROVE  s < t
<1> DEFINE p == s \div HourLength
           q == t \div HourLength
<1>1. /\ p \in Nat /\ s % HourLength \in Nat /\ s % HourLength < HourLength
      /\ s = HourLength * p + (s % HourLength)
  BY HourAndTicks
<1>2. /\ q \in Nat /\ t % HourLength \in Nat
      /\ t = HourLength * q + (t % HourLength)
  BY HourAndTicks
<1>3. p + 1 <= q
  BY <1>1, <1>2 DEF Hour
<1> HIDE DEF p, q
<1>4. HourLength * (p + 1) <= HourLength * q /\ HourLength * (p + 1) = HourLength * p + HourLength
  BY <1>1, <1>2, <1>3, TimesMonotone, TimesNext, SuspensionAssumption
<1>5. s < HourLength * (p + 1)
  BY <1>1, <1>4, SuspensionAssumption
<1> QED
  BY <1>1, <1>2, <1>4, <1>5, SuspensionAssumption

(* Within an hour the ticks decide.                                        *)
LEMMA SameHour ==
  ASSUME NEW s \in Nat, NEW t \in Nat, Hour(s) = Hour(t),
         s % HourLength <= t % HourLength
  PROVE  s <= t
<1> DEFINE p == s \div HourLength
<1>1. /\ p \in Nat /\ s % HourLength \in Nat
      /\ s = HourLength * p + (s % HourLength)
  BY HourAndTicks
<1>2. t % HourLength \in Nat /\ t = HourLength * p + (t % HourLength)
  BY HourAndTicks DEF Hour
<1> HIDE DEF p
<1> QED
  BY <1>1, <1>2, SuspensionAssumption

-----------------------------------------------------------------------------
(* The steps of programs.                                                  *)

(* What a step of the system does to the programs: a worker executes a     *)
(* step for the first time or again, its oplog gets an entry of the        *)
(* executor, it finishes, or the programs are only started over.           *)
Executes(w, step) ==
  /\ pc[w] <= Len(program[w]) /\ program[w][pc[w]] = step /\ pc[w] > recorded[w]
  /\ step = "sleep" => now >= Deadline[w]
  /\ pc' = [pc EXCEPT ![w] = @ + 1]
  /\ recorded' = [recorded EXCEPT ![w] = pc[w]]
  /\ log' = IF step = "await" THEN log ELSE [log EXCEPT ![w] = @ + 1]
  /\ promise' = IF step = "create" THEN [promise EXCEPT ![w] = log[w] + 1] ELSE promise
  /\ UNCHANGED <<program, now>>

Replays(w) ==
  /\ pc[w] <= recorded[w]
  /\ pc' = [pc EXCEPT ![w] = @ + 1]
  /\ UNCHANGED <<program, now, log, recorded, promise>>

GetsEntry(w) ==
  /\ pc' = pc \/ pc' = [pc EXCEPT ![w] = 1]
  /\ log' = [log EXCEPT ![w] = @ + 1]
  /\ UNCHANGED <<program, now, recorded, promise>>

Finishes(w) ==
  /\ pc[w] = Len(program[w]) + 1
  /\ pc' = [pc EXCEPT ![w] = 1]
  /\ recorded' = [recorded EXCEPT ![w] = Len(program[w]) + 1]
  /\ \/ log' = [log EXCEPT ![w] = @ + 1]
     \/ log' = log /\ recorded[w] > Len(program[w])
  /\ UNCHANGED <<program, now, promise>>

Rests ==
  /\ pc' = pc \/ pc' = [w \in Workers |-> 1]
  /\ now' = now \/ now' = now + 1
  /\ UNCHANGED <<program, log, recorded, promise>>

LEMMA ProgramStepKinds ==
  ASSUME WorkersTypeOK, [Next]_vars
  PROVE  \/ \E w \in Workers : \/ \E step \in Steps : Executes(w, step)
                               \/ Replays(w) \/ GetsEntry(w) \/ Finishes(w)
         \/ Rests
<1> USE DEF WorkersTypeOK, workerVars, promiseVars, passVars, clientVars
<1>1. ASSUME NEW w \in Workers, Create(w) \/ Subscribe(w) \/ PollReady(w) \/ AwaitReady(w)
      PROVE  (\E step \in Steps : Executes(w, step)) \/ Replays(w)
  <2>1. CASE Create(w)
    <3>1. CASE Live(w)
      <4>1. Executes(w, "create")
        BY <2>1, <3>1 DEF Create, At, RecordStep, Live, Executes
      <4> QED
        BY <4>1 DEF Steps
    <3>2. CASE ~Live(w)
      BY <2>1, <3>2 DEF Create, At, RecordStep, Live, Replays
    <3> QED
      BY <3>1, <3>2
  <2>2. CASE Subscribe(w)
    <3>1. CASE Live(w)
      <4>1. Executes(w, "subscribe")
        BY <2>2, <3>1 DEF Subscribe, At, RecordStep, Live, Executes
      <4> QED
        BY <4>1 DEF Steps
    <3>2. CASE ~Live(w)
      BY <2>2, <3>2 DEF Subscribe, At, RecordStep, Live, Replays
    <3> QED
      BY <3>1, <3>2
  <2>3. CASE PollReady(w)
    <3>1. CASE Live(w)
      <4>1. Executes(w, "sleep")
        BY <2>3, <3>1 DEF PollReady, At, RecordStep, Live, Executes
      <4> QED
        BY <4>1 DEF Steps
    <3>2. CASE ~Live(w)
      BY <2>3, <3>2 DEF PollReady, At, RecordStep, Live, Replays
    <3> QED
      BY <3>1, <3>2
  <2>4. CASE AwaitReady(w)
    <3>1. CASE Live(w)
      <4>1. Executes(w, "await")
        BY <2>4, <3>1 DEF AwaitReady, At, Live, Executes
      <4> QED
        BY <4>1 DEF Steps
    <3>2. CASE ~Live(w)
      BY <2>4, <3>2 DEF AwaitReady, At, Live, Replays
    <3> QED
      BY <3>1, <3>2
  <2> QED
    BY <1>1, <2>1, <2>2, <2>3, <2>4
<1>2. ASSUME NEW w \in Workers, Suspend(w) \/ InvokeAgain(w) PROVE GetsEntry(w)
  BY <1>2 DEF Suspend, InvokeAgain, GetsEntry
<1>3. ASSUME NEW w \in Workers, Finish(w) PROVE Finishes(w)
  <2>1. CASE Finished(w)
    BY <1>3, <2>1 DEF Finish, Finishes, Finished
  <2>2. CASE ~Finished(w)
    BY <1>3, <2>2 DEF Finish, Finishes, Finished
  <2> QED
    BY <2>1, <2>2
<1>4. ASSUME NEW w \in Workers,
             Enter(w) \/ Unload(w) \/ Sleep(w) \/ AwaitPending(w) \/ Activate(w)
      PROVE  Rests
  BY <1>4 DEF Enter, Unload, Sleep, AwaitPending, Activate, Rests
<1>5. ASSUME NEW c \in Clients, ClientStep(c) PROVE Rests
  BY <1>5 DEF ClientStep, WriteCompletion, Answer, WakeWorker, Rests
<1>6. ASSUME NEW x, Remove(x) PROVE Rests
  BY <1>6 DEF Remove, Rests
<1>7. CASE ReadPreviousHour \/ ReadCurrentHour \/ CompleteScheduled \/ CheckLastIndex
             \/ Archive \/ EndPass
  BY <1>7 DEF ReadPreviousHour, ReadCurrentHour, CompleteScheduled, CheckLastIndex, Archive,
     EndPass, Rests
<1>8. ASSUME NEW w, Activate(w) PROVE Rests
  BY <1>8 DEF Activate, Rests
<1>9. CASE Tick \/ StorageError \/ Crash \/ UNCHANGED vars
  BY <1>9 DEF Tick, StorageError, Crash, vars, Rests
<1> QED
  BY <1>1, <1>2, <1>3, <1>4, <1>5, <1>6, <1>7, <1>8, <1>9 DEF Next, WorkerStep, PassStep

(* Nothing that decides about promises and sleeps is ever taken back.      *)
Grows ==
  /\ program' = program
  /\ now <= now'
  /\ \A w \in Workers :
       /\ log[w] <= log'[w]
       /\ \/ promise'[w] = promise[w]
          \/ promise[w] = 0 /\ promise'[w] = log'[w] /\ log[w] < log'[w]

LEMMA ProgramStep ==
  ASSUME WorkersTypeOK, ProgramInv, [Next]_vars
  PROVE  WorkersTypeOK' /\ ProgramInv' /\ Grows
<1>0. /\ \/ \E w \in Workers : \/ \E step \in Steps : Executes(w, step)
                               \/ Replays(w) \/ GetsEntry(w) \/ Finishes(w)
         \/ Rests
      /\ \A w \in Workers : program[w] \in Seq(Steps) /\ Len(program[w]) \in Nat
  BY ProgramStepKinds DEF WorkersTypeOK
<1> USE DEF WorkersTypeOK
<1>1. ASSUME NEW w \in Workers, NEW step \in Steps, Executes(w, step)
      PROVE  WorkersTypeOK' /\ ProgramInv' /\ Grows
  <2>0. /\ recorded[w] = pc[w] - 1
        /\ pc[w] \in 1..Len(program[w]) /\ program[w][pc[w]] = step
    BY <1>0, <1>1 DEF Executes, ProgramInv, PcFollows
  <2>1. WorkersTypeOK'
    BY <1>0, <1>1 DEF Executes
  <2>2. PcFollows'
    <3> SUFFICES ASSUME NEW v \in Workers
                 PROVE  pc'[v] <= recorded'[v] + 1 /\ recorded'[v] <= Len(program[v]) + 1
      BY <1>1 DEF PcFollows, Executes
    <3>1. pc[v] <= recorded[v] + 1 /\ recorded[v] <= Len(program[v]) + 1
      BY DEF ProgramInv, PcFollows
    <3>2. CASE v = w
      <4>1. pc'[v] = pc[v] + 1 /\ recorded'[v] = pc[v]
        BY <1>1, <3>2 DEF Executes
      <4> QED
        BY <1>0, <2>0, <3>2, <4>1
    <3>3. CASE v # w
      <4>1. pc'[v] = pc[v] /\ recorded'[v] = recorded[v]
        BY <1>1, <3>3 DEF Executes
      <4> QED
        BY <3>1, <4>1
    <3> QED
      BY <3>2, <3>3
  <2>3. step = "create" => promise[w] = 0
    BY <1>0, <1>1, <2>0 DEF ProgramInv, PromiseRecorded, WellFormed
  <2>4. PromiseRecorded'
    <3> SUFFICES ASSUME NEW v \in Workers
                 PROVE  /\ promise'[v] <= log'[v]
                        /\ promise'[v] # 0 => \E i \in 1..Len(program[v]) :
                               i <= recorded'[v] /\ program[v][i] = "create"
      BY <1>1 DEF PromiseRecorded, Executes
    <3>1. /\ promise[v] <= log[v]
          /\ promise[v] # 0 => \E i \in 1..Len(program[v]) :
                 i <= recorded[v] /\ program[v][i] = "create"
      BY DEF ProgramInv, PromiseRecorded
    <3>2. CASE v = w /\ step = "create"
      BY <1>0, <1>1, <2>0, <3>2 DEF Executes
    <3>3. CASE v # w \/ step # "create"
      <4>1. promise'[v] = promise[v] /\ log[v] <= log'[v] /\ log'[v] \in Nat
        BY <1>1, <2>1, <3>3 DEF Executes
      <4>2. recorded[v] <= recorded'[v] /\ recorded'[v] \in Nat
        BY <1>1, <2>0, <2>1 DEF Executes
      <4>3. promise'[v] <= log'[v]
        BY <3>1, <4>1
      <4>4. ASSUME promise'[v] # 0
            PROVE  \E i \in 1..Len(program[v]) : i <= recorded'[v] /\ program[v][i] = "create"
        <5>1. PICK i \in 1..Len(program[v]) : i <= recorded[v] /\ program[v][i] = "create"
          BY <3>1, <4>1, <4>4
        <5>2. i <= recorded'[v]
          BY <1>0, <4>2, <5>1
        <5> QED
          BY <5>1, <5>2
      <4> QED
        BY <4>3, <4>4
    <3> QED
      BY <3>2, <3>3
  <2>5. FreshPromise'
    <3> DEFINE Fresh(v, r) ==
          \E i \in 1..Len(program[v]) :
            /\ i <= r /\ program[v][i] = "create"
            /\ \A n \in (i + 1)..Len(program[v]) : n <= r => program[v][n] = "await"
    <3> SUFFICES ASSUME NEW v \in Workers, (promise[v] = log[v])'
                 PROVE  Fresh(v, recorded'[v])
      BY <1>1 DEF FreshPromise, Executes
    <3>1. CASE v # w
      <4>1. promise'[v] = promise[v] /\ log'[v] = log[v] /\ recorded'[v] = recorded[v]
        BY <1>1, <3>1 DEF Executes
      <4> QED
        BY <4>1 DEF ProgramInv, FreshPromise
    <3>2. CASE v = w /\ step = "create"
      <4>1. recorded'[v] = pc[v] /\ pc[v] \in 1..Len(program[v]) /\ Len(program[v]) \in Nat
        BY <1>0, <1>1, <2>0, <3>2 DEF Executes
      <4>2. program[v][pc[v]] = "create"
        BY <2>0, <3>2
      <4>3. \A n \in (pc[v] + 1)..Len(program[v]) : ~(n <= recorded'[v])
        BY ONLY <4>1
      <4>4. pc[v] <= recorded'[v]
        BY ONLY <4>1
      <4> QED
        BY ONLY <4>1, <4>2, <4>3, <4>4
    <3>3. CASE v = w /\ step = "await"
      <4>1. promise[v] = log[v] /\ recorded'[v] = recorded[v] + 1 /\ recorded'[v] = pc[w]
        BY <1>0, <1>1, <2>0, <3>3 DEF Executes
      <4>2. PICK i \in 1..Len(program[v]) :
              /\ i <= recorded[v] /\ program[v][i] = "create"
              /\ \A n \in (i + 1)..Len(program[v]) : n <= recorded[v] => program[v][n] = "await"
        BY <4>1 DEF ProgramInv, FreshPromise
      <4>3. ASSUME NEW n \in (i + 1)..Len(program[v]), n <= recorded'[v]
            PROVE  program[v][n] = "await"
        <5>1. n <= recorded[v] \/ n = pc[w]
          BY <1>0, <4>1, <4>3
        <5> QED
          BY <2>0, <3>3, <4>2, <5>1
      <4>4. i <= recorded'[v]
        BY <1>0, <4>1, <4>2
      <4> QED
        BY <4>2, <4>3, <4>4
    <3>4. CASE v = w /\ step \in {"subscribe", "sleep"}
      <4>1. /\ promise'[v] = promise[v] /\ log'[v] = log[v] + 1 /\ promise[v] <= log[v]
            /\ promise[v] \in Nat /\ log[v] \in Nat
        BY <1>1, <3>4 DEF Executes, ProgramInv, PromiseRecorded
      <4>2. promise'[v] # log'[v]
        BY ONLY <4>1
      <4> QED
        BY <4>2
    <3> QED
      BY <3>1, <3>2, <3>3, <3>4 DEF Steps
  <2>6. SleptEnough'
    BY <1>0, <1>1, <2>0 DEF Executes, ProgramInv, SleptEnough
  <2>7. Grows
    BY <1>0, <1>1, <2>3 DEF Executes, Grows
  <2> QED
    BY <2>1, <2>2, <2>4, <2>5, <2>6, <2>7 DEF ProgramInv, Grows
<1>2. ASSUME NEW w \in Workers, Replays(w)
      PROVE  WorkersTypeOK' /\ ProgramInv' /\ Grows
  BY <1>0, <1>2 DEF Replays, ProgramInv, PcFollows, PromiseRecorded, FreshPromise, SleptEnough,
     Grows
<1>3. ASSUME NEW w \in Workers, GetsEntry(w)
      PROVE  WorkersTypeOK' /\ ProgramInv' /\ Grows
  <2>1. WorkersTypeOK' /\ Grows
    BY <1>0, <1>3 DEF GetsEntry, Grows
  <2>2. PcFollows' /\ SleptEnough'
    <3>1. PcFollows'
      <4>1. \A v \in Workers : pc'[v] \in {pc[v], 1} /\ pc'[v] <= recorded[v] + 1
        BY <1>3 DEF GetsEntry, ProgramInv, PcFollows
      <4> QED
        BY <1>3, <4>1 DEF GetsEntry, ProgramInv, PcFollows
    <3>2. SleptEnough'
      BY <1>0, <1>3 DEF GetsEntry, ProgramInv, SleptEnough
    <3> QED
      BY <3>1, <3>2
  <2>3. PromiseRecorded'
    <3>1. \A v \in Workers : log[v] <= log'[v] /\ promise[v] <= log[v]
      BY <1>3 DEF GetsEntry, ProgramInv, PromiseRecorded
    <3>2. \A v \in Workers : promise[v] <= log'[v]
      BY <1>3, <2>1, <3>1 DEF GetsEntry
    <3> QED
      BY <1>3, <3>2 DEF GetsEntry, ProgramInv, PromiseRecorded
  <2>4. FreshPromise'
    <3>1. promise[w] # log'[w]
      BY <1>3 DEF GetsEntry, ProgramInv, PromiseRecorded
    <3>2. \A v \in Workers : v # w => log'[v] = log[v]
      BY <1>3 DEF GetsEntry
    <3> QED
      BY <1>3, <3>1, <3>2 DEF GetsEntry, ProgramInv, FreshPromise
  <2> QED
    BY <1>3, <2>1, <2>2, <2>3, <2>4 DEF ProgramInv, Grows
<1>4. ASSUME NEW w \in Workers, Finishes(w)
      PROVE  WorkersTypeOK' /\ ProgramInv' /\ Grows
  <2>0. recorded[w] \in {Len(program[w]), Len(program[w]) + 1}
    BY <1>0, <1>4 DEF Finishes, ProgramInv, PcFollows
  <2>1. WorkersTypeOK'
    <3>1. Len(program[w]) + 1 \in Nat
      BY <1>0
    <3>2. /\ pc' \in [Workers -> Nat \ {0}] /\ log' \in [Workers -> Nat \ {0}]
          /\ recorded' \in [Workers -> Nat]
      BY <1>4, <3>1 DEF Finishes
    <3> QED
      BY <1>4, <3>2 DEF Finishes
  <2>5. Grows
    <3>1. \A v \in Workers : log'[v] \in {log[v], log[v] + 1}
      BY <1>4 DEF Finishes
    <3> QED
      BY <1>4, <3>1 DEF Finishes, Grows
  <2>2. PcFollows' /\ SleptEnough'
    <3>1. PcFollows'
      BY <1>0, <1>4, <2>0 DEF Finishes, ProgramInv, PcFollows
    <3>2. SleptEnough'
      BY <1>0, <1>4, <2>0 DEF Finishes, ProgramInv, SleptEnough
    <3> QED
      BY <3>1, <3>2
  <2>3. PromiseRecorded'
    BY <1>0, <1>4, <2>0 DEF Finishes, ProgramInv, PromiseRecorded
  <2>4. FreshPromise'
    <3>1. promise[w] # log'[w] \/ (log'[w] = log[w] /\ recorded'[w] = recorded[w])
      BY <1>4, <2>0 DEF Finishes, ProgramInv, PromiseRecorded
    <3>2. \A v \in Workers : v # w => log'[v] = log[v] /\ recorded'[v] = recorded[v]
      BY <1>4 DEF Finishes
    <3>3. program' = program /\ promise' = promise
      BY <1>4 DEF Finishes
    <3>4. \A v \in Workers : (promise[v] = log[v])' =>
            promise[v] = log[v] /\ recorded'[v] = recorded[v]
      BY <3>1, <3>2, <3>3
    <3> SUFFICES ASSUME NEW v \in Workers, (promise[v] = log[v])'
                 PROVE  \E i \in 1..Len(program[v]) :
                          /\ i <= recorded'[v] /\ program[v][i] = "create"
                          /\ \A n \in (i + 1)..Len(program[v]) :
                               n <= recorded'[v] => program[v][n] = "await"
      BY <3>3 DEF FreshPromise
    <3> QED
      BY <3>4 DEF ProgramInv, FreshPromise
  <2> QED
    BY <1>4, <2>1, <2>5, <2>2, <2>3, <2>4 DEF ProgramInv, Grows
<1>5. CASE Rests
  <2>1. WorkersTypeOK' /\ Grows
    BY <1>0, <1>5 DEF Rests, Grows
  <2>2. PcFollows' /\ PromiseRecorded' /\ FreshPromise'
    BY <1>0, <1>5 DEF Rests, ProgramInv, PcFollows, PromiseRecorded, FreshPromise
  <2>3. SleptEnough'
    <3> SUFFICES ASSUME NEW w \in Workers, Deadline[w] <= now
                 PROVE  Deadline[w] <= now'
      BY <1>5 DEF Rests, ProgramInv, SleptEnough
    <3>1. Deadline[w] \in Nat /\ now <= now' /\ now' \in Nat
      BY <2>1, SuspensionAssumption DEF Grows
    <3> QED
      BY <3>1
  <2> QED
    BY <1>5, <2>1, <2>2, <2>3 DEF ProgramInv, Grows
<1> QED
  BY <1>0, <1>1, <1>2, <1>3, <1>4, <1>5

(* At the sleep that a worker executes the promise it has created is the   *)
(* last entry only if it has recorded nothing since.                       *)
LEMMA SleepIsApart ==
  ASSUME WorkersTypeOK, ProgramInv, NEW w \in Workers, At(w, "sleep"), Live(w)
  PROVE  SleepIndex(w, log[w])
<1>1. /\ Len(program[w]) \in Nat /\ pc[w] \in Nat \ {0} /\ recorded[w] \in Nat
      /\ log[w] \in Nat \ {0} /\ promise[w] \in Nat
  BY DEF WorkersTypeOK
<1>2. /\ recorded[w] = pc[w] - 1
      /\ pc[w] \in 1..Len(program[w]) /\ program[w][pc[w]] = "sleep"
  BY <1>1 DEF At, Live, ProgramInv, PcFollows
<1>3. ASSUME promise[w] = log[w] PROVE SharesName(program[w])
  <2>1. PICK i \in 1..Len(program[w]) :
          /\ i <= recorded[w] /\ program[w][i] = "create"
          /\ \A n \in (i + 1)..Len(program[w]) : n <= recorded[w] => program[w][n] = "await"
    BY <1>3 DEF ProgramInv, FreshPromise
  <2>2. i < pc[w] /\ \A n \in (i + 1)..(pc[w] - 1) : program[w][n] = "await"
    BY <1>1, <1>2, <2>1
  <2> QED
    BY <1>2, <2>1, <2>2 DEF SharesName
<1> QED
  BY <1>1, <1>3 DEF SleepIndex

(* Once the index of a sleep is apart from the promise, it stays apart.    *)
LEMMA SleepIndexKept ==
  ASSUME WorkersTypeOK, WorkersTypeOK', Grows,
         NEW w \in Workers, NEW n, SleepIndex(w, n)
  PROVE  SleepIndex(w, n)'
<1>1. /\ log[w] \in Nat /\ log'[w] \in Nat /\ promise[w] \in Nat /\ promise'[w] \in Nat
      /\ n \in 1..log[w]
  BY DEF WorkersTypeOK, SleepIndex
<1>2. /\ log[w] <= log'[w] /\ program' = program
      /\ \/ promise'[w] = promise[w]
         \/ promise[w] = 0 /\ promise'[w] = log'[w] /\ log[w] < log'[w]
  BY DEF Grows
<1>3. n \in 1..log'[w] /\ (n # promise[w] => n # promise'[w])
  BY ONLY <1>1, <1>2
<1> QED
  BY <1>2, <1>3 DEF SleepIndex

(* So do the scheduled actions and the deadlines that are over.            *)
LEMMA ItemKept ==
  ASSUME WorkersTypeOK, WorkersTypeOK', Grows, NEW x \in Items, ItemOK(x)
  PROVE  ItemOK(x)'
<1>1. x.action \in Actions
  BY DEF Items
<1>2. x.action[2] \in Workers
  BY <1>1 DEF Actions
<1> QED
  BY <1>2, SleepIndexKept DEF ItemOK

LEMMA DueKept ==
  ASSUME WorkersTypeOK, WorkersTypeOK', Grows, NEW t \in Nat, t <= now
  PROVE  t <= now'
BY DEF WorkersTypeOK, Grows

LEMMA DeadlineNat == \A w \in Workers : Deadline[w] \in Nat
BY SuspensionAssumption

-----------------------------------------------------------------------------
(* The scheduled actions: what the steps do to the set and to the pass.    *)

(* A set of actions that comes from the schedule is one of the schedule.   *)
LEMMA ScheduledItems ==
  ASSUME SchedulerTypeOK, NEW t \in Nat, NEW a \in Actions
  PROVE  /\ Scheduled(t, a) \subseteq Items
         /\ \A x \in Scheduled(t, a) : x \in schedule \/ x = [at |-> t, action |-> a]
<1>1. [at |-> t, action |-> a] \in Items
  BY DEF Items
<1> QED
  BY <1>1 DEF Scheduled, SchedulerTypeOK

(* What is new in the schedule is the archiving of an oplog, or the        *)
(* completion of a sleep at its deadline.                                  *)
LEMMA ScheduleStep ==
  ASSUME SuspensionInv, [Next]_vars
  PROVE  schedule' \subseteq Items /\ \A x \in schedule' : ItemOK(x)
<1> USE DEF workerVars, promiseVars, passVars, clientVars
<1>0. /\ SchedulerTypeOK /\ ScheduleInv /\ WorkersTypeOK /\ ProgramInv /\ PassInv
      /\ ProgramInv' /\ WorkersTypeOK' /\ Grows
  BY ProgramStep DEF SuspensionInv
<1>1. ASSUME NEW w \in Workers, Sleep(w)
      PROVE  schedule' \subseteq Items /\ \A x \in schedule' : ItemOK(x)
  <2>1. <<"complete", w, log[w]>> \in Actions /\ Deadline[w] \in Nat
    BY <1>0, DeadlineNat DEF WorkersTypeOK, Actions
  <2>2. schedule' = Scheduled(Deadline[w], <<"complete", w, log[w]>>)
    BY <1>1 DEF Sleep, CompletePromise
  <2>3. SleepIndex(w, log[w])
    BY <1>0, <1>1, SleepIsApart DEF Sleep
  <2>4. ItemOK([at |-> Deadline[w], action |-> <<"complete", w, log[w]>>])
    BY <2>3 DEF ItemOK
  <2> QED
    BY <1>0, <2>1, <2>2, <2>4, ScheduledItems DEF ScheduleInv
<1>2. ASSUME NEW w \in Workers, Finish(w) \/ InvokeAgain(w)
      PROVE  schedule' \subseteq Items /\ \A x \in schedule' : ItemOK(x)
  <2>1. <<"archive", w, log'[w]>> \in Actions /\ now + ArchiveAfter \in Nat
    BY <1>0, SuspensionAssumption DEF WorkersTypeOK, Actions
  <2>2. schedule' = Scheduled(now + ArchiveAfter, <<"archive", w, log'[w]>>)
    BY <1>2 DEF Finish, InvokeAgain, ArchiveOplog
  <2>3. ItemOK([at |-> now + ArchiveAfter, action |-> <<"archive", w, log'[w]>>])
    BY DEF ItemOK
  <2> QED
    BY <1>0, <2>1, <2>2, <2>3, ScheduledItems DEF ScheduleInv
<1>3. CASE Archive
  <2>1. pass.action \in Actions /\ pass.action[1] = "archive" /\ pass.at + ArchiveAfter \in Nat
    BY <1>0, <1>3, SuspensionAssumption DEF Archive, PassInv, SchedulerTypeOK
  <2>2. schedule' = schedule \/ schedule' = Scheduled(pass.at + ArchiveAfter, pass.action)
    BY <1>3 DEF Archive
  <2>3. ItemOK([at |-> pass.at + ArchiveAfter, action |-> pass.action])
    BY <2>1 DEF ItemOK
  <2> QED
    BY <1>0, <2>1, <2>2, <2>3, ScheduledItems DEF SchedulerTypeOK, ScheduleInv
<1>4. CASE schedule' \subseteq schedule
  BY <1>0, <1>4 DEF SchedulerTypeOK, ScheduleInv
<1>5. ASSUME NEW w \in Workers,
             \/ Enter(w) \/ Suspend(w) \/ Unload(w) \/ Create(w) \/ Subscribe(w)
             \/ PollReady(w) \/ AwaitReady(w) \/ AwaitPending(w)
      PROVE  schedule' \subseteq schedule
  BY <1>5 DEF Enter, Suspend, Unload, Create, Subscribe, PollReady, AwaitReady, AwaitPending
<1>6. ASSUME NEW c \in Clients, ClientStep(c) PROVE schedule' \subseteq schedule
  BY <1>6 DEF ClientStep, WriteCompletion, Answer, WakeWorker
<1>7. ASSUME NEW x, Remove(x) \/ Activate(x) PROVE schedule' \subseteq schedule
  BY <1>7 DEF Remove, Activate
<1>8. CASE \/ ReadPreviousHour \/ ReadCurrentHour \/ CompleteScheduled \/ CheckLastIndex
           \/ EndPass \/ Tick \/ StorageError \/ Crash \/ UNCHANGED vars
  <2>1. schedule' = schedule
    BY <1>8 DEF ReadPreviousHour, ReadCurrentHour, CompleteScheduled, CheckLastIndex, EndPass,
       Tick, StorageError, Crash, vars
  <2> QED
    BY <2>1, <1>4
<1> QED
  BY <1>1, <1>2, <1>3, <1>4, <1>5, <1>6, <1>7, <1>8 DEF Next, WorkerStep, PassStep

LEMMA PassInvKept ==
  ASSUME SuspensionInv, WorkersTypeOK', Grows, pass' = pass
  PROVE  PassInv'
<1>0. PassInv /\ SchedulerTypeOK /\ WorkersTypeOK
  BY DEF SuspensionInv
<1>1. pass.at <= now'
  BY <1>0, DueKept DEF PassInv, SchedulerTypeOK
<1>2. ASSUME NEW x \in pass.batch
      PROVE  ItemOK(x)' /\ (x.action[1] = "complete" => x.at <= now')
  <2>1. x \in Items /\ x.at \in Nat
    BY <1>0, <1>2 DEF SchedulerTypeOK, Items
  <2> QED
    BY <1>0, <1>2, <2>1, ItemKept, DueKept DEF PassInv
<1>3. ASSUME pass.step = "complete"
      PROVE  /\ pass.action \in Actions
             /\ SleepIndex(pass.action[2], pass.action[3])'
             /\ Deadline[pass.action[2]] <= now'
  <2>1. pass.action \in Actions /\ pass.action[2] \in Workers
    BY <1>0, <1>3 DEF PassInv, Actions
  <2>2. Deadline[pass.action[2]] \in Nat
    BY <2>1, DeadlineNat
  <2>3. SleepIndex(pass.action[2], pass.action[3])'
    BY <1>0, <1>3, <2>1, SleepIndexKept DEF PassInv
  <2> QED
    BY <1>0, <1>3, <2>1, <2>2, <2>3, DueKept DEF PassInv
<1> QED
  BY <1>0, <1>1, <1>2, <1>3 DEF PassInv

(* A pass only performs what was due when it began.                        *)
LEMMA SchedulerStep ==
  ASSUME SuspensionInv, [Next]_vars
  PROVE  SchedulerTypeOK' /\ ScheduleInv' /\ PassInv'
<1> USE DEF workerVars, promiseVars, passVars, clientVars
<1>0. /\ SchedulerTypeOK /\ ScheduleInv /\ WorkersTypeOK /\ ProgramInv /\ PassInv
      /\ ProgramInv' /\ WorkersTypeOK' /\ Grows
      /\ now \in Nat /\ pass.at \in Nat
  BY ProgramStep DEF SuspensionInv, WorkersTypeOK, SchedulerTypeOK
<1>1. schedule' \subseteq Items /\ ScheduleInv'
  BY <1>0, ScheduleStep, ItemKept DEF ScheduleInv
<1>2. CASE pass' = pass
  BY <1>0, <1>1, <1>2, PassInvKept DEF SchedulerTypeOK
<1>3. CASE pass' = NoPass
  BY <1>0, <1>1, <1>3 DEF SchedulerTypeOK, PassInv, NoPass, PassSteps, WorkersTypeOK
<1>4. CASE ReadPreviousHour
  <2>1. pass' = [step |-> "read", at |-> now,
                 batch |-> {x \in schedule : Hour(x.at) = Hour(now) - 1},
                 workers |-> {}, action |-> <<>>]
        /\ schedule' = schedule /\ now' = now
    BY <1>4 DEF ReadPreviousHour, NoPass
  <2>2. SchedulerTypeOK'
    BY <1>0, <1>1, <2>1 DEF SchedulerTypeOK, PassSteps
  <2>3. ASSUME NEW x \in schedule, Hour(x.at) = Hour(now) - 1
        PROVE  ItemOK(x)' /\ x.at <= now
    <3>1. x.at \in Nat
      BY <1>0 DEF SchedulerTypeOK, Items
    <3>2. Hour(x.at) \in Nat /\ Hour(now) \in Nat
      BY <1>0, <3>1, HourAndTicks DEF Hour
    <3>3. x.at < now
      BY <1>0, <2>3, <3>1, <3>2, EarlierHour
    <3> QED
      BY <1>0, <1>1, <2>1, <3>1, <3>3 DEF ScheduleInv
  <2> QED
    BY <1>0, <1>1, <2>1, <2>2, <2>3 DEF PassInv
<1>5. CASE ReadCurrentHour
  <2>1. /\ pass' = [pass EXCEPT !.step = "perform", !.batch = @ \cup DueThisHour(pass.at)]
        /\ schedule' = schedule /\ now' = now /\ log' = log /\ promise' = promise
        /\ program' = program
    BY <1>5 DEF ReadCurrentHour
  <2>2. /\ pass'.step = "perform" /\ pass'.at = pass.at
        /\ pass'.batch = pass.batch \cup DueThisHour(pass.at)
    BY <1>0, <2>1 DEF SchedulerTypeOK
  <2>3. SchedulerTypeOK'
    BY <1>0, <1>1, <2>1 DEF SchedulerTypeOK, PassSteps, DueThisHour
  <2>4. ASSUME NEW x \in DueThisHour(pass.at)
        PROVE  ItemOK(x)' /\ x.at <= now
    <3>1. /\ x \in schedule /\ x.at \in Nat
          /\ Hour(x.at) = Hour(pass.at) /\ x.at % HourLength <= pass.at % HourLength
      BY <1>0, <2>4 DEF DueThisHour, SchedulerTypeOK, Items
    <3>2. x.at <= pass.at
      BY <1>0, <3>1, SameHour
    <3> QED
      BY <1>0, <1>1, <2>1, <3>1, <3>2 DEF ScheduleInv, PassInv
  <2>5. ASSUME NEW x \in pass.batch
        PROVE  ItemOK(x)' /\ (x.action[1] = "complete" => x.at <= now)
    BY <1>0, <2>1 DEF PassInv, ItemOK, SleepIndex
  <2> QED
    BY <1>0, <1>1, <2>1, <2>2, <2>3, <2>4, <2>5 DEF PassInv
<1>6. ASSUME NEW x \in pass.batch, Remove(x)
      PROVE  SchedulerTypeOK' /\ PassInv'
  <2>1. /\ pass' = [pass EXCEPT !.step = x.action[1], !.action = x.action,
                      !.batch = @ \ {x}, !.workers = @ \cup {WorkerOf(x.action)}]
        /\ now' = now /\ log' = log /\ promise' = promise
        /\ program' = program
    BY <1>6 DEF Remove
  <2>2. /\ x \in Items /\ x.action \in Actions /\ x.action[1] \in {"complete", "archive"}
        /\ x.action[2] \in Workers
    BY <1>0, <1>6 DEF SchedulerTypeOK, Items, Actions
  <2>3. SchedulerTypeOK'
    BY <1>0, <1>1, <2>1, <2>2 DEF SchedulerTypeOK, PassSteps, WorkerOf
  <2>4. /\ pass'.step = x.action[1] /\ pass'.at = pass.at /\ pass'.action = x.action
        /\ pass'.batch = pass.batch \ {x}
    BY <1>0, <2>1 DEF SchedulerTypeOK
  <2>5. ASSUME NEW y \in pass.batch
        PROVE  ItemOK(y)' /\ (y.action[1] = "complete" => y.at <= now)
    BY <1>0, <2>1 DEF PassInv, ItemOK, SleepIndex
  <2>6. x.action[1] = "complete" =>
          /\ SleepIndex(x.action[2], x.action[3])'
          /\ Deadline[x.action[2]] <= now
    BY <2>5, <1>6 DEF ItemOK
  <2> QED
    BY <1>0, <2>1, <2>2, <2>3, <2>4, <2>5, <2>6 DEF PassInv
<1>7. ASSUME \/ CompleteScheduled \/ Archive
             \/ CheckLastIndex /\ log[pass.action[2]] # pass.action[3]
      PROVE  SchedulerTypeOK' /\ PassInv'
  <2>1. /\ pass' = [pass EXCEPT !.step = "perform", !.action = <<>>]
        /\ now' = now /\ log' = log /\ promise' = promise
        /\ program' = program
    BY <1>7 DEF CompleteScheduled, Archive, CheckLastIndex
  <2>2. SchedulerTypeOK'
    BY <1>0, <1>1, <2>1 DEF SchedulerTypeOK, PassSteps
  <2>3. pass'.step = "perform" /\ pass'.at = pass.at /\ pass'.batch = pass.batch
    BY <1>0, <2>1 DEF SchedulerTypeOK
  <2> QED
    BY <1>0, <2>1, <2>2, <2>3 DEF PassInv, ItemOK, SleepIndex
<1>8. ASSUME CheckLastIndex, log[pass.action[2]] = pass.action[3]
      PROVE  SchedulerTypeOK' /\ PassInv'
  <2>1. /\ pass' = [pass EXCEPT !.step = "unchanged"]
        /\ pass.step = "archive"
        /\ now' = now /\ log' = log /\ promise' = promise
        /\ program' = program
    BY <1>8 DEF CheckLastIndex
  <2>2. SchedulerTypeOK'
    BY <1>0, <1>1, <2>1 DEF SchedulerTypeOK, PassSteps
  <2>3. /\ pass'.step = "unchanged" /\ pass'.at = pass.at /\ pass'.batch = pass.batch
        /\ pass'.action = pass.action
    BY <1>0, <2>1 DEF SchedulerTypeOK
  <2> QED
    BY <1>0, <2>1, <2>2, <2>3 DEF PassInv, ItemOK, SleepIndex
<1>9. ASSUME NEW w \in pass.workers, Activate(w)
      PROVE  SchedulerTypeOK' /\ PassInv'
  <2>1. /\ pass' = [pass EXCEPT !.workers = @ \ {w}]
        /\ now' = now /\ log' = log /\ promise' = promise
        /\ program' = program
    BY <1>9 DEF Activate
  <2>2. SchedulerTypeOK'
    BY <1>0, <1>1, <2>1 DEF SchedulerTypeOK
  <2>3. /\ pass'.step = pass.step /\ pass'.at = pass.at /\ pass'.batch = pass.batch
        /\ pass'.action = pass.action
    BY <1>0, <2>1 DEF SchedulerTypeOK
  <2> QED
    BY <1>0, <2>1, <2>2, <2>3 DEF PassInv, ItemOK, SleepIndex
<1>10. ASSUME NEW w \in Workers, WorkerStep(w) \/ Unload(w) \/ InvokeAgain(w)
       PROVE  pass' = pass
  BY <1>10 DEF WorkerStep, Enter, Suspend, Unload, Create, Subscribe, PollReady, Sleep, AwaitReady,
     AwaitPending, Finish, InvokeAgain
<1>11. ASSUME NEW c \in Clients, ClientStep(c) PROVE pass' = pass
  BY <1>11 DEF ClientStep, WriteCompletion, Answer, WakeWorker
<1>12. ASSUME Tick \/ StorageError \/ Crash \/ EndPass \/ UNCHANGED vars
       PROVE  pass' = pass \/ pass' = NoPass
  BY <1>12 DEF Tick, StorageError, Crash, EndPass, vars
<1> QED
  BY <1>1, <1>2, <1>3, <1>4, <1>5, <1>6, <1>7, <1>8, <1>9, <1>10, <1>11, <1>12
     DEF Next, PassStep

-----------------------------------------------------------------------------
(* The results.                                                            *)

(* A result that is written is never overwritten: the first completion     *)
(* counts.                                                                 *)
ResultsKept ==
  \A i \in DOMAIN result : i \in DOMAIN result' /\ result'[i] = result[i]

LEMMA WriteKeeps ==
  ASSUME NEW id, NEW data, WriteResult(id, data)
  PROVE  /\ ResultsKept
         /\ DOMAIN result' = DOMAIN result \cup {id}
         /\ id \notin DOMAIN result => result'[id] = data
BY DEF WriteResult, ResultsKept

LEMMA ResultStep ==
  ASSUME SuspensionInv, [Next]_vars
  PROVE  /\ ResultsKept
         /\ \/ result' = result
            \/ \E c \in Clients : WriteCompletion(c)
            \/ CompleteScheduled
<1> USE DEF workerVars, promiseVars, passVars, clientVars
<1>1. ASSUME NEW w \in Workers, WorkerStep(w) \/ Unload(w) \/ InvokeAgain(w)
      PROVE  result' = result
  BY <1>1 DEF WorkerStep, Enter, Suspend, Unload, Create, Subscribe, PollReady, Sleep, AwaitReady,
     AwaitPending, Finish, InvokeAgain
<1>2. ASSUME NEW c \in Clients, Answer(c) \/ WakeWorker(c) PROVE result' = result
  BY <1>2 DEF Answer, WakeWorker
<1>3. ASSUME NEW x, Remove(x) \/ Activate(x) PROVE result' = result
  BY <1>3 DEF Remove, Activate
<1>4. ASSUME \/ ReadPreviousHour \/ ReadCurrentHour \/ CheckLastIndex \/ Archive \/ EndPass
             \/ Tick \/ StorageError \/ Crash \/ UNCHANGED vars
      PROVE  result' = result
  BY <1>4 DEF ReadPreviousHour, ReadCurrentHour, CheckLastIndex, Archive, EndPass, Tick,
     StorageError, Crash, vars
<1>5. ASSUME NEW c \in Clients, WriteCompletion(c) PROVE ResultsKept
  BY <1>5, WriteKeeps DEF WriteCompletion
<1>6. ASSUME CompleteScheduled PROVE ResultsKept
  BY <1>6, WriteKeeps DEF CompleteScheduled
<1>7. ASSUME result' = result PROVE ResultsKept
  BY <1>7 DEF ResultsKept
<1> QED
  BY <1>1, <1>2, <1>3, <1>4, <1>5, <1>6, <1>7 DEF Next, PassStep, ClientStep

LEMMA ResultInvStep ==
  ASSUME SuspensionInv, [Next]_vars
  PROVE  ResultInv'
<1>0. /\ SchedulerTypeOK /\ WorkersTypeOK /\ PassInv /\ ResultInv
      /\ WorkersTypeOK' /\ Grows /\ ResultsKept
  BY ProgramStep, ResultStep DEF SuspensionInv
<1>1. ASSUME NEW i \in DOMAIN result
      PROVE  /\ i \in Workers \X (Nat \ {0})
             /\ result'[i] = Empty => SleepIndex(i[1], i[2])' /\ Deadline[i[1]] <= now'
  <2>1. /\ i \in Workers \X (Nat \ {0}) /\ i[1] \in Workers /\ Deadline[i[1]] \in Nat
        /\ result'[i] = result[i]
    BY <1>0, DeadlineNat DEF ResultInv, ResultsKept
  <2>2. ASSUME result[i] = Empty PROVE SleepIndex(i[1], i[2])' /\ Deadline[i[1]] <= now'
    BY <1>0, <2>1, <2>2, SleepIndexKept, DueKept DEF ResultInv
  <2> QED
    BY <2>1, <2>2
<1>2. CASE result' = result
  BY <1>1, <1>2 DEF ResultInv
<1>3. ASSUME NEW c \in Clients, WriteCompletion(c) PROVE ResultInv'
  <2>1. /\ Target[c] \in Workers /\ promise[Target[c]] \in Nat \ {0}
        /\ WriteResult(PromiseOf(Target[c]), c)
    BY <1>0, <1>3, SuspensionAssumption DEF WriteCompletion, WorkersTypeOK
  <2>2. PromiseOf(Target[c]) \in Workers \X (Nat \ {0})
    BY <2>1 DEF PromiseOf
  <2>3. /\ DOMAIN result' = DOMAIN result \cup {PromiseOf(Target[c])}
        /\ PromiseOf(Target[c]) \notin DOMAIN result => result'[PromiseOf(Target[c])] = c
    BY <2>1, WriteKeeps
  <2> QED
    BY <1>1, <2>2, <2>3, SuspensionAssumption DEF ResultInv
<1>4. CASE CompleteScheduled
  <2>1. /\ pass.action \in Actions
        /\ SleepIndex(pass.action[2], pass.action[3])
        /\ Deadline[pass.action[2]] <= now
        /\ WriteResult(<<pass.action[2], pass.action[3]>>, Empty)
    BY <1>0, <1>4 DEF CompleteScheduled, PassInv
  <2>2. pass.action[2] \in Workers /\ pass.action[3] \in Nat \ {0}
    BY <1>0, <2>1 DEF Actions, SleepIndex, WorkersTypeOK
  <2>3. PICK w \in Workers, n \in Nat \ {0} : w = pass.action[2] /\ n = pass.action[3]
    BY <2>2
  <2>4. SleepIndex(w, n)' /\ Deadline[w] <= now'
    BY <1>0, <2>1, <2>3, SleepIndexKept, DueKept, DeadlineNat
  <2>5. DOMAIN result' = DOMAIN result \cup {<<w, n>>}
    BY <2>1, <2>3, WriteKeeps
  <2> QED
    BY <1>1, <2>4, <2>5 DEF ResultInv
<1> QED
  BY <1>2, <1>3, <1>4, ResultStep

-----------------------------------------------------------------------------
(* The answers.                                                            *)

(* A result under the name of a worker's promise stays its result.         *)
LEMMA PromiseKept ==
  ASSUME SuspensionInv, [Next]_vars, NEW w \in Workers, PromiseOf(w) \in DOMAIN result
  PROVE  /\ PromiseOf(w)' = PromiseOf(w) /\ promise[w] # 0 /\ promise'[w] # 0
         /\ PromiseOf(w)' \in DOMAIN result' /\ result'[PromiseOf(w)'] = result[PromiseOf(w)]
<1>1. ResultsKept /\ Grows /\ WorkersTypeOK
  BY ProgramStep, ResultStep DEF SuspensionInv
<1>2. promise[w] # 0
  BY DEF SuspensionInv, ResultInv, PromiseOf
<1>3. promise'[w] = promise[w]
  BY <1>1, <1>2 DEF Grows
<1>4. PromiseOf(w)' = PromiseOf(w)
  BY <1>3 DEF PromiseOf
<1> QED
  BY <1>1, <1>2, <1>3, <1>4 DEF ResultsKept

(* Who has written the result, and who was told so.                        *)
Credited(c) ==
  /\ promise[Target[c]] # 0
  /\ PromiseOf(Target[c]) \in DOMAIN result
  /\ result[PromiseOf(Target[c])] = c

LEMMA AnswerStep ==
  ASSUME SuspensionInv, [Next]_vars
  PROVE  ClientsTypeOK' /\ AnswerInv'
<1> USE DEF workerVars, promiseVars, passVars, clientVars
<1>0. ClientsTypeOK /\ WorkersTypeOK /\ AnswerInv /\ ResultInv
  BY DEF SuspensionInv
<1>1. ASSUME NEW c \in Clients, Credited(c) PROVE Credited(c)'
  <2>1. Target[c] \in Workers
    BY SuspensionAssumption
  <2> QED
    BY <1>1, <2>1, PromiseKept DEF Credited
<1>2. ASSUME NEW w \in Workers, NEW x \in got[w]
      PROVE  PromiseOf(w)' \in DOMAIN result' /\ x = result'[PromiseOf(w)']
  BY <1>0, <1>2, PromiseKept DEF AnswerInv
<1>3. \A c \in Clients : client[c] = "written" \/ told[c] = "true" => Credited(c)'
  BY <1>0, <1>1 DEF AnswerInv, Credited
<1>4. ASSUME /\ client' \in [Clients -> {"start", "retry", "written", "lost", "answered", "done"}]
             /\ told' \in [Clients -> {"nothing", "true", "false"}]
             /\ \A c \in Clients : client'[c] = "written" \/ told'[c] = "true" => Credited(c)',
             got' = got
      PROVE  ClientsTypeOK' /\ AnswerInv'
  BY <1>0, <1>2, <1>4 DEF ClientsTypeOK, AnswerInv, Credited
<1>5. CASE UNCHANGED <<client, told, got>>
  BY <1>0, <1>3, <1>4, <1>5 DEF ClientsTypeOK
<1>6. ASSUME NEW c \in Clients, WriteCompletion(c) PROVE ClientsTypeOK' /\ AnswerInv'
  <2>1. /\ Target[c] \in Workers /\ promise[Target[c]] # 0 /\ promise' = promise
        /\ WriteResult(PromiseOf(Target[c]), c)
        /\ client' = [client EXCEPT ![c] =
             IF PromiseOf(Target[c]) \in DOMAIN result THEN "lost" ELSE "written"]
        /\ told' = told /\ got' = got
    BY <1>6, SuspensionAssumption DEF WriteCompletion
  <2>2. client' \in [Clients -> {"start", "retry", "written", "lost", "answered", "done"}]
    BY <1>0, <2>1 DEF ClientsTypeOK
  <2>3. client'[c] = "written" => Credited(c)'
    <3>1. SUFFICES ASSUME PromiseOf(Target[c]) \notin DOMAIN result PROVE Credited(c)'
      BY <1>0, <2>1 DEF ClientsTypeOK
    <3>2. /\ PromiseOf(Target[c]) \in DOMAIN result' /\ result'[PromiseOf(Target[c])] = c
      BY <2>1, <3>1, WriteKeeps
    <3> QED
      BY <2>1, <3>2 DEF Credited, PromiseOf
  <2>4. \A d \in Clients : client'[d] = "written" \/ told'[d] = "true" => Credited(d)'
    BY <1>0, <1>3, <2>1, <2>3 DEF ClientsTypeOK
  <2> QED
    BY <1>0, <1>4, <2>1, <2>2, <2>4 DEF ClientsTypeOK
<1>7. ASSUME NEW c \in Clients, Answer(c) PROVE ClientsTypeOK' /\ AnswerInv'
  <2>1. /\ told' = [told EXCEPT ![c] = IF client[c] = "written" THEN "true" ELSE "false"]
        /\ client' = [client EXCEPT ![c] = IF c \in GuestClients THEN "done" ELSE "answered"]
        /\ got' = got
    BY <1>7 DEF Answer
  <2>2. /\ client' \in [Clients -> {"start", "retry", "written", "lost", "answered", "done"}]
        /\ told' \in [Clients -> {"nothing", "true", "false"}]
    BY <1>0, <2>1 DEF ClientsTypeOK
  <2>3. \A d \in Clients : client'[d] = "written" \/ told'[d] = "true" => Credited(d)'
    BY <1>0, <1>3, <2>1 DEF ClientsTypeOK
  <2> QED
    BY <1>4, <2>1, <2>2, <2>3
<1>8. ASSUME \/ \E c \in Clients : client' = [client EXCEPT ![c] = "done"]
             \/ client' = [c \in Clients |->
                  IF client[c] \in {"written", "lost", "answered"} THEN "retry" ELSE client[c]],
             told' = told, got' = got
      PROVE  ClientsTypeOK' /\ AnswerInv'
  BY <1>0, <1>3, <1>4, <1>8 DEF ClientsTypeOK
<1>9. ASSUME NEW w \in Workers, AwaitReady(w) PROVE ClientsTypeOK' /\ AnswerInv'
  <2>1. /\ PromiseOf(w) \in DOMAIN result /\ result' = result /\ promise' = promise
        /\ got' = [got EXCEPT ![w] = @ \cup {result[PromiseOf(w)]}]
        /\ client' = client /\ told' = told
    BY <1>9 DEF AwaitReady
  <2>2. DOMAIN got' = Workers
    BY <1>0, <2>1 DEF ClientsTypeOK
  <2>3. ASSUME NEW v \in Workers, NEW x \in got'[v]
        PROVE  PromiseOf(v)' \in DOMAIN result' /\ x = result'[PromiseOf(v)']
    <3>1. x \in got[v] \/ (v = w /\ x = result[PromiseOf(w)])
      BY <1>0, <2>1, <2>3 DEF ClientsTypeOK
    <3>2. PromiseOf(v)' = PromiseOf(v)
      BY <2>1 DEF PromiseOf
    <3> QED
      BY <1>2, <2>1, <3>1, <3>2
  <2> QED
    BY <1>0, <1>3, <2>1, <2>2, <2>3 DEF ClientsTypeOK, AnswerInv, Credited
<1>10. ASSUME NEW w \in Workers,
              \/ Enter(w) \/ Suspend(w) \/ Unload(w) \/ Create(w) \/ Subscribe(w)
              \/ PollReady(w) \/ Sleep(w) \/ AwaitPending(w) \/ Finish(w) \/ InvokeAgain(w)
       PROVE  UNCHANGED <<client, told, got>>
  BY <1>10 DEF Enter, Suspend, Unload, Create, Subscribe, PollReady, Sleep, AwaitPending, Finish,
     InvokeAgain
<1>11. ASSUME NEW c \in Clients, WakeWorker(c) PROVE ClientsTypeOK' /\ AnswerInv'
  BY <1>8, <1>11 DEF WakeWorker
<1>12. ASSUME NEW x, Remove(x) \/ Activate(x) PROVE UNCHANGED <<client, told, got>>
  BY <1>12 DEF Remove, Activate
<1>13. ASSUME \/ ReadPreviousHour \/ ReadCurrentHour \/ CompleteScheduled \/ CheckLastIndex
              \/ Archive \/ EndPass \/ Tick \/ StorageError \/ UNCHANGED vars
       PROVE  UNCHANGED <<client, told, got>>
  BY <1>13 DEF ReadPreviousHour, ReadCurrentHour, CompleteScheduled, CheckLastIndex, Archive,
     EndPass, Tick, StorageError, vars
<1>14. CASE Crash
  BY <1>8, <1>14 DEF Crash
<1> QED
  BY <1>5, <1>6, <1>7, <1>9, <1>10, <1>11, <1>12, <1>13, <1>14
     DEF Next, WorkerStep, ClientStep, PassStep

-----------------------------------------------------------------------------
LEMMA SuspensionInit == Init => SuspensionInv
<1> SUFFICES ASSUME Init PROVE SuspensionInv
  OBVIOUS
<1>1. PICK s \in Scenarios :
        /\ program = s.program
        /\ client = [c \in Clients |-> IF c \in s.callers THEN "start" ELSE "done"]
  BY DEF Init
<1>2. program \in [Workers -> Seq(Steps)] /\ \A w \in Workers : WellFormed(program[w])
  BY <1>1, ProgramsAssumption
<1>3. \A w \in Workers : Len(program[w]) \in Nat
  BY <1>2
<1>4. WorkersTypeOK
  BY <1>2 DEF Init, WorkersTypeOK
<1>5. ProgramInv
  BY <1>2, <1>3 DEF Init, ProgramInv, PcFollows, PromiseRecorded, FreshPromise, SleptEnough
<1>6. SchedulerTypeOK /\ ScheduleInv /\ PassInv /\ ResultInv
  BY DEF Init, SchedulerTypeOK, ScheduleInv, PassInv, ResultInv, NoPass, PassSteps
<1>7. ClientsTypeOK /\ AnswerInv
  BY <1>1 DEF Init, ClientsTypeOK, AnswerInv
<1> QED
  BY <1>4, <1>5, <1>6, <1>7 DEF SuspensionInv

LEMMA SuspensionStep == SuspensionInv /\ [Next]_vars => SuspensionInv'
BY ProgramStep, SchedulerStep, ResultInvStep, AnswerStep DEF SuspensionInv

LEMMA InvCompletedOnce == SuspensionInv => CompletedOnce
<1> SUFFICES ASSUME SuspensionInv, NEW w \in Workers
             PROVE  /\ Cardinality(got[w]) <= 1
                    /\ Empty \in got[w] => SharesName(program[w])
                    /\ \A c \in Clients : told[c] = "true" /\ Target[c] = w =>
                         result[PromiseOf(w)] = c /\ got[w] \subseteq {c}
  BY DEF CompletedOnce
<1>1. \A x \in got[w] : PromiseOf(w) \in DOMAIN result /\ x = result[PromiseOf(w)]
  BY DEF SuspensionInv, AnswerInv
<1>2. got[w] = {} \/ got[w] = {result[PromiseOf(w)]}
  BY <1>1
<1>3. Cardinality(got[w]) \in {0, 1}
  BY <1>2, FS_EmptySet, FS_Singleton
<1>4. PromiseOf(w) \in DOMAIN result /\ result[PromiseOf(w)] = Empty
        => SharesName(program[w])
  BY DEF SuspensionInv, ResultInv, SleepIndex, PromiseOf
<1> QED
  BY <1>1, <1>3, <1>4 DEF SuspensionInv, AnswerInv

LEMMA InvNothingEarly == SuspensionInv => NothingEarly
<1> SUFFICES ASSUME SuspensionInv, NEW w \in Workers, now < Deadline[w],
                    NEW i \in 1..Len(program[w]), program[w][i] = "sleep"
             PROVE  /\ \A id \in DOMAIN result : id[1] = w => result[id] # Empty
                    /\ ~Finished(w)
  BY DEF NothingEarly
<1>1. now \in Nat /\ Deadline[w] \in Nat /\ recorded[w] \in Nat /\ Len(program[w]) \in Nat
  BY DeadlineNat DEF SuspensionInv, WorkersTypeOK
<1>2. ASSUME NEW id \in DOMAIN result, id[1] = w, result[id] = Empty PROVE FALSE
  BY <1>1, <1>2 DEF SuspensionInv, ResultInv
<1>3. ASSUME Finished(w) PROVE FALSE
  <2>1. i <= recorded[w]
    BY <1>1, <1>3 DEF Finished
  <2>2. Deadline[w] <= now
    BY <2>1 DEF SuspensionInv, ProgramInv, SleptEnough
  <2> QED
    BY <1>1, <2>2
<1> QED
  BY <1>2, <1>3

(* Whatever clients, crashes, restarts and the scheduler do, a worker that *)
(* awaits its promise gets one payload, the one of the only client that    *)
(* complete_promise has answered with true, and the empty one only when it *)
(* sleeps under the name of its promise (promise.rs complete, golem/mod.rs *)
(* create_promise and await_promise, mod.rs sleep_until).                  *)
THEOREM PromisesCompleteOnce == Spec => []CompletedOnce
<1>1. Init => SuspensionInv
  BY SuspensionInit
<1>2. SuspensionInv /\ [Next]_vars => SuspensionInv'
  BY SuspensionStep
<1>3. SuspensionInv => CompletedOnce
  BY InvCompletedOnce
<1> QED
  BY <1>1, <1>2, <1>3, PTL DEF Spec

(* Neither a sleep nor its promise ends before the deadline, in whatever   *)
(* hour a pass of the scheduler began (scheduler.rs process, poll.rs).     *)
THEOREM SleepsAreNotShortened == Spec => []NothingEarly
<1>1. Init => SuspensionInv
  BY SuspensionInit
<1>2. SuspensionInv /\ [Next]_vars => SuspensionInv'
  BY SuspensionStep
<1>3. SuspensionInv => NothingEarly
  BY InvNothingEarly
<1> QED
  BY <1>1, <1>2, <1>3, PTL DEF Spec
=============================================================================
