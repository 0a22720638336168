---------------------------- MODULE MCSuspension ----------------------------
(* Instances of Suspension for TLC.                                        *)
EXTENDS Suspension

CONSTANTS a, c1, c2

Scenario(steps, callers, more) ==
  [program |-> [w \in Workers |-> steps], callers |-> callers, extra |-> more]

(* A worker whose promise two clients complete, one that sleeps and is     *)
(* invoked again, and two that sleep before they await, one of them right  *)
(* after the creation of its promise.                                      *)
SomeScenarios ==
  { Scenario(<<"create", "await">>, Clients, 0),
    Scenario(<<"subscribe", "sleep">>, {}, 1),
    Scenario(<<"create", "subscribe", "sleep", "await">>, {c1}, 0),
    Scenario(<<"subscribe", "create", "sleep", "await">>, {c1}, 0) }
OnlyAwait == { Scenario(<<"create", "await">>, Clients, 0) }
SleepUnderPromise == { Scenario(<<"subscribe", "create", "sleep", "await">>, {c1}, 0) }
AtOne == [w \in Workers |-> 1]
TargetA == [c \in Clients |-> a]
=============================================================================
