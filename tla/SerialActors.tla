---------------------------- MODULE SerialActors ----------------------------
(***************************************************************************)
(* What the Engine 2 coordinator promises: the actors of a scenario take   *)
(* turns to execute whole steps, each from the state the previous step     *)
(* committed; a step that raises is not executed at all.  Routing,         *)
(* candidates, evidence and replay checks do not appear.                   *)
(***************************************************************************)
EXTENDS Integers, Sequences

CONSTANTS
  Actors, Scenarios, MaxClock,
  InitialState(_), InitialControl, Terminal,
  Route(_, _, _, _), Post(_, _), Advance(_), Emits(_, _), Raises(_, _)

VARIABLES scenario, state, clock, artifacts, controls, outcome

vars == <<scenario, state, clock, artifacts, controls, outcome>>

RouteOfActor(a) == Route(scenario, a, controls[a], state)

Init ==
  /\ scenario \in Scenarios
  /\ state = InitialState(scenario)
  /\ clock = 0
  /\ artifacts = <<>>
  /\ controls = [a \in Actors |-> InitialControl]
  /\ outcome = "running"

(* One actor executes its next step in the current state, as a whole.      *)
Execute(a) ==
  /\ outcome = "running"
  /\ RouteOfActor(a).kind = "step"
  /\ LET step == RouteOfActor(a).step
     IN  /\ Raises(step, state) = {}
         /\ clock + Advance(step) <= MaxClock
         /\ state' = Post(step, state)
         /\ clock' = clock + Advance(step)
         /\ artifacts' = artifacts \o Emits(step, state)
  /\ controls' = [controls EXCEPT ![a] = RouteOfActor(a).control]
  /\ UNCHANGED <<scenario, outcome>>

(* The run is complete when no actor has a step left.                      *)
Finish ==
  /\ outcome = "running"
  /\ \A a \in Actors : RouteOfActor(a).kind = "done"
  /\ outcome' = "complete"
  /\ controls' = [a \in Actors |-> Terminal]
  /\ UNCHANGED <<scenario, state, clock, artifacts>>

(* A run that stops otherwise keeps what was committed.                    *)
Stop ==
  /\ outcome = "running"
  /\ outcome' = "stopped"
  /\ UNCHANGED <<scenario, state, clock, artifacts, controls>>

Next == (\E a \in Actors : Execute(a)) \/ Finish \/ Stop

Spec == Init /\ [][Next]_vars
=============================================================================
