----------------------------- MODULE SoloActor -----------------------------
(***************************************************************************)
(* One actor executed alone: the coordinator routes it, commits its next   *)
(* step, keeps the advanced stack and routes it again, over every flow     *)
(* table of Programs.  With one actor there is one order of commits, so    *)
(* what it executes must be what Engine 1 executes for the same flow.      *)
(***************************************************************************)
EXTENDS EngineOneFlow

CONSTANTS Programs, InitialStates

VARIABLES
  flows,    \* the flow table of the actor
  initial,  \* the state it started in
  frames,   \* its control stack
  state,    \* the scenario state
  trace,    \* the addressed steps committed so far
  result    \* running, done, error (an evaluation raised) or limit

vars == <<flows, initial, frames, state, trace, result>>

NextRoute == RouteOf(flows, frames, state)

Init ==
  /\ flows \in Programs
  /\ initial \in InitialStates
  /\ state = initial
  /\ frames = StartFrames
  /\ trace = <<>>
  /\ result = "running"

(* A routed step is executed and committed; the actor keeps its new stack. *)
CommitStep ==
  /\ result = "running"
  /\ LET route == NextRoute IN
       /\ route.result = "step"
       /\ state' = Effect(route.step, state)
       /\ trace' = Append(trace, route.step)
       /\ frames' = route.frames
  /\ UNCHANGED <<flows, initial, result>>

(* Mutant: a routing that raises does not stop the actor.                  *)
StopWhenDone ==
  /\ result = "running" /\ NextRoute.result = "done"
  /\ result' = NextRoute.result
  /\ UNCHANGED <<flows, initial, frames, state, trace>>

(* No step is left, or routing raised.                                     *)
Stop ==
  /\ result = "running"
  /\ LET route == NextRoute IN route.result # "step" /\ result' = route.result
  /\ UNCHANGED <<flows, initial, frames, state, trace>>

Stopped == result # "running" /\ UNCHANGED vars

Next == CommitStep \/ Stop \/ Stopped

Spec == Init /\ [][Next]_vars /\ WF_vars(CommitStep \/ Stop)

-----------------------------------------------------------------------------
(* Type invariant: a stopped actor has a definite result, and every frame  *)
(* of the stack points into its flow or counts within its declared max.    *)
TypeOK ==
  /\ result \in {"running", "done", "error", "limit"}
  /\ \A i \in 1..Len(frames) :
       LET f == frames[i]
       IN  IF f.kind = "repeat"
           THEN f.next <= f.count /\ f.count <= f.node.max
           ELSE f.next \in 1..(Len(flows[f.flow]) + 1)

(* The explicit stack of Engine 2 and the recursion of Engine 1 are two    *)
(* implementations of one flow: at every point the committed steps, with   *)
(* their addresses and scopes, are a prefix of those of Engine 1; a        *)
(* finished actor executed all of them and reached the same state; an      *)
(* evaluation error stops both after the same steps.                       *)
MatchesEngineOne ==
  LET one == EngineOne(flows, initial)
  IN  /\ IsPrefix(trace, one.trace)
      /\ result \in {"done", "error"} =>
           /\ trace = one.trace
           /\ state = one.state
           /\ one.failed <=> result = "error"

(* Identifiers and random streams are derived from the execution address,  *)
(* so no two commits of an actor may share one: calls of one subflow from  *)
(* two sites, and the iterations of nested repeats, must stay apart.       *)
AddressesUnique ==
  \A i, j \in 1..Len(trace) :
    /\ trace[i].id = trace[j].id
    /\ trace[i].invocations = trace[j].invocations
    /\ trace[i].repetitions = trace[j].repetitions
    => i = j

(* Every actor stops: repeats are finite and subflows do not recurse.      *)
EventuallyStops == <>(result # "running")
=============================================================================
