-------------------------- MODULE ActorExecution --------------------------
(***************************************************************************)
(* The Engine 2 coordinator (dsl/actor_runtime.py, execute_actors_internal)*)
(* together with the transition kernel it drives (runner.py, run_step).    *)
(*                                                                         *)
(* One round of the coordinator routes every actor in the current state,   *)
(* lets the scheduler pick one ready actor, records the decision, applies  *)
(* step faults, builds a candidate phase by phase and commits it.  The     *)
(* model keeps each phase that can raise as a step of its own, in the      *)
(* order of the code, because what is already mutated when a phase raises  *)
(* is what the evidence and the atomicity of a transition depend on.       *)
(*                                                                         *)
(* What a scenario does is given by constant operators: Route (the control *)
(* routing of one actor, module ActorRouting), Post, Advance, Emits and    *)
(* Raises (expressions and validators of one step after fault              *)
(* substitution).                                                          *)
(***************************************************************************)
EXTENDS Schedule, SequencesExt

CONSTANTS
  States,           \* values of the shared scenario state
  InitialState(_),  \* of a scenario
  Controls,         \* control stacks of an actor
  InitialControl,   \* the stack of an actor that has not started
  Terminal,         \* the empty control stack
  Steps,            \* addressed executable steps
  Route(_, _, _, _),\* (scenario, actor, control, state) -> routing result
  Post(_, _),       \* (step, state) -> candidate post-state
  Advance(_),       \* the declared nonnegative advance of a step
  Artifacts,
  Emits(_, _),      \* (step, state) -> sequence of artifacts
  Raises(_, _),     \* (step, state) -> the phases of the step that raise
  NoSchedule,       \* no expected schedule / no evidence
  NoStep            \* no selected transition

(* The fallible phases of one selected transition, in the order of the     *)
(* code: apply_step_faults, then ScenarioRunner.run_step, in which the     *)
(* invariants are the candidate_validator called last.                     *)
StepPhases ==
  <<"faults", "generate", "derive", "patch", "validate", "timestamp",
    "emit", "transition", "invariants">>

Phases == {StepPhases[i] : i \in 1..Len(StepPhases)}

Failures == [actor : Actors, code : Phases, ordinal : 0..(MaxSelections - 1)]

Records ==
  [ordinal : 0..(MaxSelections - 1), ready : SUBSET Actors, actor : Actors,
   historyLength : 0..(MaxSelections - 1), clock : Clocks, digest : Nat,
   outcome : Outcomes]

Evidences ==
  [scenario : Scenarios, seed : Seeds, actors : {Actors},
   records : Seq(Records), classification : {"SUCCESS", "FAILED"},
   failure : Failures \cup {NoFailure}]

Routings ==
  [kind : {"step"}, step : Steps, control : Controls]
    \cup [kind : {"done", "error"}]

ASSUME StepAssumption ==
  /\ \A sc \in Scenarios : InitialState(sc) \in States
  /\ {InitialControl, Terminal} \subseteq Controls
  /\ \A sc \in Scenarios, a \in Actors, c \in Controls, s \in States :
       Route(sc, a, c, s) \in Routings
  /\ \A t \in Steps : Advance(t) \in Nat
  /\ \A t \in Steps, s \in States :
       /\ Post(t, s) \in States
       /\ Emits(t, s) \in Seq(Artifacts)
       /\ Raises(t, s) \subseteq Phases
  /\ NoStep \notin Routings /\ NoFailure \notin Failures
  /\ NoSchedule \notin Evidences

VARIABLES
  scenario,   \* canonical_scenario_hash of the executed scenario
  seed,       \* schedule_seed
  expected,   \* _expected_schedule: the schedule being replayed, if any
  state, clock, history, artifacts,      \* the ScenarioRunner
  controls,   \* controls[a]: the control stack of each actor
  decisions,  \* scheduling decisions, one per attempted selection
  phase,      \* where the coordinator is
  done,       \* how many step phases of the selected transition completed
  candidate,  \* the CandidateStep under construction
  selected,   \* the routing result of the selected actor, or NoStep
  status,     \* RUNNING, SUCCESS, FAILED, ABORTED or MISMATCH
  cause,      \* what raised, for a run that does not succeed
  schedule    \* the schedule evidence of an ended run, or NoSchedule

parameters == <<scenario, seed, expected>>
runner == <<state, clock, history, artifacts>>
attempt == <<done, candidate, selected>>
verdict == <<status, cause, schedule>>
vars == <<parameters, runner, controls, decisions, phase, attempt, verdict>>

EmptyCandidate ==
  [post |-> InitialState(scenario), timestamp |-> 0, emitted |-> <<>>]

-----------------------------------------------------------------------------
(* Routing of every actor in the current snapshot.                         *)
Routed(a) == Route(scenario, a, controls[a], state)
RoutingRaises == \E a \in Actors : Routed(a).kind = "error"
Ready == {a \in Actors : Routed(a).kind = "step"}

CoordinatesNow ==
  [seed |-> seed, ordinal |-> Len(decisions), historyLength |-> Len(history),
   clock |-> clock, ready |-> Ready]

(* Mutant: every declared actor is recorded as ready.                      *)
DecisionAllReady(a) ==
  [ordinal |-> Len(decisions), ready |-> Actors, actor |-> a,
   step |-> Routed(a).step, historyLength |-> Len(history), clock |-> clock,
   digest |-> Digest(CoordinatesNow), outcome |-> "COMMITTED"]

(* ActorSchedulingDecision for the selected actor; it is recorded as       *)
(* COMMITTED before the transition runs.                                   *)
Decision(a) ==
  [ordinal |-> Len(decisions), ready |-> Ready, actor |-> a,
   step |-> Routed(a).step, historyLength |-> Len(history), clock |-> clock,
   digest |-> Digest(CoordinatesNow), outcome |-> "COMMITTED"]

(* A schedule record keeps every field of a decision except the step.      *)
RecordOf(d) ==
  [ordinal |-> d.ordinal, ready |-> d.ready, actor |-> d.actor,
   historyLength |-> d.historyLength, clock |-> d.clock,
   digest |-> d.digest, outcome |-> d.outcome]

Evidence(made, classification, failure) ==
  [scenario |-> scenario, seed |-> seed, actors |-> Actors,
   records |-> [i \in 1..Len(made) |-> RecordOf(made[i])],
   classification |-> classification, failure |-> failure]

(* Leave the coordinator without evidence.                                 *)
Raise(st, why) ==
  /\ phase' = "ended" /\ status' = st /\ cause' = why
  /\ schedule' = NoSchedule

(* Build the schedule artifact and, on a replay, compare its canonical     *)
(* bytes with the expected ones.  Both the constructor and the comparison  *)
(* may raise in place of the result.                                       *)
Conclude(art, why) ==
  IF ~IsSchedule(art)
  THEN Raise("ABORTED", IF FitsEvidenceBound(art.records)
                        THEN "schedule_invalid" ELSE "schedule_bound")
  ELSE IF expected # NoSchedule /\ art # expected
  THEN Raise("MISMATCH", "terminal")
  ELSE /\ phase' = "ended" /\ status' = art.classification /\ cause' = why
       /\ schedule' = art

-----------------------------------------------------------------------------
(* The replay coordinate checks before the first round.                    *)
Preflight ==
  /\ phase = "preflight"
  /\ IF /\ expected # NoSchedule
        /\ \/ expected.scenario # scenario
           \/ expected.seed # seed
           \/ expected.actors # Actors
     THEN Raise("MISMATCH", "coordinates")
     ELSE phase' = "route" /\ UNCHANGED verdict
  /\ UNCHANGED <<parameters, runner, controls, decisions, attempt>>

(* _route raises for some actor, selected or not.                          *)
RoutingFails ==
  /\ phase = "route" /\ RoutingRaises
  /\ Raise("ABORTED", "routing")
  /\ UNCHANGED <<parameters, runner, controls, decisions, attempt>>

(* Mutant: the run ends when some actor, not every actor, is finished.     *)
CompleteWhenOneIsDone ==
  /\ phase = "route" /\ ~RoutingRaises
  /\ \E a \in Actors : Routed(a).kind = "done"
  /\ Conclude(Evidence(decisions, "SUCCESS", NoFailure), "none")
  /\ controls' = IF status' = "SUCCESS" THEN [a \in Actors |-> Terminal]
                 ELSE controls
  /\ UNCHANGED <<parameters, runner, decisions, attempt>>

(* No actor routes to a step: a successful result shows empty stacks.      *)
Complete ==
  /\ phase = "route" /\ ~RoutingRaises /\ Ready = {}
  /\ Conclude(Evidence(decisions, "SUCCESS", NoFailure), "none")
  /\ controls' = IF status' = "SUCCESS" THEN [a \in Actors |-> Terminal]
                 ELSE controls
  /\ UNCHANGED <<parameters, runner, decisions, attempt>>

SelectionLimit ==
  /\ phase = "route" /\ ~RoutingRaises /\ Ready # {}
  /\ Len(decisions) >= MaxSelections
  /\ Raise("ABORTED", "selection_limit")
  /\ UNCHANGED <<parameters, runner, controls, decisions, attempt>>

(* Mutants: the outcome, not yet known, is compared as well; only the      *)
(* selected actor is compared.                                             *)
AgreesOnOutcomeToo(d) ==
  LET n == d.ordinal + 1
  IN  n <= Len(expected.records) /\ expected.records[n] = RecordOf(d)

AgreesOnActorOnly(d) ==
  LET n == d.ordinal + 1
  IN  n <= Len(expected.records) /\ expected.records[n].actor = d.actor

(* A replay compares every coordinate of the decision with the record at   *)
(* its position before the decision is kept; only the outcome is not yet   *)
(* known.                                                                  *)
AgreesWithExpected(d) ==
  LET n == d.ordinal + 1
  IN  /\ n <= Len(expected.records)
      /\ [expected.records[n] EXCEPT !.outcome = d.outcome] = RecordOf(d)

Select ==
  /\ phase = "route" /\ ~RoutingRaises /\ Ready # {}
  /\ Len(decisions) < MaxSelections
  /\ LET a == SelectActor(CoordinatesNow)
     IN  IF expected # NoSchedule /\ ~AgreesWithExpected(Decision(a))
         THEN /\ Raise("MISMATCH", "records")
              /\ UNCHANGED <<decisions, attempt>>
         ELSE /\ decisions' = Append(decisions, Decision(a))
              /\ selected' = Routed(a)
              /\ done' = 0
              /\ candidate' = EmptyCandidate
              /\ phase' = "attempt"
              /\ UNCHANGED verdict
  /\ UNCHANGED <<parameters, runner, controls>>

-----------------------------------------------------------------------------
(* The actor of the transition being attempted.                            *)
Chosen == decisions[Len(decisions)].actor

(* Mutant: the overflow of the clock is not noticed.                       *)
FailingWithoutOverflow == Raises(selected.step, state)

(* datetime overflow is the one failure that depends on the clock.         *)
Failing ==
  Raises(selected.step, state)
    \cup (IF clock + Advance(selected.step) > MaxClock
          THEN {"timestamp"} ELSE {})

(* What a completed phase adds to the candidate.                           *)
Extended(p) ==
  CASE p = "patch" -> [candidate EXCEPT !.post = Post(selected.step, state)]
    [] p = "timestamp" ->
         [candidate EXCEPT !.timestamp = clock + Advance(selected.step)]
    [] p = "emit" ->
         [candidate EXCEPT !.emitted = Emits(selected.step, state)]
    [] OTHER -> candidate

(* Mutant: the patch is committed as soon as it is evaluated.              *)
RunPhaseEagerly ==
  /\ phase = "attempt" /\ done < Len(StepPhases)
  /\ StepPhases[done + 1] \notin Failing
  /\ done' = done + 1
  /\ candidate' = Extended(StepPhases[done + 1])
  /\ state' = IF StepPhases[done + 1] = "patch" THEN candidate'.post ELSE state
  /\ UNCHANGED <<parameters, clock, history, artifacts, controls, decisions,
                 phase, selected, verdict>>

RunPhase ==
  /\ phase = "attempt" /\ done < Len(StepPhases)
  /\ StepPhases[done + 1] \notin Failing
  /\ done' = done + 1
  /\ candidate' = Extended(StepPhases[done + 1])
  /\ UNCHANGED <<parameters, runner, controls, decisions, phase, selected,
                 verdict>>

(* apply_step_faults is called outside the try block: its error leaves the *)
(* coordinator with the decision recorded and no evidence.                 *)
FaultsFail ==
  /\ phase = "attempt" /\ done = 0
  /\ "faults" \in Failing
  /\ Raise("ABORTED", "faults")
  /\ UNCHANGED <<parameters, runner, controls, decisions, attempt>>

(* Mutants: the decision is not marked FAILED; the step is tried again.    *)
StepFailsUnmarked ==
  /\ phase = "attempt" /\ done \in 1..(Len(StepPhases) - 1)
  /\ LET p == StepPhases[done + 1]
         n == Len(decisions)
     IN  /\ p \in Failing
         /\ Conclude(Evidence(decisions, "FAILED",
                       [actor |-> Chosen, code |-> p, ordinal |-> n - 1]), p)
  /\ UNCHANGED <<parameters, runner, controls, decisions, attempt>>

StepIsRetried ==
  /\ phase = "attempt" /\ done \in 1..(Len(StepPhases) - 1)
  /\ StepPhases[done + 1] \in Failing
  /\ done' = 0 /\ candidate' = EmptyCandidate
  /\ UNCHANGED <<parameters, runner, controls, decisions, phase, selected,
                 verdict>>

(* run_step raises before its commit: the last decision becomes FAILED and *)
(* the failure is published with the evidence.                             *)
StepFails ==
  /\ phase = "attempt" /\ done \in 1..(Len(StepPhases) - 1)
  /\ LET p == StepPhases[done + 1]
         n == Len(decisions)
         failed == [decisions EXCEPT ![n].outcome = "FAILED"]
     IN  /\ p \in Failing
         /\ decisions' = failed
         /\ Conclude(Evidence(failed, "FAILED",
                       [actor |-> Chosen, code |-> p, ordinal |-> n - 1]), p)
  /\ UNCHANGED <<parameters, runner, controls, attempt>>

(* Mutants: the commit overtakes the invariants; the routes of the actors  *)
(* that were not selected are kept.                                        *)
CommitBeforeInvariants ==
  /\ phase = "attempt" /\ done >= Len(StepPhases) - 1
  /\ state' = candidate.post
  /\ history' = Append(history,
       [actor |-> Chosen, step |-> selected.step, pre |-> state,
        post |-> candidate.post, timestamp |-> candidate.timestamp,
        emitted |-> candidate.emitted])
  /\ artifacts' = artifacts \o candidate.emitted
  /\ clock' = candidate.timestamp
  /\ controls' = [controls EXCEPT ![Chosen] = selected.control]
  /\ phase' = "route"
  /\ selected' = NoStep /\ done' = 0 /\ candidate' = EmptyCandidate
  /\ UNCHANGED <<parameters, decisions, verdict>>

CommitEveryRoute ==
  /\ phase = "attempt" /\ done = Len(StepPhases)
  /\ state' = candidate.post
  /\ history' = Append(history,
       [actor |-> Chosen, step |-> selected.step, pre |-> state,
        post |-> candidate.post, timestamp |-> candidate.timestamp,
        emitted |-> candidate.emitted])
  /\ artifacts' = artifacts \o candidate.emitted
  /\ clock' = candidate.timestamp
  /\ controls' = [a \in Actors |-> IF a \in Ready THEN Routed(a).control
                                  ELSE controls[a]]
  /\ phase' = "route"
  /\ selected' = NoStep /\ done' = 0 /\ candidate' = EmptyCandidate
  /\ UNCHANGED <<parameters, decisions, verdict>>

(* The commit of run_step, in which nothing can raise, and the advance of  *)
(* the selected actor alone.                                               *)
Commit ==
  /\ phase = "attempt" /\ done = Len(StepPhases)
  /\ state' = candidate.post
  /\ history' = Append(history,
       [actor |-> Chosen, step |-> selected.step, pre |-> state,
        post |-> candidate.post, timestamp |-> candidate.timestamp,
        emitted |-> candidate.emitted])
  /\ artifacts' = artifacts \o candidate.emitted
  /\ clock' = candidate.timestamp
  /\ controls' = [controls EXCEPT ![Chosen] = selected.control]
  /\ phase' = "route"
  /\ selected' = NoStep /\ done' = 0 /\ candidate' = EmptyCandidate
  /\ UNCHANGED <<parameters, decisions, verdict>>

-----------------------------------------------------------------------------
InitExecution ==
  /\ state = InitialState(scenario) /\ clock = 0
  /\ history = <<>> /\ artifacts = <<>>
  /\ controls = [a \in Actors |-> InitialControl]
  /\ decisions = <<>> /\ phase = "preflight"
  /\ done = 0 /\ candidate = EmptyCandidate /\ selected = NoStep
  /\ status = "RUNNING" /\ cause = "none" /\ schedule = NoSchedule

Init ==
  /\ scenario \in Scenarios /\ seed \in Seeds /\ expected = NoSchedule
  /\ InitExecution

(* A coordinator that returned or raised takes no further step.            *)
Ended == phase = "ended" /\ UNCHANGED vars

Next ==
  \/ Preflight \/ RoutingFails \/ Complete \/ SelectionLimit \/ Select
  \/ RunPhase \/ FaultsFail \/ StepFails \/ Commit \/ Ended

Spec == Init /\ [][Next]_vars

(* The coordinator is a single thread that always takes its next step.     *)
FairSpec == Spec /\ WF_vars(Next)

-----------------------------------------------------------------------------
Statuses == {"RUNNING", "SUCCESS", "FAILED", "ABORTED", "MISMATCH"}

Decisions ==
  [ordinal : 0..(MaxSelections - 1), ready : SUBSET Actors, actor : Actors,
   step : Steps, historyLength : 0..(MaxSelections - 1), clock : Clocks,
   digest : Nat, outcome : Outcomes]

Commits ==
  [actor : Actors, step : Steps, pre : States, post : States,
   timestamp : Clocks, emitted : Seq(Artifacts)]

Candidates == [post : States, timestamp : Clocks, emitted : Seq(Artifacts)]

(* Type invariant.  The clock stays representable, every attempt is one of *)
(* at most MaxSelections decisions, and an attempt has a selected step.    *)
TypeOK ==
  /\ scenario \in Scenarios /\ seed \in Seeds
  /\ state \in States /\ clock \in Clocks
  /\ history \in Seq(Commits) /\ artifacts \in Seq(Artifacts)
  /\ controls \in [Actors -> Controls]
  /\ decisions \in Seq(Decisions) /\ Len(decisions) <= MaxSelections
  /\ phase \in {"preflight", "route", "attempt", "ended"}
  /\ done \in 0..Len(StepPhases) /\ candidate \in Candidates
  /\ selected \in Routings \cup {NoStep}
  /\ phase = "attempt" => selected \in Routings /\ decisions # <<>>
  /\ status \in Statuses /\ (status = "RUNNING" <=> phase # "ended")
  /\ schedule \in Evidences \cup {NoSchedule}

(* What the runner held when history had n records.                        *)
StateAt(n) == IF n = 0 THEN InitialState(scenario) ELSE history[n].post
ClockAt(n) == IF n = 0 THEN 0 ELSE history[n].timestamp

(* The control stacks that a history, replayed by routing alone, leads to: *)
(* each record advances its actor along the route from its pre-state.      *)
Advanced(sc, at, commit) ==
  [at EXCEPT ![commit.actor] =
     Route(sc, commit.actor, @, commit.pre).control]

PositionsOf(sc, h) ==
  LET at[n \in 0..Len(h)] ==
        IF n = 0 THEN [a \in Actors |-> InitialControl]
        ELSE Advanced(sc, at[n - 1], h[n])
  IN  at

PositionsAfter(n) == PositionsOf(scenario, history)[n]

RouteAt(n, a) == Route(scenario, a, PositionsAfter(n)[a], StateAt(n))

(* A transition is atomic: whatever phase of it raised or is still to run, *)
(* state and clock are those left by the committed records, and the        *)
(* records form one chain from the initial state.                          *)
RunnerMatchesHistory ==
  /\ state = StateAt(Len(history)) /\ clock = ClockAt(Len(history))
  /\ \A i \in 1..Len(history) :
       /\ history[i].pre = StateAt(i - 1)
       /\ history[i].timestamp = ClockAt(i - 1) + Advance(history[i].step)
       /\ history[i].post = Post(history[i].step, history[i].pre)

(* No step commits of which some phase raises: neither a validator nor an  *)
(* invariant nor the transition resolver can be overtaken by the commit.   *)
NothingFailedCommits ==
  \A i \in 1..Len(history) : Raises(history[i].step, history[i].pre) = {}

(* The routes of the actors that were not selected are thrown away: the    *)
(* position of an actor depends on its own committed steps only, each of   *)
(* which was its next step in the state that the steps of all actors       *)
(* before it had produced; a SUCCESS leaves no actor with a step to run.   *)
PositionsFollowHistory ==
  /\ \A i \in 1..Len(history) :
       LET r == RouteAt(i - 1, history[i].actor)
       IN  r.kind = "step" /\ r.step = history[i].step
  /\ IF status = "SUCCESS"
     THEN \A a \in Actors : RouteAt(Len(history), a).kind = "done"
     ELSE controls = PositionsAfter(Len(history))

(* The evidence of a run can be recomputed from its history: one record    *)
(* for each attempted selection, with the ready set, clock and history     *)
(* length that the committed prefix determines; only a final attempt that  *)
(* did not commit is FAILED.  The artifacts are those of the committed     *)
(* steps, in their order.                                                  *)
EvidenceIsSound ==
  /\ artifacts = FlattenSeq([i \in 1..Len(history) |-> history[i].emitted])
  /\ schedule # NoSchedule =>
       /\ Len(history) =
            Cardinality({i \in 1..Len(schedule.records) :
                           schedule.records[i].outcome = "COMMITTED"})
       /\ \A i \in 1..Len(schedule.records) :
            LET r == schedule.records[i]
            IN  /\ r.ordinal = i - 1 /\ r.historyLength = i - 1
                /\ r.clock = ClockAt(i - 1)
                /\ r.ready = {a \in Actors : RouteAt(i - 1, a).kind = "step"}
                /\ r.outcome = "COMMITTED" => history[i].actor = r.actor

(* The coordinator never assembles a schedule that the validation of the   *)
(* artifact refuses for its shape, on success or after a failed step: the  *)
(* error a caller sees is never one about the evidence of the error.       *)
SchedulesAreWellFormed == cause # "schedule_invalid"

(* Every execution is a serial execution of whole steps.                   *)
Outcome ==
  CASE status = "RUNNING" -> "running"
    [] status = "SUCCESS" -> "complete"
    [] OTHER -> "stopped"

Serial == INSTANCE SerialActors WITH outcome <- Outcome
SerialSpec == Serial!Spec

(* Every execution ends, whatever the scheduler selects: in a result, a    *)
(* failed step, an abort or a mismatch.                                    *)
Termination == <>(phase = "ended")
=============================================================================
