----------------------- MODULE ActorExecution_proofs -----------------------
(***************************************************************************)
(* The Engine 2 coordinator, and exact replay by it, for every set of      *)
(* actors, scenario, digest function and bound.                            *)
(*                                                                         *)
(* Safety.  The inductive invariant IInv adds to the type invariant what   *)
(* an attempt in progress knows: how many decisions there are, that the    *)
(* selected route is still the route of the selected actor, and what the   *)
(* completed phases put into the candidate.  With it the coordinator       *)
(* implements SerialActors.                                                *)
(*                                                                         *)
(* Determinism.  The invariant HInv says that in every phase, on a replay  *)
(* as well, the coordinator is where the function View of its history      *)
(* says; two histories of one scenario and one seed are therefore prefixes *)
(* of each other.  The facts about recursive definitions (PositionsOf,     *)
(* FlattenSeq) rest on SetInduction, which takes a set where the induction *)
(* theorems of the library take an operator.                               *)
(*                                                                         *)
(* Replay.  What the first execution left and what the replay does are     *)
(* both determined by a scenario and a seed: with the coordinates of the   *)
(* first execution the replay retraces its history, and the evidence       *)
(* either of them can end with is the same (RInv).  What remains to be     *)
(* known is which coordinates a presented schedule carries.                *)
(***************************************************************************)
EXTENDS ExactReplay, FiniteSetTheorems, SequenceTheorems,
        WellFoundedInduction, TLAPS

-----------------------------------------------------------------------------
(* The scheduler is total: for every digest function, every ready set and  *)
(* every byte order of the addresses, digest modulo the number of ready    *)
(* actors is the position of exactly one ready actor.                      *)

(* The actors of a ready set that come before a given one.                 *)
Before(a, ready) == {b \in ready : Rank[b] < Rank[a]}

LEMMA ReadyIsFinite ==
  ASSUME NEW ready \in SUBSET Actors
  PROVE  /\ IsFiniteSet(ready) /\ Cardinality(ready) \in Nat
         /\ \A a \in ready : /\ IsFiniteSet(Before(a, ready))
                             /\ Position(a, ready) \in Nat
<1>1. IsFiniteSet(ready) /\ Cardinality(ready) \in Nat
  BY ActorsAssumption, FS_Subset, FS_CardinalityType
<1>2. ASSUME NEW a \in ready
      PROVE  IsFiniteSet(Before(a, ready)) /\ Position(a, ready) \in Nat
  <2>1. Before(a, ready) \in SUBSET ready
    BY DEF Before
  <2>2. IsFiniteSet(Before(a, ready))
    BY <1>1, <2>1, FS_Subset
  <2>3. Cardinality(Before(a, ready)) \in Nat
    BY <2>2, FS_CardinalityType
  <2> QED
    BY <2>2, <2>3 DEF Position, Before
<1> QED
  BY <1>1, <1>2

(* The actor itself is not before it, so its position is an index.         *)
LEMMA PositionIsIndex ==
  ASSUME NEW ready \in SUBSET Actors, NEW a \in ready
  PROVE  Position(a, ready) \in 0..(Cardinality(ready) - 1)
<1>1. /\ IsFiniteSet(ready) /\ Cardinality(ready) \in Nat
      /\ Position(a, ready) \in Nat
  BY ReadyIsFinite
<1>2. Rank[a] \in Nat
  BY ActorsAssumption
<1>3. a \notin Before(a, ready) /\ Before(a, ready) \in SUBSET ready
  BY <1>2 DEF Before
<1>4. /\ Cardinality(Before(a, ready)) <= Cardinality(ready)
      /\ Cardinality(Before(a, ready)) # Cardinality(ready)
  BY <1>1, <1>3, FS_Subset
<1> QED
  BY <1>1, <1>4 DEF Position, Before

(* Of two different actors, one comes first and is counted before the      *)
(* other: positions differ.                                                *)
LEMMA EarlierHasSmallerPosition ==
  ASSUME NEW ready \in SUBSET Actors, NEW a \in ready, NEW b \in ready,
         Rank[a] < Rank[b]
  PROVE  Position(a, ready) < Position(b, ready)
<1>1. Rank \in [Actors -> Nat] /\ a \in Actors /\ b \in Actors
  BY ActorsAssumption
<1>2. /\ Before(a, ready) \in SUBSET Before(b, ready)
      /\ a \in Before(b, ready) /\ a \notin Before(a, ready)
  BY <1>1, ActorsAssumption DEF Before
<1>3. IsFiniteSet(Before(b, ready))
  BY ReadyIsFinite
<1>4. /\ Cardinality(Before(a, ready)) <= Cardinality(Before(b, ready))
      /\ Cardinality(Before(a, ready)) # Cardinality(Before(b, ready))
  BY <1>2, <1>3, FS_Subset
<1>5. Position(a, ready) \in Nat /\ Position(b, ready) \in Nat
  BY ReadyIsFinite
<1> QED
  BY <1>4, <1>5 DEF Position, Before

LEMMA PositionIsInjective ==
  ASSUME NEW ready \in SUBSET Actors, NEW a \in ready, NEW b \in ready,
         Position(a, ready) = Position(b, ready)
  PROVE  a = b
<1>1. Rank[a] \in Nat /\ Rank[b] \in Nat
  BY ActorsAssumption
<1>2. Position(a, ready) \in Nat /\ Position(b, ready) \in Nat
  BY ReadyIsFinite
<1>3. CASE Rank[a] < Rank[b]
  BY <1>2, <1>3, EarlierHasSmallerPosition
<1>4. CASE Rank[b] < Rank[a]
  BY <1>2, <1>4, EarlierHasSmallerPosition
<1>5. CASE Rank[a] = Rank[b]
  BY <1>5, ActorsAssumption
<1> QED
  BY <1>1, <1>3, <1>4, <1>5

(* An injection between finite sets of one size is onto.                   *)
LEMMA EveryIndexIsAPosition ==
  ASSUME NEW ready \in SUBSET Actors,
         NEW i \in 0..(Cardinality(ready) - 1)
  PROVE  \E a \in ready : Position(a, ready) = i
<1> DEFINE n == Cardinality(ready)
           f == [a \in ready |-> Position(a, ready)]
<1>1. IsFiniteSet(ready) /\ n \in Nat
  BY ReadyIsFinite
<1>2. f \in [ready -> 0..(n - 1)]
  BY PositionIsIndex
<1>3. \A a, b \in ready : f[a] = f[b] => a = b
  BY PositionIsInjective
<1>4. f \in Injection(ready, 0..(n - 1))
  BY <1>2, <1>3 DEF Injection, IsInjective
<1>5. IsFiniteSet(0..(n - 1)) /\ Cardinality(0..(n - 1)) = n
  BY <1>1, FS_Interval
<1>6. f \in Surjection(ready, 0..(n - 1))
  BY <1>4, <1>5, FS_Injection
<1> QED
  BY <1>6 DEF Surjection

(* Every decision selects a ready actor, and no other ready actor could    *)
(* have been meant.                                                        *)
THEOREM SelectionIsReady ==
  ASSUME NEW c \in Coordinates
  PROVE  /\ SelectActor(c) \in c.ready
         /\ \A a \in c.ready :
              Position(a, c.ready) = Digest(c) % Cardinality(c.ready)
                => a = SelectActor(c)
<1> DEFINE n == Cardinality(c.ready)
<1>1. c.ready \in SUBSET Actors /\ c.ready # {}
  BY DEF Coordinates
<1>2. IsFiniteSet(c.ready) /\ n \in Nat
  BY <1>1, ReadyIsFinite
<1>3. n # 0
  BY <1>1, <1>2, FS_EmptySet
<1>4. Digest(c) \in Nat
  BY DigestAssumption
<1>5. Digest(c) % n \in 0..(n - 1)
  BY <1>2, <1>3, <1>4
<1>6. \E a \in c.ready : Position(a, c.ready) = Digest(c) % n
  BY <1>1, <1>5, EveryIndexIsAPosition
<1>7. /\ SelectActor(c) \in c.ready
      /\ Position(SelectActor(c), c.ready) = Digest(c) % n
  BY <1>6 DEF SelectActor
<1> QED
  BY <1>1, <1>7, PositionIsInjective

-----------------------------------------------------------------------------
(* One decision for every commit, and one more while an attempt runs.      *)
Counting ==
  /\ Len(history) <= Len(decisions)
  /\ phase \in {"preflight", "route"} => Len(history) = Len(decisions)
  /\ phase = "attempt" => Len(history) + 1 = Len(decisions)

(* The selected route is fresh, the completed phases did not raise and the *)
(* candidate holds what they computed.                                     *)
AttemptIsFresh ==
  phase = "attempt" =>
    /\ Chosen \in Actors
    /\ selected = Routed(Chosen) /\ selected.kind = "step"
    /\ \A i \in 1..done : StepPhases[i] \notin Failing
    /\ done >= 4 => candidate.post = Post(selected.step, state)
    /\ done >= 6 => candidate.timestamp = clock + Advance(selected.step)
    /\ done >= 7 => candidate.emitted = Emits(selected.step, state)

(* Decisions are numbered, select ready actors and, while the run goes on, *)
(* none of them has failed.                                                *)
DecisionsInOrder ==
  \A i \in 1..Len(decisions) :
    /\ decisions[i].ordinal = i - 1
    /\ decisions[i].actor \in decisions[i].ready
    /\ phase # "ended" => decisions[i].outcome = "COMMITTED"

IInv ==
  TypeOK /\ Counting /\ AttemptIsFresh /\ DecisionsInOrder
    /\ RunnerMatchesHistory /\ NothingFailedCommits /\ SchedulesAreWellFormed

-----------------------------------------------------------------------------
(* Facts about routings and steps that the action proofs cite.             *)
LEMMA RoutingTypes ==
  ASSUME TypeOK
  PROVE  /\ \A a \in Actors : Routed(a) \in Routings
         /\ Ready \in SUBSET Actors
         /\ \A r \in Routings : r.kind = "step" =>
              r.step \in Steps /\ r.control \in Controls
<1>1. \A a \in Actors : Routed(a) \in Routings
  BY StepAssumption DEF TypeOK, Routed
<1>2. \A r \in Routings : r.kind = "step" =>
         r.step \in Steps /\ r.control \in Controls
  BY DEF Routings
<1> QED
  BY <1>1, <1>2 DEF Ready

(* The coordinates of a decision are ones the scheduler accepts, and the   *)
(* actor it selects is ready.                                              *)
LEMMA DecisionTypes ==
  ASSUME TypeOK, Counting, Ready # {}, phase = "route",
         Len(decisions) < MaxSelections
  PROVE  LET a == SelectActor(CoordinatesNow)
         IN  /\ CoordinatesNow \in Coordinates
             /\ a \in Ready
             /\ Decision(a) \in Decisions
<1> DEFINE a == SelectActor(CoordinatesNow)
<1>1. Ready \in SUBSET Actors
  BY RoutingTypes
<1>2. /\ Len(decisions) \in 0..(MaxSelections - 1)
      /\ Len(history) \in 0..(MaxSelections - 1)
  BY BoundsAssumption, LenProperties DEF TypeOK, Counting
<1>3. CoordinatesNow \in Coordinates
  BY <1>1, <1>2 DEF TypeOK, CoordinatesNow, Coordinates
<1>4. a \in Ready
  BY <1>3, SelectionIsReady DEF CoordinatesNow
<1>5. Digest(CoordinatesNow) \in Nat
  BY <1>3, DigestAssumption
<1>6. a \in Actors /\ Routed(a).step \in Steps
  BY <1>1, <1>4, RoutingTypes DEF Ready
<1>7. Decision(a) \in Decisions
  BY <1>1, <1>2, <1>5, <1>6 DEF TypeOK, Decision, Decisions, Outcomes
<1> QED
  BY <1>3, <1>4, <1>7

LEMMA EmptyCandidateType ==
  ASSUME scenario \in Scenarios PROVE EmptyCandidate \in Candidates
BY StepAssumption, BoundsAssumption, EmptySeq
   DEF EmptyCandidate, Candidates, Clocks

(* However a run ends, its status says so, and what it publishes is the    *)
(* artifact that was built.                                                *)
LEMMA ConcludeEnds ==
  ASSUME NEW art, NEW why, Conclude(art, why),
         art.classification \in {"SUCCESS", "FAILED"}
  PROVE  /\ phase' = "ended" /\ status' \in Statuses \ {"RUNNING"}
         /\ schedule' \in {art, NoSchedule}
BY DEF Conclude, Raise, Statuses

(* The evidence of typed decisions is typed.                               *)
LEMMA EvidenceType ==
  ASSUME scenario \in Scenarios, seed \in Seeds, NEW made \in Seq(Decisions),
         NEW classification \in {"SUCCESS", "FAILED"},
         NEW failure \in Failures \cup {NoFailure}
  PROVE  Evidence(made, classification, failure) \in Evidences
<1> DEFINE records == [i \in 1..Len(made) |-> RecordOf(made[i])]
<1>1. \A i \in 1..Len(made) : made[i] \in Decisions
  BY ElementOfSeq
<1>2. \A d \in Decisions : RecordOf(d) \in Records
  BY DEF Decisions, RecordOf, Records
<1>3. Len(made) \in Nat
  BY LenProperties
<1>4. records \in Seq(Records)
  BY <1>1, <1>2, <1>3, IsASeq
<1> QED
  BY <1>4 DEF Evidence, Evidences

(* Completed phases put typed values into the candidate.                   *)
LEMMA ExtendedType ==
  ASSUME TypeOK, selected \in Routings, selected.kind = "step",
         NEW p, p \notin Failing
  PROVE  Extended(p) \in Candidates
<1>1. selected.step \in Steps
  BY RoutingTypes
<1>2. /\ Post(selected.step, state) \in States
      /\ Emits(selected.step, state) \in Seq(Artifacts)
      /\ Advance(selected.step) \in Nat
  BY <1>1, StepAssumption DEF TypeOK
<1>3. CASE p = "patch"
  BY <1>2, <1>3 DEF TypeOK, Extended, Candidates
<1>4. CASE p = "timestamp"
  <2>1. clock + Advance(selected.step) \in Clocks
    BY <1>2, <1>4, BoundsAssumption DEF TypeOK, Failing, Clocks
  <2> QED
    BY <2>1, <1>4 DEF TypeOK, Extended, Candidates
<1>5. CASE p = "emit"
  BY <1>2, <1>5 DEF TypeOK, Extended, Candidates
<1>6. CASE p \notin {"patch", "timestamp", "emit"}
  BY <1>6 DEF TypeOK, Extended
<1> QED
  BY <1>3, <1>4, <1>5, <1>6

(* Marking a decision FAILED changes its outcome only.                     *)
LEMMA MarkedFailed ==
  ASSUME NEW d \in Decisions
  PROVE  LET f == [d EXCEPT !.outcome = "FAILED"]
         IN  /\ f \in Decisions /\ f.outcome = "FAILED"
             /\ f.ordinal = d.ordinal /\ f.actor = d.actor /\ f.ready = d.ready
BY DEF Decisions, Outcomes

(* A failed step marks its decision FAILED and changes no other.           *)
LEMMA StepFailsMarksLast ==
  ASSUME TypeOK, StepFails
  PROVE  LET n == Len(decisions)
         IN  /\ n \in 1..n /\ decisions[n] \in Decisions
             /\ decisions' \in Seq(Decisions) /\ Len(decisions') = n
             /\ decisions'[n] = [decisions[n] EXCEPT !.outcome = "FAILED"]
             /\ \A i \in 1..(n - 1) : decisions'[i] = decisions[i]
<1> DEFINE n == Len(decisions)
           failed == [decisions[n] EXCEPT !.outcome = "FAILED"]
<1>1. n \in 1..n /\ decisions[n] \in Decisions
  BY LenProperties, EmptySeq DEF StepFails, TypeOK
<1>2. failed \in Decisions
  BY <1>1 DEF Decisions, Outcomes
<1>3. decisions' = [decisions EXCEPT ![n] = failed]
  BY DEF StepFails
<1>4. decisions \in Seq(Decisions)
  BY DEF TypeOK
<1>5. /\ decisions' \in Seq(Decisions) /\ Len(decisions') = n
      /\ \A j \in 1..n : decisions'[j] = IF j = n THEN failed ELSE decisions[j]
  <2> HIDE DEF failed
  <2> QED
    BY <1>1, <1>2, <1>3, <1>4, ExceptSeq
<1>6. /\ decisions'[n] = failed
      /\ \A i \in 1..(n - 1) : decisions'[i] = decisions[i]
  <2> HIDE DEF failed
  <2> QED
    BY <1>1, <1>5
<1> QED
  BY <1>1, <1>5, <1>6

(* An execution that starts, with or without a schedule to replay.         *)
Starts == scenario \in Scenarios /\ seed \in Seeds /\ InitExecution

LEMMA TypingInit ==
  ASSUME Starts PROVE TypeOK
<1>1. EmptyCandidate \in Candidates
  BY EmptyCandidateType DEF Starts
<1>2. /\ <<>> \in Seq(Commits) /\ <<>> \in Seq(Artifacts)
      /\ <<>> \in Seq(Decisions) /\ Len(<<>>) = 0
  BY EmptySeq
<1> QED
  BY <1>1, <1>2, StepAssumption, BoundsAssumption
     DEF Starts, InitExecution, TypeOK, Clocks, StepPhases, Statuses

(* Every step keeps the types.                                             *)
LEMMA TypingStep ==
  ASSUME IInv, [Next]_vars PROVE TypeOK'
<1> USE DEF IInv
<1>1. CASE Preflight
  BY <1>1 DEF Preflight, TypeOK, Raise, Statuses, parameters, runner, attempt,
     verdict, Candidates, Commits, Decisions, Clocks, Routings
<1>2. CASE RoutingFails
  BY <1>2 DEF RoutingFails, TypeOK, Raise, Statuses, parameters, runner,
     attempt
<1>3. CASE Complete
  <2>1. phase' = "ended" /\ status' \in Statuses \ {"RUNNING"}
    BY <1>3, ConcludeEnds DEF Complete, Evidence
  <2>2. controls' \in [Actors -> Controls]
    BY <1>3, StepAssumption DEF Complete, TypeOK
  <2>3. schedule' \in Evidences \cup {NoSchedule}
    <3>1. Evidence(decisions, "SUCCESS", NoFailure) \in Evidences
      BY EvidenceType DEF TypeOK
    <3>2. schedule' \in {Evidence(decisions, "SUCCESS", NoFailure), NoSchedule}
      BY <1>3, ConcludeEnds DEF Complete, Evidence
    <3> QED
      BY <3>1, <3>2
  <2> QED
    BY <1>3, <2>1, <2>2, <2>3
       DEF Complete, TypeOK, parameters, runner, attempt
<1>4. CASE SelectionLimit
  BY <1>4 DEF SelectionLimit, TypeOK, Raise, Statuses, parameters, runner,
     attempt
<1>5. CASE Select
  <2> DEFINE a == SelectActor(CoordinatesNow)
  <2>1. CASE UNCHANGED <<decisions, attempt>>
    BY <1>5, <2>1 DEF Select, TypeOK, Raise, Statuses, parameters, runner,
       attempt
  <2>2. CASE /\ decisions' = Append(decisions, Decision(a))
             /\ selected' = Routed(a) /\ done' = 0
             /\ candidate' = EmptyCandidate /\ phase' = "attempt"
             /\ UNCHANGED verdict
    <3>1. Decision(a) \in Decisions /\ a \in Ready
      BY <1>5, DecisionTypes DEF Select
    <3>2. /\ decisions' \in Seq(Decisions) /\ decisions' # <<>>
          /\ Len(decisions') <= MaxSelections
      BY <1>5, <2>2, <3>1, BoundsAssumption DEF Select, TypeOK
    <3>3. selected' \in Routings
      BY <2>2, <3>1, RoutingTypes
    <3>4. candidate' \in Candidates
      BY <2>2, EmptyCandidateType DEF TypeOK
    <3> QED
      BY <1>5, <2>2, <3>2, <3>3, <3>4 DEF Select, TypeOK, parameters, runner,
         verdict, StepPhases
  <2> QED
    BY <1>5, <2>1, <2>2 DEF Select
<1>6. CASE RunPhase
  <2>1. Extended(StepPhases[done + 1]) \in Candidates
    BY <1>6, ExtendedType DEF RunPhase, TypeOK, AttemptIsFresh
  <2>2. done' \in 0..Len(StepPhases)
    BY <1>6 DEF RunPhase, TypeOK, StepPhases
  <2> QED
    BY <1>6, <2>1, <2>2 DEF RunPhase, TypeOK, parameters, runner, verdict
<1>7. CASE FaultsFail
  BY <1>7 DEF FaultsFail, TypeOK, Raise, Statuses, parameters, runner, attempt
<1>8. CASE StepFails
  <2>4. decisions' \in Seq(Decisions) /\ Len(decisions') = Len(decisions)
    BY <1>8, StepFailsMarksLast
  <2>5. phase' = "ended" /\ status' \in Statuses \ {"RUNNING"}
    BY <1>8, ConcludeEnds DEF StepFails, Evidence
  <2>6. schedule' \in Evidences \cup {NoSchedule}
    <3> DEFINE n == Len(decisions)
               p == StepPhases[done + 1]
               failure == [actor |-> Chosen, code |-> p, ordinal |-> n - 1]
               art == Evidence(decisions', "FAILED", failure)
    <3>1. p \in Phases
      BY <1>8 DEF StepFails, Phases, StepPhases
    <3>2. n - 1 \in 0..(MaxSelections - 1) /\ Chosen \in Actors
      BY <1>8, StepFailsMarksLast, BoundsAssumption
         DEF StepFails, TypeOK, AttemptIsFresh
    <3>3. failure \in Failures
      BY <3>1, <3>2 DEF Failures
    <3>4. art \in Evidences
      <4> HIDE DEF failure
      <4> QED
        BY <2>4, <3>3, EvidenceType DEF TypeOK
    <3>5. Conclude(art, p) /\ art.classification = "FAILED"
      BY <1>8 DEF StepFails, Evidence
    <3>6. schedule' \in {art, NoSchedule}
      <4> HIDE DEF art
      <4> QED
        BY <3>5, ConcludeEnds
    <3> HIDE DEF art
    <3> QED
      BY <3>4, <3>6
  <2> QED
    BY <1>8, <2>4, <2>5, <2>6
       DEF StepFails, TypeOK, parameters, runner, attempt
<1>9. CASE Commit
  <2>1. /\ Chosen \in Actors /\ selected.step \in Steps
        /\ selected.control \in Controls
    BY <1>9, RoutingTypes DEF Commit, TypeOK, AttemptIsFresh
  <2>2. [actor |-> Chosen, step |-> selected.step, pre |-> state,
         post |-> candidate.post, timestamp |-> candidate.timestamp,
         emitted |-> candidate.emitted] \in Commits
    BY <2>1 DEF TypeOK, Candidates, Commits
  <2>3. history' \in Seq(Commits) /\ artifacts' \in Seq(Artifacts)
    BY <1>9, <2>2, ConcatProperties DEF Commit, TypeOK, Candidates
  <2>4. candidate' \in Candidates
    BY <1>9, EmptyCandidateType DEF Commit, TypeOK
  <2>5. controls' \in [Actors -> Controls]
    BY <1>9, <2>1 DEF Commit, TypeOK
  <2> QED
    BY <1>9, <2>3, <2>4, <2>5 DEF Commit, TypeOK, Candidates, parameters,
       verdict, StepPhases
<1>10. CASE UNCHANGED vars
  BY <1>10 DEF TypeOK, vars, parameters, runner, attempt, verdict
<1> QED
  BY <1>1, <1>2, <1>3, <1>4, <1>5, <1>6, <1>7, <1>8, <1>9, <1>10
     DEF Next, Ended

-----------------------------------------------------------------------------
(* Only a commit touches the runner; no step changes the scenario.         *)
LEMMA OnlyCommitMovesRunner ==
  ASSUME [Next]_vars
  PROVE  Commit \/ UNCHANGED <<parameters, runner>>
BY DEF Next, Preflight, RoutingFails, Complete, SelectionLimit, Select,
   RunPhase, FaultsFail, StepFails, Ended, vars

LEMMA CountingStep ==
  ASSUME IInv, [Next]_vars PROVE Counting'
<1> USE DEF IInv
<1>0. Len(decisions) \in Nat /\ Len(history) \in Nat
  BY LenProperties DEF TypeOK
<1>1. CASE Preflight
  BY <1>0, <1>1 DEF Preflight, Raise, Counting, runner
<1>2. CASE RoutingFails
  BY <1>0, <1>2 DEF RoutingFails, Raise, Counting, runner
<1>3. CASE Complete
  BY <1>0, <1>3, ConcludeEnds DEF Complete, Evidence, Counting, runner
<1>4. CASE SelectionLimit
  BY <1>0, <1>4 DEF SelectionLimit, Raise, Counting, runner
<1>5. CASE Select
  <2>1. CASE UNCHANGED <<decisions, attempt>>
    BY <1>0, <1>5, <2>1 DEF Select, Raise, Counting, runner, TypeOK, verdict
  <2>2. CASE /\ decisions' = Append(decisions, Decision(SelectActor(CoordinatesNow)))
             /\ phase' = "attempt"
    BY <1>0, <1>5, <2>2 DEF Select, Counting, runner, TypeOK
  <2> QED
    BY <1>5, <2>1, <2>2 DEF Select
<1>6. CASE RunPhase
  BY <1>6 DEF RunPhase, Counting, runner
<1>7. CASE FaultsFail
  BY <1>0, <1>7 DEF FaultsFail, Raise, Counting, runner
<1>8. CASE StepFails
  <2>1. Len(decisions') = Len(decisions)
    BY <1>8, StepFailsMarksLast
  <2> QED
    BY <1>0, <1>8, <2>1, ConcludeEnds DEF StepFails, Evidence, Counting, runner
<1>9. CASE Commit
  BY <1>0, <1>9 DEF Commit, Counting, TypeOK
<1>10. CASE UNCHANGED vars
  BY <1>10 DEF Counting, vars, runner
<1> QED
  BY <1>1, <1>2, <1>3, <1>4, <1>5, <1>6, <1>7, <1>8, <1>9, <1>10
     DEF Next, Ended

(* A selection binds the route of the selected actor; a completed phase    *)
(* adds its value to the candidate; every other step ends the attempt.     *)
LEMMA AttemptStep ==
  ASSUME IInv, [Next]_vars PROVE AttemptIsFresh'
<1> USE DEF IInv
<1>1. CASE Preflight
  BY <1>1 DEF Preflight, Raise, AttemptIsFresh
<1>2. CASE RoutingFails
  BY <1>2 DEF RoutingFails, Raise, AttemptIsFresh
<1>3. CASE Complete
  BY <1>3, ConcludeEnds DEF Complete, Evidence, AttemptIsFresh
<1>4. CASE SelectionLimit
  BY <1>4 DEF SelectionLimit, Raise, AttemptIsFresh
<1>5. CASE Select
  <2> DEFINE a == SelectActor(CoordinatesNow)
  <2>1. CASE phase' # "attempt"
    BY <2>1 DEF AttemptIsFresh
  <2>2. CASE /\ decisions' = Append(decisions, Decision(a))
             /\ selected' = Routed(a) /\ done' = 0
    <3>1. Decision(a) \in Decisions /\ a \in Ready /\ a \in Actors
      BY <1>5, DecisionTypes, RoutingTypes DEF Select
    <3>2. decisions'[Len(decisions')] = Decision(a)
      BY <2>2, <3>1 DEF TypeOK
    <3>3. Chosen' = a
      BY <3>2 DEF Chosen, Decision
    <3>4. UNCHANGED <<scenario, controls, state>>
      BY <1>5 DEF Select, parameters, runner
    <3>5. selected' = Routed(Chosen)' /\ selected'.kind = "step"
      BY <2>2, <3>1, <3>3, <3>4 DEF Routed, Ready
    <3> QED
      BY <2>2, <3>1, <3>3, <3>5 DEF AttemptIsFresh
  <2> QED
    BY <1>5, <2>1, <2>2 DEF Select, Raise
<1>6. CASE RunPhase
  <2> DEFINE k == done + 1
  <2>1. /\ UNCHANGED <<scenario, controls, state, clock, decisions, selected>>
        /\ done' = k /\ candidate' = Extended(StepPhases[k])
        /\ StepPhases[k] \notin Failing /\ phase = "attempt"
    BY <1>6 DEF RunPhase, parameters, runner
  <2>2. /\ Chosen' = Chosen /\ Routed(Chosen)' = Routed(Chosen)
        /\ Failing' = Failing
    BY <2>1 DEF Chosen, Routed, Failing
  <2>3. done \in 0..8
    BY <1>6 DEF RunPhase, TypeOK, StepPhases
  <2>4. \A i \in 1..done' : StepPhases[i] \notin Failing'
    BY <2>1, <2>2, <2>3 DEF AttemptIsFresh
  <2>5. /\ StepPhases[4] = "patch" /\ StepPhases[6] = "timestamp"
        /\ StepPhases[7] = "emit"
        /\ \A i \in 1..9 : /\ i # 4 => StepPhases[i] # "patch"
                           /\ i # 6 => StepPhases[i] # "timestamp"
                           /\ i # 7 => StepPhases[i] # "emit"
    BY DEF StepPhases
  <2>6. done' >= 4 => candidate'.post = Post(selected.step, state)
    BY <2>1, <2>3, <2>5 DEF AttemptIsFresh, Extended, TypeOK, Candidates
  <2>7. done' >= 6 => candidate'.timestamp = clock + Advance(selected.step)
    BY <2>1, <2>3, <2>5 DEF AttemptIsFresh, Extended, TypeOK, Candidates
  <2>8. done' >= 7 => candidate'.emitted = Emits(selected.step, state)
    BY <2>1, <2>3, <2>5 DEF AttemptIsFresh, Extended, TypeOK, Candidates
  <2> QED
    BY <2>1, <2>2, <2>4, <2>6, <2>7, <2>8 DEF AttemptIsFresh
<1>7. CASE FaultsFail
  BY <1>7 DEF FaultsFail, Raise, AttemptIsFresh
<1>8. CASE StepFails
  BY <1>8, ConcludeEnds DEF StepFails, Evidence, AttemptIsFresh
<1>9. CASE Commit
  BY <1>9 DEF Commit, AttemptIsFresh
<1>10. CASE UNCHANGED vars
  <2>1. UNCHANGED <<scenario, controls, state, clock, decisions, selected, done,
                    candidate, phase>>
    BY <1>10 DEF vars, parameters, runner, attempt
  <2> QED
    BY <2>1 DEF AttemptIsFresh, Chosen, Routed, Failing
<1> QED
  BY <1>1, <1>2, <1>3, <1>4, <1>5, <1>6, <1>7, <1>8, <1>9, <1>10
     DEF Next, Ended

(* When every phase has completed, none of them raises.                    *)
LEMMA CompletedStepIsClean ==
  ASSUME IInv, phase = "attempt", done = Len(StepPhases)
  PROVE  /\ Raises(selected.step, state) = {}
         /\ clock + Advance(selected.step) <= MaxClock
<1> USE DEF IInv
<1>1. selected.step \in Steps
  BY RoutingTypes DEF TypeOK, AttemptIsFresh
<1>2. Raises(selected.step, state) \subseteq Phases
  BY <1>1, StepAssumption DEF TypeOK
<1>3. \A p \in Phases : p \notin Failing
  BY DEF AttemptIsFresh, Phases
<1>4. "timestamp" \in Phases
  BY DEF Phases, StepPhases
<1>5. Advance(selected.step) \in Nat /\ clock \in Nat
  BY <1>1, StepAssumption, BoundsAssumption DEF TypeOK, Clocks
<1> QED
  BY <1>2, <1>3, <1>4, <1>5, BoundsAssumption DEF Failing

(* The record a commit appends continues the chain of records.             *)
LEMMA CommitExtendsChain ==
  ASSUME IInv, Commit
  PROVE  RunnerMatchesHistory' /\ NothingFailedCommits'
<1> USE DEF IInv
<1>0. PICK n \in Nat : n = Len(history)
  BY LenProperties DEF TypeOK
<1> DEFINE new == [actor |-> Chosen, step |-> selected.step, pre |-> state,
                   post |-> candidate.post, timestamp |-> candidate.timestamp,
                   emitted |-> candidate.emitted]
<1>1. /\ phase = "attempt" /\ done = Len(StepPhases) /\ done = 9
      /\ history' = Append(history, new) /\ scenario' = scenario
      /\ state' = new.post /\ clock' = new.timestamp
  BY DEF Commit, StepPhases, parameters
<1>2. /\ new.pre = state /\ new.post = Post(new.step, state)
      /\ new.timestamp = clock + Advance(new.step)
      /\ Raises(new.step, new.pre) = {}
  BY <1>1, CompletedStepIsClean DEF AttemptIsFresh
<1> HIDE DEF new
<1>3. /\ n \in Nat /\ history \in Seq(Commits)
      /\ Len(history') = n + 1 /\ history'[n + 1] = new
      /\ \A i \in 1..n : history'[i] = history[i]
  BY <1>0, <1>1, LenProperties DEF TypeOK
<1>4. /\ \A i \in 0..n : StateAt(i)' = StateAt(i) /\ ClockAt(i)' = ClockAt(i)
      /\ StateAt(n + 1)' = new.post /\ ClockAt(n + 1)' = new.timestamp
  BY <1>1, <1>3 DEF StateAt, ClockAt
<1>5. state = StateAt(n) /\ clock = ClockAt(n)
  BY <1>0 DEF RunnerMatchesHistory
<1>6. ASSUME NEW i \in 1..(n + 1)
      PROVE  /\ history'[i].pre = StateAt(i - 1)'
             /\ history'[i].timestamp = ClockAt(i - 1)' + Advance(history'[i].step)
             /\ history'[i].post = Post(history'[i].step, history'[i].pre)
             /\ Raises(history'[i].step, history'[i].pre) = {}
  <2>1. CASE i \in 1..n
    <3>1. i - 1 \in 0..n /\ history'[i] = history[i]
      BY <2>1, <1>3
    <3> QED
      BY <1>0, <2>1, <3>1, <1>4 DEF RunnerMatchesHistory, NothingFailedCommits
  <2>2. CASE i = n + 1
    BY <2>2, <1>2, <1>3, <1>4, <1>5
  <2> QED
    BY <1>3, <2>1, <2>2
<1> QED
  BY <1>1, <1>3, <1>4, <1>6 DEF RunnerMatchesHistory, NothingFailedCommits

LEMMA HistoryStep ==
  ASSUME IInv, [Next]_vars
  PROVE  RunnerMatchesHistory' /\ NothingFailedCommits'
<1>1. CASE Commit
  BY <1>1, CommitExtendsChain
<1>2. CASE UNCHANGED <<parameters, runner>>
  <2>1. UNCHANGED <<scenario, state, clock, history>>
    BY <1>2 DEF parameters, runner
  <2> QED
    BY <2>1 DEF IInv, RunnerMatchesHistory, NothingFailedCommits, StateAt, ClockAt
<1> QED
  BY <1>1, <1>2, OnlyCommitMovesRunner

-----------------------------------------------------------------------------
(* What the coordinator knows of its decisions is what the constructor of  *)
(* the artifact checks of the records.                                     *)
LEMMA RecordOfDecision ==
  ASSUME NEW d \in Decisions, d.actor \in d.ready
  PROVE  /\ IsRecord(RecordOf(d))
         /\ RecordOf(d).ordinal = d.ordinal /\ RecordOf(d).actor = d.actor
         /\ RecordOf(d).ready \in SUBSET Actors
         /\ RecordOf(d).outcome = d.outcome
BY BoundsAssumption DEF Decisions, RecordOf, IsRecord

LEMMA EvidenceIsSchedule ==
  ASSUME NEW made \in Seq(Decisions), Len(made) <= MaxSelections,
         scenario \in Scenarios, NEW classification, NEW failure,
         \A i \in 1..Len(made) :
           /\ made[i].ordinal = i - 1 /\ made[i].actor \in made[i].ready
           /\ made[i].outcome = "FAILED" => i = Len(made),
         TerminalMatches(Evidence(made, classification, failure)),
         FitsEvidenceBound(Evidence(made, classification, failure).records)
  PROVE  IsSchedule(Evidence(made, classification, failure))
<1> DEFINE art == Evidence(made, classification, failure)
           n == Len(made)
<1>1. n \in Nat /\ Len(art.records) = n
  BY LenProperties DEF Evidence
<1>2. ASSUME NEW i \in 1..n
      PROVE  /\ art.records[i] = RecordOf(made[i])
             /\ made[i] \in Decisions
  BY <1>1, <1>2, ElementOfSeq DEF Evidence
<1>3. ASSUME NEW i \in 1..n
      PROVE  /\ IsRecord(art.records[i])
             /\ art.records[i].ordinal = i - 1
             /\ art.records[i].ready \subseteq art.actors
             /\ art.records[i].outcome = "FAILED" => i = n
  <2>1. /\ made[i].ordinal = i - 1 /\ made[i].actor \in made[i].ready
        /\ made[i].outcome = "FAILED" => i = n
    OBVIOUS
  <2>2. art.actors = Actors
    BY DEF Evidence
  <2>3. art.records[i] = RecordOf(made[i]) /\ made[i] \in Decisions
    BY <1>2
  <2> HIDE DEF art, n
  <2> QED
    BY <2>1, <2>2, <2>3, RecordOfDecision
<1>4. RecordsInOrder(art)
  BY <1>1, <1>3 DEF RecordsInOrder
<1>5. art.scenario \in Scenarios /\ art.actors \in (SUBSET Actors) \ {{}}
  BY ActorsAssumption DEF Evidence
<1> QED
  BY <1>1, <1>4, <1>5 DEF IsSchedule

(* So the constructor refuses the evidence of a complete run or of a       *)
(* failed step for its size only.                                          *)
LEMMA CompleteConcludes ==
  ASSUME IInv, Complete PROVE cause' # "schedule_invalid"
<1> USE DEF IInv
<1> DEFINE art == Evidence(decisions, "SUCCESS", NoFailure)
           n == Len(decisions)
<1>1. /\ n \in Nat /\ Len(art.records) = n
      /\ \A i \in 1..n : art.records[i] = RecordOf(decisions[i])
      /\ art.classification = "SUCCESS" /\ art.failure = NoFailure
  BY LenProperties DEF Evidence, TypeOK
<1>2. \A i \in 1..n : /\ decisions[i].outcome = "COMMITTED"
                      /\ art.records[i].outcome = "COMMITTED"
  <2>1. phase # "ended"
    BY DEF Complete
  <2>2. \A i \in 1..n : decisions[i].outcome = "COMMITTED"
    BY <2>1 DEF DecisionsInOrder
  <2>3. \A i \in 1..n : RecordOf(decisions[i]).outcome = decisions[i].outcome
    BY DEF RecordOf
  <2> HIDE DEF art, n
  <2> QED
    BY <1>1, <2>2, <2>3
<1>3. TerminalMatches(art)
  BY <1>1, <1>2 DEF TerminalMatches
<1>4. FitsEvidenceBound(art.records) => IsSchedule(art)
  BY <1>2, <1>3, EvidenceIsSchedule DEF TypeOK, DecisionsInOrder
<1> QED
  BY <1>4 DEF Complete, Conclude, Raise

LEMMA StepFailsConcludes ==
  ASSUME IInv, StepFails PROVE cause' # "schedule_invalid"
<1> USE DEF IInv
<1> DEFINE n == Len(decisions)
           p == StepPhases[done + 1]
           failed == [decisions EXCEPT ![n].outcome = "FAILED"]
           failure == [actor |-> Chosen, code |-> p, ordinal |-> n - 1]
           art == Evidence(failed, "FAILED", failure)
<1>1. /\ n \in 1..n /\ decisions[n] \in Decisions /\ n \in Nat
      /\ failed \in Seq(Decisions) /\ Len(failed) = n
      /\ failed[n] = [decisions[n] EXCEPT !.outcome = "FAILED"]
      /\ \A i \in 1..(n - 1) : failed[i] = decisions[i]
  <2>1. decisions' = failed
    BY DEF StepFails
  <2>2. n \in Nat
    BY LenProperties DEF TypeOK
  <2> HIDE DEF failed
  <2> QED
    BY <2>1, <2>2, StepFailsMarksLast
<1>2. /\ failed[n].ordinal = n - 1 /\ failed[n].actor = Chosen
      /\ failed[n].outcome = "FAILED" /\ Chosen \in failed[n].ready
  <2>1. /\ decisions[n].ordinal = n - 1
        /\ decisions[n].actor = Chosen /\ Chosen \in decisions[n].ready
    BY <1>1 DEF DecisionsInOrder, Chosen
  <2> HIDE DEF failed
  <2> QED
    BY <1>1, <2>1, MarkedFailed
<1>3. \A i \in 1..n : /\ failed[i].ordinal = i - 1
                      /\ failed[i].actor \in failed[i].ready
                      /\ failed[i].outcome = "FAILED" => i = n
  <2> TAKE i \in 1..n
  <2>1. CASE i = n
    BY <2>1, <1>2
  <2>2. CASE i # n
    <3>1. i \in 1..(n - 1)
      BY <2>2, <1>1
    <3> HIDE DEF failed
    <3> QED
      BY <2>2, <3>1, <1>1 DEF DecisionsInOrder, StepFails
  <2> QED
    BY <2>1, <2>2
<1>4. p \in Phases /\ p # "schedule_invalid" /\ p # "schedule_bound"
  <2>1. done + 1 \in 1..9 /\ Len(StepPhases) = 9
    BY DEF StepFails, StepPhases
  <2>2. \A i \in 1..9 : /\ StepPhases[i] # "schedule_invalid"
                        /\ StepPhases[i] # "schedule_bound"
    BY DEF StepPhases
  <2> QED
    BY <2>1, <2>2 DEF Phases
<1>5. failure # NoFailure
  <2>1. Chosen \in Actors /\ n - 1 \in 0..(MaxSelections - 1)
    BY <1>1, BoundsAssumption DEF TypeOK, AttemptIsFresh, StepFails
  <2>2. failure \in Failures
    BY <1>4, <2>1 DEF Failures
  <2> QED
    BY <2>2, StepAssumption
<1> HIDE DEF failed
<1>6. /\ Len(art.records) = n /\ art.classification = "FAILED"
      /\ art.failure = failure /\ art.records[n] = RecordOf(failed[n])
  BY <1>1, LenProperties DEF Evidence
<1>7. art.records # <<>>
  BY <1>1, <1>6, EmptySeq
<1>8. TerminalMatches(art)
  BY <1>2, <1>5, <1>6, <1>7 DEF TerminalMatches, RecordOf
<1>9. FitsEvidenceBound(art.records) => IsSchedule(art)
  BY <1>1, <1>3, <1>8, EvidenceIsSchedule DEF TypeOK
<1>10. Conclude(art, p)
  BY DEF StepFails, failed
<1> HIDE DEF art, p
<1> QED
  BY <1>4, <1>9, <1>10 DEF Conclude, Raise

LEMMA DecisionsStep ==
  ASSUME IInv, [Next]_vars
  PROVE  DecisionsInOrder' /\ SchedulesAreWellFormed'
<1> USE DEF IInv, SchedulesAreWellFormed
<1>1. CASE Preflight
  BY <1>1 DEF Preflight, Raise, DecisionsInOrder, verdict
<1>2. CASE RoutingFails
  BY <1>2 DEF RoutingFails, Raise, DecisionsInOrder
<1>3. CASE Complete
  BY <1>3, CompleteConcludes, ConcludeEnds DEF Complete, Evidence, DecisionsInOrder
<1>4. CASE SelectionLimit
  BY <1>4 DEF SelectionLimit, Raise, DecisionsInOrder
<1>5. CASE Select
  <2> DEFINE a == SelectActor(CoordinatesNow)
  <2>1. CASE UNCHANGED decisions
    BY <1>5, <2>1 DEF Select, Raise, DecisionsInOrder, verdict
  <2>2. CASE decisions' = Append(decisions, Decision(a))
    <3>1. Decision(a) \in Decisions /\ a \in Ready
      BY <1>5, DecisionTypes DEF Select
    <3>2. /\ Len(decisions) \in Nat /\ Len(decisions') = Len(decisions) + 1
          /\ decisions'[Len(decisions) + 1] = Decision(a)
          /\ \A i \in 1..Len(decisions) : decisions'[i] = decisions[i]
      BY <2>2, <3>1, LenProperties DEF TypeOK
    <3>3. /\ Decision(a).ordinal = Len(decisions)
          /\ Decision(a).actor \in Decision(a).ready
          /\ Decision(a).outcome = "COMMITTED"
      BY <3>1 DEF Decision
    <3>4. DecisionsInOrder'
      BY <1>5, <3>2, <3>3 DEF DecisionsInOrder, Select
    <3> QED
      BY <1>5, <3>4 DEF Select, Raise, verdict
  <2> QED
    BY <1>5, <2>1, <2>2 DEF Select
<1>6. CASE RunPhase
  BY <1>6 DEF RunPhase, DecisionsInOrder, verdict
<1>7. CASE FaultsFail
  BY <1>7 DEF FaultsFail, Raise, DecisionsInOrder
<1>8. CASE StepFails
  <2>1. phase' = "ended"
    BY <1>8, ConcludeEnds DEF StepFails, Evidence
  <2>2. PICK n \in Nat : n = Len(decisions)
    BY LenProperties DEF TypeOK
  <2>3. /\ Len(decisions') = n /\ decisions[n] \in Decisions
        /\ decisions'[n] = [decisions[n] EXCEPT !.outcome = "FAILED"]
        /\ \A i \in 1..(n - 1) : decisions'[i] = decisions[i]
    BY <1>8, <2>2, StepFailsMarksLast
  <2>4. /\ decisions'[n].ordinal = decisions[n].ordinal
        /\ decisions'[n].actor = decisions[n].actor
        /\ decisions'[n].ready = decisions[n].ready
    BY <2>3, MarkedFailed
  <2>5. ASSUME NEW i \in 1..n
        PROVE  decisions'[i].ordinal = i - 1 /\ decisions'[i].actor \in decisions'[i].ready
    <3>1. /\ decisions[i].ordinal = i - 1
          /\ decisions[i].actor \in decisions[i].ready
      BY <2>2 DEF DecisionsInOrder
    <3>2. i = n \/ i \in 1..(n - 1)
      OBVIOUS
    <3> QED
      BY <2>3, <2>4, <3>1, <3>2
  <2>6. DecisionsInOrder'
    BY <2>1, <2>3, <2>5 DEF DecisionsInOrder
  <2> QED
    BY <1>8, <2>6, StepFailsConcludes
<1>9. CASE Commit
  BY <1>9 DEF Commit, DecisionsInOrder, verdict
<1>10. CASE UNCHANGED vars
  BY <1>10 DEF DecisionsInOrder, vars, verdict
<1> QED
  BY <1>1, <1>2, <1>3, <1>4, <1>5, <1>6, <1>7, <1>8, <1>9, <1>10
     DEF Next, Ended

-----------------------------------------------------------------------------
LEMMA InitEstablishesIInv ==
  ASSUME Starts PROVE IInv
<1>1. TypeOK
  BY TypingInit
<1>2. Len(history) = 0 /\ Len(decisions) = 0
  BY EmptySeq DEF Starts, InitExecution
<1>3. Counting /\ AttemptIsFresh
  BY <1>2 DEF Starts, InitExecution, Counting, AttemptIsFresh
<1>4. RunnerMatchesHistory /\ NothingFailedCommits
  BY <1>2 DEF Starts, InitExecution, RunnerMatchesHistory, NothingFailedCommits,
     StateAt, ClockAt
<1>5. DecisionsInOrder /\ SchedulesAreWellFormed
  BY <1>2 DEF Starts, InitExecution, DecisionsInOrder, SchedulesAreWellFormed
<1> QED
  BY <1>1, <1>3, <1>4, <1>5 DEF IInv

(* IInv holds of every reachable state.                                    *)
THEOREM Invariance == Spec => []IInv
<1>1. Init => IInv
  BY InitEstablishesIInv DEF Init, Starts
<1>2. IInv /\ [Next]_vars => IInv'
  BY TypingStep, CountingStep, AttemptStep, DecisionsStep, HistoryStep DEF IInv
<1> QED
  BY <1>1, <1>2, PTL DEF Spec

(* The types of the state, with the bounds on the clock and on the number  *)
(* of selections, hold for every scenario, digest and bound.               *)
THEOREM TypeCorrect == Spec => []TypeOK
<1>1. IInv => TypeOK
  BY DEF IInv
<1> QED
  BY <1>1, Invariance, PTL

(* Atomicity of a transition: in every reachable state, in the middle of   *)
(* an attempt and after a failure included, state and clock are those the  *)
(* committed records produced from the initial state.                      *)
THEOREM TransitionsAreAtomic == Spec => []RunnerMatchesHistory
<1>1. IInv => RunnerMatchesHistory
  BY DEF IInv
<1> QED
  BY <1>1, Invariance, PTL

(* No step of which a phase raises is ever committed.                      *)
THEOREM FailedStepsDoNotCommit == Spec => []NothingFailedCommits
<1>1. IInv => NothingFailedCommits
  BY DEF IInv
<1> QED
  BY <1>1, Invariance, PTL

(* The evidence of a run that completes or fails is refused by the         *)
(* artifact for its size only, never for the order, the outcomes or the    *)
(* terminal classification of its records.                                 *)
THEOREM EvidenceIsWellFormed == Spec => []SchedulesAreWellFormed
<1>1. IInv => SchedulesAreWellFormed
  BY DEF IInv
<1> QED
  BY <1>1, Invariance, PTL

-----------------------------------------------------------------------------
(* The coordinator implements SerialActors: a commit is the execution of a *)
(* whole step by the selected actor, a successful end finds no actor with  *)
(* a step left, every other end stops the run, and all remaining steps of  *)
(* the coordinator are invisible.                                          *)
LEMMA SerialInit ==
  ASSUME Init PROVE Serial!Init
BY DEF Init, InitExecution, Outcome, Serial!Init

(* Before the end the abstract run is running.                             *)
LEMMA RunningOutcome ==
  ASSUME TypeOK, phase # "ended" PROVE Outcome = "running"
BY DEF TypeOK, Outcome

(* The candidate of a clean attempt is the effect of the selected step.    *)
LEMMA CommitExecutes ==
  ASSUME IInv, Commit PROVE Serial!Execute(Chosen)
<1> USE DEF IInv
<1>1. /\ phase = "attempt" /\ done = Len(StepPhases) /\ done = 9
  BY DEF Commit, StepPhases
<1>2. /\ selected = Serial!RouteOfActor(Chosen) /\ selected.kind = "step"
      /\ candidate.post = Post(selected.step, state)
      /\ candidate.timestamp = clock + Advance(selected.step)
      /\ candidate.emitted = Emits(selected.step, state)
  BY <1>1 DEF AttemptIsFresh, Routed, Serial!RouteOfActor
<1>3. /\ Raises(selected.step, state) = {}
      /\ clock + Advance(selected.step) <= MaxClock
  BY <1>1, CompletedStepIsClean
<1>4. Outcome = "running" /\ Outcome' = Outcome
  BY <1>1, RunningOutcome DEF Commit, verdict, Outcome
<1>5. /\ state' = candidate.post /\ clock' = candidate.timestamp
      /\ artifacts' = artifacts \o candidate.emitted
      /\ controls' = [controls EXCEPT ![Chosen] = selected.control]
      /\ scenario' = scenario
  BY DEF Commit, parameters
<1> QED
  BY <1>2, <1>3, <1>4, <1>5 DEF Serial!Execute

(* A complete run has no actor with a step or an unroutable position.      *)
LEMMA CompleteFinishes ==
  ASSUME IInv, Complete PROVE Serial!Finish \/ Serial!Stop
<1> USE DEF IInv
<1>1. Outcome = "running"
  BY RunningOutcome DEF Complete
<1>2. /\ UNCHANGED <<scenario, state, clock, artifacts>>
      /\ controls' = IF status' = "SUCCESS" THEN [a \in Actors |-> Terminal]
                     ELSE controls
  BY DEF Complete, parameters, runner
<1>3. status' \in Statuses \ {"RUNNING"}
  BY ConcludeEnds DEF Complete, Evidence
<1>4. CASE status' = "SUCCESS"
  <2>1. \A a \in Actors : Routed(a).kind \in {"step", "done", "error"}
    BY RoutingTypes DEF Routings
  <2>2. \A a \in Actors : Serial!RouteOfActor(a).kind = "done"
    BY <2>1 DEF Complete, RoutingRaises, Ready, Routed, Serial!RouteOfActor
  <2> QED
    BY <1>1, <1>2, <1>4, <2>2 DEF Serial!Finish, Outcome
<1>5. CASE status' # "SUCCESS"
  BY <1>1, <1>2, <1>3, <1>5 DEF Serial!Stop, Outcome, Statuses
<1> QED
  BY <1>4, <1>5

(* An end without a commit stops the run.                                  *)
LEMMA EndStops ==
  ASSUME IInv, phase # "ended", status' \in Statuses \ {"RUNNING", "SUCCESS"},
         UNCHANGED <<scenario, state, clock, artifacts, controls>>
  PROVE  Serial!Stop
BY RunningOutcome DEF IInv, Serial!Stop, Outcome, Statuses

(* Steps that leave the runner, the stacks and the status are invisible.   *)
LEMMA Stutters ==
  ASSUME UNCHANGED <<scenario, state, clock, artifacts, controls, status>>
  PROVE  UNCHANGED Serial!vars
BY DEF Serial!vars, Outcome

LEMMA SerialStep ==
  ASSUME IInv, [Next]_vars PROVE [Serial!Next]_(Serial!vars)
<1> USE DEF Serial!Next
<1>1. CASE Preflight
  BY <1>1, EndStops, Stutters
     DEF Preflight, Raise, Statuses, parameters, runner, verdict
<1>2. CASE RoutingFails
  BY <1>2, EndStops DEF RoutingFails, Raise, Statuses, parameters, runner
<1>3. CASE Complete
  BY <1>3, CompleteFinishes
<1>4. CASE SelectionLimit
  BY <1>4, EndStops DEF SelectionLimit, Raise, Statuses, parameters, runner
<1>5. CASE Select
  BY <1>5, EndStops, Stutters
     DEF Select, Raise, Statuses, parameters, runner, verdict
<1>6. CASE RunPhase
  BY <1>6, Stutters DEF RunPhase, parameters, runner, verdict
<1>7. CASE FaultsFail
  BY <1>7, EndStops DEF FaultsFail, Raise, Statuses, parameters, runner
<1>8. CASE StepFails
  <2>1. status' \in {"FAILED", "ABORTED", "MISMATCH"}
    BY <1>8 DEF StepFails, Conclude, Raise, Evidence
  <2> QED
    BY <1>8, <2>1, EndStops DEF StepFails, Statuses, parameters, runner
<1>9. CASE Commit
  <2>1. Chosen \in Actors
    BY <1>9 DEF IInv, AttemptIsFresh, Commit
  <2> QED
    BY <1>9, <2>1, CommitExecutes
<1>10. CASE UNCHANGED vars
  BY <1>10, Stutters DEF vars, parameters, runner, verdict
<1> QED
  BY <1>1, <1>2, <1>3, <1>4, <1>5, <1>6, <1>7, <1>8, <1>9, <1>10
     DEF Next, Ended

(* Every execution of the coordinator, whatever raises and whatever is     *)
(* replayed, is a serial execution of whole steps.                         *)
THEOREM ImplementsSerialActors == Spec => SerialSpec
<1>1. Init => Serial!Init
  BY SerialInit
<1>2. IInv /\ [Next]_vars => [Serial!Next]_(Serial!vars)
  BY SerialStep
<1> QED
  BY <1>1, <1>2, Invariance, PTL DEF Spec, SerialSpec, Serial!Spec

-----------------------------------------------------------------------------
(* The second part: what the history of an execution determines.  An       *)
(* execution has no choice: where it is after n commits is a function of   *)
(* its first n records (View), and so are the next selection, the decision *)
(* recorded for it, whether the selected step commits and the evidence the *)
(* execution would end with.                                               *)

(* Every nonempty set of naturals has a least element ...                  *)
LEMMA LeastElement ==
  ASSUME NEW T, T \subseteq Nat, T # {}
  PROVE  \E x \in T : \A y \in T : ~ (y < x)
<1> DEFINE R == OpToRel(<, Nat)
<1>1. IsWellFoundedOn(R, Nat)
  BY NatLessThanWellFounded
<1> HIDE DEF R
<1>2. \E x \in T : \A y \in T : ~ (<<y, x>> \in R)
  BY <1>1, WFMin
<1> QED
  BY <1>2 DEF R, OpToRel

(* ... so a set of naturals closed under successor that has 0 has them all.*)
LEMMA SetInduction ==
  ASSUME NEW S, 0 \in S, \A n \in Nat : n \in S => n + 1 \in S
  PROVE  \A n \in Nat : n \in S
<1> SUFFICES ASSUME Nat \ S # {} PROVE FALSE
  OBVIOUS
<1>1. PICK x \in Nat \ S : \A y \in Nat \ S : ~ (y < x)
  BY LeastElement
<1>2. x # 0 /\ x - 1 \in Nat /\ x - 1 < x
  BY <1>1
<1>3. x - 1 \in S
  BY <1>1, <1>2
<1> QED
  BY <1>1, <1>2, <1>3

-----------------------------------------------------------------------------
(* Where an execution of sc is after n records of h, and where the         *)
(* coordinator is now.                                                     *)
View(sc, h, n) ==
  [state |-> IF n = 0 THEN InitialState(sc) ELSE h[n].post,
   clock |-> IF n = 0 THEN 0 ELSE h[n].timestamp,
   controls |-> PositionsOf(sc, h)[n]]

Here == [state |-> state, clock |-> clock, controls |-> controls]

(* What a view determines: the routes, the selection, its decision, what   *)
(* raises in the selected step and the record of its commit.               *)
RouteIn(sc, v, a) == Route(sc, a, v.controls[a], v.state)
RaisesIn(sc, v) == \E a \in Actors : RouteIn(sc, v, a).kind = "error"
ReadyIn(sc, v) == {a \in Actors : RouteIn(sc, v, a).kind = "step"}

SelectsIn(sc, v, n) ==
  ~RaisesIn(sc, v) /\ ReadyIn(sc, v) # {} /\ n < MaxSelections

CoordinatesIn(sc, sd, v, n) ==
  [seed |-> sd, ordinal |-> n, historyLength |-> n,
   clock |-> v.clock, ready |-> ReadyIn(sc, v)]

ActorIn(sc, sd, v, n) == SelectActor(CoordinatesIn(sc, sd, v, n))
StepIn(sc, sd, v, n) == RouteIn(sc, v, ActorIn(sc, sd, v, n)).step

DecisionIn(sc, sd, v, n) ==
  [ordinal |-> n, ready |-> ReadyIn(sc, v), actor |-> ActorIn(sc, sd, v, n),
   step |-> StepIn(sc, sd, v, n), historyLength |-> n, clock |-> v.clock,
   digest |-> Digest(CoordinatesIn(sc, sd, v, n)), outcome |-> "COMMITTED"]

FailingIn(sc, sd, v, n) ==
  Raises(StepIn(sc, sd, v, n), v.state)
    \cup (IF v.clock + Advance(StepIn(sc, sd, v, n)) > MaxClock
          THEN {"timestamp"} ELSE {})

(* The first phase of the selected step that raises is its k+1st.          *)
FailsIn(sc, sd, v, n, k) ==
  /\ StepPhases[k + 1] \in FailingIn(sc, sd, v, n)
  /\ \A i \in 1..k : StepPhases[i] \notin FailingIn(sc, sd, v, n)

CommitsIn(sc, sd, v, n) ==
  SelectsIn(sc, v, n)
    /\ \A i \in 1..Len(StepPhases) : StepPhases[i] \notin FailingIn(sc, sd, v, n)

CommitIn(sc, sd, v, n) ==
  LET t == StepIn(sc, sd, v, n)
  IN  [actor |-> ActorIn(sc, sd, v, n), step |-> t, pre |-> v.state,
       post |-> Post(t, v.state), timestamp |-> v.clock + Advance(t),
       emitted |-> Emits(t, v.state)]

(* A history every record of which is the commit of the selection that the *)
(* records before it lead to.                                              *)
Genuine(sc, sd, h) ==
  /\ h \in Seq(Commits)
  /\ \A i \in 1..Len(h) :
       /\ CommitsIn(sc, sd, View(sc, h, i - 1), i - 1)
       /\ h[i] = CommitIn(sc, sd, View(sc, h, i - 1), i - 1)

(* The evidence of an execution that ends with the history h.              *)
RecordIn(sc, sd, h, i) == RecordOf(DecisionIn(sc, sd, View(sc, h, i - 1), i - 1))

SuccessOf(sc, sd, h) ==
  [scenario |-> sc, seed |-> sd, actors |-> Actors,
   records |-> [i \in 1..Len(h) |-> RecordIn(sc, sd, h, i)],
   classification |-> "SUCCESS", failure |-> NoFailure]

(* The record of an attempt that did not commit.                           *)
Failed(r) == [r EXCEPT !.outcome = "FAILED"]

FailureOf(sc, sd, h, k) ==
  LET n == Len(h)
  IN  [scenario |-> sc, seed |-> sd, actors |-> Actors,
       records |-> [i \in 1..(n + 1) |->
                      IF i <= n THEN RecordIn(sc, sd, h, i)
                      ELSE Failed(RecordIn(sc, sd, h, i))],
       classification |-> "FAILED",
       failure |-> [actor |-> ActorIn(sc, sd, View(sc, h, n), n),
                    code |-> StepPhases[k + 1], ordinal |-> n]]

Conclusions(sc, sd, h) ==
  LET n == Len(h)
      v == View(sc, h, n)
  IN  {art \in {SuccessOf(sc, sd, h)} : ~RaisesIn(sc, v) /\ ReadyIn(sc, v) = {}}
        \cup {FailureOf(sc, sd, h, k) :
                k \in {j \in 1..8 : SelectsIn(sc, v, n) /\ FailsIn(sc, sd, v, n, j)}}

(* The ways in which an execution leaves no evidence, unless a replay      *)
(* stops it.                                                               *)
Unpublished(sc, sd, h) ==
  LET n == Len(h)
      v == View(sc, h, n)
  IN  \/ RaisesIn(sc, v)
      \/ ReadyIn(sc, v) # {} /\ n >= MaxSelections
      \/ SelectsIn(sc, v, n) /\ "faults" \in FailingIn(sc, sd, v, n)
      \/ \E art \in Conclusions(sc, sd, h) : ~IsSchedule(art)

-----------------------------------------------------------------------------
(* The recursive definition of the positions has its equations.            *)
LEMMA PositionsDef ==
  ASSUME NEW sc, NEW h \in Seq(Commits)
  PROVE  /\ PositionsOf(sc, h)[0] = [a \in Actors |-> InitialControl]
         /\ \A i \in 1..Len(h) :
              PositionsOf(sc, h)[i]
                = Advanced(sc, PositionsOf(sc, h)[i - 1], h[i])
<1> DEFINE first == [a \in Actors |-> InitialControl]
           Fits(f, m) == f = [i \in 0..m |-> IF i = 0 THEN first
                                             ELSE Advanced(sc, f[i - 1], h[i])]
           S == {m \in Nat : m <= Len(h) => \E f : Fits(f, m)}
<1> HIDE DEF first
<1>0. Len(h) \in Nat
  BY LenProperties
<1>1. 0 \in S
  <2>1. Fits([i \in 0..0 |-> first], 0)
    OBVIOUS
  <2> QED
    BY <2>1
<1>2. ASSUME NEW n \in Nat, n \in S PROVE n + 1 \in S
  <2> SUFFICES ASSUME n + 1 <= Len(h) PROVE \E f : Fits(f, n + 1)
    OBVIOUS
  <2>1. PICK f : Fits(f, n)
    BY <1>0, <1>2
  <2> DEFINE g == [i \in 0..(n + 1) |-> IF i = n + 1 THEN Advanced(sc, f[n], h[n + 1])
                                        ELSE f[i]]
  <2>2. ASSUME NEW i \in 0..(n + 1)
        PROVE  g[i] = IF i = 0 THEN first ELSE Advanced(sc, g[i - 1], h[i])
    <3>1. CASE i = n + 1
      BY <3>1
    <3>2. CASE i # n + 1
      <4>1. i \in 0..n
        BY <3>2
      <4>2. f[i] = IF i = 0 THEN first ELSE Advanced(sc, f[i - 1], h[i])
        BY <2>1, <4>1
      <4>3. g[i] = f[i] /\ (i # 0 => g[i - 1] = f[i - 1])
        BY <3>2, <4>1
      <4> QED
        BY <4>2, <4>3
    <3> QED
      BY <3>1, <3>2
  <2>3. Fits(g, n + 1)
    BY <2>2
  <2> QED
    BY <2>3
<1>3. \E f : Fits(f, Len(h))
  <2>1. \A n \in Nat : n \in S
    <3> HIDE DEF S
    <3> QED
      BY <1>1, <1>2, SetInduction
  <2> QED
    BY <1>0, <2>1
<1> DEFINE at == CHOOSE f : Fits(f, Len(h))
<1>4. Fits(at, Len(h))
  BY <1>3
<1>5. PositionsOf(sc, h) = at
  BY DEF PositionsOf, first
<1> HIDE DEF at
<1>6. /\ at[0] = first
      /\ \A i \in 1..Len(h) : at[i] = Advanced(sc, at[i - 1], h[i])
  BY <1>0, <1>4
<1> QED
  BY <1>5, <1>6 DEF first

(* Histories that agree on their first m records lead to the same views.   *)
LEMMA PrefixViews ==
  ASSUME NEW sc, NEW h \in Seq(Commits), NEW g \in Seq(Commits), NEW m \in Nat,
         m <= Len(h), m <= Len(g), \A i \in 1..m : h[i] = g[i]
  PROVE  \A j \in 0..m : View(sc, h, j) = View(sc, g, j)
<1> DEFINE S == {j \in Nat : j <= m =>
                   PositionsOf(sc, h)[j] = PositionsOf(sc, g)[j]}
<1>0. Len(h) \in Nat /\ Len(g) \in Nat
  BY LenProperties
<1>1. 0 \in S
  BY PositionsDef
<1>2. ASSUME NEW n \in Nat, n \in S PROVE n + 1 \in S
  <2> SUFFICES ASSUME n + 1 <= m
               PROVE  PositionsOf(sc, h)[n + 1] = PositionsOf(sc, g)[n + 1]
    OBVIOUS
  <2>1. /\ n + 1 \in 1..Len(h) /\ n + 1 \in 1..Len(g) /\ (n + 1) - 1 = n
        /\ h[n + 1] = g[n + 1]
    BY <1>0
  <2>2. PositionsOf(sc, h)[n] = PositionsOf(sc, g)[n]
    BY <1>2
  <2>3. PositionsOf(sc, h)[n + 1]
          = Advanced(sc, PositionsOf(sc, h)[n], h[n + 1])
    BY <2>1, PositionsDef
  <2>4. PositionsOf(sc, g)[n + 1]
          = Advanced(sc, PositionsOf(sc, g)[n], g[n + 1])
    BY <2>1, PositionsDef
  <2> QED
    BY <2>1, <2>2, <2>3, <2>4
<1>3. \A n \in Nat : n \in S
  <2> HIDE DEF S
  <2> QED
    BY <1>1, <1>2, SetInduction
<1>4. ASSUME NEW j \in 0..m PROVE View(sc, h, j) = View(sc, g, j)
  <2>1. PositionsOf(sc, h)[j] = PositionsOf(sc, g)[j]
    BY <1>3
  <2>2. j # 0 => h[j] = g[j]
    OBVIOUS
  <2> QED
    BY <2>1, <2>2 DEF View
<1> QED
  BY <1>4

(* Of two genuine histories of one scenario and one seed, one is a prefix  *)
(* of the other.                                                           *)
LEMMA OneHistory ==
  ASSUME NEW sc, NEW sd, NEW h, NEW g, Genuine(sc, sd, h), Genuine(sc, sd, g)
  PROVE  \A i \in 1..Len(h) : i <= Len(g) => h[i] = g[i]
<1> DEFINE S == {m \in Nat : m <= Len(h) /\ m <= Len(g) =>
                   \A i \in 1..m : h[i] = g[i]}
<1>0. /\ h \in Seq(Commits) /\ g \in Seq(Commits)
      /\ Len(h) \in Nat /\ Len(g) \in Nat
  BY LenProperties DEF Genuine
<1>1. 0 \in S
  OBVIOUS
<1>2. ASSUME NEW n \in Nat, n \in S PROVE n + 1 \in S
  <2> SUFFICES ASSUME n + 1 <= Len(h), n + 1 <= Len(g)
               PROVE  h[n + 1] = g[n + 1]
    BY <1>2
  <2>1. \A i \in 1..n : h[i] = g[i]
    BY <1>0, <1>2
  <2>2. View(sc, h, n) = View(sc, g, n)
    <3>1. n <= Len(h) /\ n <= Len(g) /\ n \in 0..n
      BY <1>0
    <3> QED
      BY <1>0, <2>1, <3>1, PrefixViews
  <2>3. n + 1 \in 1..Len(h) /\ n + 1 \in 1..Len(g) /\ (n + 1) - 1 = n
    BY <1>0
  <2>4. /\ h[n + 1] = CommitIn(sc, sd, View(sc, h, n), n)
        /\ g[n + 1] = CommitIn(sc, sd, View(sc, g, n), n)
    BY <2>3 DEF Genuine
  <2> QED
    BY <2>2, <2>4
<1>3. \A n \in Nat : n \in S
  <2> HIDE DEF S
  <2> QED
    BY <1>1, <1>2, SetInduction
<1> QED
  BY <1>0, <1>3

LEMMA OneView ==
  ASSUME NEW sc, NEW sd, NEW h, NEW g, Genuine(sc, sd, h), Genuine(sc, sd, g)
  PROVE  \A j \in Nat : j <= Len(h) /\ j <= Len(g) =>
           View(sc, h, j) = View(sc, g, j)
<1>1. h \in Seq(Commits) /\ g \in Seq(Commits)
  BY DEF Genuine
<1>2. Len(h) \in Nat /\ Len(g) \in Nat
  BY <1>1, LenProperties
<1>3. ASSUME NEW j \in Nat, j <= Len(h), j <= Len(g)
      PROVE  View(sc, h, j) = View(sc, g, j)
  <2>1. \A i \in 1..j : h[i] = g[i]
    BY <1>2, <1>3, OneHistory
  <2> QED
    BY <1>1, <1>3, <2>1, PrefixViews
<1> QED
  BY <1>3

-----------------------------------------------------------------------------
(* Where an execution ends, no step commits.                               *)
LEMMA EndsDoNotCommit ==
  ASSUME NEW sc, NEW sd, NEW h, h \in Seq(Commits),
         Conclusions(sc, sd, h) # {} \/ Unpublished(sc, sd, h)
  PROVE  ~CommitsIn(sc, sd, View(sc, h, Len(h)), Len(h))
<1> DEFINE n == Len(h)
           v == View(sc, h, n)
<1>0. /\ Len(StepPhases) = 9 /\ StepPhases[1] = "faults"
      /\ MaxSelections \in Nat /\ n \in Nat
  BY BoundsAssumption, LenProperties DEF StepPhases
<1>1. ASSUME NEW art \in Conclusions(sc, sd, h)
      PROVE  ~CommitsIn(sc, sd, v, n)
  <2>1. \/ ReadyIn(sc, v) = {}
        \/ \E k \in 1..8 : FailsIn(sc, sd, v, n, k)
    BY <1>1 DEF Conclusions
  <2>2. CASE ReadyIn(sc, v) = {}
    BY <2>2 DEF CommitsIn, SelectsIn
  <2>3. ASSUME NEW k \in 1..8, FailsIn(sc, sd, v, n, k)
        PROVE  ~CommitsIn(sc, sd, v, n)
    <3>1. k + 1 \in 1..9
      OBVIOUS
    <3> QED
      BY <1>0, <2>3, <3>1 DEF CommitsIn, FailsIn
  <2> QED
    BY <2>1, <2>2, <2>3
<1>2. ASSUME Unpublished(sc, sd, h), Conclusions(sc, sd, h) = {}
      PROVE  ~CommitsIn(sc, sd, v, n)
  <2>1. CASE RaisesIn(sc, v)
    BY <2>1 DEF CommitsIn, SelectsIn
  <2>2. CASE n >= MaxSelections
    BY <1>0, <2>2 DEF CommitsIn, SelectsIn
  <2>3. CASE "faults" \in FailingIn(sc, sd, v, n)
    BY <1>0, <2>3 DEF CommitsIn
  <2> QED
    BY <1>2, <2>1, <2>2, <2>3 DEF Unpublished
<1> QED
  BY <1>1, <1>2

(* So no genuine history goes beyond one that ended.                       *)
LEMMA NothingAfterTheEnd ==
  ASSUME NEW sc, NEW sd, NEW h, NEW g, Genuine(sc, sd, h), Genuine(sc, sd, g),
         ~CommitsIn(sc, sd, View(sc, h, Len(h)), Len(h))
  PROVE  Len(g) <= Len(h)
<1>1. Len(h) \in Nat /\ Len(g) \in Nat
  BY LenProperties DEF Genuine
<1> SUFFICES ASSUME Len(h) < Len(g) PROVE FALSE
  BY <1>1
<1>2. View(sc, h, Len(h)) = View(sc, g, Len(h))
  BY <1>1, OneView
<1>3. Len(h) + 1 \in 1..Len(g) /\ (Len(h) + 1) - 1 = Len(h)
  BY <1>1
<1>4. CommitsIn(sc, sd, View(sc, g, Len(h)), Len(h))
  BY <1>3 DEF Genuine
<1> QED
  BY <1>2, <1>4

LEMMA SameHistory ==
  ASSUME NEW sc, NEW sd, NEW h, NEW g, Genuine(sc, sd, h), Genuine(sc, sd, g),
         Conclusions(sc, sd, h) # {} \/ Unpublished(sc, sd, h),
         Conclusions(sc, sd, g) # {} \/ Unpublished(sc, sd, g)
  PROVE  h = g
<1>1. h \in Seq(Commits) /\ g \in Seq(Commits)
  BY DEF Genuine
<1>2. /\ ~CommitsIn(sc, sd, View(sc, h, Len(h)), Len(h))
      /\ ~CommitsIn(sc, sd, View(sc, g, Len(g)), Len(g))
  BY <1>1, EndsDoNotCommit
<1>3. Len(g) <= Len(h) /\ Len(h) <= Len(g)
  BY <1>2, NothingAfterTheEnd
<1>4. Len(h) \in Nat /\ Len(g) \in Nat
  BY <1>1, LenProperties
<1>5. Len(h) = Len(g)
  BY <1>3, <1>4
<1>6. \A i \in 1..Len(h) : h[i] = g[i]
  BY <1>4, <1>5, OneHistory
<1> QED
  BY <1>1, <1>5, <1>6, SeqEqual

(* The evidence is determined: at most one artifact concludes the          *)
(* executions of a scenario with a seed, ...                               *)
LEMMA OneConclusion ==
  ASSUME NEW sc, NEW sd, NEW h, NEW g, Genuine(sc, sd, h), Genuine(sc, sd, g),
         NEW a \in Conclusions(sc, sd, h), NEW b \in Conclusions(sc, sd, g)
  PROVE  h = g /\ a = b
<1>1. h = g
  BY SameHistory
<1> DEFINE n == Len(h)
           v == View(sc, h, n)
<1>2. \A j, k \in 1..8 : FailsIn(sc, sd, v, n, j) /\ FailsIn(sc, sd, v, n, k)
                           => j = k
  <2> TAKE j, k \in 1..8
  <2>1. j < k => j + 1 \in 1..k
    OBVIOUS
  <2>2. k < j => k + 1 \in 1..j
    OBVIOUS
  <2> QED
    BY <2>1, <2>2 DEF FailsIn
<1>3. b \in Conclusions(sc, sd, h)
  BY <1>1
<1>4. CASE ReadyIn(sc, v) = {}
  BY <1>1, <1>3, <1>4 DEF Conclusions, SelectsIn
<1>5. CASE ReadyIn(sc, v) # {}
  <2>1. PICK j \in 1..8 : FailsIn(sc, sd, v, n, j) /\ a = FailureOf(sc, sd, h, j)
    BY <1>5 DEF Conclusions
  <2>2. PICK k \in 1..8 : FailsIn(sc, sd, v, n, k) /\ b = FailureOf(sc, sd, h, k)
    BY <1>3, <1>5 DEF Conclusions
  <2> QED
    BY <1>1, <1>2, <2>1, <2>2
<1> QED
  BY <1>1, <1>4, <1>5

(* ... and none that the artifact accepts if one of them leaves none.      *)
LEMMA NoConclusion ==
  ASSUME NEW sc, NEW sd, NEW h, NEW g, Genuine(sc, sd, h), Genuine(sc, sd, g),
         Unpublished(sc, sd, h), NEW b \in Conclusions(sc, sd, g)
  PROVE  ~IsSchedule(b)
<1>1. h = g
  BY SameHistory
<1> DEFINE n == Len(h)
           v == View(sc, h, n)
<1>2. b \in Conclusions(sc, sd, h)
  BY <1>1
<1>3. \/ ~RaisesIn(sc, v) /\ ReadyIn(sc, v) = {}
      \/ SelectsIn(sc, v, n) /\ \E k \in 1..8 : FailsIn(sc, sd, v, n, k)
  BY <1>2 DEF Conclusions
<1>4. n \in Nat /\ MaxSelections \in Nat
  BY LenProperties, BoundsAssumption DEF Genuine
<1>5. ~(ReadyIn(sc, v) # {} /\ n >= MaxSelections)
  BY <1>3, <1>4 DEF SelectsIn
<1>6. ~(SelectsIn(sc, v, n) /\ "faults" \in FailingIn(sc, sd, v, n))
  <2>1. StepPhases[1] = "faults" /\ \A k \in 1..8 : 1 \in 1..k
    BY DEF StepPhases
  <2> QED
    BY <1>3, <2>1 DEF SelectsIn, FailsIn
<1>7. \E art \in Conclusions(sc, sd, h) : ~IsSchedule(art)
  BY <1>3, <1>5, <1>6 DEF Unpublished, SelectsIn
<1> QED
  BY <1>2, <1>7, OneConclusion

-----------------------------------------------------------------------------
(* The coordinator is where its history leads to.                          *)
FollowsHistory ==
  /\ Genuine(scenario, seed, history)
  /\ status # "SUCCESS" => Here = View(scenario, history, Len(history))
  /\ artifacts = FlattenSeq([i \in 1..Len(history) |-> history[i].emitted])

Committed(d) == [d EXCEPT !.outcome = "COMMITTED"]

(* Every decision is the one its prefix of the history leads to, and an    *)
(* attempt is of a selection that could be made.                           *)
Determined(i) == DecisionIn(scenario, seed, View(scenario, history, i - 1), i - 1)

DecisionsFollow ==
  /\ \A i \in 1..Len(decisions) :
       /\ i <= Len(history) + 1
       /\ Committed(decisions[i]) = Determined(i)
  /\ \A i \in 1..Len(history) : decisions[i].outcome = "COMMITTED"
  /\ phase = "attempt" => SelectsIn(scenario, Here, Len(history))

(* On a replay, every decision that was kept agreed with its record.       *)
DecisionsAgree ==
  expected # NoSchedule =>
    \A i \in 1..Len(decisions) : AgreesWithExpected(Determined(i))

(* Why a replay may stop: other coordinates, a selection that does not     *)
(* agree with its record, or another ending.                               *)
Mismatched ==
  \/ <<expected.scenario, expected.seed, expected.actors>>
       # <<scenario, seed, Actors>>
  \/ /\ SelectsIn(scenario, Here, Len(history))
     /\ ~AgreesWithExpected(Determined(Len(history) + 1))
  \/ \E art \in Conclusions(scenario, seed, history) : art # expected

EndsAsDetermined ==
  /\ phase # "ended" => schedule = NoSchedule
  /\ phase = "ended" =>
       \/ /\ status \in {"SUCCESS", "FAILED"} /\ schedule.classification = status
          /\ schedule \in Conclusions(scenario, seed, history)
          /\ schedule \in Evidences /\ IsSchedule(schedule)
          /\ expected # NoSchedule => schedule = expected
       \/ /\ status = "ABORTED" /\ schedule = NoSchedule
          /\ Unpublished(scenario, seed, history)
       \/ /\ status = "MISMATCH" /\ schedule = NoSchedule
          /\ expected # NoSchedule /\ Mismatched

HInv ==
  IInv /\ FollowsHistory /\ DecisionsFollow /\ DecisionsAgree /\ EndsAsDetermined

-----------------------------------------------------------------------------
(* The operators of the coordinator are those of its present view.         *)
LEMMA HereIsTheView ==
  /\ RoutingRaises <=> RaisesIn(scenario, Here)
  /\ Ready = ReadyIn(scenario, Here)
  /\ \A a \in Actors : Routed(a) = RouteIn(scenario, Here, a)
BY DEF RoutingRaises, Ready, Routed, RaisesIn, ReadyIn, RouteIn, Here

LEMMA SelectionOfTheView ==
  ASSUME IInv, phase = "route"
  PROVE  LET n == Len(history)
             a == SelectActor(CoordinatesNow)
         IN  /\ Len(decisions) = n
             /\ a = ActorIn(scenario, seed, Here, n)
             /\ Decision(a) = DecisionIn(scenario, seed, Here, n)
<1> DEFINE n == Len(history)
           a == SelectActor(CoordinatesNow)
<1>1. Len(decisions) = n
  BY DEF IInv, Counting
<1>2. CoordinatesNow = CoordinatesIn(scenario, seed, Here, n)
  BY <1>1, HereIsTheView DEF CoordinatesNow, CoordinatesIn, Here
<1>3. a = ActorIn(scenario, seed, Here, n)
  BY <1>2 DEF ActorIn
<1>4. Routed(a).step = StepIn(scenario, seed, Here, n)
  BY <1>3 DEF StepIn, Routed, RouteIn, Here
<1> HIDE DEF a
<1>5. Decision(a) = DecisionIn(scenario, seed, Here, n)
  BY <1>1, <1>2, <1>3, <1>4, HereIsTheView DEF Decision, DecisionIn, Here
<1> QED
  BY <1>1, <1>3, <1>5 DEF a

(* What an attempt is about.                                               *)
LEMMA AttemptOfTheView ==
  ASSUME HInv, phase = "attempt"
  PROVE  LET n == Len(history)
         IN  /\ n \in Nat /\ Len(decisions) = n + 1
             /\ Here = View(scenario, history, n)
             /\ Determined(n + 1) = DecisionIn(scenario, seed, Here, n)
             /\ Chosen = ActorIn(scenario, seed, Here, n)
             /\ selected = RouteIn(scenario, Here, Chosen)
             /\ selected.step = StepIn(scenario, seed, Here, n)
             /\ Failing = FailingIn(scenario, seed, Here, n)
<1> DEFINE n == Len(history)
<1>1. n \in Nat /\ Len(decisions) = n + 1
  BY LenProperties DEF HInv, IInv, TypeOK, Counting
<1>2. Here = View(scenario, history, n)
  BY DEF HInv, IInv, TypeOK, FollowsHistory
<1>3. Determined(n + 1) = DecisionIn(scenario, seed, Here, n)
  <2>1. (n + 1) - 1 = n
    BY <1>1
  <2> QED
    BY <1>2, <2>1 DEF Determined
<1>4. Chosen = ActorIn(scenario, seed, Here, n)
  <2>1. n + 1 \in 1..Len(decisions)
    BY <1>1
  <2>2. decisions[n + 1] \in Decisions
    BY <2>1, ElementOfSeq DEF HInv, IInv, TypeOK
  <2>3. Committed(decisions[n + 1]) = Determined(n + 1)
    BY <2>1 DEF HInv, DecisionsFollow
  <2>4. Committed(decisions[n + 1]).actor
          = decisions[n + 1].actor
    BY <2>2 DEF Decisions, Committed
  <2>5. decisions[n + 1].actor = ActorIn(scenario, seed, Here, n)
    BY <1>3, <2>3, <2>4 DEF DecisionIn
  <2> QED
    BY <1>1, <2>5 DEF Chosen
<1>5. selected = RouteIn(scenario, Here, Chosen)
  BY DEF HInv, IInv, AttemptIsFresh, Routed, RouteIn, Here
<1>6. selected.step = StepIn(scenario, seed, Here, n)
  BY <1>4, <1>5 DEF StepIn
<1>7. Failing = FailingIn(scenario, seed, Here, n)
  BY <1>6 DEF Failing, FailingIn, Here
<1> QED
  BY <1>1, <1>2, <1>3, <1>4, <1>5, <1>6, <1>7

(* Only a commit moves the runner; the other steps leave everything that   *)
(* determines the view, unless they end the run in success.                *)
LEMMA StepsKeepPlace ==
  ASSUME IInv, [Next]_vars
  PROVE  \/ Commit
         \/ /\ UNCHANGED <<scenario, seed, expected, state, clock, history,
                           artifacts>>
            /\ status' # "SUCCESS" => status # "SUCCESS" /\ controls' = controls
<1>1. UNCHANGED vars \/ phase # "ended"
  BY DEF Next, Preflight, RoutingFails, Complete, SelectionLimit, Select,
     RunPhase, FaultsFail, StepFails, Commit, Ended
<1>2. phase # "ended" => status # "SUCCESS"
  BY DEF IInv, TypeOK
<1>3. Commit \/ UNCHANGED <<parameters, runner>>
  BY OnlyCommitMovesRunner
<1>4. Commit \/ (status' # "SUCCESS" => controls' = controls)
  BY DEF Next, Preflight, RoutingFails, Complete, SelectionLimit, Select,
     RunPhase, FaultsFail, StepFails, Ended, vars
<1> QED
  BY <1>1, <1>2, <1>3, <1>4 DEF parameters, runner, vars, verdict

(* A view does not depend on later records.                                *)
LEMMA CommitExtendsView ==
  ASSUME HInv, Commit
  PROVE  LET n == Len(history)
             c == CommitIn(scenario, seed, Here, n)
         IN  /\ scenario' = scenario /\ seed' = seed /\ expected' = expected
             /\ n \in Nat /\ history' \in Seq(Commits) /\ Len(history') = n + 1
             /\ \A i \in 1..n : history'[i] = history[i]
             /\ history'[n + 1] = c
             /\ artifacts' = artifacts \o c.emitted
             /\ CommitsIn(scenario, seed, Here, n)
             /\ \A j \in 0..n : View(scenario, history', j)
                                  = View(scenario, history, j)
             /\ Here' = View(scenario, history', n + 1)
<1> DEFINE n == Len(history)
           c == CommitIn(scenario, seed, Here, n)
           new == [actor |-> Chosen, step |-> selected.step, pre |-> state,
                   post |-> candidate.post, timestamp |-> candidate.timestamp,
                   emitted |-> candidate.emitted]
<1>1. /\ phase = "attempt" /\ done = Len(StepPhases) /\ done = 9
      /\ history' = Append(history, new) /\ artifacts' = artifacts \o new.emitted
      /\ state' = new.post /\ clock' = new.timestamp
      /\ controls' = [controls EXCEPT ![Chosen] = selected.control]
      /\ scenario' = scenario /\ seed' = seed /\ expected' = expected
  BY DEF Commit, StepPhases, parameters
<1>2. /\ n \in Nat /\ Here = View(scenario, history, n)
      /\ Chosen = ActorIn(scenario, seed, Here, n)
      /\ selected = RouteIn(scenario, Here, Chosen)
      /\ selected.step = StepIn(scenario, seed, Here, n)
      /\ Failing = FailingIn(scenario, seed, Here, n)
  BY <1>1, AttemptOfTheView
<1>3. /\ candidate.post = Post(selected.step, state)
      /\ candidate.timestamp = clock + Advance(selected.step)
      /\ candidate.emitted = Emits(selected.step, state)
      /\ \A i \in 1..done : StepPhases[i] \notin Failing
      /\ Chosen \in Actors
  BY <1>1 DEF HInv, IInv, AttemptIsFresh
<1>4. new = c
  BY <1>2, <1>3 DEF CommitIn, Here
<1>5. CommitsIn(scenario, seed, Here, n)
  BY <1>1, <1>2, <1>3 DEF CommitsIn, HInv, DecisionsFollow
<1> HIDE DEF new, c
<1>6. history' \in Seq(Commits)
  BY TypingStep DEF HInv, Next, TypeOK
<1>7. history \in Seq(Commits)
  BY DEF HInv, IInv, TypeOK
<1>8. /\ Len(history') = n + 1 /\ history'[n + 1] = c
      /\ \A i \in 1..n : history'[i] = history[i]
  BY <1>1, <1>2, <1>4, <1>7
<1>9. \A j \in 0..n : View(scenario, history', j) = View(scenario, history, j)
  BY <1>2, <1>6, <1>7, <1>8, PrefixViews
<1>10. Here' = View(scenario, history', n + 1)
  <2>1. n + 1 \in 1..Len(history') /\ (n + 1) - 1 = n /\ n + 1 # 0 /\ n \in 0..n
    BY <1>2, <1>8
  <2>2. PositionsOf(scenario, history')[n + 1]
          = Advanced(scenario, PositionsOf(scenario, history')[n], c)
    BY <1>6, <1>8, <2>1, PositionsDef
  <2>3. PositionsOf(scenario, history')[n] = controls
    BY <1>2, <1>9, <2>1 DEF View, Here
  <2>4. /\ c.actor = Chosen /\ c.pre = state
        /\ c.post = new.post /\ c.timestamp = new.timestamp
    BY <1>4 DEF new
  <2>5. Route(scenario, Chosen, controls[Chosen], state).control
          = selected.control
    BY <1>2 DEF RouteIn, Here
  <2>6. Advanced(scenario, controls, c) = controls'
    BY <1>1, <2>4, <2>5 DEF Advanced
  <2>7. PositionsOf(scenario, history')[n + 1] = controls'
    BY <2>2, <2>3, <2>6
  <2> QED
    BY <1>1, <1>8, <2>1, <2>4, <2>7 DEF View, Here
<1>11. artifacts' = artifacts \o c.emitted
  BY <1>1, <1>4
<1> QED
  BY <1>1, <1>2, <1>5, <1>6, <1>8, <1>9, <1>10, <1>11 DEF c

-----------------------------------------------------------------------------
Joined(a, b) == a \o b

(* Flattening a sequence of sequences goes along it ...                    *)
LEMMA FlattenDef ==
  ASSUME NEW X, NEW s \in Seq(Seq(X)), Len(s) # 0
  PROVE  \E f : /\ FlattenSeq(s) = f[Len(s)] /\ f[1] = s[1]
                /\ \A i \in 2..Len(s) : f[i] = Joined(f[i - 1], s[i])
<1> DEFINE Fits(f, m) == f = [i \in 1..m |-> IF i = 1 THEN s[i]
                                            ELSE Joined(f[i - 1], s[i])]
           S == {m \in Nat : m + 1 <= Len(s) => \E f : Fits(f, m + 1)}
<1>0. Len(s) \in Nat
  BY LenProperties
<1>1. 0 \in S
  <2> DEFINE g == [i \in 1..1 |-> s[i]]
  <2>1. \A i \in 1..1 : g[i] = IF i = 1 THEN s[i] ELSE Joined(g[i - 1], s[i])
    OBVIOUS
  <2>2. Fits(g, 0 + 1)
    BY <2>1
  <2> QED
    BY <2>2
<1>2. ASSUME NEW n \in Nat, n \in S PROVE n + 1 \in S
  <2> SUFFICES ASSUME n + 2 <= Len(s) PROVE \E f : Fits(f, n + 2)
    OBVIOUS
  <2>1. PICK f : Fits(f, n + 1)
    BY <1>0, <1>2
  <2> DEFINE g == [i \in 1..(n + 2) |-> IF i = n + 2 THEN Joined(f[n + 1], s[n + 2])
                                        ELSE f[i]]
  <2>2. ASSUME NEW i \in 1..(n + 2)
        PROVE  g[i] = IF i = 1 THEN s[i] ELSE Joined(g[i - 1], s[i])
    <3>1. CASE i = n + 2
      BY <3>1
    <3>2. CASE i # n + 2
      <4>1. i \in 1..(n + 1)
        BY <3>2
      <4>2. f[i] = IF i = 1 THEN s[i] ELSE Joined(f[i - 1], s[i])
        BY <2>1, <4>1
      <4>3. g[i] = f[i] /\ (i # 1 => g[i - 1] = f[i - 1])
        BY <3>2, <4>1
      <4> QED
        BY <4>2, <4>3
    <3> QED
      BY <3>1, <3>2
  <2>3. Fits(g, n + 2)
    BY <2>2
  <2> QED
    BY <2>3
<1>3. \E f : Fits(f, Len(s))
  <2>1. \A n \in Nat : n \in S
    <3> HIDE DEF S
    <3> QED
      BY <1>1, <1>2, SetInduction
  <2>2. PICK m \in Nat : m + 1 = Len(s)
    <3>1. Len(s) - 1 \in Nat /\ (Len(s) - 1) + 1 = Len(s)
      BY <1>0
    <3> QED
      BY <3>1
  <2>3. \E f : Fits(f, m + 1)
    <3>1. m \in S /\ m + 1 <= Len(s)
      <4> HIDE DEF S
      <4> QED
        BY <1>0, <2>1, <2>2
    <3> HIDE DEF Fits
    <3> QED
      BY <3>1
  <2> HIDE DEF Fits
  <2> QED
    BY <2>2, <2>3
<1> DEFINE flat == CHOOSE f : Fits(f, Len(s))
<1>4. Fits(flat, Len(s))
  BY <1>3
<1>5. FlattenSeq(s) = flat[Len(s)]
  BY Zenon DEF FlattenSeq, Joined
<1> HIDE DEF flat
<1>6. /\ flat[1] = s[1]
      /\ \A i \in 2..Len(s) : flat[i] = Joined(flat[i - 1], s[i])
  <2>1. \A i \in 1..Len(s) :
          flat[i] = IF i = 1 THEN s[i] ELSE Joined(flat[i - 1], s[i])
    BY <1>4
  <2> QED
    BY <1>0, <2>1
<1> QED
  BY <1>5, <1>6

(* ... so that one more sequence comes last.                               *)
LEMMA FlattenAppend ==
  ASSUME NEW X, NEW s \in Seq(Seq(X)), NEW e \in Seq(X)
  PROVE  FlattenSeq(Append(s, e)) = FlattenSeq(s) \o e
<1> DEFINE n == Len(s)
           t == Append(s, e)
<1>1. /\ n \in Nat /\ t \in Seq(Seq(X)) /\ Len(t) = n + 1 /\ t[n + 1] = e
      /\ \A i \in 1..n : t[i] = s[i]
  BY LenProperties
<1> HIDE DEF t
<1>2. PICK g : /\ FlattenSeq(t) = g[n + 1] /\ g[1] = t[1]
               /\ \A i \in 2..(n + 1) : g[i] = Joined(g[i - 1], t[i])
  <2>1. Len(t) # 0
    BY <1>1
  <2>2. \E g : /\ FlattenSeq(t) = g[Len(t)] /\ g[1] = t[1]
               /\ \A i \in 2..Len(t) : g[i] = Joined(g[i - 1], t[i])
    <3>1. t \in Seq(Seq(X))
      BY <1>1
    <3> QED
      BY <2>1, <3>1, FlattenDef
  <2>3. Len(t) = n + 1
    BY <1>1
  <2> QED
    BY <2>2, <2>3
<1>3. CASE n = 0
  <2>1. FlattenSeq(s) = <<>>
    BY <1>3, EmptySeq DEF FlattenSeq
  <2>2. FlattenSeq(t) = e
    BY <1>1, <1>2, <1>3
  <2> QED
    BY <2>1, <2>2, ConcatEmptySeq DEF t
<1>4. CASE n # 0
  <2>1. PICK f : /\ FlattenSeq(s) = f[n] /\ f[1] = s[1]
                 /\ \A i \in 2..n : f[i] = Joined(f[i - 1], s[i])
    BY <1>4, FlattenDef
  <2> DEFINE S == {m \in Nat : m + 1 <= n => f[m + 1] = g[m + 1]}
  <2>2. 0 \in S
    BY <1>1, <1>2, <2>1
  <2>3. ASSUME NEW m \in Nat, m \in S PROVE m + 1 \in S
    <3> SUFFICES ASSUME m + 2 <= n PROVE f[m + 2] = g[m + 2]
      OBVIOUS
    <3>1. f[m + 1] = g[m + 1]
      BY <1>1, <2>3
    <3>2. /\ m + 2 \in 2..n /\ m + 2 \in 2..(n + 1) /\ m + 2 \in 1..n
          /\ (m + 2) - 1 = m + 1
      BY <1>1
    <3>3. f[m + 2] = Joined(f[m + 1], s[m + 2])
      BY <2>1, <3>2
    <3>4. g[m + 2] = Joined(g[m + 1], t[m + 2])
      BY <1>2, <3>2
    <3> QED
      BY <1>1, <3>1, <3>2, <3>3, <3>4
  <2>4. \A m \in Nat : m \in S
    <3> HIDE DEF S
    <3> QED
      BY <2>2, <2>3, SetInduction
  <2>5. f[n] = g[n]
    <3>1. n - 1 \in Nat /\ (n - 1) + 1 = n
      BY <1>1, <1>4
    <3>2. n - 1 \in S
      BY <2>4, <3>1
    <3> QED
      BY <3>1, <3>2
  <2>6. g[n + 1] = g[n] \o e
    <3>1. n + 1 \in 2..(n + 1) /\ (n + 1) - 1 = n
      BY <1>1, <1>4
    <3>2. g[n + 1] = Joined(g[n], t[n + 1])
      BY <1>2, <3>1
    <3> QED
      BY <1>1, <3>2 DEF Joined
  <2> QED
    BY <1>2, <2>1, <2>5, <2>6 DEF t
<1> QED
  BY <1>3, <1>4

(* The artifacts a history emitted, with one more record.                  *)
LEMMA EmittedAppend ==
  ASSUME NEW h \in Seq(Commits), NEW g \in Seq(Commits), Len(g) = Len(h) + 1,
         \A i \in 1..Len(h) : g[i] = h[i]
  PROVE  FlattenSeq([i \in 1..Len(g) |-> g[i].emitted])
           = FlattenSeq([i \in 1..Len(h) |-> h[i].emitted])
               \o g[Len(g)].emitted
<1> DEFINE n == Len(h)
           s == [i \in 1..n |-> h[i].emitted]
           t == [i \in 1..(n + 1) |-> g[i].emitted]
           e == g[n + 1].emitted
<1>1. n \in Nat /\ Len(g) = n + 1
  BY LenProperties
<1>2. /\ \A i \in 1..n : h[i].emitted \in Seq(Artifacts)
      /\ \A i \in 1..(n + 1) : g[i].emitted \in Seq(Artifacts)
  <2>1. /\ \A i \in 1..n : h[i] \in Commits
        /\ \A i \in 1..(n + 1) : g[i] \in Commits
    BY <1>1, ElementOfSeq
  <2>2. \A c \in Commits : c.emitted \in Seq(Artifacts)
    BY DEF Commits
  <2> QED
    BY <2>1, <2>2
<1>3. s \in Seq(Seq(Artifacts)) /\ t \in Seq(Seq(Artifacts)) /\ e \in Seq(Artifacts)
  BY <1>1, <1>2
<1>4. /\ Len(s) = n /\ Len(t) = n + 1 /\ t[n + 1] = e
      /\ \A i \in 1..n : t[i] = s[i]
  BY <1>1
<1>5. t = Append(s, e)
  <2>1. /\ Append(s, e) \in Seq(Seq(Artifacts)) /\ Len(Append(s, e)) = n + 1
        /\ Append(s, e)[n + 1] = e /\ \A i \in 1..n : Append(s, e)[i] = s[i]
    <3> HIDE DEF s, e
    <3> QED
      BY <1>1, <1>3, <1>4
  <2>2. \A i \in 1..(n + 1) : t[i] = Append(s, e)[i]
    <3> HIDE DEF s, e, t
    <3> QED
      BY <1>1, <1>4, <2>1
  <2> HIDE DEF s, e, t
  <2> QED
    BY <1>1, <1>3, <1>4, <2>1, <2>2, SeqEqual
<1>6. FlattenSeq(t) = FlattenSeq(s) \o e
  <2> HIDE DEF s, e, t
  <2> QED
    BY <1>3, <1>5, FlattenAppend
<1>7. t = [i \in 1..Len(g) |-> g[i].emitted] /\ e = g[Len(g)].emitted
  BY <1>1
<1> HIDE DEF t, e
<1> QED
  BY <1>6, <1>7

-----------------------------------------------------------------------------
LEMMA FollowsStep ==
  ASSUME HInv, [Next]_vars PROVE FollowsHistory'
<1> DEFINE n == Len(history)
<1>0. IInv /\ FollowsHistory
  BY DEF HInv
<1>1. CASE Commit
  <2> DEFINE c == CommitIn(scenario, seed, Here, n)
  <2> HIDE DEF c
  <2>1. /\ scenario' = scenario /\ seed' = seed
        /\ n \in Nat /\ history' \in Seq(Commits) /\ Len(history') = n + 1
        /\ \A i \in 1..n : history'[i] = history[i]
        /\ history'[n + 1] = c /\ artifacts' = artifacts \o c.emitted
        /\ CommitsIn(scenario, seed, Here, n)
        /\ \A j \in 0..n : View(scenario, history', j) = View(scenario, history, j)
        /\ Here' = View(scenario, history', n + 1)
    BY <1>1, CommitExtendsView DEF c
  <2>2. Here = View(scenario, history, n)
    BY <1>1, AttemptOfTheView DEF Commit
  <2>3. ASSUME NEW i \in 1..(n + 1)
        PROVE  /\ CommitsIn(scenario, seed, View(scenario, history', i - 1), i - 1)
               /\ history'[i] = CommitIn(scenario, seed,
                                         View(scenario, history', i - 1), i - 1)
    <3>1. i - 1 \in 0..n
      BY <2>1
    <3>2. View(scenario, history', i - 1) = View(scenario, history, i - 1)
      BY <2>1, <3>1
    <3>3. CASE i = n + 1
      <4>1. i - 1 = n
        BY <2>1, <3>3
      <4> QED
        BY <2>1, <2>2, <3>2, <3>3, <4>1 DEF c
    <3>4. CASE i # n + 1
      <4>1. i \in 1..n
        BY <2>1, <3>4
      <4> QED
        BY <1>0, <2>1, <3>2, <4>1 DEF FollowsHistory, Genuine
    <3> QED
      BY <3>3, <3>4
  <2>4. Genuine(scenario, seed, history)'
    BY <2>1, <2>3 DEF Genuine
  <2>5. artifacts' = FlattenSeq([i \in 1..Len(history') |-> history'[i].emitted])
    <3>1. history \in Seq(Commits)
      BY <1>0 DEF IInv, TypeOK
    <3>2. FlattenSeq([i \in 1..Len(history') |-> history'[i].emitted])
            = FlattenSeq([i \in 1..n |-> history[i].emitted])
                \o history'[Len(history')].emitted
      BY <2>1, <3>1, EmittedAppend
    <3>3. artifacts = FlattenSeq([i \in 1..n |-> history[i].emitted])
      BY <1>0 DEF FollowsHistory
    <3> QED
      BY <2>1, <3>2, <3>3
  <2> QED
    BY <2>1, <2>4, <2>5 DEF FollowsHistory
<1>2. CASE /\ UNCHANGED <<scenario, seed, expected, state, clock, history,
                          artifacts>>
           /\ status' # "SUCCESS" => status # "SUCCESS" /\ controls' = controls
  <2>1. Genuine(scenario, seed, history)'
    BY <1>0, <1>2 DEF FollowsHistory
  <2>2. status' # "SUCCESS" => Here' = View(scenario, history, Len(history))'
    BY <1>0, <1>2 DEF FollowsHistory, Here
  <2>3. (artifacts = FlattenSeq([i \in 1..Len(history) |-> history[i].emitted]))'
    BY <1>0, <1>2 DEF FollowsHistory
  <2> QED
    BY <2>1, <2>2, <2>3 DEF FollowsHistory
<1> QED
  BY <1>0, <1>1, <1>2, StepsKeepPlace

(* The views of the decisions made so far never change.                    *)
LEMMA DeterminedIsStable ==
  ASSUME HInv, [Next]_vars
  PROVE  /\ \A i \in 1..Len(decisions) : Determined(i)' = Determined(i)
         /\ expected' = expected
<1> DEFINE n == Len(history)
<1>0. IInv /\ n \in Nat /\ Len(decisions) \in Nat
  BY LenProperties DEF HInv, IInv, TypeOK
<1>1. CASE Commit
  <2>1. Len(decisions) = n + 1
    BY <1>1, AttemptOfTheView DEF Commit
  <2>2. /\ scenario' = scenario /\ seed' = seed /\ expected' = expected
        /\ \A j \in 0..n : View(scenario, history', j) = View(scenario, history, j)
    BY <1>1, CommitExtendsView
  <2>3. ASSUME NEW i \in 1..(n + 1) PROVE Determined(i)' = Determined(i)
    <3>1. i - 1 \in 0..n
      BY <1>0
    <3> QED
      BY <2>2, <3>1 DEF Determined
  <2> QED
    BY <2>1, <2>2, <2>3
<1>2. CASE UNCHANGED <<scenario, seed, expected, history>>
  BY <1>2 DEF Determined
<1> QED
  BY <1>0, <1>1, <1>2, StepsKeepPlace

(* What a selection appends.                                               *)
LEMMA SelectAppends ==
  ASSUME HInv, Select
  PROVE  LET n == Len(history)
             d == DecisionIn(scenario, seed, Here, n)
         IN  /\ n \in Nat /\ Len(decisions) = n /\ Determined(n + 1) = d
             /\ d = Decision(SelectActor(CoordinatesNow))
             /\ UNCHANGED <<scenario, seed, expected, history, state, clock,
                            controls>>
             /\ SelectsIn(scenario, Here, n)
             /\ \/ /\ expected # NoSchedule /\ ~AgreesWithExpected(d)
                   /\ phase' = "ended" /\ status' = "MISMATCH"
                   /\ schedule' = NoSchedule /\ UNCHANGED decisions
                \/ /\ expected # NoSchedule => AgreesWithExpected(d)
                   /\ decisions' = Append(decisions, d) /\ d \in Decisions
                   /\ d.outcome = "COMMITTED" /\ phase' = "attempt"
<1> DEFINE n == Len(history)
           a == SelectActor(CoordinatesNow)
           d == DecisionIn(scenario, seed, Here, n)
<1>1. IInv /\ phase = "route" /\ n \in Nat
  BY LenProperties DEF HInv, IInv, TypeOK, Select
<1>2. Len(decisions) = n /\ Decision(a) = d
  BY <1>1, SelectionOfTheView
<1>3. Determined(n + 1) = d
  <2>1. (n + 1) - 1 = n /\ Here = View(scenario, history, n)
    BY <1>1 DEF HInv, FollowsHistory, IInv, TypeOK
  <2> QED
    BY <2>1 DEF Determined
<1>4. UNCHANGED <<scenario, seed, expected, history, state, clock, controls>>
  BY DEF Select, parameters, runner
<1>5. SelectsIn(scenario, Here, n)
  BY <1>2, HereIsTheView DEF Select, SelectsIn
<1>6. d \in Decisions
  BY <1>1, <1>2, DecisionTypes DEF Select, IInv
<1>7. d.outcome = "COMMITTED"
  BY DEF DecisionIn
<1> HIDE DEF d, a
<1>8. \/ /\ expected # NoSchedule /\ ~AgreesWithExpected(d)
         /\ phase' = "ended" /\ status' = "MISMATCH"
         /\ schedule' = NoSchedule /\ UNCHANGED decisions
      \/ /\ expected # NoSchedule => AgreesWithExpected(d)
         /\ decisions' = Append(decisions, d) /\ phase' = "attempt"
  BY <1>2 DEF Select, Raise, a
<1> QED
  BY <1>1, <1>2, <1>3, <1>4, <1>5, <1>6, <1>7, <1>8 DEF d, a

(* Marking a decision FAILED does not change what it is otherwise.         *)
LEMMA CommittedOfFailed ==
  ASSUME NEW d \in Decisions
  PROVE  /\ Committed([d EXCEPT !.outcome = "FAILED"]) = Committed(d)
         /\ d.outcome = "COMMITTED" => Committed(d) = d
         /\ RecordOf([d EXCEPT !.outcome = "FAILED"])
              = Failed(RecordOf(Committed(d)))
<1> DEFINE f == [d EXCEPT !.outcome = "FAILED"]
           c == [d EXCEPT !.outcome = "COMMITTED"]
<1>1. Committed(f) = Committed(d)
  BY DEF Decisions, Committed
<1>2. d.outcome = "COMMITTED" => Committed(d) = d
  BY DEF Decisions, Committed
<1>3. /\ f.ordinal = d.ordinal /\ f.ready = d.ready /\ f.actor = d.actor
      /\ f.historyLength = d.historyLength /\ f.clock = d.clock
      /\ f.digest = d.digest /\ f.outcome = "FAILED"
  BY DEF Decisions
<1>4. /\ c.ordinal = d.ordinal /\ c.ready = d.ready /\ c.actor = d.actor
      /\ c.historyLength = d.historyLength /\ c.clock = d.clock
      /\ c.digest = d.digest
  BY DEF Decisions
<1> HIDE DEF f, c
<1>5. RecordOf(f) = Failed(RecordOf(c))
  BY <1>3, <1>4 DEF RecordOf, Failed
<1> QED
  BY <1>1, <1>2, <1>5 DEF f, c, Committed

LEMMA DecisionsFollowStep ==
  ASSUME HInv, [Next]_vars PROVE DecisionsFollow' /\ DecisionsAgree'
<1> DEFINE n == Len(history)
<1>0. /\ IInv /\ DecisionsFollow /\ DecisionsAgree
      /\ n \in Nat /\ Len(decisions) \in Nat /\ n <= Len(decisions)
      /\ Len(decisions) <= n + 1
      /\ \A i \in 1..Len(decisions) :
           /\ i <= n + 1 /\ Committed(decisions[i]) = Determined(i)
           /\ expected # NoSchedule => AgreesWithExpected(Determined(i))
           /\ decisions[i] \in Decisions
      /\ \A i \in 1..n : decisions[i].outcome = "COMMITTED"
  <2>1. /\ IInv /\ DecisionsFollow /\ DecisionsAgree
        /\ n \in Nat /\ Len(decisions) \in Nat /\ n <= Len(decisions)
    BY LenProperties DEF HInv, IInv, TypeOK, Counting
  <2>2. \A i \in 1..Len(decisions) : decisions[i] \in Decisions
    BY <2>1, ElementOfSeq DEF IInv, TypeOK
  <2>3. Len(decisions) <= n + 1
    BY <2>1 DEF DecisionsFollow
  <2> QED
    BY <2>1, <2>2, <2>3 DEF DecisionsFollow, DecisionsAgree
<1>1. /\ \A i \in 1..Len(decisions) : Determined(i)' = Determined(i)
      /\ expected' = expected
  BY DeterminedIsStable
<1>2. \A d : AgreesWithExpected(d)' <=> AgreesWithExpected(d')
  BY <1>1 DEF AgreesWithExpected
<1>3. CASE Select
  <2> DEFINE d == DecisionIn(scenario, seed, Here, n)
  <2>1. /\ Len(decisions) = n /\ Determined(n + 1) = d
        /\ UNCHANGED <<scenario, seed, history, state, clock, controls>>
        /\ SelectsIn(scenario, Here, n)
    BY <1>3, SelectAppends
  <2>2. Here' = Here /\ Len(history)' = n /\ Determined(n + 1)' = Determined(n + 1)
    BY <2>1 DEF Here, Determined
  <2>3. CASE UNCHANGED decisions /\ phase' = "ended"
    BY <1>0, <1>1, <1>2, <2>2, <2>3 DEF DecisionsFollow, DecisionsAgree
  <2>4. CASE /\ expected # NoSchedule => AgreesWithExpected(d)
             /\ decisions' = Append(decisions, d) /\ d \in Decisions
             /\ d.outcome = "COMMITTED" /\ phase' = "attempt"
    <3> HIDE DEF d
    <3>1. /\ Len(decisions') = n + 1 /\ decisions'[n + 1] = d
          /\ \A i \in 1..n : decisions'[i] = decisions[i]
      BY <1>0, <2>1, <2>4 DEF IInv, TypeOK
    <3>2. Committed(d) = d
      BY <2>4, CommittedOfFailed
    <3>3. ASSUME NEW i \in 1..(n + 1)
          PROVE  /\ Committed(decisions'[i]) = Determined(i)'
                 /\ expected # NoSchedule => AgreesWithExpected(Determined(i))'
      <4>1. CASE i = n + 1
        BY <1>2, <2>1, <2>2, <2>4, <3>1, <3>2, <4>1
      <4>2. CASE i # n + 1
        <5>1. i \in 1..n /\ i \in 1..Len(decisions)
          BY <1>0, <2>1, <4>2
        <5> QED
          BY <1>0, <1>1, <1>2, <3>1, <5>1
      <4> QED
        BY <4>1, <4>2
    <3>4. \A i \in 1..n : decisions'[i].outcome = "COMMITTED"
      BY <1>0, <3>1
    <3>5. SelectsIn(scenario, Here, Len(history))'
      BY <2>1, <2>2
    <3>6. \A i \in 1..(n + 1) : i <= Len(history)' + 1
      BY <2>2
    <3>7. DecisionsFollow'
      BY <2>2, <3>1, <3>3, <3>4, <3>5, <3>6 DEF DecisionsFollow, Committed
    <3> QED
      BY <1>1, <3>1, <3>3, <3>7 DEF DecisionsAgree
  <2> QED
    BY <1>3, <2>3, <2>4, SelectAppends
<1>4. CASE StepFails
  <2>1. phase' = "ended" /\ UNCHANGED <<scenario, seed, history>>
    BY <1>4, ConcludeEnds DEF StepFails, Evidence, parameters, runner
  <2>2. PICK m \in Nat : m = Len(decisions)
    BY <1>0
  <2>3. /\ m \in 1..m /\ Len(decisions') = m /\ decisions[m] \in Decisions
        /\ decisions'[m] = [decisions[m] EXCEPT !.outcome = "FAILED"]
        /\ \A i \in 1..(m - 1) : decisions'[i] = decisions[i]
    BY <1>0, <1>4, <2>2, StepFailsMarksLast DEF IInv
  <2>4. m = n + 1
    BY <1>4, <2>2, AttemptOfTheView DEF StepFails
  <2>5. ASSUME NEW i \in 1..m PROVE Committed(decisions'[i]) = Committed(decisions[i])
    <3>1. CASE i = m
      BY <2>3, <3>1, CommittedOfFailed
    <3>2. CASE i # m
      BY <2>3, <3>2
    <3> QED
      BY <3>1, <3>2
  <2>6. \A i \in 1..n : decisions'[i].outcome = "COMMITTED"
    BY <1>0, <2>3, <2>4
  <2>7. DecisionsFollow'
    BY <1>0, <1>1, <2>1, <2>2, <2>3, <2>5, <2>6 DEF DecisionsFollow, Committed
  <2> QED
    BY <1>0, <1>1, <1>2, <2>2, <2>3, <2>7 DEF DecisionsAgree
<1>5. CASE Commit
  <2>1. /\ phase' = "route" /\ UNCHANGED decisions /\ phase = "attempt"
    BY <1>5 DEF Commit
  <2>2. Len(decisions) = n + 1 /\ Len(history') = n + 1
    BY <1>5, <2>1, AttemptOfTheView, CommitExtendsView
  <2>3. \A i \in 1..(n + 1) : decisions[i].outcome = "COMMITTED"
    BY <1>0, <2>1, <2>2 DEF IInv, DecisionsInOrder
  <2>4. \A i \in 1..Len(decisions) : i <= Len(history') + 1
    BY <1>0, <2>2
  <2>5. DecisionsFollow'
    BY <1>0, <1>1, <2>1, <2>2, <2>3, <2>4 DEF DecisionsFollow, Committed
  <2> QED
    BY <1>0, <1>1, <1>2, <2>1, <2>5 DEF DecisionsAgree
<1>6. CASE RunPhase \/ UNCHANGED vars
  <2>1. UNCHANGED <<scenario, seed, history, state, clock, controls, decisions,
                    phase>>
    BY <1>6 DEF RunPhase, parameters, runner, vars
  <2>2. Here' = Here
    BY <2>1 DEF Here
  <2>3. DecisionsFollow'
    BY <1>0, <1>1, <2>1, <2>2 DEF DecisionsFollow, Committed
  <2> QED
    BY <1>0, <1>1, <1>2, <2>1, <2>3 DEF DecisionsAgree
<1>7. CASE /\ UNCHANGED <<scenario, seed, history, decisions>>
           /\ phase' # "attempt"
  <2>1. DecisionsFollow'
    BY <1>0, <1>1, <1>7 DEF DecisionsFollow, Committed
  <2> QED
    BY <1>0, <1>1, <1>2, <1>7, <2>1 DEF DecisionsAgree
<1>8. CASE Preflight \/ RoutingFails \/ SelectionLimit \/ FaultsFail
  <2>1. /\ UNCHANGED <<scenario, seed, history, decisions>>
        /\ phase' # "attempt"
    BY <1>8 DEF Preflight, RoutingFails, SelectionLimit, FaultsFail, Raise,
       parameters, runner
  <2> QED
    BY <1>7, <2>1
<1>9. CASE Complete
  <2>1. /\ UNCHANGED <<scenario, seed, history, decisions>>
        /\ phase' # "attempt"
    BY <1>9, ConcludeEnds DEF Complete, Evidence, parameters, runner
  <2> QED
    BY <1>7, <2>1
<1> QED
  BY <1>3, <1>4, <1>5, <1>6, <1>8, <1>9 DEF Next, Ended

-----------------------------------------------------------------------------
(* The records of committed decisions.                                     *)
LEMMA RecordsOfTheHistory ==
  ASSUME HInv
  PROVE  \A i \in 1..Len(history) :
           /\ i \in 1..Len(decisions) /\ decisions[i] = Determined(i)
           /\ RecordOf(decisions[i]) = RecordIn(scenario, seed, history, i)
<1>1. Len(history) \in Nat /\ Len(decisions) \in Nat /\ Len(history) <= Len(decisions)
  BY LenProperties DEF HInv, IInv, TypeOK, Counting
<1>2. ASSUME NEW i \in 1..Len(history)
      PROVE  /\ i \in 1..Len(decisions) /\ decisions[i] = Determined(i)
             /\ RecordOf(decisions[i]) = RecordIn(scenario, seed, history, i)
  <2>1. i \in 1..Len(decisions)
    BY <1>1
  <2>2. decisions[i] \in Decisions
    BY <2>1, ElementOfSeq DEF HInv, IInv, TypeOK
  <2>3. Committed(decisions[i]) = Determined(i) /\ decisions[i].outcome = "COMMITTED"
    BY <2>1 DEF HInv, DecisionsFollow
  <2>4. decisions[i] = Determined(i)
    BY <2>2, <2>3, CommittedOfFailed
  <2> QED
    BY <2>1, <2>4 DEF RecordIn, Determined
<1> QED
  BY <1>2

(* The evidence a complete run builds is the one its history determines.   *)
LEMMA CompleteIsDetermined ==
  ASSUME HInv, Complete
  PROVE  Evidence(decisions, "SUCCESS", NoFailure)
           \in Conclusions(scenario, seed, history)
<1> DEFINE n == Len(history)
<1>1. /\ phase = "route" /\ ~RoutingRaises /\ Ready = {}
      /\ Here = View(scenario, history, n) /\ Len(decisions) = n
  BY DEF HInv, IInv, TypeOK, FollowsHistory, Complete, Counting
<1>2. ~RaisesIn(scenario, View(scenario, history, n))
      /\ ReadyIn(scenario, View(scenario, history, n)) = {}
  BY <1>1, HereIsTheView
<1>3. [i \in 1..Len(decisions) |-> RecordOf(decisions[i])]
        = [i \in 1..n |-> RecordIn(scenario, seed, history, i)]
  BY <1>1, RecordsOfTheHistory
<1>4. Evidence(decisions, "SUCCESS", NoFailure) = SuccessOf(scenario, seed, history)
  BY <1>3 DEF Evidence, SuccessOf
<1> QED
  BY <1>2, <1>4 DEF Conclusions

(* So is the evidence of a failed step.                                    *)
LEMMA StepFailsIsDetermined ==
  ASSUME HInv, StepFails
  PROVE  \E art \in Conclusions(scenario, seed, history) :
           /\ art \in Evidences /\ art.classification = "FAILED"
           /\ \E why : Conclude(art, why)
<1> DEFINE n == Len(history)
           v == View(scenario, history, n)
           p == StepPhases[done + 1]
           failure == [actor |-> Chosen, code |-> p, ordinal |-> n]
           art == Evidence(decisions', "FAILED", failure)
<1>1. /\ phase = "attempt" /\ done \in 1..8 /\ p \in Failing
      /\ Len(decisions) = n + 1 /\ n \in Nat /\ Here = v
      /\ Determined(n + 1) = DecisionIn(scenario, seed, v, n)
      /\ Chosen = ActorIn(scenario, seed, v, n)
      /\ Failing = FailingIn(scenario, seed, v, n)
  BY AttemptOfTheView DEF StepFails, StepPhases
<1>2. Conclude(art, p)
  <2>1. Len(decisions) - 1 = n
    BY <1>1
  <2> QED
    BY <2>1 DEF StepFails
<1>3. SelectsIn(scenario, v, n) /\ FailsIn(scenario, seed, v, n, done)
  <2>1. SelectsIn(scenario, v, n)
    BY <1>1 DEF HInv, DecisionsFollow
  <2>2. \A i \in 1..done : StepPhases[i] \notin Failing
    BY <1>1 DEF HInv, IInv, AttemptIsFresh
  <2> QED
    BY <1>1, <2>1, <2>2 DEF FailsIn
<1>4. /\ decisions' \in Seq(Decisions) /\ Len(decisions') = n + 1
      /\ decisions[n + 1] \in Decisions
      /\ decisions'[n + 1] = [decisions[n + 1] EXCEPT !.outcome = "FAILED"]
      /\ \A i \in 1..n : decisions'[i] = decisions[i]
  <2>1. TypeOK
    BY DEF HInv, IInv
  <2> QED
    BY <1>1, <2>1, StepFailsMarksLast
<1>5. RecordOf(decisions'[n + 1])
        = Failed(RecordIn(scenario, seed, history, n + 1))
  <2>1. Committed(decisions[n + 1]) = Determined(n + 1)
    <3>1. n + 1 \in 1..Len(decisions)
      BY <1>1
    <3> QED
      BY <3>1 DEF HInv, DecisionsFollow
  <2>2. RecordOf(decisions'[n + 1])
          = Failed(RecordOf(Determined(n + 1)))
    BY <1>4, <2>1, CommittedOfFailed
  <2>3. Determined(n + 1) = DecisionIn(scenario, seed,
                              View(scenario, history, (n + 1) - 1), (n + 1) - 1)
    BY DEF Determined
  <2> QED
    BY <2>2, <2>3 DEF RecordIn
<1>6. \A i \in 1..n : RecordOf(decisions'[i]) = RecordIn(scenario, seed, history, i)
  BY <1>4, RecordsOfTheHistory
<1>7. [i \in 1..Len(decisions') |-> RecordOf(decisions'[i])]
        = [i \in 1..(n + 1) |->
             IF i <= n THEN RecordIn(scenario, seed, history, i)
             ELSE Failed(RecordIn(scenario, seed, history, i))]
  <2>1. ASSUME NEW i \in 1..(n + 1)
        PROVE  RecordOf(decisions'[i])
                 = IF i <= n THEN RecordIn(scenario, seed, history, i)
                   ELSE Failed(RecordIn(scenario, seed, history, i))
    <3>1. i \in 1..n \/ (i = n + 1 /\ ~(i <= n))
      BY <1>1
    <3> QED
      BY <1>5, <1>6, <3>1
  <2> QED
    BY <1>4, <2>1
<1>8. art = FailureOf(scenario, seed, history, done)
  BY <1>1, <1>7 DEF Evidence, FailureOf
<1>9. art \in Conclusions(scenario, seed, history)
  <2> HIDE DEF art
  <2> QED
    BY <1>1, <1>3, <1>8 DEF Conclusions
<1>10. art \in Evidences
  <2>1. p \in Phases
    BY <1>1 DEF Phases, StepPhases
  <2>2. Chosen \in Actors /\ n \in 0..(MaxSelections - 1)
    <3>1. Len(decisions) <= MaxSelections /\ Chosen \in Actors
      BY <1>1 DEF HInv, IInv, TypeOK, AttemptIsFresh
    <3> QED
      BY <1>1, <3>1, BoundsAssumption
  <2>3. failure \in Failures
    BY <2>1, <2>2 DEF Failures
  <2>4. scenario \in Scenarios /\ seed \in Seeds
    BY DEF HInv, IInv, TypeOK
  <2> HIDE DEF failure
  <2> QED
    BY <1>4, <2>3, <2>4, EvidenceType
<1>11. art.classification = "FAILED"
  BY DEF Evidence
<1> HIDE DEF art, p
<1> QED
  BY <1>2, <1>9, <1>10, <1>11

(* Building an artifact that the history determines ends the run as        *)
(* determined: published, refused for its size, or not the one expected.   *)
LEMMA ConcludeIsDetermined ==
  ASSUME UNCHANGED <<scenario, seed, expected, history>>,
         NEW art \in Conclusions(scenario, seed, history), art \in Evidences,
         art.classification \in {"SUCCESS", "FAILED"},
         NEW why, Conclude(art, why)
  PROVE  EndsAsDetermined'
<1>1. Conclusions(scenario, seed, history)' = Conclusions(scenario, seed, history)
  OBVIOUS
<1>2. CASE ~IsSchedule(art)
  <2>1. Unpublished(scenario, seed, history)
    BY <1>2 DEF Unpublished
  <2>2. Unpublished(scenario, seed, history)'
    BY <2>1
  <2> QED
    BY <1>2, <2>2 DEF Conclude, Raise, EndsAsDetermined
<1>3. CASE IsSchedule(art) /\ expected # NoSchedule /\ art # expected
  <2>1. Mismatched'
    BY <1>1, <1>3 DEF Mismatched
  <2> QED
    BY <1>3, <2>1 DEF Conclude, Raise, EndsAsDetermined
<1>4. CASE IsSchedule(art) /\ ~(expected # NoSchedule /\ art # expected)
  BY <1>1, <1>4 DEF Conclude, EndsAsDetermined
<1> QED
  BY <1>2, <1>3, <1>4

LEMMA EndsStep ==
  ASSUME HInv, [Next]_vars PROVE EndsAsDetermined'
<1> DEFINE n == Len(history)
           v == View(scenario, history, n)
<1>0. IInv /\ n \in Nat
  BY LenProperties DEF HInv, IInv, TypeOK
<1>1. ASSUME phase' # "ended" PROVE EndsAsDetermined'
  <2>1. schedule' = schedule /\ phase # "ended"
    <3>1. CASE Complete \/ StepFails
      BY <1>1, <3>1, ConcludeEnds DEF Complete, StepFails, Evidence
    <3>2. CASE ~(Complete \/ StepFails)
      BY <1>1, <3>2 DEF Next, Preflight, RoutingFails, SelectionLimit, Select,
         RunPhase, FaultsFail, Commit, Ended, Raise, vars, verdict
    <3> QED
      BY <3>1, <3>2
  <2> QED
    BY <1>1, <2>1 DEF HInv, EndsAsDetermined
<1>2. phase # "ended" => status # "SUCCESS" /\ Here = v
  BY DEF HInv, IInv, TypeOK, FollowsHistory
<1>3. phase = "route" => Len(decisions) = n
  BY <1>0 DEF IInv, Counting
<1>4. CASE Preflight
  <2>1. UNCHANGED <<scenario, seed, expected, history>>
    BY <1>4 DEF Preflight, parameters, runner
  <2>2. CASE /\ expected # NoSchedule
             /\ \/ expected.scenario # scenario
                \/ expected.seed # seed
                \/ expected.actors # Actors
    <3>1. <<expected.scenario, expected.seed, expected.actors>>
            # <<scenario, seed, Actors>>
      BY <2>2
    <3>2. Mismatched'
      BY <2>1, <3>1 DEF Mismatched
    <3> QED
      BY <1>4, <2>1, <2>2, <3>2 DEF Preflight, Raise, EndsAsDetermined
  <2> QED
    BY <1>1, <1>4, <2>2 DEF Preflight
<1>5. CASE RoutingFails
  <2>1. UNCHANGED <<scenario, seed, expected, history>> /\ RaisesIn(scenario, v)
    BY <1>2, <1>5, HereIsTheView DEF RoutingFails, parameters, runner
  <2>2. Unpublished(scenario, seed, history)'
    BY <2>1 DEF Unpublished
  <2> QED
    BY <1>5, <2>2 DEF RoutingFails, Raise, EndsAsDetermined
<1>6. CASE Complete
  <2> DEFINE art == Evidence(decisions, "SUCCESS", NoFailure)
  <2>1. UNCHANGED <<scenario, seed, expected, history>>
    BY <1>6 DEF Complete, parameters, runner
  <2>2. Conclude(art, "none") /\ art.classification = "SUCCESS"
    BY <1>6 DEF Complete, Evidence
  <2>3. art \in Evidences
    BY <1>0, EvidenceType DEF IInv, TypeOK
  <2>4. art \in Conclusions(scenario, seed, history)
    BY <1>6, CompleteIsDetermined
  <2> HIDE DEF art
  <2> QED
    BY <2>1, <2>2, <2>3, <2>4, ConcludeIsDetermined
<1>7. CASE SelectionLimit
  <2>1. /\ UNCHANGED <<scenario, seed, expected, history>>
        /\ ReadyIn(scenario, v) # {} /\ n >= MaxSelections
    BY <1>2, <1>3, <1>7, HereIsTheView DEF SelectionLimit, parameters, runner
  <2>2. Unpublished(scenario, seed, history)'
    BY <2>1 DEF Unpublished
  <2> QED
    BY <1>7, <2>2 DEF SelectionLimit, Raise, EndsAsDetermined
<1>8. CASE Select
  <2>1. /\ UNCHANGED <<scenario, seed, expected, history, state, clock, controls>>
        /\ SelectsIn(scenario, Here, n)
        /\ Determined(n + 1) = DecisionIn(scenario, seed, Here, n)
    BY <1>8, SelectAppends
  <2>2. CASE /\ expected # NoSchedule
             /\ ~AgreesWithExpected(DecisionIn(scenario, seed, Here, n))
             /\ status' = "MISMATCH" /\ schedule' = NoSchedule
    <3>1. Here' = Here /\ Determined(n + 1)' = Determined(n + 1)
      BY <2>1 DEF Here, Determined
    <3>2. ~AgreesWithExpected(Determined(n + 1))'
      BY <2>1, <2>2, <3>1 DEF AgreesWithExpected
    <3>3. Mismatched'
      BY <2>1, <3>1, <3>2 DEF Mismatched
    <3> QED
      BY <2>1, <2>2, <3>3 DEF EndsAsDetermined
  <2> QED
    BY <1>1, <1>8, <2>2, SelectAppends
<1>9. CASE RunPhase \/ Commit
  BY <1>1, <1>9 DEF RunPhase, Commit
<1>10. CASE FaultsFail
  <2>1. /\ UNCHANGED <<scenario, seed, expected, history>>
        /\ SelectsIn(scenario, v, n)
        /\ "faults" \in FailingIn(scenario, seed, v, n)
    BY <1>2, <1>10, AttemptOfTheView
       DEF FaultsFail, parameters, runner, HInv, DecisionsFollow
  <2>2. Unpublished(scenario, seed, history)'
    BY <2>1 DEF Unpublished
  <2> QED
    BY <1>10, <2>2 DEF FaultsFail, Raise, EndsAsDetermined
<1>11. CASE StepFails
  <2>1. UNCHANGED <<scenario, seed, expected, history>>
    BY <1>11 DEF StepFails, parameters, runner
  <2>2. PICK art \in Conclusions(scenario, seed, history) :
          /\ art \in Evidences /\ art.classification = "FAILED"
          /\ \E why : Conclude(art, why)
    BY <1>11, StepFailsIsDetermined
  <2> QED
    BY <2>1, <2>2, ConcludeIsDetermined
<1>12. CASE UNCHANGED vars
  <2>1. UNCHANGED <<scenario, seed, expected, history, state, clock, controls,
                    phase, status, schedule>>
    BY <1>12 DEF vars, parameters, runner, verdict
  <2>2. Mismatched' <=> Mismatched
    BY <2>1 DEF Mismatched, Here, Determined, AgreesWithExpected
  <2> QED
    BY <2>1, <2>2 DEF HInv, EndsAsDetermined
<1> QED
  BY <1>4, <1>5, <1>6, <1>7, <1>8, <1>9, <1>10, <1>11, <1>12 DEF Next, Ended

-----------------------------------------------------------------------------
LEMMA HistoryStarts ==
  ASSUME Starts PROVE HInv
<1>1. IInv
  BY InitEstablishesIInv
<1>2. /\ Len(history) = 0 /\ history = <<>> /\ history \in Seq(Commits)
      /\ Len(decisions) = 0 /\ phase = "preflight" /\ schedule = NoSchedule
      /\ state = InitialState(scenario) /\ clock = 0 /\ artifacts = <<>>
      /\ controls = [a \in Actors |-> InitialControl]
  BY EmptySeq DEF Starts, InitExecution
<1>3. Genuine(scenario, seed, history)
  BY <1>2 DEF Genuine
<1>4. Here = View(scenario, history, 0)
  BY <1>2, PositionsDef DEF Here, View
<1>5. artifacts = FlattenSeq([i \in 1..Len(history) |-> history[i].emitted])
  <2>1. [i \in 1..Len(history) |-> history[i].emitted] = <<>>
    BY <1>2
  <2>2. FlattenSeq(<<>>) = <<>>
    BY EmptySeq DEF FlattenSeq
  <2> QED
    BY <1>2, <2>1, <2>2
<1>6. FollowsHistory
  BY <1>2, <1>3, <1>4, <1>5 DEF FollowsHistory
<1>7. DecisionsFollow /\ DecisionsAgree /\ EndsAsDetermined
  BY <1>2 DEF DecisionsFollow, DecisionsAgree, EndsAsDetermined
<1> QED
  BY <1>1, <1>6, <1>7 DEF HInv

LEMMA HistoryInductive ==
  ASSUME HInv, [Next]_vars PROVE HInv'
<1>1. IInv'
  BY TypingStep, CountingStep, AttemptStep, DecisionsStep, HistoryStep
     DEF HInv, IInv
<1> QED
  BY <1>1, FollowsStep, DecisionsFollowStep, EndsStep DEF HInv

THEOREM HistoryInvariance == Spec => []HInv
<1>1. Init => HInv
  BY HistoryStarts DEF Init, Starts
<1>2. HInv /\ [Next]_vars => HInv'
  BY HistoryInductive
<1> QED
  BY <1>1, <1>2, PTL DEF Spec

(* Whoever is routed along a genuine history has a typed control stack.    *)
LEMMA PositionTypes ==
  ASSUME HInv
  PROVE  \A j \in 0..Len(history) :
           PositionsOf(scenario, history)[j] \in [Actors -> Controls]
<1> DEFINE n == Len(history)
           S == {j \in Nat : j <= n =>
                   PositionsOf(scenario, history)[j] \in [Actors -> Controls]}
<1>0. /\ history \in Seq(Commits) /\ n \in Nat /\ scenario \in Scenarios
      /\ Genuine(scenario, seed, history)
  BY LenProperties DEF HInv, IInv, TypeOK, FollowsHistory
<1>1. 0 \in S
  <2>1. PositionsOf(scenario, history)[0] = [a \in Actors |-> InitialControl]
    BY <1>0, PositionsDef
  <2> QED
    BY <2>1, StepAssumption
<1>2. ASSUME NEW m \in Nat, m \in S PROVE m + 1 \in S
  <2> SUFFICES ASSUME m + 1 <= n
               PROVE  PositionsOf(scenario, history)[m + 1] \in [Actors -> Controls]
    OBVIOUS
  <2> DEFINE at == PositionsOf(scenario, history)[m]
             c == history[m + 1]
             r == Route(scenario, c.actor, at[c.actor], c.pre)
             v == View(scenario, history, m)
  <2>1. at \in [Actors -> Controls]
    BY <1>0, <1>2
  <2>2. /\ m + 1 \in 1..n /\ (m + 1) - 1 = m /\ m \in Nat /\ m <= n
        /\ PositionsOf(scenario, history)[m + 1] = Advanced(scenario, at, c)
    BY <1>0, PositionsDef
  <2>3. c \in Commits /\ c.actor \in Actors /\ c.pre \in States
    <3>1. history[m + 1] \in Commits
      BY <1>0, <2>2, ElementOfSeq
    <3> QED
      BY <3>1 DEF Commits
  <2>4. r \in Routings
    BY <1>0, <2>1, <2>3, StepAssumption
  <2>5. c = CommitIn(scenario, seed, v, m) /\ decisions[m + 1] = Determined(m + 1)
    BY <1>0, <2>2, RecordsOfTheHistory DEF Genuine
  <2>6. ActorIn(scenario, seed, v, m) \in ReadyIn(scenario, v)
    <3>1. m + 1 \in 1..Len(decisions)
      BY <2>2, RecordsOfTheHistory
    <3>2. decisions[m + 1].actor \in decisions[m + 1].ready
      BY <3>1 DEF HInv, IInv, DecisionsInOrder
    <3> QED
      BY <2>2, <2>5, <3>2 DEF Determined, DecisionIn
  <2>7. r.kind = "step"
    <3>1. c.actor = ActorIn(scenario, seed, v, m) /\ c.pre = v.state
      BY <2>5 DEF CommitIn
    <3>2. v.controls = at
      BY DEF View
    <3> HIDE DEF c, v, at
    <3> QED
      BY <2>6, <3>1, <3>2 DEF ReadyIn, RouteIn
  <2>8. r.control \in Controls
    BY <2>4, <2>7 DEF Routings
  <2>9. Advanced(scenario, at, c) = [at EXCEPT ![c.actor] = r.control]
    BY DEF Advanced
  <2> HIDE DEF at, c, r
  <2> QED
    BY <2>1, <2>2, <2>3, <2>8, <2>9
<1>3. \A m \in Nat : m \in S
  <2> HIDE DEF S
  <2> QED
    BY <1>1, <1>2, SetInduction
<1> QED
  BY <1>0, <1>3

(* What the invariant says of the positions: each record is the next step  *)
(* of its actor where the records before it had left everybody, the stacks *)
(* are those the history leads to, and success finds every actor finished. *)
LEMMA PositionsFromHistory ==
  ASSUME HInv PROVE PositionsFollowHistory
<1> DEFINE n == Len(history)
<1>0. /\ n \in Nat /\ Genuine(scenario, seed, history) /\ TypeOK
      /\ history \in Seq(Commits)
  BY LenProperties DEF HInv, IInv, FollowsHistory, Genuine
<1>1. ASSUME NEW j \in 0..n, NEW a
      PROVE  RouteAt(j, a) = RouteIn(scenario, View(scenario, history, j), a)
  BY DEF RouteAt, RouteIn, View, PositionsAfter, StateAt
<1>2. ASSUME NEW i \in 1..n
      PROVE  LET r == RouteAt(i - 1, history[i].actor)
             IN  r.kind = "step" /\ r.step = history[i].step
  <2> DEFINE v == View(scenario, history, i - 1)
             a == ActorIn(scenario, seed, v, i - 1)
  <2>1. i - 1 \in 0..n /\ i - 1 \in 0..(MaxSelections - 1)
    <3>1. i \in 1..Len(decisions) /\ Len(decisions) \in Nat
      BY RecordsOfTheHistory, LenProperties DEF TypeOK
    <3>2. Len(decisions) <= MaxSelections
      BY <1>0 DEF TypeOK
    <3> QED
      BY <1>0, <3>1, <3>2, BoundsAssumption
  <2>2. /\ SelectsIn(scenario, v, i - 1)
        /\ history[i] = CommitIn(scenario, seed, v, i - 1)
    BY <1>0 DEF Genuine, CommitsIn
  <2>3. a \in ReadyIn(scenario, v)
    <3>1. i \in 1..Len(decisions) /\ decisions[i] = Determined(i)
      BY RecordsOfTheHistory
    <3>2. decisions[i].actor \in decisions[i].ready
      BY <3>1 DEF HInv, IInv, DecisionsInOrder
    <3> QED
      BY <3>1, <3>2 DEF Determined, DecisionIn
  <2>4. history[i].actor = a /\ history[i].step = StepIn(scenario, seed, v, i - 1)
    BY <2>2 DEF CommitIn
  <2>5. RouteAt(i - 1, a) = RouteIn(scenario, v, a)
    BY <1>1, <2>1
  <2> HIDE DEF v
  <2> QED
    BY <2>3, <2>4, <2>5 DEF ReadyIn, StepIn
<1>3. CASE status = "SUCCESS"
  <2>1. phase = "ended"
    BY <1>0, <1>3 DEF TypeOK
  <2>2. /\ schedule \in Conclusions(scenario, seed, history)
        /\ schedule.classification = "SUCCESS"
    BY <1>3, <2>1 DEF HInv, EndsAsDetermined
  <2> DEFINE v == View(scenario, history, n)
  <2>3. ~RaisesIn(scenario, v) /\ ReadyIn(scenario, v) = {}
    BY <2>2 DEF Conclusions, FailureOf
  <2>4. ASSUME NEW a \in Actors PROVE RouteAt(n, a).kind = "done"
    <3>1. RouteAt(n, a) = RouteIn(scenario, v, a)
      BY <1>0, <1>1
    <3>2. RouteIn(scenario, v, a).kind \notin {"step", "error"}
      BY <2>3 DEF RaisesIn, ReadyIn
    <3>3. RouteIn(scenario, v, a) \in Routings
      <4>1. v.state \in States
        <5>1. n # 0 => history[n] \in Commits
          BY <1>0, ElementOfSeq
        <5> QED
          BY <1>0, <5>1, StepAssumption DEF View, TypeOK, Commits
      <4>2. v.controls \in [Actors -> Controls]
        BY <1>0, PositionTypes DEF View
      <4>3. scenario \in Scenarios
        BY <1>0 DEF TypeOK
      <4> QED
        BY <4>1, <4>2, <4>3, StepAssumption DEF RouteIn
    <3> QED
      BY <3>1, <3>2, <3>3 DEF Routings
  <2> QED
    BY <1>2, <1>3, <2>4 DEF PositionsFollowHistory
<1>4. CASE status # "SUCCESS"
  <2>1. controls = PositionsAfter(n)
    BY <1>4 DEF HInv, FollowsHistory, Here, View, PositionsAfter
  <2> QED
    BY <1>2, <1>4, <2>1 DEF PositionsFollowHistory
<1> QED
  BY <1>3, <1>4

(* The positions of the actors follow from the history in every reachable  *)
(* state: no route of an actor that was not selected ever moved one.       *)
THEOREM RoutesAreDiscarded == Spec => []PositionsFollowHistory
<1>1. HInv => PositionsFollowHistory
  BY PositionsFromHistory
<1> QED
  BY <1>1, HistoryInvariance, PTL

-----------------------------------------------------------------------------
(* An execution signs its evidence with its coordinates.                   *)
LEMMA ConcludingCoordinates ==
  ASSUME NEW sc, NEW sd, NEW h, NEW art \in Conclusions(sc, sd, h)
  PROVE  art.scenario = sc /\ art.seed = sd /\ art.actors = Actors
<1>1. art = SuccessOf(sc, sd, h) \/ \E k : art = FailureOf(sc, sd, h, k)
  BY Zenon DEF Conclusions
<1> QED
  BY <1>1 DEF SuccessOf, FailureOf

(* The records of what an execution published: those of its history and,   *)
(* after a failed step, one more that is FAILED.                           *)
LEMMA ConcludingRecords ==
  ASSUME NEW sc, NEW sd, NEW h \in Seq(Commits),
         NEW art \in Conclusions(sc, sd, h)
  PROVE  LET n == Len(h)
         IN  /\ Len(art.records) \in n..(n + 1)
             /\ \A i \in 1..n : art.records[i] = RecordIn(sc, sd, h, i)
             /\ Len(art.records) = n + 1 =>
                  art.records[n + 1] = Failed(RecordIn(sc, sd, h, n + 1))
<1> DEFINE n == Len(h)
<1>0. n \in Nat
  BY LenProperties
<1>1. CASE art = SuccessOf(sc, sd, h)
  <2>1. art.records = [i \in 1..n |-> RecordIn(sc, sd, h, i)]
    BY <1>1 DEF SuccessOf
  <2>2. Len(art.records) = n /\ \A i \in 1..n : art.records[i] = RecordIn(sc, sd, h, i)
    BY <1>0, <2>1
  <2> QED
    BY <1>0, <2>2
<1>2. ASSUME NEW k, art = FailureOf(sc, sd, h, k)
      PROVE  /\ Len(art.records) = n + 1
             /\ \A i \in 1..n : art.records[i] = RecordIn(sc, sd, h, i)
             /\ art.records[n + 1] = Failed(RecordIn(sc, sd, h, n + 1))
  <2>1. art.records = [i \in 1..(n + 1) |-> IF i <= n THEN RecordIn(sc, sd, h, i)
                                           ELSE Failed(RecordIn(sc, sd, h, i))]
    BY <1>2 DEF FailureOf
  <2> QED
    BY <1>0, <2>1
<1>3. art = SuccessOf(sc, sd, h) \/ \E k : art = FailureOf(sc, sd, h, k)
  BY Zenon DEF Conclusions
<1> QED
  BY <1>0, <1>1, <1>2, <1>3

LEMMA FailedLiteral ==
  ASSUME NEW o, NEW rd, NEW a, NEW hl, NEW cl, NEW dg, NEW out
  PROVE  Failed([ordinal |-> o, ready |-> rd, actor |-> a, historyLength |-> hl,
                 clock |-> cl, digest |-> dg, outcome |-> out])
           = [ordinal |-> o, ready |-> rd, actor |-> a, historyLength |-> hl,
              clock |-> cl, digest |-> dg, outcome |-> "FAILED"]
BY DEF Failed

LEMMA RecordInFields ==
  ASSUME NEW sc, NEW sd, NEW h, NEW i
  PROVE  LET v == View(sc, h, i - 1)
             a == ActorIn(sc, sd, v, i - 1)
         IN  /\ \A r \in {RecordIn(sc, sd, h, i), Failed(RecordIn(sc, sd, h, i))} :
                  /\ r.ordinal = i - 1 /\ r.historyLength = i - 1
                  /\ r.clock = v.clock /\ r.ready = ReadyIn(sc, v) /\ r.actor = a
             /\ RecordIn(sc, sd, h, i).outcome = "COMMITTED"
             /\ Failed(RecordIn(sc, sd, h, i)).outcome = "FAILED"
<1> DEFINE v == View(sc, h, i - 1)
           a == ActorIn(sc, sd, v, i - 1)
           d == Digest(CoordinatesIn(sc, sd, v, i - 1))
           Literal(out) ==
             [ordinal |-> i - 1, ready |-> ReadyIn(sc, v), actor |-> a,
              historyLength |-> i - 1, clock |-> v.clock, digest |-> d,
              outcome |-> out]
<1>1. RecordIn(sc, sd, h, i) = Literal("COMMITTED")
  BY DEF RecordIn, RecordOf, DecisionIn
<1>2. Failed(RecordIn(sc, sd, h, i)) = Literal("FAILED")
  BY <1>1, FailedLiteral
<1> HIDE DEF v, a, d
<1>3. \A out \in {"COMMITTED", "FAILED"} :
        LET r == Literal(out)
        IN  /\ r.ordinal = i - 1 /\ r.historyLength = i - 1
            /\ r.clock = v.clock /\ r.ready = ReadyIn(sc, v)
            /\ r.actor = a /\ r.outcome = out
  OBVIOUS
<1> HIDE DEF Literal
<1> QED
  BY <1>1, <1>2, <1>3 DEF v, a

(* Forgetting the outcome of a record gives it back as committed.          *)
LEMMA RecordInCommits ==
  ASSUME NEW sc, NEW sd, NEW h, NEW i
  PROVE  /\ Committed(RecordIn(sc, sd, h, i)) = RecordIn(sc, sd, h, i)
         /\ Committed(Failed(RecordIn(sc, sd, h, i))) = RecordIn(sc, sd, h, i)
<1> DEFINE v == View(sc, h, i - 1)
           a == ActorIn(sc, sd, v, i - 1)
           d == Digest(CoordinatesIn(sc, sd, v, i - 1))
           Literal(out) ==
             [ordinal |-> i - 1, ready |-> ReadyIn(sc, v), actor |-> a,
              historyLength |-> i - 1, clock |-> v.clock, digest |-> d,
              outcome |-> out]
<1>1. RecordIn(sc, sd, h, i) = Literal("COMMITTED")
  BY DEF RecordIn, RecordOf, DecisionIn
<1>2. Failed(RecordIn(sc, sd, h, i)) = Literal("FAILED")
  BY <1>1, FailedLiteral
<1>3. ASSUME NEW out PROVE Committed(Literal(out)) = Literal("COMMITTED")
  <2> HIDE DEF v, a, d
  <2> QED
    BY DEF Committed
<1> HIDE DEF Literal
<1> QED
  BY <1>1, <1>2, <1>3

(* The evidence tells the history: as many committed records as commits,   *)
(* and in each record what the commits before it had led to.               *)
LEMMA EvidenceFromHistory ==
  ASSUME HInv PROVE EvidenceIsSound
<1> DEFINE n == Len(history)
<1>0. /\ history \in Seq(Commits) /\ n \in Nat /\ TypeOK
      /\ artifacts = FlattenSeq([i \in 1..n |-> history[i].emitted])
  BY LenProperties DEF HInv, IInv, TypeOK, FollowsHistory
<1> SUFFICES ASSUME schedule # NoSchedule
             PROVE  /\ n = Cardinality({i \in 1..Len(schedule.records) :
                                          schedule.records[i].outcome = "COMMITTED"})
                    /\ \A i \in 1..Len(schedule.records) :
                         LET r == schedule.records[i]
                         IN  /\ r.ordinal = i - 1 /\ r.historyLength = i - 1
                             /\ r.clock = ClockAt(i - 1)
                             /\ r.ready = {a \in Actors : RouteAt(i - 1, a).kind = "step"}
                             /\ r.outcome = "COMMITTED" => history[i].actor = r.actor
  BY <1>0 DEF EvidenceIsSound
<1> DEFINE m == Len(schedule.records)
           In(i) == RecordIn(scenario, seed, history, i)
<1>1. schedule \in Conclusions(scenario, seed, history)
  BY <1>0 DEF HInv, EndsAsDetermined
<1>2. /\ m \in n..(n + 1)
      /\ \A i \in 1..n : schedule.records[i] = In(i)
      /\ m = n + 1 => schedule.records[n + 1] = Failed(In(n + 1))
  BY <1>0, <1>1, ConcludingRecords
<1>3. ASSUME NEW i \in 1..m
      PROVE  LET r == schedule.records[i]
             IN  /\ r.ordinal = In(i).ordinal /\ r.historyLength = In(i).historyLength
                 /\ r.clock = In(i).clock /\ r.ready = In(i).ready
                 /\ r.actor = In(i).actor
                 /\ (r.outcome = "COMMITTED") <=> (i \in 1..n)
  <2>1. CASE i \in 1..n
    BY <1>2, <2>1, RecordInFields
  <2>2. CASE i \notin 1..n
    <3>1. i = n + 1 /\ m = n + 1
      BY <1>0, <1>2, <2>2
    <3>2. schedule.records[i] = Failed(In(i))
      BY <1>2, <3>1
    <3> QED
      BY <2>2, <3>2, RecordInFields
  <2> QED
    BY <2>1, <2>2
<1>4. {i \in 1..m : schedule.records[i].outcome = "COMMITTED"} = 1..n
  BY <1>0, <1>2, <1>3
<1>5. Cardinality(1..n) = n
  <2>1. 1 \in Int /\ n \in Int /\ (1 > n => n = 0) /\ n - 1 + 1 = n
    BY <1>0
  <2> HIDE DEF n
  <2> QED
    BY <2>1, FS_Interval
<1>6. ASSUME NEW i \in 1..m
      PROVE  /\ In(i).ordinal = i - 1 /\ In(i).historyLength = i - 1
             /\ In(i).clock = ClockAt(i - 1)
             /\ In(i).ready = {a \in Actors : RouteAt(i - 1, a).kind = "step"}
  <2> DEFINE v == View(scenario, history, i - 1)
  <2>1. /\ In(i).ordinal = i - 1 /\ In(i).historyLength = i - 1
        /\ In(i).clock = v.clock /\ In(i).ready = ReadyIn(scenario, v)
    BY RecordInFields
  <2>2. v.clock = ClockAt(i - 1)
    BY DEF View, ClockAt
  <2>3. \A a : RouteAt(i - 1, a) = RouteIn(scenario, v, a)
    BY DEF RouteAt, RouteIn, View, PositionsAfter, StateAt
  <2>4. ReadyIn(scenario, v) = {a \in Actors : RouteAt(i - 1, a).kind = "step"}
    BY <2>3 DEF ReadyIn
  <2> QED
    BY <2>1, <2>2, <2>4
<1>7. \A i \in 1..n : history[i].actor = In(i).actor
  <2> TAKE i \in 1..n
  <2>1. history[i] = CommitIn(scenario, seed, View(scenario, history, i - 1), i - 1)
    BY DEF HInv, FollowsHistory, Genuine
  <2> QED
    BY <2>1, RecordInFields DEF CommitIn
<1> HIDE DEF In
<1> QED
  BY <1>3, <1>4, <1>5, <1>6, <1>7

(* The evidence of a run, on success and after a failed step, can be       *)
(* recomputed from the history the run left.                               *)
THEOREM EvidenceMatchesHistory == Spec => []EvidenceIsSound
<1>1. HInv => EvidenceIsSound
  BY EvidenceFromHistory
<1> QED
  BY <1>1, HistoryInvariance, PTL

-----------------------------------------------------------------------------
(* The third part: exact replay.                                           *)

(* What a run left is what its scenario and the seed sd determine.         *)
Explains(run, sd) ==
  LET last == View(run.scenario, run.history, Len(run.history))
  IN  /\ Genuine(run.scenario, sd, run.history)
      /\ run.state = last.state /\ run.clock = last.clock
      /\ run.artifacts
           = FlattenSeq([i \in 1..Len(run.history) |-> run.history[i].emitted])
      /\ IF run.schedule = NoSchedule
         THEN Unpublished(run.scenario, sd, run.history)
         ELSE /\ run.schedule \in Conclusions(run.scenario, sd, run.history)
              /\ IsSchedule(run.schedule)

(* Before a schedule is presented nothing is replayed or judged; then the  *)
(* observed execution is explained by its seed, which is the one presented *)
(* when the schedule was made up.                                          *)
OriginalIsExplained ==
  IF original = NoRun
  THEN expected = NoSchedule /\ judgement = "none"
  ELSE /\ original \in Observations
       /\ \E sd \in Seeds :
            /\ Explains(original, sd)
            /\ expected # NoSchedule /\ original.schedule = NoSchedule =>
                 expected.seed = sd

(* The replay runs the scenario of the observed execution with the seed of *)
(* the presented schedule.                                                 *)
ReplayHasCoordinates ==
  expected # NoSchedule =>
    /\ scenario = expected.scenario /\ scenario = original.scenario
    /\ seed = expected.seed

JudgedAtEnd ==
  judgement # "none" =>
    /\ phase = "ended"
    /\ judgement = IF status \in {"SUCCESS", "FAILED"} /\ schedule = expected
                   THEN "accepted" ELSE "rejected"

RInv == HInv /\ OriginalIsExplained /\ ReplayHasCoordinates /\ JudgedAtEnd

-----------------------------------------------------------------------------
(* A run that ended, unless a replay stopped it, is explained by its seed. *)
LEMMA EndedIsExplained ==
  ASSUME HInv, phase = "ended", status # "MISMATCH"
  PROVE  Explains(Observed, seed)
<1> DEFINE n == Len(history)
           last == View(scenario, history, n)
<1>1. /\ Genuine(scenario, seed, history)
      /\ artifacts = FlattenSeq([i \in 1..n |-> history[i].emitted])
  BY DEF HInv, FollowsHistory
<1>2. state = last.state /\ clock = last.clock
  BY DEF HInv, IInv, RunnerMatchesHistory, StateAt, ClockAt, View
<1>3. IF schedule = NoSchedule
      THEN Unpublished(scenario, seed, history)
      ELSE schedule \in Conclusions(scenario, seed, history) /\ IsSchedule(schedule)
  <2>1. schedule \in Evidences => schedule # NoSchedule
    BY StepAssumption
  <2> QED
    BY <2>1 DEF HInv, EndsAsDetermined
<1> QED
  BY <1>1, <1>2, <1>3 DEF Explains, Observed

(* Whoever retraces an execution that published its evidence comes no      *)
(* further than that execution, by the same steps, ...                     *)
LEMMA RetracedHistory ==
  ASSUME NEW sc, NEW sd, NEW h, NEW g, Genuine(sc, sd, h), Genuine(sc, sd, g),
         NEW art \in Conclusions(sc, sd, g)
  PROVE  /\ Len(h) \in Nat /\ Len(g) \in Nat /\ Len(h) <= Len(g)
         /\ \A j \in Nat : j <= Len(h) => View(sc, h, j) = View(sc, g, j)
<1>1. h \in Seq(Commits) /\ g \in Seq(Commits)
  BY DEF Genuine
<1>2. Len(h) <= Len(g)
  BY <1>1, EndsDoNotCommit, NothingAfterTheEnd
<1>3. Len(h) \in Nat /\ Len(g) \in Nat
  BY <1>1, LenProperties
<1>4. \A j \in Nat : j <= Len(h) => View(sc, h, j) = View(sc, g, j)
  BY <1>2, <1>3, OneView
<1> QED
  BY <1>2, <1>3, <1>4

(* ... and finds every selection it makes in the evidence.                 *)
LEMMA RetracedSelectionAgrees ==
  ASSUME NEW h, NEW g, NEW sd, Genuine(scenario, sd, h), Genuine(scenario, sd, g),
         expected \in Conclusions(scenario, sd, g),
         SelectsIn(scenario, View(scenario, h, Len(h)), Len(h))
  PROVE  AgreesWithExpected(
           DecisionIn(scenario, sd, View(scenario, h, Len(h)), Len(h)))
<1> DEFINE n == Len(h)
           v == View(scenario, h, n)
           d == DecisionIn(scenario, sd, v, n)
           r == RecordIn(scenario, sd, g, n + 1)
<1>1. /\ n \in Nat /\ Len(g) \in Nat /\ n <= Len(g)
      /\ v = View(scenario, g, n)
  BY RetracedHistory
<1>2. g \in Seq(Commits) /\ (n + 1) - 1 = n
  BY <1>1 DEF Genuine
<1>3. RecordOf(d) = r
  BY <1>1, <1>2 DEF RecordIn
<1>4. d.ordinal = n /\ d.outcome = "COMMITTED"
  BY DEF DecisionIn
<1>5. n + 1 <= Len(expected.records)
      /\ expected.records[n + 1] \in {r, Failed(r)}
  <2>1. /\ Len(expected.records) \in Len(g)..(Len(g) + 1)
        /\ \A i \in 1..Len(g) : expected.records[i] = RecordIn(scenario, sd, g, i)
        /\ Len(expected.records) = Len(g) + 1 =>
             expected.records[Len(g) + 1] = Failed(RecordIn(scenario, sd, g, Len(g) + 1))
    BY <1>2, ConcludingRecords
  <2>2. CASE n < Len(g)
    BY <1>1, <2>1, <2>2
  <2>3. CASE n = Len(g)
    <3>1. ReadyIn(scenario, View(scenario, g, Len(g))) # {}
      BY <1>1, <2>3 DEF SelectsIn
    <3>2. \E k : expected = FailureOf(scenario, sd, g, k)
      BY <3>1, Zenon DEF Conclusions
    <3>3. Len(expected.records) = Len(g) + 1
      BY <1>1, <3>2 DEF FailureOf
    <3> QED
      BY <1>1, <2>1, <2>3, <3>3
  <2> QED
    BY <1>1, <2>2, <2>3
<1>6. [r EXCEPT !.outcome = "COMMITTED"] = r
      /\ [Failed(r) EXCEPT !.outcome = "COMMITTED"] = r
  BY RecordInCommits DEF Committed
<1> HIDE DEF d, r
<1>7. [expected.records[n + 1] EXCEPT !.outcome = d.outcome] = RecordOf(d)
  BY <1>3, <1>4, <1>5, <1>6
<1> QED
  BY <1>4, <1>5, <1>7 DEF AgreesWithExpected, d

-----------------------------------------------------------------------------
(* No alteration of the records or of the ending reaches the coordinates;  *)
(* an altered seed is still a seed.                                        *)
LEMMA AlteredEndingsKeepCoordinates ==
  ASSUME NEW base \in Evidences, NEW art \in AlteredEndings(base)
  PROVE  art.scenario = base.scenario /\ art.seed = base.seed
BY DEF AlteredEndings, Evidences

LEMMA AlteredRecordsKeepCoordinates ==
  ASSUME NEW base \in Evidences, NEW i, NEW art \in AlteredRecords(base, i)
  PROVE  art.scenario = base.scenario /\ art.seed = base.seed
<1>1. \E r : art = WithRecord(base, i, r)
  BY Zenon DEF AlteredRecords
<1> QED
  BY <1>1 DEF WithRecord, Evidences

LEMMA AlterationsKeepScenario ==
  ASSUME NEW base \in Evidences, NEW art \in Alterations(base)
  PROVE  art.scenario = base.scenario /\ art.seed \in Seeds
<1>1. base.seed \in Seeds
  BY DEF Evidences
<1>2. CASE art \in AlteredEndings(base)
  BY <1>1, <1>2, AlteredEndingsKeepCoordinates
<1>3. CASE \E i \in 1..Len(base.records) : art \in AlteredRecords(base, i)
  BY <1>1, <1>3, AlteredRecordsKeepCoordinates
<1>4. CASE \E s \in Seeds : art = [base EXCEPT !.seed = s]
  BY <1>4 DEF Evidences
<1>5. CASE \E s \in SUBSET Actors : art = [base EXCEPT !.actors = s]
  BY <1>1, <1>5 DEF Evidences
<1>6. \/ art \in AlteredEndings(base)
      \/ \E i \in 1..Len(base.records) : art \in AlteredRecords(base, i)
      \/ \E s \in Seeds : art = [base EXCEPT !.seed = s]
      \/ \E s \in SUBSET Actors : art = [base EXCEPT !.actors = s]
  <2> DEFINE X == UNION {AlteredRecords(base, i) : i \in 1..Len(base.records)}
             Y == {[base EXCEPT !.seed = s] : s \in Seeds}
             Z == {[base EXCEPT !.actors = s] : s \in SUBSET Actors}
  <2>1. Alterations(base) = AlteredEndings(base) \cup X \cup Y \cup Z
    BY DEF Alterations
  <2>2. art \in X => \E i \in 1..Len(base.records) : art \in AlteredRecords(base, i)
    BY Zenon
  <2>3. art \in Y => \E s \in Seeds : art = [base EXCEPT !.seed = s]
    BY Zenon
  <2>4. art \in Z => \E s \in SUBSET Actors : art = [base EXCEPT !.actors = s]
    BY Zenon
  <2> HIDE DEF X, Y, Z
  <2>5. art \in AlteredEndings(base) \/ art \in X \/ art \in Y \/ art \in Z
    BY <2>1
  <2> QED
    BY <2>2, <2>3, <2>4, <2>5, Zenon
<1> QED
  BY <1>2, <1>3, <1>4, <1>5, <1>6

(* A presented schedule is for the scenario of the run; one made up from   *)
(* the decisions of a run without evidence also has its seed.              *)
LEMMA PresentedCoordinates ==
  ASSUME HInv, NEW art \in Presented
  PROVE  /\ art.scenario = scenario /\ art.seed \in Seeds
         /\ schedule = NoSchedule => art.seed = seed
<1>0. TypeOK /\ seed \in Seeds
  BY DEF HInv, IInv, TypeOK
<1>1. CASE schedule # NoSchedule
  <2>1. schedule \in Evidences
    BY <1>0, <1>1 DEF TypeOK
  <2>2. schedule.scenario = scenario /\ schedule.seed = seed
    <3>1. schedule \in Conclusions(scenario, seed, history)
      BY <1>1 DEF HInv, EndsAsDetermined
    <3> QED
      BY <3>1, ConcludingCoordinates
  <2>3. art = schedule \/ art \in Alterations(schedule)
    BY <1>1 DEF Presented
  <2> QED
    BY <1>0, <1>1, <2>1, <2>2, <2>3, AlterationsKeepScenario
<1>2. CASE schedule = NoSchedule
  <2> DEFINE base == Evidence(decisions, "SUCCESS", NoFailure)
  <2>1. base \in Evidences
    BY <1>0, EvidenceType DEF TypeOK
  <2>2. base.scenario = scenario /\ base.seed = seed
    BY DEF Evidence
  <2>3. art = base \/ art \in AlteredEndings(base)
    BY <1>2 DEF Presented
  <2> HIDE DEF base
  <2> QED
    BY <1>0, <2>1, <2>2, <2>3, AlteredEndingsKeepCoordinates
<1> QED
  BY <1>1, <1>2

-----------------------------------------------------------------------------
LEMMA ReplayStarts ==
  ASSUME InitReplay PROVE RInv
<1>1. HInv
  BY HistoryStarts DEF InitReplay, Init, Starts
<1> QED
  BY <1>1 DEF InitReplay, Init, RInv, OriginalIsExplained, ReplayHasCoordinates,
     JudgedAtEnd

(* The execution inside the replay starts as every execution does.         *)
LEMMA StartsAgain == Starts' => HInv'
<1>1. Starts => HInv
  BY HistoryStarts
<1> QED
  BY <1>1, PTL

LEMMA ExecutionKeepsReplay ==
  ASSUME RInv, [Next]_vars, UNCHANGED <<original, judgement>> PROVE RInv'
<1>1. HInv'
  BY HistoryInductive DEF RInv
<1>2. UNCHANGED <<scenario, seed, expected>>
  BY OnlyCommitMovesRunner DEF Commit, parameters
<1>3. OriginalIsExplained' /\ ReplayHasCoordinates'
  BY <1>2 DEF RInv, OriginalIsExplained, ReplayHasCoordinates
<1>4. JudgedAtEnd'
  <2>1. CASE judgement = "none"
    BY <2>1 DEF JudgedAtEnd
  <2>2. CASE judgement # "none"
    <3>1. phase = "ended"
      BY <2>2 DEF RInv, JudgedAtEnd
    <3>2. UNCHANGED vars
      BY <3>1 DEF Next, Preflight, RoutingFails, Complete, SelectionLimit,
         Select, RunPhase, FaultsFail, StepFails, Commit, Ended
    <3> QED
      BY <3>2 DEF RInv, JudgedAtEnd, vars, verdict, parameters
  <2> QED
    BY <2>1, <2>2
<1> QED
  BY <1>1, <1>3, <1>4 DEF RInv

(* Presenting a schedule observes an execution that nothing stopped.       *)
LEMMA PresentKeepsReplay ==
  ASSUME RInv, Present PROVE RInv'
<1>0. HInv /\ phase = "ended" /\ original' = Observed /\ original = NoRun
  BY DEF RInv, Present
<1>1. expected = NoSchedule /\ judgement = "none" /\ seed \in Seeds
  BY <1>0 DEF RInv, OriginalIsExplained, HInv, IInv, TypeOK
<1>2. Explains(Observed, seed)
  <2>1. status # "MISMATCH"
    BY <1>0, <1>1 DEF HInv, EndsAsDetermined
  <2> QED
    BY <1>0, <2>1, EndedIsExplained
<1>3. Observed # NoRun /\ Observed \in Observations
  <2>1. /\ scenario \in Scenarios /\ schedule \in Evidences \cup {NoSchedule}
        /\ state \in States /\ clock \in Clocks /\ history \in Seq(Commits)
        /\ artifacts \in Seq(Artifacts)
    BY <1>0 DEF HInv, IInv, TypeOK
  <2>2. Observed \in Observations
    BY <2>1 DEF Observed, Observations
  <2> QED
    BY <2>2, RunAssumption
<1>4. Observed.scenario = scenario /\ Observed.schedule = schedule
  BY DEF Observed
<1>5. PICK art \in Presented, sc \in Scenarios :
        IF art.scenario # sc
        THEN judgement' = "rejected" /\ UNCHANGED vars
        ELSE /\ scenario' = sc /\ seed' = art.seed /\ expected' = art
             /\ InitExecution' /\ UNCHANGED judgement
  BY <1>0, Zenon DEF Present, InitExecution, EmptyCandidate
<1>6. CASE art.scenario # sc
  <2>1. judgement' = "rejected" /\ UNCHANGED vars
    BY <1>5, <1>6
  <2>2. UNCHANGED <<scenario, seed, expected, phase, status, schedule>>
    BY <2>1 DEF vars, parameters, verdict
  <2>3. HInv'
    BY <1>0, <2>1, HistoryInductive
  <2>4. status \in {"SUCCESS", "FAILED"} => schedule # expected
    <3>1. status \in {"SUCCESS", "FAILED"} => schedule \in Evidences
      BY <1>0 DEF HInv, EndsAsDetermined
    <3> QED
      BY <1>1, <3>1, StepAssumption
  <2>5. JudgedAtEnd'
    BY <1>0, <2>1, <2>2, <2>4 DEF JudgedAtEnd
  <2>6. OriginalIsExplained' /\ ReplayHasCoordinates'
    BY <1>0, <1>1, <1>2, <1>3, <2>2 DEF OriginalIsExplained, ReplayHasCoordinates
  <2> QED
    BY <2>3, <2>5, <2>6 DEF RInv
<1>7. CASE art.scenario = sc
  <2>1. /\ scenario' = sc /\ seed' = art.seed /\ expected' = art
        /\ InitExecution' /\ judgement' = "none"
    BY <1>1, <1>5, <1>7
  <2>2. /\ art.scenario = scenario /\ art.seed \in Seeds
        /\ schedule = NoSchedule => art.seed = seed
    BY <1>0, PresentedCoordinates
  <2>3. Starts'
    BY <2>1, <2>2 DEF Starts
  <2>4. HInv'
    BY <2>3, StartsAgain
  <2>5. OriginalIsExplained'
    BY <1>0, <1>1, <1>2, <1>3, <1>4, <2>1, <2>2 DEF OriginalIsExplained
  <2>6. ReplayHasCoordinates' /\ JudgedAtEnd'
    BY <1>0, <1>4, <1>7, <2>1, <2>2 DEF ReplayHasCoordinates, JudgedAtEnd
  <2> QED
    BY <2>4, <2>5, <2>6 DEF RInv
<1> QED
  BY <1>6, <1>7

LEMMA JudgeKeepsReplay ==
  ASSUME RInv, Judge PROVE RInv'
<1>1. UNCHANGED vars /\ original' = original /\ original # NoRun /\ phase = "ended"
  BY DEF Judge
<1>2. UNCHANGED <<scenario, seed, expected, phase, status, schedule>>
  BY <1>1 DEF vars, parameters, verdict
<1>3. HInv'
  BY <1>1, HistoryInductive DEF RInv
<1>4. OriginalIsExplained' /\ ReplayHasCoordinates'
  BY <1>1, <1>2 DEF RInv, OriginalIsExplained, ReplayHasCoordinates
<1>5. JudgedAtEnd'
  BY <1>1, <1>2 DEF Judge, JudgedAtEnd
<1> QED
  BY <1>3, <1>4, <1>5 DEF RInv

LEMMA ReplayInvariance == ReplaySpec => []RInv
<1>1. InitReplay => RInv
  BY ReplayStarts
<1>2. RInv /\ [NextReplay]_replayVars => RInv'
  <2> SUFFICES ASSUME RInv, [NextReplay]_replayVars PROVE RInv'
    OBVIOUS
  <2>1. CASE ExecuteActors \/ UNCHANGED replayVars
    BY <2>1, ExecutionKeepsReplay DEF ExecuteActors, replayVars
  <2>2. CASE Present
    BY <2>2, PresentKeepsReplay
  <2>3. CASE Judge
    BY <2>3, JudgeKeepsReplay
  <2> QED
    BY <2>1, <2>2, <2>3 DEF NextReplay
<1> QED
  BY <1>1, <1>2, PTL DEF ReplaySpec

-----------------------------------------------------------------------------
(* With the seed of the observed execution a replay can end in one way.    *)
LEMMA GenuineReplay ==
  ASSUME RInv, judgement # "none", expected # NoSchedule,
         expected = original.schedule
  PROVE  judgement = "accepted" /\ Observed = original
<1>0. /\ HInv /\ phase = "ended"
      /\ judgement = IF status \in {"SUCCESS", "FAILED"} /\ schedule = expected
                     THEN "accepted" ELSE "rejected"
  BY DEF RInv, JudgedAtEnd
<1>1. /\ original # NoRun /\ scenario = original.scenario /\ seed = expected.seed
      /\ expected.scenario = scenario
  BY DEF RInv, OriginalIsExplained, ReplayHasCoordinates
<1> DEFINE h == history
           g == original.history
           n == Len(h)
<1>2. PICK sd \in Seeds : Explains(original, sd)
  BY <1>1 DEF RInv, OriginalIsExplained
<1>3. /\ Genuine(scenario, sd, g) /\ IsSchedule(expected)
      /\ expected \in Conclusions(scenario, sd, g)
  BY <1>1, <1>2 DEF Explains
<1>4. expected.seed = sd /\ expected.actors = Actors
  BY <1>3, ConcludingCoordinates
<1>5. Genuine(scenario, seed, h) /\ Genuine(scenario, seed, g)
      /\ expected \in Conclusions(scenario, seed, g)
  BY <1>0, <1>1, <1>3, <1>4 DEF HInv, FollowsHistory
<1>6. status # "ABORTED"
  BY <1>0, <1>3, <1>5, NoConclusion, StepAssumption DEF HInv, EndsAsDetermined
<1>7. status # "MISMATCH"
  <2> SUFFICES ASSUME status = "MISMATCH" PROVE FALSE
    OBVIOUS
  <2>1. Mismatched
    BY <1>0 DEF HInv, EndsAsDetermined
  <2>2. Here = View(scenario, h, n) /\ n \in Nat
    BY <1>0, LenProperties DEF HInv, FollowsHistory, Genuine
  <2>3. Determined(n + 1) = DecisionIn(scenario, seed, View(scenario, h, n), n)
    <3>1. (n + 1) - 1 = n
      BY <2>2
    <3> QED
      BY <3>1 DEF Determined
  <2>4. CASE SelectsIn(scenario, Here, n) /\ ~AgreesWithExpected(Determined(n + 1))
    BY <1>5, <2>2, <2>3, <2>4, RetracedSelectionAgrees
  <2>5. CASE \E art \in Conclusions(scenario, seed, h) : art # expected
    BY <1>5, <2>5, OneConclusion
  <2> QED
    BY <1>1, <1>4, <2>1, <2>4, <2>5 DEF Mismatched
<1>8. /\ schedule = expected /\ judgement = "accepted" /\ status # "MISMATCH"
      /\ schedule \in Conclusions(scenario, seed, h)
  BY <1>0, <1>6, <1>7 DEF HInv, EndsAsDetermined
<1>9. h = g
  BY <1>5, <1>8, OneConclusion
<1>10. Explains(Observed, seed)
  BY <1>0, <1>8, EndedIsExplained
<1>11. /\ state = original.state /\ clock = original.clock
       /\ artifacts = original.artifacts
  BY <1>1, <1>2, <1>9, <1>10 DEF Explains, Observed
<1>12. original \in Observations
  BY <1>1 DEF RInv, OriginalIsExplained
<1> QED
  BY <1>1, <1>8, <1>9, <1>11, <1>12 DEF Observed, Observations

(* An accepted schedule is the evidence of the replay itself, which is the *)
(* evidence of the observed execution when the seed is the same.           *)
LEMMA AcceptedSchedule ==
  ASSUME RInv, judgement = "accepted",
         original.schedule # NoSchedule => original.schedule.seed = expected.seed
  PROVE  expected = original.schedule
<1>0. /\ HInv /\ phase = "ended"
      /\ status \in {"SUCCESS", "FAILED"} /\ schedule = expected
  BY DEF RInv, JudgedAtEnd
<1>1. /\ schedule \in Conclusions(scenario, seed, history) /\ IsSchedule(schedule)
      /\ schedule # NoSchedule
  BY <1>0, StepAssumption DEF HInv, EndsAsDetermined
<1>2. /\ original # NoRun /\ scenario = original.scenario /\ seed = expected.seed
  BY <1>0, <1>1 DEF RInv, OriginalIsExplained, ReplayHasCoordinates
<1>3. PICK sd \in Seeds :
        /\ Explains(original, sd)
        /\ original.schedule = NoSchedule => seed = sd
  BY <1>0, <1>1, <1>2 DEF RInv, OriginalIsExplained
<1>4. Genuine(scenario, seed, history)
  BY <1>0 DEF HInv, FollowsHistory
<1>5. CASE original.schedule = NoSchedule
  <2>1. /\ Genuine(scenario, seed, original.history)
        /\ Unpublished(scenario, seed, original.history)
    BY <1>2, <1>3, <1>5 DEF Explains
  <2> QED
    BY <1>1, <1>4, <2>1, NoConclusion
<1>6. CASE original.schedule # NoSchedule
  <2>1. /\ Genuine(scenario, sd, original.history)
        /\ original.schedule \in Conclusions(scenario, sd, original.history)
    BY <1>2, <1>3, <1>6 DEF Explains
  <2>2. sd = seed
    BY <1>2, <1>6, <2>1, ConcludingCoordinates
  <2> QED
    BY <1>0, <1>1, <1>4, <2>1, <2>2, OneConclusion
<1> QED
  BY <1>5, <1>6

(* A record that a replay got past is the record of the observed execution.*)
LEMMA VerifiedRecords ==
  ASSUME RInv, expected # NoSchedule, original.schedule # NoSchedule,
         expected.seed = original.schedule.seed, NEW i \in 1..Len(history)
  PROVE  /\ i <= Len(expected.records)
         /\ Committed(expected.records[i])
              = Committed(original.schedule.records[i])
<1> DEFINE g == original.history
           r == RecordIn(scenario, seed, history, i)
<1>0. /\ HInv /\ original # NoRun
      /\ scenario = original.scenario /\ seed = expected.seed
  BY DEF RInv, OriginalIsExplained, ReplayHasCoordinates
<1>1. PICK sd \in Seeds : Explains(original, sd)
  BY <1>0 DEF RInv, OriginalIsExplained
<1>2. /\ Genuine(scenario, sd, g)
      /\ original.schedule \in Conclusions(scenario, sd, g)
  BY <1>0, <1>1 DEF Explains
<1>3. sd = seed
  BY <1>0, <1>2, ConcludingCoordinates
<1>4. Genuine(scenario, seed, history)
  BY <1>0 DEF HInv, FollowsHistory
<1>5. /\ i \in 1..Len(g) /\ i - 1 \in Nat
      /\ View(scenario, history, i - 1) = View(scenario, g, i - 1)
  <2>1. /\ Len(history) \in Nat /\ Len(g) \in Nat /\ Len(history) <= Len(g)
        /\ \A j \in Nat : j <= Len(history) =>
             View(scenario, history, j) = View(scenario, g, j)
    BY <1>2, <1>3, <1>4, RetracedHistory
  <2>2. i - 1 \in Nat /\ i - 1 <= Len(history)
    BY <2>1
  <2> QED
    BY <2>1, <2>2
<1>6. original.schedule.records[i] = r
  <2>1. original.schedule.records[i] = RecordIn(scenario, seed, g, i)
    BY <1>2, <1>3, <1>5, ConcludingRecords DEF Genuine
  <2> QED
    BY <1>5, <2>1 DEF RecordIn
<1>7. AgreesWithExpected(Determined(i)) /\ RecordOf(Determined(i)) = r
  <2>1. i \in 1..Len(decisions)
    BY <1>0, RecordsOfTheHistory
  <2> QED
    BY <1>0, <2>1 DEF HInv, DecisionsAgree, RecordIn, Determined
<1>8. Determined(i).ordinal = i - 1 /\ Determined(i).outcome = "COMMITTED"
  BY DEF Determined, DecisionIn
<1>9. i <= Len(expected.records) /\ Committed(expected.records[i]) = r
  <2>1. (i - 1) + 1 = i
    OBVIOUS
  <2> HIDE DEF r
  <2> QED
    BY <1>7, <1>8, <2>1 DEF AgreesWithExpected, Committed
<1>10. Committed(r) = r
  BY RecordInCommits
<1> HIDE DEF r
<1> QED
  BY <1>6, <1>9, <1>10

-----------------------------------------------------------------------------
(* Replaying the schedule that an execution published is never rejected    *)
(* and reproduces its state, clock, history and artifacts, for a success   *)
(* and for a failed step alike.                                            *)
THEOREM GenuineSchedulesAreAccepted == ReplaySpec => []GenuineReplayAccepted
<1>1. RInv => GenuineReplayAccepted
  BY GenuineReplay DEF GenuineReplayAccepted
<1> QED
  BY <1>1, ReplayInvariance, PTL

(* No alteration of a record, an ending or a failure and no schedule made  *)
(* up for a run that left none is accepted with the seed of that run.      *)
THEOREM OnlyGenuineSchedulesAreAccepted == ReplaySpec => []AcceptedReplayIsGenuine
<1>1. RInv => AcceptedReplayIsGenuine
  BY AcceptedSchedule DEF AcceptedReplayIsGenuine
<1> QED
  BY <1>1, ReplayInvariance, PTL

(* A replay commits no transition beyond the records that agree.           *)
THEOREM ReplayStopsInTime == ReplaySpec => []NothingUnverifiedCommits
<1>1. RInv => NothingUnverifiedCommits
  BY VerifiedRecords DEF NothingUnverifiedCommits, Committed
<1> QED
  BY <1>1, ReplayInvariance, PTL
============================================================================
