----------------------------- MODULE EngineSuite -----------------------------
(***************************************************************************)
(* The Engine 2 suite (engine2_suite.py): a plan of cases is executed one  *)
(* after the other under budgets they share, its outcome is read and       *)
(* verified offline against the native evidence of its cases, and single   *)
(* cases are replayed (engine2.py).  A sweep over schedule seeds           *)
(* (engine2_explore.py) is a suite of one kind.                            *)
(*                                                                         *)
(* What an execution does is a function of the schedule seed, the only     *)
(* coordinate in which cases differ here.  Hashes are perfect: the         *)
(* identity of an artifact is the artifact.  Between execution and         *)
(* verification somebody may alter the suite or its evidence in one place  *)
(* and compute all hashes again.                                           *)
(***************************************************************************)
EXTENDS Integers, SequencesExt, FiniteSetsExt

CONSTANTS
  Seeds,
  Worlds,        \* functions from seeds to what an execution does
  Plans,         \* sequences of requests
  Sweeps,        \* sequences of seeds
  MaxCases, MaxInput, MaxCaseSelections, MaxSelections, MaxRetained

Invariant == "InvariantViolation"
None == "none"

(* What is raised out of an execution, or not: a native failure has its    *)
(* code; unbuilt and broken are defects of Result/2 after a success and    *)
(* after a failure, unserial one of its serialization.                     *)
Failures == {Invariant, "OtherFailure"}
Defects == {"plugin", "internal", "unbuilt"}
Run(how, n, size) == [how |-> how, n |-> n, size |-> size]
Hows == {None, "broken", "unserial"} \cup Failures \cup Defects
Request(id, seed, expects, input) ==
  [id |-> id, seed |-> seed, expects |-> expects, input |-> input]

(* Seeds do something, which takes and leaves some amount, plans are of    *)
(* such seeds, and budgets are numbers.                                    *)
ExecutionsAreSized ==
  /\ \A w \in Worlds : \A s \in Seeds : w[s] \in [how : Hows, n : Nat, size : Nat]
  /\ \A requests \in Plans :
       /\ requests \in Seq(Range(requests)) /\ \A r \in Range(requests) : r.seed \in Seeds
  /\ Sweeps \subseteq Seq(Seeds)
  /\ {MaxCaseSelections, MaxSelections, MaxRetained} \subseteq Nat

VARIABLES
  world,
  plan, phase,
  selections, retained,  \* what the completed cases have used
  cases,                 \* the outcomes
  counts, status,        \* of the suite
  offered,               \* the child evidence of every case
  altered,
  replayed,              \* the cases replayed
  summary                \* of the suite as a sweep

budget == <<selections, retained>>
suite == <<cases, counts, status>>
vars == <<world, plan, phase, budget, suite, offered, altered, replayed, summary>>

-----------------------------------------------------------------------------
(* The evidence of a completed execution: three artifacts, linked.         *)
Manifest(seed) == [seed |-> seed]
Schedule(seed, run) ==
  [seed |-> seed, failure |-> IF run.how \in Failures THEN run.how ELSE None,
   n |-> run.n]
Result(seed, run) ==
  [manifest |-> Manifest(seed), schedule |-> Schedule(seed, run),
   failure |-> Schedule(seed, run).failure, state |-> "observed", size |-> run.size]
Evidence(seed) ==
  [manifest |-> Manifest(seed), schedule |-> Schedule(seed, world[seed]),
   result |-> Result(seed, world[seed])]

(* _completed_status, of what was observed and what was expected.          *)
CompletedStatus(expects, failure) ==
  IF failure = None /\ expects = None THEN "SUCCESS"
  ELSE IF failure = expects /\ failure = Invariant THEN "EXPECTED_FAILURE"
  ELSE "UNEXPECTED_FAILURE"

Completed(request, evidence, s) ==
  [request |-> request, status |-> s, observed |-> evidence.result.failure,
   native |-> <<evidence>>, error |-> None]
ErrorCase(request, code) ==
  [request |-> request, status |-> "ERROR", observed |-> None,
   native |-> <<>>, error |-> code]

Count(s) == Quantify(DOMAIN cases, LAMBDA i : cases[i].status = s)
Statuses == {"SUCCESS", "EXPECTED_FAILURE", "UNEXPECTED_FAILURE", "ERROR"}
Sum(numbers) ==
  LET total[i \in 0..Len(numbers)] == IF i = 0 THEN 0 ELSE total[i - 1] + numbers[i]
  IN total[Len(numbers)]

-----------------------------------------------------------------------------
(* Engine2SuitePlan: bounds and unique identities before anything runs.    *)
ValidPlan(requests) ==
  /\ Len(requests) \in 1..MaxCases
  /\ IsInjective([i \in DOMAIN requests |-> requests[i].id])
  /\ Sum([i \in DOMAIN requests |-> requests[i].input]) <= MaxInput

NewPlan(requests) ==
  /\ phase = "idle" /\ plan' = requests
  /\ phase' = IF ValidPlan(requests) THEN "running" ELSE "refused"
  /\ UNCHANGED <<world, budget, suite, offered, altered, replayed, summary>>

(* Engine2SeedSweepRequest: cases named by their positions.                *)
SweepPlan(seeds, expects) ==
  [i \in DOMAIN seeds |-> Request(ToString(i), seeds[i], expects, 1)]
NewSweep(seeds, expects) ==
  /\ Len(seeds) \in 1..MaxCases /\ IsInjective(seeds)
  /\ NewPlan(SweepPlan(seeds, expects))

Running == phase = "running" /\ Len(cases) < Len(plan)
Next_ == plan[Len(cases) + 1]

Abort ==
  /\ phase' = "aborted"
  /\ UNCHANGED <<world, plan, budget, suite, offered, altered, replayed, summary>>

Record(outcome) ==
  /\ cases' = Append(cases, outcome)
  /\ UNCHANGED <<world, plan, phase, counts, status, offered, altered, replayed, summary>>

(* _execute_case: an exception without an authoritative outcome.           *)
ErrorCode(how) ==
  IF how = "plugin" THEN "PLUGIN_EXECUTION_FAILED" ELSE "INTERNAL_EXECUTION_FAILED"
FailCase ==
  /\ Running /\ world[Next_.seed].how \in Defects
  /\ Record(ErrorCase(Next_, ErrorCode(world[Next_.seed].how))) /\ UNCHANGED budget

(* construct_result2 raises while a failure is handled.                    *)
BreakCase == Running /\ world[Next_.seed].how = "broken" /\ Abort

(* Mutant: the selections of earlier cases do not count.                   *)
OverSelectionsAlone(n) == n > MaxCaseSelections

OverSelections(n) == n > MaxCaseSelections \/ selections + n > MaxSelections

LimitCase ==
  /\ Running /\ UNCHANGED budget
  /\ LET run == world[Next_.seed] IN
       /\ run.how \in {None, "unserial"} \cup Failures
       /\ \/ /\ OverSelections(run.n)
             /\ Record(ErrorCase(Next_, "SELECTION_BOUND_EXCEEDED"))
          \/ /\ ~OverSelections(run.n) /\ run.how # "unserial"
             /\ retained + run.size > MaxRetained
             /\ Record(ErrorCase(Next_, "CHILD_EVIDENCE_BOUND_EXCEEDED"))

UnserialCase ==
  /\ Running /\ world[Next_.seed].how = "unserial"
  /\ ~OverSelections(world[Next_.seed].n) /\ Abort

(* Mutant: any failure that was declared is expected.                      *)
ObservedStatusDeclared(expects, how) ==
  IF how = expects THEN IF how = None THEN "SUCCESS" ELSE "EXPECTED_FAILURE"
  ELSE "UNEXPECTED_FAILURE"

(* The status by the exception that was raised, and no other failure is    *)
(* expected than the violation of an invariant.                            *)
ObservedStatus(expects, how) ==
  CASE how = None -> IF expects = None THEN "SUCCESS" ELSE "UNEXPECTED_FAILURE"
    [] how = Invariant /\ expects = Invariant -> "EXPECTED_FAILURE"
    [] OTHER -> "UNEXPECTED_FAILURE"

(* A completed case uses the budgets.  The constructor of its outcome      *)
(* derives the status once more and raises if they differ.                 *)
CompleteCase ==
  /\ Running
  /\ LET run == world[Next_.seed]
         s == ObservedStatus(Next_.expects, run.how)
     IN /\ run.how \in {None} \cup Failures
        /\ ~OverSelections(run.n) /\ retained + run.size <= MaxRetained
        /\ IF s = CompletedStatus(Next_.expects, run.how)
           THEN /\ Record(Completed(Next_, Evidence(Next_.seed), s))
                /\ selections' = selections + run.n
                /\ retained' = retained + run.size
           ELSE Abort

(* Engine2SuiteOutcome: counts and status.                                 *)
SuiteStatus == IF Count("UNEXPECTED_FAILURE") + Count("ERROR") = 0 THEN "SUCCESS" ELSE "FAILED"

(* Mutant: the outcome is made of the cases there are.                     *)
FinishEarly ==
  /\ phase = "running" /\ phase' = "done"
  /\ counts' = [s \in Statuses |-> Count(s)] /\ status' = SuiteStatus
  /\ offered' = [i \in DOMAIN cases |-> cases[i].native]
  /\ UNCHANGED <<world, plan, budget, cases, altered, replayed, summary>>

Finish ==
  /\ phase = "running" /\ Len(cases) = Len(plan) /\ phase' = "done"
  /\ counts' = [s \in Statuses |-> Count(s)]
  /\ status' = SuiteStatus
  /\ offered' = [i \in DOMAIN cases |-> cases[i].native]
  /\ UNCHANGED <<world, plan, budget, cases, altered, replayed, summary>>

-----------------------------------------------------------------------------
(* Alterations in one place, by somebody who can recompute hashes but runs *)
(* nothing.                                                                *)
AlteredEvidence(e, others) ==
  others
  \cup {[e EXCEPT !.schedule = o.schedule] : o \in others}
  \cup {[e EXCEPT !.manifest = o.manifest] : o \in others}
  \cup {[e EXCEPT !.result = o.result] : o \in others}
  \cup {[e EXCEPT !.schedule.n = 1], [e EXCEPT !.result.state = "other"]}

Claiming(c, s, f) == [c EXCEPT !.status = s, !.observed = f]
AlteredVerdict(c) == {Claiming(c, s, f) : s \in Statuses, f \in Failures \cup {None}}
AlteredNative(c, others) ==
  IF c.native = <<>> THEN {}
  ELSE {ErrorCase(c.request, "INTERNAL_EXECUTION_FAILED")}
       \cup {[c EXCEPT !.native = <<e>>] : e \in AlteredEvidence(c.native[1], others)}

EvidenceBut(i) ==
  {cases[j].native[1] : j \in {k \in DOMAIN cases \ {i} : cases[k].native # <<>>}}
AlteredCase(i) == AlteredVerdict(cases[i]) \cup AlteredNative(cases[i], EvidenceBut(i))

(* The aggregate is computed again; evidence goes with its case or is what *)
(* the executor offered.                                                   *)
Alter(i, c, along) ==
  /\ phase = "done" /\ ~altered /\ altered' = TRUE /\ c # cases[i]
  /\ cases' = [cases EXCEPT ![i] = c]
  /\ counts' = [s \in Statuses |-> Quantify(DOMAIN cases, LAMBDA j : cases'[j].status = s)]
  /\ status' = IF counts'["UNEXPECTED_FAILURE"] + counts'["ERROR"] = 0 THEN "SUCCESS" ELSE "FAILED"
  /\ offered' = IF along THEN [offered EXCEPT ![i] = c.native] ELSE offered
  /\ UNCHANGED <<world, plan, phase, budget, replayed, summary>>

AlterStatus ==
  /\ phase = "done" /\ ~altered /\ altered' = TRUE
  /\ status' \in {"SUCCESS", "FAILED"} \ {status}
  /\ UNCHANGED <<world, plan, phase, budget, cases, counts, offered, replayed, summary>>

(* read_engine2_suite: everything derivable is derived again.              *)
ReadableCase(c) ==
  IF c.status = "ERROR" THEN c.native = <<>> /\ c.error # None /\ c.observed = None
  ELSE c.native # <<>> /\ c.error = None
       /\ c.status = CompletedStatus(c.request.expects, c.observed)
Readable ==
  /\ \A i \in DOMAIN cases : ReadableCase(cases[i])
  /\ counts = [s \in Statuses |-> Count(s)] /\ status = SuiteStatus

(* Mutant: the schedule is not compared with the result's reference.       *)
LinkedLoosely(c, e) ==
  /\ e.manifest = e.result.manifest /\ e.manifest.seed = c.request.seed
  /\ e.schedule.seed = e.manifest.seed /\ e.result.failure = c.observed

(* The children are the ones referred to, and agree with each other.       *)
Linked(c, e) ==
  /\ e.manifest = e.result.manifest /\ e.manifest.seed = c.request.seed
  /\ e.schedule.seed = e.manifest.seed /\ e.result.schedule = e.schedule
  /\ e.result.failure = e.schedule.failure /\ e.result.failure = c.observed

OfferedSizes == [i \in DOMAIN offered |-> IF offered[i] = <<>> THEN 0 ELSE offered[i][1].result.size]
OfferedSelections ==
  [i \in DOMAIN offered |-> IF offered[i] = <<>> THEN 0 ELSE offered[i][1].schedule.n]

(* Mutant: a budget that is used up is exceeded.                           *)
WithinBoundsStrictly == Sum(OfferedSizes) < MaxRetained

WithinBounds ==
  /\ Sum(OfferedSizes) <= MaxRetained
  /\ Sum(OfferedSelections) <= MaxSelections
  /\ \A i \in DOMAIN offered : OfferedSelections[i] <= MaxCaseSelections

(* verify_engine2_suite, which executes nothing.                           *)
Verify ==
  /\ phase = "done"
  /\ phase' = IF Readable /\ WithinBounds /\ \A i \in DOMAIN cases :
                   /\ offered[i] = cases[i].native
                   /\ cases[i].native # <<>> => Linked(cases[i], offered[i][1])
              THEN "verified" ELSE "rejected"
  /\ UNCHANGED <<world, plan, budget, suite, offered, altered, replayed, summary>>

(* Mutant: the replayed observation is not compared.                       *)
ReplayUnobserved(i) ==
  /\ phase = "verified" /\ offered[i] # <<>>
  /\ offered[i][1].schedule = Evidence(cases[i].request.seed).schedule
  /\ replayed' = replayed \cup {i}
  /\ UNCHANGED <<world, plan, phase, budget, suite, offered, altered, summary>>

(* replay_engine2: the execution is repeated and observed once more.       *)
Replay(i) ==
  /\ phase = "verified" /\ offered[i] # <<>>
  /\ offered[i][1].result = Evidence(offered[i][1].schedule.seed).result
  /\ replayed' = replayed \cup {i}
  /\ UNCHANGED <<world, plan, phase, budget, suite, offered, altered, summary>>

(* Mutant: a case with an error is not called failing.                     *)
FailingCompleted(i) == cases[i].status \notin {"SUCCESS", "ERROR"}

Failing(i) == cases[i].status # "SUCCESS"

(* Engine2SeedSweepOutcome: a suite of the shape of a sweep, summed up.    *)
SweepShaped ==
  /\ IsInjective([i \in DOMAIN cases |-> cases[i].request.seed])
  /\ \A i \in DOMAIN cases :
       /\ cases[i].request.id = ToString(i)
       /\ cases[i].request.expects = cases[1].request.expects
       /\ cases[i].request.input = cases[1].request.input
Summarise ==
  /\ phase = "done" /\ ~altered /\ SweepShaped /\ summary = <<>>
  /\ summary' = <<[i \in DOMAIN cases |-> cases[i].request.seed],
                  {cases[i].request.seed : i \in {j \in DOMAIN cases : Failing(j)}},
                  {cases[i].native[1].schedule :
                     i \in {j \in DOMAIN cases : cases[j].native # <<>>}}>>
  /\ UNCHANGED <<world, plan, phase, budget, suite, offered, altered, replayed>>

-----------------------------------------------------------------------------
Init ==
  /\ world \in Worlds /\ plan = <<>> /\ phase = "idle"
  /\ selections = 0 /\ retained = 0 /\ cases = <<>>
  /\ counts = [s \in Statuses |-> 0] /\ status = None /\ offered = <<>>
  /\ altered = FALSE /\ replayed = {} /\ summary = <<>>

Execute ==
  FailCase \/ BreakCase \/ LimitCase \/ UnserialCase \/ CompleteCase \/ Finish

Next ==
  \/ \E requests \in Plans : NewPlan(requests)
  \/ \E seeds \in Sweeps, expects \in {None, Invariant} : NewSweep(seeds, expects)
  \/ Execute \/ Summarise
  \/ \E i \in DOMAIN cases : \E c \in AlteredCase(i), along \in BOOLEAN : Alter(i, c, along)
  \/ AlterStatus \/ Verify
  \/ \E i \in DOMAIN cases : Replay(i)

Spec == Init /\ [][Next]_vars
-----------------------------------------------------------------------------
Completions == {i \in DOMAIN cases : cases[i].status # "ERROR"}
SelectedBefore(i) ==
  Sum([j \in 1..(i - 1) |-> IF j \in Completions THEN world[cases[j].request.seed].n ELSE 0])
KeptBefore(i) ==
  Sum([j \in 1..(i - 1) |-> IF j \in Completions THEN world[cases[j].request.seed].size ELSE 0])

TypeOK ==
  /\ world \in Worlds
  /\ phase \in {"idle", "running", "refused", "aborted", "done", "verified", "rejected"}
  /\ Len(cases) <= Len(plan) /\ (phase \notin {"idle", "refused"} => ValidPlan(plan))
  /\ \A i \in DOMAIN cases :
       /\ cases[i].request = plan[i] /\ cases[i].status \in Statuses
       /\ Len(cases[i].native) <= 1
  /\ phase \in {"done", "verified", "rejected"} => Len(cases) = Len(plan)
  /\ replayed \subseteq DOMAIN cases /\ altered \in BOOLEAN

(* Cases share two budgets, and one that exceeds them uses nothing: a case *)
(* is refused for a budget exactly when the completed cases before it have *)
(* left too little of it.                                                  *)
BudgetsAreShared ==
  ~altered => \A i \in DOMAIN cases :
    LET run == world[cases[i].request.seed]
        selected == SelectedBefore(i) + run.n
        kept == KeptBefore(i) + run.size
        fits == run.n <= MaxCaseSelections /\ selected <= MaxSelections
    IN /\ cases[i].error = "SELECTION_BOUND_EXCEEDED" => ~fits
       /\ cases[i].error = "CHILD_EVIDENCE_BOUND_EXCEEDED" => fits /\ kept > MaxRetained
       /\ i \in Completions => fits /\ kept <= MaxRetained

(* docs/engine2-suite.md:170: the status by the exception and the status   *)
(* by the codes agree, no suite aborts over them, and a failure is         *)
(* expected only when it was declared and violated an invariant.           *)
StatusIsDeserved ==
  /\ phase = "aborted" => world[Next_.seed].how \in {"broken", "unserial"}
  /\ ~altered => \A i \in Completions :
       LET how == world[plan[i].seed].how IN
         /\ cases[i].status = "SUCCESS" <=> how = None /\ plan[i].expects = None
         /\ cases[i].status = "EXPECTED_FAILURE" <=> how = Invariant /\ plan[i].expects = how
         /\ cases[i].observed = how

(* Whatever was altered in one place, of a suite that verifies each        *)
(* completed case tells status, failure and schedule as they were.  (The   *)
(* state of a result is not verified, and an error is only a claim.)       *)
VerifiedIsGenuine ==
  phase = "verified" => \A i \in Completions :
    LET e == Evidence(plan[i].seed) IN
      /\ cases[i].status = CompletedStatus(plan[i].expects, e.result.failure)
      /\ cases[i].observed = e.result.failure
      /\ [cases[i].native[1] EXCEPT !.result.state = "observed"] = e

(* What exact replay accepts is what the execution left, state included.   *)
ReplayedIsGenuine ==
  \A i \in replayed : offered[i] = <<Evidence(plan[i].seed)>>

(* A suite the executor made always verifies against its own evidence.     *)
OwnEvidenceVerifies == phase = "rejected" => altered

(* The summary of a sweep leaves out no case that was not a success, and   *)
(* its seeds tell the cases apart.                                         *)
SummaryAddsUp ==
  summary # <<>> /\ ~altered =>
    /\ summary[2] = {plan[i].seed :
          i \in {j \in DOMAIN plan : world[plan[j].seed].how # None
                                     \/ plan[j].expects # None \/ cases[j].error # None}}
    /\ Cardinality(summary[2]) = Len(plan) - counts["SUCCESS"]
    /\ Cardinality(summary[3]) + counts["ERROR"] = Len(plan)

(* A suite tells what its cases did, and can prove it.                     *)
SuiteIsGenuine ==
  /\ TypeOK /\ BudgetsAreShared /\ StatusIsDeserved /\ VerifiedIsGenuine
  /\ ReplayedIsGenuine /\ OwnEvidenceVerifies /\ SummaryAddsUp
=============================================================================
