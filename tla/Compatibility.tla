--------------------------- MODULE Compatibility ---------------------------
(***************************************************************************)
(* Compatibility reports and migration plans (evidence/compatibility.py),  *)
(* and what the executor of plans accepts (evidence/migration.py).         *)
(*                                                                         *)
(* Three tables decide: the rules (what can be done with an artifact), the *)
(* routes (how it may be migrated) and the transformations the executor    *)
(* knows, which are in another file.  A caller describes an artifact,      *)
(* supplies the local values of its coordinates one after the other, asks  *)
(* for reports, and submits a plan: the planner's, or one it built.        *)
(***************************************************************************)
EXTENDS Integers, FiniteSets, SequencesExt

CONSTANTS
  Subjects,   \* the artifacts a caller describes: kind, schema, major
  Knowledge,  \* what a caller may know of their coordinates at first
  Targets,    \* target contracts asked of the planner
  Built       \* the steps from which callers build plans of their own

Container == "evidence.bundle/1"
Legacy == "legacy-replay-unsupported"

(* The requirements in the order of their values.                          *)
Requirements ==
  <<"composition-context", "domain-pack-context", "dsl-version",
    "engine-version", "matrix-case", "plugin-context", "resource-hashes",
    "scenario-hash", "source-bytes">>
Core == {"engine-version", "dsl-version", "scenario-hash", "source-bytes"}
Suite == Core \cup {"resource-hashes", "composition-context"}
Matrix == Suite \cup {"matrix-case"}
Pack == {"domain-pack-context", "plugin-context"}

Subject(kind, schema, major) == [kind |-> kind, schema |-> schema, major |-> major]

(* Of each artifact what executing and replaying it require, or, where     *)
(* nothing can be required, why neither can be done.                       *)

(* Mutant: what executing and what replaying require are swapped.          *)
RuleSwapped(kind, schema, major, execute, replay, whyNot) ==
  [subject |-> Subject(kind, schema, major), EXECUTABLE |-> replay,
   REPLAYABLE |-> execute, whyNot |-> whyNot]

Rule(kind, schema, major, execute, replay, whyNot) ==
  [subject |-> Subject(kind, schema, major), EXECUTABLE |-> execute,
   REPLAYABLE |-> replay, whyNot |-> whyNot]

(* Mutant: nothing says why an artifact cannot be executed.                *)
NeverUnexplained(kind, schema, major, whyNot) == Rule(kind, schema, major, {}, {}, "")

Never(kind, schema, major, whyNot) == Rule(kind, schema, major, {}, {}, whyNot)

Rules ==
  {Never("result", "scenario.result/1", 1, Legacy),
   Never("manifest", "scenario.manifest/1", 1, Legacy),
   Rule("dsl", "scenario.dsl/1", 1, Core \ {"scenario-hash"}, Core, ""),
   Rule("result", "scenario.result/1", 2, Core, Core, ""),
   Rule("manifest", "scenario.manifest/1", 2, Core, Core, ""),
   Rule("suite", "suite.manifest/1", 2, Suite, Suite, ""),
   Rule("composition", "composition.modules/1", 2, Suite, Suite, ""),
   Rule("matrix", "suite.matrix/1", 2, Matrix, Matrix, ""),
   Never("batch", "suite.batch/1", 2, "batch-record-not-execution-state"),
   Rule("domain-pack", "domain-pack/1", 2, Pack, Pack, ""),
   Never("oracle-assertion", "oracle.assertion/1", 2, "assertion-execution-not-implied"),
   Never("oracle-evaluation", "oracle.evaluation/1", 2, "assertion-execution-not-implied"),
   Never("evidence-bundle", Container, 3, "child-execution-not-implied")}
   \cup {Never(readable[1], "evidence." \o readable[2], 3,
                "execution-not-implied-by-readability") :
           readable \in
             {<<"evidence-adapter-capability", "adapter-capability/1">>,
              <<"evidence-adapter-receipt", "adapter-receipt/1">>,
              <<"evidence-compatibility-report", "compatibility-report/1">>,
              <<"evidence-migration-plan", "migration-plan/1">>}}

(* Every route is one step that wraps the source.                          *)
Wrapper(schema, id) == [id |-> id, source |-> schema, target |-> Container]
Route(kind, schema, major, id) ==
  [subject |-> Subject(kind, schema, major), target |-> Container,
   steps |-> <<Wrapper(schema, id)>>]
Routes ==
  {Route("result", "scenario.result/1", 1, "wrap-v1-result"),
   Route("manifest", "scenario.manifest/1", 1, "wrap-v1-manifest"),
   Route("suite", "suite.manifest/1", 2, "wrap-v2-suite"),
   Route("composition", "composition.modules/1", 2, "wrap-v2-composition"),
   Route("matrix", "suite.matrix/1", 2, "wrap-v2-matrix"),
   Route("batch", "suite.batch/1", 2, "wrap-v2-batch")}

(* What the executor knows of them.                                        *)
Transformations ==
  [id \in {r.steps[1].id : r \in Routes} |->
     CASE id = "wrap-v1-manifest" -> <<"manifest", "scenario.manifest/1">>
       [] id = "wrap-v1-result" -> <<"result", "scenario.result/1">>
       [] id = "wrap-v2-batch" -> <<"batch", "suite.batch/1">>
       [] id = "wrap-v2-composition" -> <<"composition", "composition.modules/1">>
       [] id = "wrap-v2-matrix" -> <<"matrix", "suite.matrix/1">>
       [] id = "wrap-v2-suite" -> <<"suite", "suite.manifest/1">>]

VARIABLES
  subject,
  local,      \* requirement -> what the caller knows: nothing, the expected value, another
  report,     \* capability -> its determination; <<>> before one is asked for
  plan,       \* the last plan; NoPlan
  submitted   \* the descriptor it was last submitted with, and if it was accepted

vars == <<subject, local, report, plan, submitted>>

Unknown == "unknown"
Same == "same"
Other == "other"
Locals == {Unknown, Same, Other}

Capabilities ==
  {"READABLE", "INSPECTABLE", "DIFFABLE", "EXECUTABLE", "REPLAYABLE", "MIGRATABLE"}
Row(disposition, reason, requirements) ==
  [supported |-> disposition, reason |-> reason, requirements |-> requirements]
Supported == Row(TRUE, "supported", {})

-----------------------------------------------------------------------------
(* The one rule with two reasons: the record of a batch is no state of an  *)
(* execution, and what could be replayed are its children.                 *)
WhyNot(rule, capability) ==
  IF rule.subject.kind = "batch" /\ capability = "REPLAYABLE"
  THEN "child-execution-not-implied" ELSE rule.whyNot

(* _rule_for: the rule of this kind, schema and major version.             *)
RulesFor(s) == {r \in Rules : r.subject = s}
AbsentReason(s) ==
  IF \E r \in Rules : r.subject.kind = s.kind /\ r.subject.schema = s.schema
  THEN "unknown-version" ELSE "unsupported-schema"

Mismatch(name) ==
  CASE name = "engine-version" -> "engine-version-mismatch"
    [] name = "dsl-version" -> "dsl-version-mismatch"
    [] OTHER -> "coordinate-mismatch"

(* Mutant: what is not known is not missed.                                *)
RequiredIfKnown(known, names) ==
  LET Having(value) ==
        {i \in DOMAIN Requirements : Requirements[i] \in names /\ known[Requirements[i]] = value}
  IN IF Having(Other) # {} THEN Row(FALSE, Mismatch(Requirements[Min(Having(Other))]), names)
     ELSE Row(TRUE, "supported", names)

(* _required: something is missing if nothing is known of a coordinate;    *)
(* otherwise the first, in their order, of which something else is known   *)
(* is the reason.                                                          *)
Required(known, names) ==
  LET Having(value) ==
        {i \in DOMAIN Requirements : Requirements[i] \in names /\ known[Requirements[i]] = value}
  IN IF Having(Unknown) # {} THEN Row(FALSE, "missing-required-coordinate", names)
     ELSE IF Having(Other) # {}
     THEN Row(FALSE, Mismatch(Requirements[Min(Having(Other))]), names)
     ELSE Row(TRUE, "supported", names)

RouteFor(s, target) ==
  LET known == {r \in Routes : r.subject = s /\ r.target = target}
  IN IF known = {} THEN <<>> ELSE (CHOOSE r \in known : TRUE).steps

(* plan_migration: a route makes a plan, which its constructor checks.     *)
WellFormed(p) ==
  IF p.steps = <<>> THEN TRUE
  ELSE /\ p.steps[1].source = p.source.schema
       /\ Last(p.steps).target = p.target
       /\ \A i \in 1..(Len(p.steps) - 1) : p.steps[i].target = p.steps[i + 1].source
       /\ Cardinality({p.steps[1].source} \cup {p.steps[i].target : i \in DOMAIN p.steps})
            = Len(p.steps) + 1

PlanOf(s, target) == [source |-> s, target |-> target, steps |-> RouteFor(s, target)]
NoPlan == [source |-> Subject("", "", 0), target |-> "", steps |-> <<>>]
Planned(p) == p.steps # <<>>

(* compatibility_report, a row for each capability.                        *)
Determine(s, known, capability) ==
  LET rules == RulesFor(s)
      rule == CHOOSE r \in rules : TRUE
      reads == {"READABLE", "INSPECTABLE", "DIFFABLE"}
  IN CASE rules = {} -> Row(FALSE, AbsentReason(s), {})
       [] rules # {} /\ capability \in reads -> Supported
       [] rules # {} /\ capability \in {"EXECUTABLE", "REPLAYABLE"} ->
            IF rule[capability] # {} THEN Required(known, rule[capability])
            ELSE Row(FALSE, WhyNot(rule, capability), {})
       [] OTHER -> IF Planned(PlanOf(s, Container)) THEN Supported
                   ELSE Row(FALSE, "no-lossless-migration-path", {})

(* Mutant: the descriptor is not compared with the plan's.                 *)
AcceptsAnySource(p, s) ==
  /\ Len(p.steps) = 1 /\ WellFormed(p)
  /\ p.target = Container
  /\ LET step == p.steps[1] IN
       /\ step.id \in DOMAIN Transformations
       /\ <<s.kind, s.schema>> = Transformations[step.id]
       /\ step.source = s.schema

(* _validate_plan of the executor.  It compares kinds, schemas and         *)
(* contracts.                                                              *)
Accepts(p, s) ==
  /\ p.source = s /\ Len(p.steps) = 1 /\ WellFormed(p)
  /\ p.target = Container
  /\ LET step == p.steps[1] IN
       /\ step.id \in DOMAIN Transformations
       /\ <<s.kind, s.schema>> = Transformations[step.id]
       /\ step.source = s.schema

-----------------------------------------------------------------------------
Plan(target) ==
  /\ plan' = PlanOf(subject, target) /\ WellFormed(plan')
  /\ submitted' = <<>> /\ UNCHANGED <<subject, local, report>>

(* A caller builds the plan: the constructors let through what is a chain  *)
(* from the schema of the source to the target.                            *)
Build(steps, target) ==
  /\ plan' = [source |-> subject, target |-> target, steps |-> steps]
  /\ Planned(plan') /\ WellFormed(plan')
  /\ submitted' = <<>> /\ UNCHANGED <<subject, local, report>>

Report ==
  /\ report' = [c \in Capabilities |-> Determine(subject, local, c)]
  /\ UNCHANGED <<subject, local, plan, submitted>>

(* Another descriptor of the artifact, with one more value.                *)
Supply(name, value) ==
  /\ local[name] = Unknown /\ local' = [local EXCEPT ![name] = value]
  /\ UNCHANGED <<subject, report, plan, submitted>>

(* execute_lossless_migration as far as its checks.                        *)
Submit(descriptor) ==
  /\ plan # NoPlan
  /\ submitted' = <<descriptor, Accepts(plan, descriptor)>>
  /\ UNCHANGED <<subject, local, report, plan>>

Init ==
  /\ subject \in Subjects /\ local \in Knowledge
  /\ report = <<>> /\ plan = NoPlan /\ submitted = <<>>

Next ==
  \/ \E target \in Targets : Plan(target)
  \/ \E steps \in Built, target \in Targets : Build(steps, target)
  \/ Report
  \/ \E descriptor \in Subjects : Submit(descriptor)
  \/ \E n \in Range(Requirements), value \in Locals \ {Unknown} : Supply(n, value)

Spec == Init /\ [][Next]_vars

(* What a caller may know: of each coordinate nothing, the value that is   *)
(* expected, or another.                                                   *)
KnowledgeIsWellFormed == Knowledge \subseteq [Range(Requirements) -> Locals]

-----------------------------------------------------------------------------
Reasons ==
  {"supported", "unsupported-schema", "unknown-version",
   "missing-required-coordinate", "coordinate-mismatch",
   "engine-version-mismatch", "dsl-version-mismatch",
   "execution-not-implied-by-readability", Legacy,
   "assertion-execution-not-implied", "child-execution-not-implied",
   "batch-record-not-execution-state", "no-lossless-migration-path"}

TypeOK ==
  /\ subject \in Subjects /\ local \in [Range(Requirements) -> Locals]
  /\ \A c \in DOMAIN report :
       /\ report[c].reason \in Reasons
       /\ report[c].supported <=> report[c].reason = "supported"
  /\ plan # NoPlan => plan.source = subject /\ WellFormed(plan)
  /\ submitted = <<>> \/ submitted \in Subjects \X BOOLEAN

(* The tables of two files agree: what the planner plans the executor      *)
(* executes, with the descriptor it was planned for and with no other.     *)
PlannedIsExecuted ==
  submitted # <<>> =>
    IF plan = PlanOf(subject, plan.target) /\ Planned(plan)
    THEN submitted[2] <=> submitted[1] = subject
    ELSE submitted[2] => submitted[1] = subject

(* What a report calls migratable can be read and migrated, and what it    *)
(* calls replayable can be executed.                                       *)
CapabilitiesNest ==
  report # <<>> =>
    /\ report["MIGRATABLE"].supported =>
         report["READABLE"].supported /\ Accepts(PlanOf(subject, Container), subject)
    /\ report["REPLAYABLE"].supported =>
         /\ report["EXECUTABLE"].supported
         /\ report["EXECUTABLE"].requirements \subseteq report["REPLAYABLE"].requirements

(* A caller who learns more loses no capability by it.                     *)
LosesNothing ==
  report # <<>> /\ report' # <<>> =>
    \A c \in Capabilities : report[c].supported => report'[c].supported
KnowingMoreLosesNothing == [][LosesNothing]_vars

(* What is promised can be done.                                           *)
PromisesAreKept == TypeOK /\ PlannedIsExecuted /\ CapabilitiesNest
=============================================================================
