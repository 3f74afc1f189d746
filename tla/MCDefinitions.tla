---------------------------- MODULE MCDefinitions ----------------------------
(***************************************************************************)
(* From files to suites: modules are loaded and merged, flows are compiled,*)
(* expressions are judged, resources are resolved and faults applied, and  *)
(* suites of cases are run.  A behaviour is one of one component;          *)
(* variables of the same name are shared, and those of the others rest.    *)
(***************************************************************************)
EXTENDS Integers, SequencesExt, FiniteSetsExt, TLC

CONSTANTS
  Layouts, MaxModules, MaxFile, MaxAggregate,
  Programs, Root,
  MaxDepth, Derivations,
  Documents, InputSets, MaxHits,
  Seeds, Worlds, Plans, Sweeps, MaxCases, MaxInput, MaxCaseSelections,
  MaxSelections, MaxRetained

VARIABLES
  component,
  layout, sizes, phase, code, reading, loaded, accepted, composed,
  first, doc, actor, visiting, complete, stack, place, subflow, path,
  flags, verdict, pending, done, failed, engine, inputs, run, remaining,
  order, resources, base, consumed, next, applied, observed, executed,
  report, world, plan, selections, retained, cases, counts, status,
  offered, altered, replayed, summary

Loading == INSTANCE Composition
Compiling == INSTANCE DslCompile WITH Documents <- Programs
Judging == INSTANCE DslExpressions
Preparing == INSTANCE Preparation
Running == INSTANCE EngineSuite

ASSUME LayoutsAssumption == Loading!LayoutsAreWellFormed
ASSUME ProgramsAssumption == Compiling!DocumentsAreWellFormed
ASSUME DerivationsAssumption == Judging!DerivationsAreFinite
ASSUME PreparationAssumption == Preparing!DocumentsAreWellFormed
ASSUME WorldsAssumption == Running!ExecutionsAreSized

-----------------------------------------------------------------------------
(* Roots and modules whose declarations refer to each other within and     *)
(* across namespaces, in every section, with names that collide, name an   *)
(* alias, or are nowhere.                                                  *)
MCDecl(section, name, refs) == [section |-> section, name |-> name, refs |-> refs]
MCReference(kind, to) == [kind |-> kind, to |-> to]
MCRef(kind, to) == {MCReference(kind, to)}
MCPlain(section, name) == MCDecl(section, name, {})
MCSite(step, through) ==
  MCRef("selector", step) \cup {MCReference("subflow_path", node) : node \in through}

MCRoots ==
  {{MCDecl("steps", <<"s">>, MCRef("subflow", <<"a", "f">>)), MCDecl("resources", <<"r">>, MCRef("$ref", <<"a", "x">>)),
    MCDecl("faults", <<"q">>, MCSite(<<"s">>, {<<"s">>, <<"a", "s">>}))},
   {MCPlain("constraints", <<"a", "c">>), MCPlain("resources", <<"x">>)},
   {MCDecl("faults", <<"q">>, MCRef("selector", <<"a", "s">>)), MCPlain("steps", <<"s">>)},
   {MCPlain("resources", <<"a">>), MCPlain("steps", <<"a">>)}}

MCModulesA ==
  {{MCPlain("resources", <<"x">>), MCDecl("resources", <<"y">>, MCRef("$ref", <<"x">>)),
    MCDecl("subflows", <<"f">>, {}), MCDecl("steps", <<"s">>, MCRef("$resource", <<"b", "x">>)),
    MCDecl("faults", <<"q">>, MCSite(<<"s">>, {<<"s">>, <<"a", "s">>, <<"b", "s">>}))},
   {MCDecl("resources", <<"x">>, MCRef("$ref", <<"b", "x">>)), MCPlain("constraints", <<"c">>),
    MCDecl("faults", <<"q">>, MCRef("expect", <<"c">>)), MCPlain("subflows", <<"f">>)},
   {MCPlain("resources", <<"b">>), MCDecl("constraints", <<"c">>, MCRef("$resource", <<"b", "x">>)), MCPlain("subflows", <<"f">>)},
   {MCPlain("steps", <<"b", "s">>), MCDecl("steps", <<"s">>, MCRef("transition", <<"b", "s">>)), MCPlain("subflows", <<"f">>),
    MCDecl("faults", <<"q">>, MCRef("selector", <<"s">>))},
   {MCDecl("steps", <<"s">>, MCRef("subflow", <<"f">>)), MCPlain("steps", <<"b", "s">>), MCPlain("resources", <<"x">>)},
   {}}

MCModulesB ==
  {{MCPlain("resources", <<"x">>), MCDecl("resources", <<"y">>, MCRef("$ref", <<"a", "x">>)), MCPlain("steps", <<"s">>)},
   {MCDecl("resources", <<"x">>, MCRef("$ref", <<"a", "y">>)), MCDecl("faults", <<"q">>, MCRef("expect", <<"a", "c">>))},
   {MCDecl("constraints", <<"c">>, MCRef("$resource", <<"z">>)), MCDecl("resources", <<"x">>, MCRef("$ref", <<"a", "x">>))},
   {MCPlain("resources", <<"x">>), MCDecl("resources", <<"y">>, MCRef("$ref", <<"x">>)),
    MCDecl("subflows", <<"f">>, {}), MCDecl("steps", <<"s">>, MCRef("$resource", <<"b", "x">>))}}

MCFile(type, identity, declares) == [type |-> type, identity |-> identity, declares |-> declares]

MCLayout(r, a, b) ==
  [root |-> r, modules |-> ("a" :> "m1") @@ ("b" :> "m2"),
   files |-> ("m1" :> MCFile("file", "a", a)) @@ ("m2" :> MCFile("file", "b", b))]

MCBroken ==
  LET x == {MCPlain("resources", <<"x">>)}
      good == MCFile("file", "a", x)
  IN {[root |-> {}, modules |-> ("a" :> "m1"), files |-> ("m1" :> f)] :
        f \in {good, MCFile("link", "a", x), MCFile("file", "b", x)}}
     \cup {[root |-> {}, modules |-> ("a" :> "m2"), files |-> ("m1" :> good)],
           [root |-> {}, modules |-> ("a" :> "m2"), files |-> ("m2" :> good)],
           [root |-> {}, modules |-> [m \in {"a", "b", "c"} |-> "m1"], files |-> ("m1" :> good)]}

MCLayouts == {MCLayout(r, a, b) : r \in MCRoots, a \in MCModulesA, b \in MCModulesB} \cup MCBroken
             \cup {MCLayout({}, a, b) : a, b \in MCModulesB}

(* All documents of one actor whose three subflows call one another        *)
(* through calls, cases and else branches, in any way, with and without a  *)
(* transition that is wrong; and documents of two actors that share ids.   *)
MCNames == {"f", "g", "h"}
MCNoNode == "null"
MCControl(kind, id, to, alternatives, default) ==
  [id |-> id, kind |-> kind, cases |-> alternatives, default |-> default, to |-> to, writes |-> {}]
MCStep(id, to, writes) ==
  [MCControl("step", id, to, <<>>, <<>>) EXCEPT !.writes = writes]
MCFlow(f, body) ==
  CASE body = {} -> <<MCStep(f, MCNoNode, {"x"})>>
    [] Cardinality(body) = 1 ->
         <<MCStep(f, f \o "c", {"x"}), MCControl("call", f \o "c", MCNoNode, SetToSeq(body), <<>>)>>
    [] OTHER -> LET s == SetToSeq(body) IN
         <<MCControl("branch", f \o "c", MCNoNode, Front(s), <<Last(s)>>)>>
MCRoot(to) == <<MCControl("repeat", "r", "s", <<"f">>, <<>>), MCStep("s", to, {"y"})>>
MCActor(calls, to) ==
  (Root :> MCRoot(to)) @@ [f \in MCNames |-> MCFlow(f, calls[f])]
MCSelected(step, target) == [step |-> step, target |-> target]

MCOne ==
  {[version |-> 1, actors |-> <<MCActor(calls, MCNoNode)>>, faults |-> fs] :
     calls \in {c \in [MCNames -> SUBSET (MCNames \cup {"k"})] :
                  Cardinality({f \in MCNames : "k" \in c[f]}) <= 1},
     fs \in {<<>>}}
  \cup {[version |-> 1, actors |-> <<MCActor([f \in MCNames |-> {}], to)>>, faults |-> fs] :
     to \in {MCNoNode, "r", "s"}, fs \in {<<MCSelected("s", "y")>>, <<MCSelected("s", "x")>>, <<MCSelected("f", "x")>>, <<MCSelected("fc", "x")>>}}
  \cup {[version |-> 1, actors |-> <<(Root :> <<MCControl("branch", "s", "f", <<"f">>, <<>>), MCStep("f", MCNoNode, {})>>) @@ ("f" :> <<MCStep(i, MCNoNode, {})>>)>>, faults |-> <<>>] : i \in {"f", "g"}}
  \cup {[version |-> 1, actors |-> <<(Root :> <<MCControl("call", "s", MCNoNode, c, <<>>)>>) @@ ("f" :> b)>>, faults |-> <<>>] :
          c \in {<<"f">>, <<>>}, b \in {<<>>, <<MCStep("t", MCNoNode, {})>>}}

MCLone(id, to, writes) == (Root :> <<MCStep(id, to, writes)>>)
MCTwoActors ==
  {[version |-> 2, actors |-> <<MCLone("s", MCNoNode, {"x"}), MCLone("s", MCNoNode, {"y"})>>, faults |-> fs] :
     fs \in {<<>>, <<MCSelected("s", "x")>>, <<MCSelected("s", "y")>>}}
  \cup {[version |-> 2, actors |-> <<MCActor([f \in MCNames |-> IF f = "f" THEN {"g"} ELSE {}], MCNoNode),
                                   MCActor([f \in MCNames |-> IF f = "g" THEN b ELSE {}], MCNoNode)>>, faults |-> <<>>] :
     b \in SUBSET {"g", "h"}}
MCPrograms == MCOne \cup MCTwoActors

(* Expressions of depth two, and all ways in which three derived names     *)
(* refer to up to two names, one of them unknown.                          *)
MCRefs == {<<>>, <<"a">>, <<"b">>, <<"c">>, <<"a", "b">>, <<"b", "c">>, <<"c", "a">>}
MCDerivations ==
  {<<>>} \cup [{"a", "b", "c"} -> MCRefs] \cup [{"a", "b"} -> MCRefs \cup {<<"x">>}]

(* Documents of up to three resources that refer to each other in every    *)
(* way worth telling apart: a chain, a diamond within one value, a cycle   *)
(* of two with a bystander, a name or a segment that is not there.         *)
MCLiteral(v) == [op |-> "literal", value |-> v, path |-> <<>>]
MCInput(p) == [op |-> "$input", value |-> 0, path |-> p]
MCPath(p) == [op |-> "$ref", value |-> 0, path |-> p]
MCScalar(v) == (<<>> :> v)
MCMap(f, a, g, b) == (<<f>> :> a) @@ (<<g>> :> b)

MCResources ==
  {("a" :> MCScalar(MCLiteral(1))) @@ ("b" :> MCScalar(MCPath(<<"a">>))) @@ ("c" :> MCMap("f", MCPath(<<"b">>), "g", MCInput(<<"x", "f">>))),
   ("a" :> MCMap("f", MCInput(<<"x", "f">>), "g", MCLiteral(1))) @@ ("b" :> MCScalar(MCPath(<<"a">>)))
     @@ ("c" :> MCMap("f", MCPath(<<"b", "f">>), "g", MCPath(<<"a", "g">>))),
   ("a" :> MCScalar(MCInput(<<"y">>))) @@ ("b" :> MCScalar(MCInput(<<"x">>))) @@ ("c" :> MCScalar(MCPath(<<"b">>))),
   ("a" :> MCScalar(MCPath(<<"b">>))) @@ ("b" :> MCMap("f", MCLiteral(1), "g", MCPath(<<"a">>))) @@ ("c" :> MCScalar(MCLiteral(1))),
   ("a" :> MCScalar(MCLiteral(1))) @@ ("b" :> MCScalar(MCPath(<<"a", "f">>))),
   ("a" :> MCScalar(MCLiteral(1))) @@ ("b" :> MCMap("f", MCPath(<<"d">>), "g", MCLiteral(1)))}

MCFault(id, at, enabled, where, value, expects, strict) ==
  [id |-> id, at |-> at, enabled |-> enabled, path |-> where, value |-> value,
   expects |-> expects, strict |-> strict]

MCFaults ==
  {<<>>,
   <<MCFault("f1", "before_validation", TRUE, <<"a">>, MCLiteral(2), {"c1"}, FALSE)>>,
   <<MCFault("f1", "before_validation", TRUE, <<"a">>, MCPath(<<"b">>), {}, FALSE),
     MCFault("f2", "before_validation", TRUE, <<"b">>, MCLiteral(2), {"i1"}, TRUE)>>,
   <<MCFault("f1", "before_validation", TRUE, <<"c", "f">>, MCLiteral(2), {"c1"}, FALSE),
     MCFault("f2", "before_step", TRUE, <<>>, MCLiteral(0), {"i1"}, FALSE)>>,
   <<MCFault("f1", "before_validation", FALSE, <<"a">>, MCLiteral(2), {"c1"}, FALSE),
     MCFault("f2", "before_validation", TRUE, <<"b", "f">>, MCLiteral(2), {}, TRUE)>>}

MCValidators == {<<>>, <<[path |-> <<"c">>, allowed |-> {MCScalar(1), MCMap("f", 1, "g", 1), MCMap("f", 2, "g", 1)}]>>}
MCConstraints ==
  {<<>>, <<[id |-> "c1", path |-> <<"a">>, value |-> 1], [id |-> "c2", path |-> <<"b">>, value |-> 1]>>,
   <<[id |-> "c1", path |-> <<"c", "f">>, value |-> 1]>>}
MCOracles ==
  {[expected |-> e, strict |-> s] : e \in {{}, {"c1"}, {"i1"}, {"c1", "c2"}}, s \in BOOLEAN}

MCDocuments ==
  {[resources |-> r, faults |-> f, validators |-> v, constraints |-> c, invariants |-> {"i1"},
    oracle |-> o] :
     r \in MCResources, f \in MCFaults, v \in MCValidators, c \in MCConstraints, o \in MCOracles}

MCInputSets ==
  {(<<"x", "f">> :> 1) @@ (<<"x", "g">> :> 1),
   (<<"x", "f">> :> 1) @@ (<<"x", "g">> :> 2) @@ (<<"y">> :> 1),
   (<<"x", "f">> :> 2) @@ (<<"x", "g">> :> 1),
   (<<"x">> :> 1) @@ (<<"y">> :> 1)}

(* Three seeds, of which one may do anything and the others complete, with *)
(* different selections and sizes; plans of up to three cases.             *)
MCRun(how, n, size) == [how |-> how, n |-> n, size |-> size]
MCRequest(id, seed, expects, input) ==
  [id |-> id, seed |-> seed, expects |-> expects, input |-> input]

MCRuns ==
  {MCRun(how, n, 1) : how \in
       {"none", "InvariantViolation", "OtherFailure", "plugin", "internal", "unbuilt", "broken", "unserial"},
                    n \in 1..3}
  \cup {MCRun("none", 1, 2)}

MCWorlds ==
  {(1 :> r) @@ (2 :> MCRun("InvariantViolation", 2, 1)) @@ (3 :> MCRun("none", 1, size)) :
     r \in MCRuns, size \in 1..2}

MCPlans ==
  {<<MCRequest("a", 1, "none", 1), MCRequest("b", 2, "InvariantViolation", 1), MCRequest("c", s, e, 1)>> :
     s \in 1..3, e \in {"none", "InvariantViolation", "OtherFailure"}}
  \cup {<<MCRequest("a", 2, "none", 1), MCRequest("b", 1, e, 1)>> :
          e \in {"none", "InvariantViolation", "OtherFailure"}}
  \cup {<<>>, <<MCRequest("a", 1, "none", 1), MCRequest("a", 2, "none", 1)>>,
        <<MCRequest("a", 1, "none", 2), MCRequest("b", 2, "none", 2)>>}

MCSweeps == {<<1>>, <<1, 3>>, <<2, 1, 3>>, <<3, 3>>}

-----------------------------------------------------------------------------
(* The variables of one component, and of those that share some.           *)
OfLoaded == <<layout, sizes, reading, loaded, accepted, composed>>
OfCompiled == <<actor, visiting, complete, stack>>
OfJudged == <<place, subflow, path, flags, verdict, pending, done, failed>>
OfPrepared == <<engine, inputs, run, remaining, order, resources, base,
  consumed, next, applied, observed, executed, report>>
OfRun == <<world, plan, selections, retained, cases, counts, status, offered,
  altered, replayed, summary>>

(* Before anything happens to them.                                        *)
Resting == "resting"
NothingLoaded ==
  /\ layout = Resting /\ sizes = Resting /\ reading = Resting
  /\ loaded = Resting /\ accepted = Resting /\ composed = Resting
NothingCompiled ==
  /\ actor = Resting /\ visiting = Resting /\ complete = Resting
  /\ stack = Resting
NothingJudged ==
  /\ place = Resting /\ subflow = Resting /\ path = Resting
  /\ flags = Resting /\ verdict = Resting /\ pending = Resting
  /\ done = Resting /\ failed = Resting
NothingPrepared ==
  /\ engine = Resting /\ inputs = Resting /\ run = Resting
  /\ remaining = Resting /\ order = Resting /\ resources = Resting
  /\ base = Resting /\ consumed = Resting /\ next = Resting
  /\ applied = Resting /\ observed = Resting /\ executed = Resting
  /\ report = Resting
NothingRun ==
  /\ world = Resting /\ plan = Resting /\ selections = Resting
  /\ retained = Resting /\ cases = Resting /\ counts = Resting
  /\ status = Resting /\ offered = Resting /\ altered = Resting
  /\ replayed = Resting /\ summary = Resting

DefinitionsInit ==
  \/ /\ component = "loading" /\ Loading!Init
     /\ NothingCompiled /\ NothingJudged /\ NothingPrepared /\ NothingRun
     /\ doc = Resting
  \/ /\ component = "compiling" /\ Compiling!Init
     /\ NothingLoaded /\ NothingJudged /\ NothingPrepared /\ NothingRun
     /\ first = Resting
  \/ /\ component = "judging" /\ Judging!Init
     /\ NothingLoaded /\ NothingCompiled /\ NothingPrepared /\ NothingRun
     /\ phase = Resting /\ code = Resting /\ first = Resting /\ doc = Resting
  \/ /\ component = "preparing" /\ Preparing!Init
     /\ NothingLoaded /\ NothingCompiled /\ NothingJudged /\ NothingRun
  \/ /\ component = "running" /\ Running!Init
     /\ NothingLoaded /\ NothingCompiled /\ NothingJudged /\ NothingPrepared
     /\ code = Resting /\ first = Resting /\ doc = Resting

DefinitionsNext ==
  \/ /\ component = "loading" /\ Loading!Next
     /\ UNCHANGED <<component, doc, OfCompiled, OfJudged, OfPrepared, OfRun>>
  \/ /\ component = "compiling" /\ Compiling!Next
     /\ UNCHANGED <<component, first, OfLoaded, OfJudged, OfPrepared, OfRun>>
  \/ /\ component = "judging" /\ Judging!Next
     /\ UNCHANGED <<component, phase, code, first, doc, OfLoaded,
                    OfCompiled, OfPrepared, OfRun>>
  \/ /\ component = "preparing" /\ Preparing!Next
     /\ UNCHANGED <<component, OfLoaded, OfCompiled, OfJudged, OfRun>>
  \/ /\ component = "running" /\ Running!Next
     /\ UNCHANGED <<component, code, first, doc, OfLoaded, OfCompiled,
                    OfJudged, OfPrepared>>

definitions ==
  <<component, phase, code, first, doc, OfLoaded, OfCompiled, OfJudged,
    OfPrepared, OfRun>>

(* The fairness of DslCompile; the others are checked for safety.          *)
DefinitionsSpec ==
  /\ DefinitionsInit /\ [][DefinitionsNext]_definitions
  /\ WF_(Compiling!vars)(component = "compiling" /\ Compiling!Next)

-----------------------------------------------------------------------------
(* Composition: bounds hold whatever files grow to, every reference means  *)
(* in the composed scenario what it meant where it was written, except for *)
(* the paths of faults, whose nodes mean what they mean in the root;       *)
(* nothing is lost, no cycle is added, and the identity tells the content. *)
CompositionIsFaithful == component = "loading" => Loading!CompositionIsFaithful

(* The DSL front-end: a cycle is refused only where there is one, what is  *)
(* compiled never nests a flow in itself, positions agree with transitions,*)
(* faults hit what a step declares; the parser accepts what can be         *)
(* evaluated, and derived values follow what they refer to.                *)
FrontEndIsSound ==
  /\ component = "compiling" => Compiling!CompiledIsSound
  /\ component = "judging" => Judging!JudgedAsEvaluated

(* Compilation ends, and every run of what was compiled.                   *)
CompilationEnds == component = "compiling" => Compiling!Ends

(* Preparation: resolution satisfies every declaration at once, faults are *)
(* local, a replay prepares alike, and a pass means what was observed.     *)
PreparationIsFaithful == component = "preparing" => Preparing!PreparationIsFaithful

(* The cases of a suite share budgets and have the status they deserve;    *)
(* what verifies or replays is what was executed, the suite's own evidence *)
(* always does, and the summary accounts for every case.                   *)
SuiteIsGenuine == component = "running" => Running!SuiteIsGenuine
-----------------------------------------------------------------------------
(* docs/phase5-architecture.md:145: enabled faults before validation are   *)
(* applied before scheduling starts.                                       *)
FaultsPrecedeScheduling == component = "preparing" => Preparing!FaultsPrecedeScheduling
=============================================================================
