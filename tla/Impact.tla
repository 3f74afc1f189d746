-------------------------------- MODULE Impact --------------------------------
(***************************************************************************)
(* Two definitions compared and the impact of their differences            *)
(* (definition_diff.py, impact.py): entities with a semantic address are   *)
(* compared one by one, both definitions become graphs of what may depend  *)
(* on what, and the union of the graphs is searched from every change.     *)
(*                                                                         *)
(* An address is a sequence of <<kind, name>>.  An expression is a text    *)
(* that tells expressions apart, the references in it, and whether it is   *)
(* opaque (a plugin) or a $ref as a whole.  A definition keeps the flows   *)
(* of an owner under the address of its actor, or <<>> in DSL 1.           *)
(***************************************************************************)
EXTENDS Integers, SequencesExt, FiniteSetsExt

CONSTANTS
  Comparisons,     \* pairs of definitions
  MaxChanges, MaxNodes, MaxEdges, MaxDepth, MaxRecords

VARIABLES
  left, right,
  offered,         \* a diff supplied by the caller: none, own or reversed
  phase, code,
  changes,         \* changes found; after that, those yet to be traced
  before, union,   \* the graph of left, and the union of both
  change,          \* the change being traced, with the entities it changes
  queue, visited,  \* the search: entities with what is known of the path
  best,            \* classification of the entities found so far
  records          \* [change, path, class, reason]

vars == <<left, right, offered, phase, code, changes, before, union, change,
          queue, visited, best, records>>

-----------------------------------------------------------------------------
(* The diff.                                                               *)
Change(kind, path) == [kind |-> kind, path |-> path]

(* _record of one entity both sides have, of which one may have changed.   *)
Compared(path, l, r) == IF l = r THEN {} ELSE {Change("CHANGED", path)}

(* _compare_mapping.                                                       *)
ComparedMapping(base, kind, l, r) ==
  {Change("ADDED", Append(base, <<kind, n>>)) : n \in DOMAIN r \ DOMAIN l}
  \cup {Change("REMOVED", Append(base, <<kind, n>>)) : n \in DOMAIN l \ DOMAIN r}
  \cup UNION {Compared(Append(base, <<kind, n>>), l[n], r[n]) : n \in DOMAIN l \cap DOMAIN r}

(* _keyed: items of a list by their id.                                    *)
Keyed(items) ==
  [n \in {items[i].id : i \in DOMAIN items} |-> CHOOSE item \in ToSet(items) : item.id = n]

(* Mutant: the order of a flow is taken to be in its list.                 *)
ComparedStepUntransferred(base, l, r) ==
  ComparedMapping(base, "generator", l.generate, r.generate)
  \cup ComparedMapping(base, "derive", l.derive, r.derive)
  \cup ComparedMapping(base, "write", l.write, r.write)
  \cup Compared(Append(base, <<"emit", "emissions">>), l.emit, r.emit)
  \cup Compared(Append(base, <<"x-advance", "duration">>), l.advance, r.advance)
  \cup UNION {Compared(Append(base, <<"x-control", k>>), <<l.kind = k, l.body, l.targets>>, <<r.kind = k, r.body, r.targets>>) :
                k \in {l.kind, r.kind} \ {"step"}}

ComparedStep(base, l, r) ==
  ComparedMapping(base, "generator", l.generate, r.generate)
  \cup ComparedMapping(base, "derive", l.derive, r.derive)
  \cup ComparedMapping(base, "write", l.write, r.write)
  \cup Compared(Append(base, <<"emit", "emissions">>), l.emit, r.emit)
  \cup Compared(Append(base, <<"transition", "target">>), l.transition, r.transition)
  \cup Compared(Append(base, <<"x-advance", "duration">>), l.advance, r.advance)
  \cup UNION {Compared(Append(base, <<"x-control", k>>), <<l.kind = k, l.body, l.targets>>, <<r.kind = k, r.body, r.targets>>) :
                k \in {l.kind, r.kind} \ {"step"}}

(* _compare_steps: a step of one side only is one change.                  *)
ComparedSteps(base, l, r) ==
  LET ls == Keyed(l)
      rs == Keyed(r)
  IN  {c \in ComparedMapping(base, "step", ls, rs) : c.kind # "CHANGED"}
      \cup UNION {ComparedStep(Append(base, <<"step", n>>), ls[n], rs[n]) : n \in DOMAIN ls \cap DOMAIN rs}

ComparedFlows(base, l, r) ==
  ComparedSteps(base, l.steps, r.steps)
  \cup {c \in ComparedMapping(base, "x-subflow", l.subflows, r.subflows) : c.kind # "CHANGED"}
  \cup UNION {ComparedSteps(Append(base, <<"x-subflow", f>>), l.subflows[f], r.subflows[f]) :
                f \in DOMAIN l.subflows \cap DOMAIN r.subflows}

(* compare_definitions and _compare_actor_definitions.                     *)
Difference(l, r) ==
  ComparedMapping(<<>>, "x-definition", l.definition, r.definition)
  \cup ComparedMapping(<<>>, "resource", l.resources, r.resources)
  \cup ComparedMapping(<<>>, "constraint", Keyed(l.constraints), Keyed(r.constraints))
  \cup ComparedMapping(<<>>, "invariant", Keyed(l.invariants), Keyed(r.invariants))
  \cup ComparedMapping(<<>>, "fault", Keyed(l.faults), Keyed(r.faults))
  \cup ComparedMapping(<<>>, "x-validator", Keyed(l.validators), Keyed(r.validators))
  \cup Compared(<<<<"oracle", "expectation">>>>, l.oracle, r.oracle)
  \cup {Change("ADDED", o) : o \in DOMAIN r.owners \ DOMAIN l.owners}
  \cup {Change("REMOVED", o) : o \in DOMAIN l.owners \ DOMAIN r.owners}
  \cup UNION {ComparedFlows(o, l.owners[o], r.owners[o]) : o \in DOMAIN l.owners \cap DOMAIN r.owners}

-----------------------------------------------------------------------------
(* The graph: an edge leads to what may depend on where it comes from.     *)
Edge(from, to, kind, unknown) == [from |-> from, to |-> to, kind |-> kind, unknown |-> unknown]
Known(from, to, kind) == Edge(from, to, kind, FALSE)

(* _refs: a $ref is not among them.                                        *)
References(e) == {r \in e.refs : r[1] # "$ref"}

(* _reference_path.                                                        *)
Referred(r, base) ==
  CASE r[1] \in {"state", "resource"} -> <<r>>
    [] r[1] = "local" -> Append(base, <<"generator", r[2]>>)
    [] r[1] = "derived" -> Append(base, <<"derive", r[2]>>)
    [] r[1] = "scope" -> Append(base, <<"x-scope", r[2]>>)

ExpressionEdges(e, to, base, kind) ==
  {Edge(Referred(r, base), to, kind, e.opaque \/ r[1] = "scope") : r \in References(e)}

MappingEdges(base, part, body, kind) ==
  UNION {ExpressionEdges(body[n], Append(base, <<part, n>>), base, kind) : n \in DOMAIN body}

(* _add_step for a step under a prefix.  A subflow is looked for under the *)
(* same prefix, within the subflow that calls it too.                      *)
StepEdges(prefix, s) ==
  LET base == Append(prefix, <<"step", s.id>>)
      At(kind, name) == Append(base, <<kind, name>>)
      named == {At("generator", n) : n \in DOMAIN s.generate} \cup {At("derive", n) : n \in DOMAIN s.derive}
               \cup {At("write", n) : n \in DOMAIN s.write}
      others == {At("x-advance", "duration"), At("transition", "target")}
                \cup (IF s.emit.text = "none" THEN {} ELSE {At("emit", "emissions")})
                \cup (IF s.kind = "step" THEN {} ELSE {At("x-control", s.kind)})
  IN  {Known(base, c, "STEP_COMPONENT") : c \in named \cup others}
      \cup MappingEdges(base, "generator", s.generate, "GENERATOR_ARGUMENT")
      \cup MappingEdges(base, "derive", s.derive, "EXPRESSION_REFERENCE")
      \cup MappingEdges(base, "write", s.write, "EXPRESSION_REFERENCE")
      \cup {Known(At("write", n), <<<<"state", n>>>>, "STATE_WRITE") : n \in DOMAIN s.write}
      \cup ExpressionEdges(s.emit, At("emit", "emissions"), base, "EMISSION_FIELD_REFERENCE")
      \cup (IF s.transition = "null" THEN {}
            ELSE {Known(At("transition", "target"), Append(prefix, <<"step", s.transition>>), "TRANSITION_TARGET")})
      \cup ExpressionEdges(s.body, At("x-control", s.kind), base, "CONTROL_EXPRESSION")
      \cup {Known(At("x-control", s.kind), Append(prefix, <<"x-subflow", t>>), "CONTROL_SUBFLOW") : t \in s.targets}

SequenceEdges(prefix, steps) == UNION {StepEdges(prefix, steps[i]) : i \in DOMAIN steps}

(* The flows of an owner; those of an actor are its members.               *)
FlowEdges(owner, flows) ==
  SequenceEdges(owner, flows.steps)
  \cup {Known(owner, Append(owner, <<"step", flows.steps[i].id>>), "ACTOR_MEMBER") :
          i \in IF owner = <<>> THEN {} ELSE DOMAIN flows.steps}
  \cup UNION {LET root == Append(owner, <<"x-subflow", f>>)
                  steps == flows.subflows[f]
              IN  SequenceEdges(root, steps)
                  \cup {Known(root, Append(root, <<"step", steps[i].id>>), "SUBFLOW_MEMBER") : i \in DOMAIN steps} :
                f \in DOMAIN flows.subflows}

CheckEdges(kind, items, label) ==
  UNION {ExpressionEdges(items[i].check, <<<<kind, items[i].id>>>>, <<>>, label) : i \in DOMAIN items}

(* What _graph and _graph_v2 have in common.                               *)
CommonEdges(d) ==
  {Known(<<<<"x-definition", "initial-state">>>>, <<<<"state", n>>>>, "INITIAL_STATE_FIELD") :
     n \in DOMAIN d.definition["initial-state"]}
  \cup CheckEdges("constraint", d.constraints, "CONSTRAINT_REFERENCE")
  \cup CheckEdges("invariant", d.invariants, "INVARIANT_REFERENCE")
  \cup UNION {FlowEdges(o, d.owners[o]) : o \in DOMAIN d.owners}

(* A resource that is a $ref as a whole, or has a $resource in it.         *)
ResourceEdges(resources) ==
  UNION {{Known(<<<<"resource", r[2]>>>>, <<<<"resource", n>>>>, "RESOURCE_REFERENCE") :
            r \in {x \in resources[n].refs : x[1] = "resource" \/ (x[1] = "$ref" /\ resources[n].whole)}} :
          n \in DOMAIN resources}

FaultTarget(f) ==
  LET base == Append([i \in DOMAIN f.subflow_path |-> <<"x-subflow", f.subflow_path[i]>>], <<"step", f.step>>)
  IN  CASE f.operator = "override_resource" -> <<<<"resource", f.target>>>>
        [] f.operator = "override_write" -> Append(base, <<"write", f.target>>)
        [] f.operator = "override_local" -> Append(base, <<"generator", f.target>>)
        [] f.operator = "suppress_emissions" -> Append(base, <<"emit", "emissions">>)

FaultEdges(f, hasOracle) ==
  LET fault == <<<<"fault", f.id>>>>
      target == FaultTarget(f)
      base == IF f.operator = "override_resource" THEN <<>> ELSE Front(target)
  IN  ExpressionEdges(f.value, fault, base, "FAULT_VALUE_REFERENCE")
      \cup {Known(fault, target, "FAULT_TARGET"), Known(target, fault, "FAULT_TARGETED_BY")}
      \cup (IF hasOracle THEN {Known(fault, <<<<"oracle", "expectation">>>>, "ORACLE_FAULT_EXPECTATION")} ELSE {})

(* DSL 1 only: resources, validators, the oracle and faults.               *)
EngineOneEdges(d) ==
  ResourceEdges(d.resources)
  \cup {Known(<<<<"resource", d.validators[i].resource>>>>, <<<<"x-validator", d.validators[i].id>>>>,
              "VALIDATOR_RESOURCE") : i \in DOMAIN d.validators}
  \cup {Known(<<n>>, <<<<"oracle", "expectation">>>>, "ORACLE_EXPECTATION") : n \in d.oracle.expected}
  \cup UNION {FaultEdges(d.faults[i], d.oracle.given) : i \in DOMAIN d.faults}

Ids(kind, items) == {<<<<kind, items[i].id>>>> : i \in DOMAIN items}

(* Nodes that need no edge to be there.                                    *)
Declared(d) ==
  {<<<<"x-definition", n>>>> : n \in DOMAIN d.definition}
  \cup {<<<<"resource", n>>>> : n \in DOMAIN d.resources}
  \cup Ids("constraint", d.constraints) \cup Ids("invariant", d.invariants)
  \cup (DOMAIN d.owners \ {<<>>})
  \cup UNION {{Append(o, <<"x-subflow", f>>) : f \in DOMAIN d.owners[o].subflows} : o \in DOMAIN d.owners}
  \cup (IF d.version = 2 THEN {}
        ELSE Ids("x-validator", d.validators) \cup Ids("fault", d.faults)
             \cup (IF d.oracle.given THEN {<<<<"oracle", "expectation">>>>} ELSE {}))

Graph(d) ==
  LET edges == CommonEdges(d) \cup (IF d.version = 1 THEN EngineOneEdges(d) ELSE {})
  IN  [nodes |-> Declared(d) \cup {e.from : e \in edges} \cup {e.to : e \in edges}, edges |-> edges]

Merged(g, h) == [nodes |-> g.nodes \cup h.nodes, edges |-> g.edges \cup h.edges]

-----------------------------------------------------------------------------
(* Analysis: the diff and the bounds of the graph, then one search per     *)
(* change.  Which change and which of equally near entities comes first    *)
(* is left open; the code sorts them.                                      *)
None == [change |-> Change("none", <<>>), direct |-> {}]
Nowhere == [nodes |-> {}, edges |-> {}]

Init ==
  /\ \E c \in Comparisons : left = c[1] /\ right = c[2]
  /\ offered \in {"none", "own", "reversed"}
  /\ phase = "compare" /\ code = "none"
  /\ changes = {} /\ before = Nowhere /\ union = Nowhere /\ change = None
  /\ queue = {} /\ visited = {} /\ best = <<>> /\ records = {}

Refuse(c) ==
  /\ phase' = "refused" /\ code' = c
  /\ UNCHANGED <<left, right, offered, changes, before, union, change, queue, visited, best, records>>

(* _validate_sequence: a flow goes through its steps in their order.       *)
Linear(steps) ==
  \A i \in DOMAIN steps :
    steps[i].transition = IF i < Len(steps) THEN steps[i + 1].id ELSE "null"

Compiles(d) ==
  \A o \in DOMAIN d.owners :
    /\ Linear(d.owners[o].steps)
    /\ \A f \in DOMAIN d.owners[o].subflows : Linear(d.owners[o].subflows[f])

(* compare_definitions; a diff names both definitions by their hashes.     *)
Compare ==
  /\ phase = "compare"
  /\ IF left.version # right.version THEN Refuse("major")
     ELSE IF ~Compiles(left) \/ ~Compiles(right) THEN Refuse("compilation")
     ELSE LET found == Difference(left, right) IN
          IF Cardinality(found) > MaxChanges THEN Refuse("changes")
          ELSE IF offered = "reversed" /\ left # right THEN Refuse("diff")
          ELSE /\ changes' = found /\ phase' = "graph" /\ offered' = "none"
               /\ UNCHANGED <<left, right, code, before, union, change, queue, visited, best, records>>

BuildGraphs ==
  /\ phase = "graph"
  /\ LET both == Merged(Graph(left), Graph(right)) IN
       IF Cardinality(both.nodes) > MaxNodes THEN Refuse("nodes")
       ELSE IF Cardinality(both.edges) > MaxEdges THEN Refuse("edges")
       ELSE /\ before' = Graph(left) /\ union' = both /\ phase' = "trace"
            /\ UNCHANGED <<left, right, offered, code, changes, change, queue, visited, best, records>>

(* Mutant: a removal is looked for where it no longer is.                  *)
ChangedEntitiesOfTarget(c) ==
  LET nodes == IF c.kind = "ADDED" THEN union.nodes ELSE Graph(right).nodes
      below == {n \in nodes : IsPrefix(c.path, n)}
  IN  IF below = {} THEN {c.path} ELSE below

(* _paths_for_change: a change is one of all that is below its entity.     *)
ChangedEntities(c) ==
  LET nodes == CASE c.kind = "ADDED" -> Graph(right).nodes
                 [] c.kind = "REMOVED" -> before.nodes
                 [] c.kind = "CHANGED" -> union.nodes
      below == {n \in nodes : IsPrefix(c.path, n)}
  IN  IF below = {} THEN {c.path} ELSE below

TakeChange(c) ==
  /\ phase = "trace" /\ change = None /\ c \in changes
  /\ LET direct == ChangedEntities(c) IN
       /\ change' = [change |-> c, direct |-> direct]
       /\ best' = [p \in direct |-> [class |-> "DIRECT", reason |-> "change"]]
       /\ queue' = {[path |-> p, uncertain |-> FALSE, depth |-> 0] : p \in direct}
       /\ visited' = direct \X {FALSE}
  /\ changes' = changes \ {c}
  /\ UNCHANGED <<left, right, offered, phase, code, before, union, records>>

(* _actor_scope.                                                           *)
Actor(path) == IF path[1][1] = "actor" THEN <<path[1]>> ELSE <<>>

CrossesActors(from, to) == Actor(from) # <<>> /\ Actor(to) # <<>> /\ Actor(from) # Actor(to)

Unknown == IF left.version = 2 THEN "UNKNOWN_OR_UNSUPPORTED" ELSE "UNKNOWN"

Classification(e, uncertain) ==
  IF uncertain THEN Unknown
  ELSE IF left.version = 1 THEN "TRANSITIVE_POSSIBLE"
  ELSE IF CrossesActors(change.change.path, e.to) THEN "POTENTIAL_CROSS_ACTOR"
  ELSE IF e.kind \in {"CONTROL_EXPRESSION", "CONTROL_SUBFLOW", "TRANSITION_TARGET"} THEN "CONTROL_DEPENDENT"
  ELSE Unknown

(* Mutant: an entity is visited once, however certain it was then.         *)
UnvisitedPaths(reached) == {r \in reached : r[1] \notin {v[1] : v \in visited}}

Unvisited(reached) == reached \ visited

(* Mutant: the first classification of an entity stays.                    *)
ReclassifiedOnce(found, p) ==
  IF p \in DOMAIN best THEN best[p]
  ELSE [class |-> CHOOSE c \in found[p] : TRUE, reason |-> "edge"]

(* An unknown dependency wins over any other but a change; what is found   *)
(* first stays otherwise, and all that a step finds of an entity is alike. *)
Reclassified(found, p) ==
  IF p \in change.direct THEN best[p]
  ELSE IF p \in DOMAIN found /\ Unknown \in found[p] THEN [class |-> Unknown, reason |-> "edge"]
  ELSE IF p \in DOMAIN best THEN best[p]
  ELSE [class |-> CHOOSE c \in found[p] : TRUE, reason |-> "edge"]

(* An entity whose path is too long is not expanded and becomes unknown.   *)
Cut(item) ==
  /\ phase = "trace" /\ item \in queue /\ item.depth >= MaxDepth
  /\ \A other \in queue : item.depth <= other.depth
  /\ best' = [best EXCEPT ![item.path] = [class |-> "UNKNOWN", reason |-> "depth"]]
  /\ queue' = queue \ {item}
  /\ UNCHANGED <<left, right, offered, phase, code, changes, before, union, change, visited, records>>

Expand(item) ==
  /\ phase = "trace" /\ item \in queue /\ item.depth < MaxDepth
  /\ \A other \in queue : item.depth <= other.depth
  /\ LET edges == {e \in union.edges : e.from = item.path}
         reached == Unvisited({<<e.to, item.uncertain \/ e.unknown>> : e \in edges})
         found == [p \in {e.to : e \in edges} |->
                     {Classification(e, item.uncertain \/ e.unknown) : e \in {x \in edges : x.to = p}}]
     IN  /\ visited' = visited \cup reached
         /\ queue' = (queue \ {item}) \cup
                        {[path |-> r[1], uncertain |-> r[2], depth |-> item.depth + 1] : r \in reached}
         /\ best' = [p \in DOMAIN best \cup DOMAIN found |-> Reclassified(found, p)]
  /\ UNCHANGED <<left, right, offered, phase, code, changes, before, union, change, records>>

(* The end of a search; the number of records is bounded over all.         *)
Record ==
  /\ phase = "trace" /\ change # None /\ queue = {}
  /\ LET all == records \cup {[change |-> change.change, path |-> p, class |-> best[p].class, reason |-> best[p].reason] : p \in DOMAIN best} IN
       IF Cardinality(all) > MaxRecords THEN Refuse("records")
       ELSE /\ records' = all /\ change' = None /\ visited' = {} /\ best' = <<>>
            /\ UNCHANGED <<left, right, offered, phase, code, changes, before, union, queue>>

Vocabulary ==
  IF left.version = 2 THEN {"DIRECT", "CONTROL_DEPENDENT", "POTENTIAL_CROSS_ACTOR", "UNKNOWN_OR_UNSUPPORTED"}
  ELSE {"DIRECT", "TRANSITIVE_POSSIBLE", "UNKNOWN"}

(* What an entity may be counted under: its classifications of the highest *)
(* rank, of which the first in the order of the records is taken.          *)
Strength(class) ==
  CASE class \in {"TRANSITIVE_POSSIBLE", "CONTROL_DEPENDENT"} -> 1
    [] class = "POTENTIAL_CROSS_ACTOR" -> 2
    [] class \in {"UNKNOWN", "UNKNOWN_OR_UNSUPPORTED"} -> 3
    [] class = "DIRECT" -> 4

Strongest(p) ==
  LET mine == {r.class : r \in {x \in records : x.path = p}}
  IN  {c \in mine : \A d \in mine : Strength(d) <= Strength(c)}

Affected == {r.path : r \in records}

(* to_jsonable: a classification that has no count is a KeyError.          *)
Report ==
  /\ phase = "trace" /\ change = None /\ changes = {}
  /\ \/ /\ \A p \in Affected : Strongest(p) \cap Vocabulary # {}
        /\ phase' = "done" /\ UNCHANGED code
     \/ /\ \E p \in Affected : ~(Strongest(p) \subseteq Vocabulary)
        /\ phase' = "raised" /\ code' = "KeyError"
  /\ UNCHANGED <<left, right, offered, changes, before, union, change, queue, visited, best, records>>

Next ==
  \/ Compare \/ BuildGraphs \/ Record \/ Report
  \/ \E c \in changes : TakeChange(c)
  \/ \E item \in queue : Cut(item) \/ Expand(item)

Spec == Init /\ [][Next]_vars

-----------------------------------------------------------------------------
(* Everything a definition declares, by address; the reference the diff is *)
(* compared with.                                                          *)
StepLeaves(base, s) ==
  LET named(kind, body) == {<<Append(base, <<kind, n>>), body[n]>> : n \in DOMAIN body}
  IN  named("generator", s.generate) \cup named("derive", s.derive) \cup named("write", s.write)
      \cup {<<Append(base, <<"emit", "emissions">>), s.emit>>,
            <<Append(base, <<"transition", "target">>), s.transition>>,
            <<Append(base, <<"x-advance", "duration">>), s.advance>>}
      \cup (IF s.kind = "step" THEN {} ELSE {<<Append(base, <<"x-control", s.kind>>), <<s.body, s.targets>>>>})

Flows(d) ==
  {<<o, d.owners[o].steps>> : o \in DOMAIN d.owners}
  \cup UNION {{<<Append(o, <<"x-subflow", f>>), d.owners[o].subflows[f]>> : f \in DOMAIN d.owners[o].subflows} :
                o \in DOMAIN d.owners}

Leaves(d) ==
  UNION {UNION {StepLeaves(Append(f[1], <<"step", f[2][i].id>>), f[2][i]) : i \in DOMAIN f[2]} : f \in Flows(d)}
  \cup {<<<<<<"x-definition", n>>>>, d.definition[n]>> : n \in DOMAIN d.definition}
  \cup {<<<<<<"resource", n>>>>, d.resources[n]>> : n \in DOMAIN d.resources}
  \cup {<<<<<<"oracle", "expectation">>>>, d.oracle>>}
  \cup UNION {{<<<<<<k, d[section][i].id>>>>, d[section][i]>> : i \in DOMAIN d[section]} :
                <<k, section>> \in {<<"constraint", "constraints">>, <<"invariant", "invariants">>,
                                   <<"fault", "faults">>, <<"x-validator", "validators">>}}

(* The diff is exact: something differs below every change and a change is *)
(* above everything that differs; what is added was not there and what is  *)
(* removed is not; no change is within another; and without a change the   *)
(* flows are the same, step by step, though a step is looked up by its id. *)
DiffIsExact ==
  phase = "graph" =>
    LET l == Leaves(left)
        r == Leaves(right)
        differ == {x[1] : x \in (l \ r) \cup (r \ l)}
        has(leaves, c) == \E x \in leaves : IsPrefix(c.path, x[1])
    IN  /\ \A a \in differ : \E c \in changes : IsPrefix(c.path, a)
        /\ \A c \in changes :
             /\ \E a \in differ : IsPrefix(c.path, a)
             /\ c.kind = "ADDED" => ~has(l, c)
             /\ c.kind = "REMOVED" => ~has(r, c)
             /\ \A d \in changes \ {c} : ~IsPrefix(d.path, c.path)
        /\ changes = {} => left.owners = right.owners

RECURSIVE Reaching(_)
Reaching(paths) ==
  LET more == paths \cup {e.to : e \in {x \in union.edges : x.from \in paths}}
  IN  IF more = paths THEN paths ELSE Reaching(more)

(* Of every change that was traced, whatever the order of the search: what *)
(* was there before or is there now is changed directly; what is reported  *)
(* is reachable, and what is reachable is reported unless a path was cut,  *)
(* which the report then says; without a cut an entity is unknown exactly  *)
(* if some path to it, or what leads to it, is not understood.             *)
TracedExactly ==
  change = None => \A c \in {r.change : r \in records} :
    LET mine == {r \in records : r.change = c}
        paths == {r.path : r \in mine}
        direct == {c.path} \cup {n \in union.nodes : IsPrefix(c.path, n)}
        full == Reaching(direct)
        tainted == Reaching({e.to : e \in {x \in union.edges : x.unknown /\ x.from \in full}})
        plain == {e.to : e \in {x \in union.edges :
                    /\ x.from \in full
                    /\ x.kind \notin {"CONTROL_EXPRESSION", "CONTROL_SUBFLOW", "TRANSITION_TARGET"}}}
    IN  /\ paths \subseteq full
        /\ \A r \in mine : r.class = "DIRECT" => r.path \in direct
        /\ full \subseteq paths \/ \E r \in mine : r.reason = "depth"
        /\ (\A r \in mine : r.reason # "depth") =>
             \A r \in mine :
               r.class = CASE r.path \in direct -> "DIRECT"
                           [] r.path \in tainted \ direct -> Unknown
                           [] left.version = 1 /\ r.path \notin tainted \cup direct -> "TRANSITIVE_POSSIBLE"
                           [] left.version = 2 /\ r.path \notin tainted \cup direct ->
                                CASE CrossesActors(c.path, r.path) -> "POTENTIAL_CROSS_ACTOR"
                                  [] ~CrossesActors(c.path, r.path) /\ r.path \in plain -> Unknown
                                  [] OTHER -> "CONTROL_DEPENDENT"

(* The amplification is a proper fraction in DSL 1; in DSL 2 only changes  *)
(* of entities that have no place in the graph are beyond its denominator. *)
Amplified ==
  phase = "done" =>
    \A p \in Affected \ union.nodes :
      left.version = 2 /\ p[1][1] \in {"x-validator", "fault", "oracle"}

ComparisonIsSound == DiffIsExact /\ TracedExactly /\ Amplified

-----------------------------------------------------------------------------
(* docs/phase5-architecture.md:1001: the public classifications of         *)
(* impact/2 are four, and a finding is one of them.                        *)
FindingsAreClassified == phase # "raised"
=============================================================================
