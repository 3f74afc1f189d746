----------------------------- MODULE Preparation -----------------------------
(***************************************************************************)
(* What happens before the first step of a run and what is reported after  *)
(* the last: declared resources are resolved from external inputs in       *)
(* layers (resources.py), resource faults override values, validators and  *)
(* constraints are decided (dsl/runtime.py, validation.py), the run is     *)
(* judged by the oracle, and replay compares the hashes of what was read.  *)
(* Engine 2 prepares its runs in dsl/actor_runtime.py.                     *)
(*                                                                         *)
(* A value is a tree: a function from the paths to its leaves.  A scalar   *)
(* has the one path <<>>, a value that is missing has no path at all.  A   *)
(* declaration has an operator at each of its leaves.  Hashes are perfect. *)
(***************************************************************************)
EXTENDS Integers, SequencesExt, FiniteSetsExt

CONSTANTS
  Documents,   \* records of resources, faults, validators, constraints, oracle
  InputSets,   \* trees of what callers supply
  MaxHits      \* bounds the faults that a run applies at its steps

Missing == <<>>
Scalar(v) == [k \in {<<>>} |-> v]
Under(path, tree) == {k \in DOMAIN tree : IsPrefix(path, k)}
Sub(tree, path) ==
  [k \in {SubSeq(k, Len(path) + 1, Len(k)) : k \in Under(path, tree)} |-> tree[path \o k]]
Graft(tree, path, value) ==
  LET kept == DOMAIN tree \ Under(path, tree)
  IN [k \in kept \cup {path \o q : q \in DOMAIN value} |->
        IF k \in kept THEN tree[k] ELSE value[SubSeq(k, Len(path) + 1, Len(k))]]

(* The tree that has at each path of values the value of the path.         *)
Join(values) ==
  LET At(k) == CHOOSE p \in DOMAIN values : IsPrefix(p, k)
  IN [k \in UNION {{p \o q : q \in DOMAIN values[p]} : p \in DOMAIN values} |->
        values[At(k)][SubSeq(k, Len(At(k)) + 1, Len(k))]]

Literal(v) == [op |-> "literal", value |-> v, path |-> <<>>]
Input(path) == [op |-> "$input", value |-> 0, path |-> path]
Ref(path) == [op |-> "$ref", value |-> 0, path |-> path]

(* What a document is.  Declarations are of one value at a time; a fault   *)
(* sees no inputs; the report lists constraints and invariants apart.      *)
IsTree(t) == t = [k \in DOMAIN t |-> t[k]] /\ DOMAIN t \subseteq Seq(STRING)
IsLeaf(leaf, ops) ==
  \/ leaf = Literal(leaf.value)
  \/ /\ leaf \in {Input(leaf.path), Ref(leaf.path)} /\ leaf.op \in ops
     /\ leaf.path \in Seq(STRING) /\ leaf.path # <<>>
IsDeclaration(at) ==
  /\ IsTree(at) /\ DOMAIN at # {}
  /\ \A p, q \in DOMAIN at : IsPrefix(p, q) => p = q
  /\ \A p \in DOMAIN at : IsLeaf(at[p], {"$input", "$ref"})
DocumentsAreWellFormed ==
  /\ MaxHits \in Nat /\ \A given \in InputSets : IsTree(given)
  /\ \A d \in Documents :
       /\ IsFiniteSet(DOMAIN d.resources) /\ DOMAIN d.resources \subseteq STRING
       /\ \A n \in DOMAIN d.resources : IsDeclaration(d.resources[n])
       /\ d.faults \in Seq(Range(d.faults)) /\ d.constraints \in Seq(Range(d.constraints))
       /\ \A f \in Range(d.faults) : f.path \in Seq(STRING) /\ IsLeaf(f.value, {"$ref"})
       /\ \A c \in Range(d.constraints) : c.id \notin d.invariants

VARIABLES
  engine, doc, inputs,
  run,         \* 1, or 2 for its replay
  phase, code,
  remaining, order,
  resources,   \* resolved so far, then overridden
  base,        \* as resolved
  consumed,    \* the inputs read
  next,        \* faults or constraints decided so far
  applied, observed, executed, report,
  first        \* what is kept of the run that is replayed

resolving == <<remaining, order, base, consumed>>
judged == <<observed, executed, report>>
coordinates == <<engine, doc, inputs, run, first>>
vars == <<coordinates, phase, code, resolving, resources, next, applied, judged>>

Names == DOMAIN doc.resources
Leaves(n) == Range(doc.resources[n])
DependenciesOf(n) == {leaf.path[1] : leaf \in {l \in Leaves(n) : l.op = "$ref"}}

Raise(c) ==
  /\ phase' = "error" /\ code' = c
  /\ UNCHANGED <<coordinates, resolving, resources, next, applied, judged>>

-----------------------------------------------------------------------------
(* resolve_resources                                                       *)
CheckReferences ==
  /\ phase = "declared"
  /\ IF \A n \in Names : DependenciesOf(n) \subseteq Names
     THEN phase' = "layering"
          /\ UNCHANGED <<coordinates, code, resolving, resources, next, applied, judged>>
     ELSE Raise("unknown")

(* Mutant: a resource is ready when one of its references is.              *)
ReadyPartly ==
  {n \in remaining : DependenciesOf(n) = {} \/ DependenciesOf(n) \ remaining # {}}

(* Mutant: a resource may be taken again.                                  *)
ReadyAgain == {n \in Names : DependenciesOf(n) \cap remaining = {}}

Ready == {n \in remaining : DependenciesOf(n) \cap remaining = {}}

(* The code sorts a layer by name; here it comes in any order.             *)
TakeLayer ==
  /\ phase = "layering" /\ remaining # {}
  /\ IF Ready = {} THEN Raise("cycle")
     ELSE /\ \E layer \in SetToSeqs(Ready) : order' = order \o layer
          /\ remaining' = remaining \ Ready
          /\ UNCHANGED <<coordinates, phase, code, base, consumed, resources, next, applied, judged>>

ValueIn(given, tree, leaf) ==
  CASE leaf.op = "literal" -> Scalar(leaf.value)
    [] leaf.op = "$input" -> Sub(given, leaf.path)
    [] leaf.op = "$ref" -> Sub(tree, leaf.path)
ValueOf(leaf) == ValueIn(inputs, resources, leaf)

ReadBy(n) == {leaf.path[1] : leaf \in {l \in Leaves(n) : l.op = "$input"}}

ResolveNext ==
  /\ phase = "layering" /\ remaining = {} /\ order # <<>>
  /\ LET n == Head(order)
         at == doc.resources[n]
         values == [p \in DOMAIN at |-> ValueOf(at[p])]
     IN IF Missing \in Range(values) THEN Raise("segment")
        ELSE /\ resources' = Graft(resources, <<n>>, Join(values))
             /\ consumed' = consumed \cup ReadBy(n)
             /\ order' = Tail(order)
             /\ UNCHANGED <<coordinates, phase, code, remaining, base, next, applied, judged>>

(* Mutant: the hashes are of the overridden resources.                     *)
HashesOverridden == <<[i \in consumed |-> Sub(inputs, <<i>>)], resources>>

(* ResolvedResources.hashes: the inputs read, whole, and the resources.    *)
Hashes == <<[i \in consumed |-> Sub(inputs, <<i>>)], base>>

(* Mutant: replay does not compare the hashes.                             *)
SameResourcesUnread == TRUE

(* replay_scenario, before it runs anything.                               *)
SameResources == run = 1 \/ <<[i \in consumed |-> Sub(inputs, <<i>>)], resources>> = first.hashes

Resolved ==
  /\ phase = "layering" /\ remaining = {} /\ order = <<>>
  /\ IF SameResources
     THEN /\ base' = resources
          /\ phase' = IF engine = 1 THEN "faults" ELSE "validators"
          /\ UNCHANGED <<coordinates, code, remaining, order, consumed, resources, next, applied, judged>>
     ELSE Raise("incompatible")

-----------------------------------------------------------------------------
(* with_override: of a path there is, in a copy.                           *)
(* Mutant: what refers to the path is resolved again.                      *)
OverriddenThrough(path, value) ==
  LET over == Graft(resources, path, value)
      again == {n \in Names : \E l \in Leaves(n) : l.op = "$ref" /\ l.path = path}
  IN FoldSet(LAMBDA n, tree : Graft(tree, <<n>>, value), over, again)

Overridden(path, value) == Graft(resources, path, value)

StepFaults == {f \in Range(doc.faults) : f.at = "before_step" /\ f.enabled}
Current == doc.faults[next]
BeforeValidation == next <= Len(doc.faults) /\ Current.at = "before_validation" /\ Current.enabled

ApplyFault ==
  /\ phase = "faults" /\ BeforeValidation
  /\ LET value == ValueOf(Current.value) IN
       IF value = Missing \/ Sub(resources, Current.path) = Missing THEN Raise("segment")
       ELSE /\ resources' = Overridden(Current.path, value)
            /\ applied' = Append(applied, Current.id) /\ next' = next + 1
            /\ UNCHANGED <<coordinates, phase, code, resolving, judged>>

SkipFault ==
  /\ phase = "faults" /\ ~BeforeValidation
  /\ IF next <= Len(doc.faults) THEN next' = next + 1 /\ UNCHANGED phase
     ELSE next' = 1 /\ phase' = "validators"
  /\ UNCHANGED <<coordinates, code, resolving, resources, applied, judged>>

(* validate_resources: a value of a kind at a path.                        *)
Validate ==
  /\ phase = "validators"
  /\ IF \A v \in Range(doc.validators) :
          Sub(resources, v.path) # Missing /\ Sub(resources, v.path) \in v.allowed
     THEN phase' = "constraints"
          /\ UNCHANGED <<coordinates, code, resolving, resources, next, applied, judged>>
     ELSE Raise("validation")

(* The first constraint that is violated ends the run.                     *)
Constrain ==
  /\ phase = "constraints" /\ next <= Len(doc.constraints)
  /\ LET c == doc.constraints[next]
         value == Sub(resources, c.path)
     IN IF value = Missing THEN Raise("expression")
        ELSE /\ IF value = Scalar(c.value)
                THEN next' = next + 1 /\ UNCHANGED <<phase, observed>>
                ELSE phase' = "ended" /\ observed' = {c.id} /\ UNCHANGED next
             /\ UNCHANGED <<coordinates, code, resolving, resources, applied, executed, report>>

(* The run itself, which applies faults at its steps, those of a step that *)
(* is repeated again each time.                                            *)
Execute ==
  /\ phase = "constraints" /\ next > Len(doc.constraints) /\ phase' = "ended" /\ executed' = TRUE
  /\ \E hits \in BoundedSeq({f.id : f \in StepFaults}, MaxHits) : applied' = applied \o hits
  /\ \E violated \in SUBSET doc.invariants :
       Cardinality(violated) <= 1 /\ observed' = violated
  /\ UNCHANGED <<coordinates, code, resolving, resources, next, report>>

Crash == phase = "constraints" /\ next > Len(doc.constraints) /\ Raise("step")

-----------------------------------------------------------------------------
FaultsOf(ids) == {f \in Range(doc.faults) : f.id \in ids}
Expected == doc.oracle.expected \cup UNION {f.expects : f \in FaultsOf(Range(applied))}

(* Mutant: what applied faults expect is not missed.                       *)
MissedOfOracle == doc.oracle.expected \ observed

Missed == Expected \ observed
Unexpected == observed \ Expected
Strict == doc.oracle.strict \/ \E f \in FaultsOf(Range(applied)) : f.strict

(* evaluate_scenario, which only Engine 1 has.                             *)
Evaluate ==
  /\ engine = 1 /\ phase = "ended" /\ report = "none"
  /\ report' = IF Missed = {} /\ (Strict => Unexpected = {}) THEN "passed" ELSE "failed"
  /\ UNCHANGED <<coordinates, phase, code, resolving, resources, next, applied, observed, executed>>

(* The manifest of a run that ended, by success or violation, is replayed  *)
(* against inputs the caller supplies again.                               *)
Replay(given) ==
  /\ engine = 1 /\ phase = "ended" /\ run = 1 /\ run' = 2 /\ inputs' = given
  /\ first' = [hashes |-> Hashes, inputs |-> inputs, resources |-> resources,
               observed |-> observed, executed |-> executed]
  /\ phase' = "declared" /\ remaining' = Names /\ order' = <<>> /\ resources' = Missing
  /\ base' = Missing /\ consumed' = {} /\ next' = 1 /\ applied' = <<>>
  /\ observed' = {} /\ executed' = FALSE /\ report' = "none"
  /\ UNCHANGED <<engine, doc, code>>

Init ==
  /\ engine \in 1..2 /\ doc \in Documents /\ inputs \in InputSets /\ run = 1
  /\ phase = "declared" /\ code = "none" /\ remaining = Names /\ order = <<>>
  /\ resources = Missing /\ base = Missing /\ consumed = {} /\ next = 1
  /\ applied = <<>> /\ observed = {} /\ executed = FALSE /\ report = "none" /\ first = <<>>

Next ==
  \/ CheckReferences \/ TakeLayer \/ ResolveNext \/ Resolved
  \/ ApplyFault \/ SkipFault \/ Validate \/ Constrain \/ Execute \/ Crash \/ Evaluate
  \/ \E given \in InputSets : Replay(given)

Spec == Init /\ [][Next]_vars
-----------------------------------------------------------------------------
IsResolved == phase \notin {"declared", "layering", "error"}

(* Between every two steps: names resolved and names waiting are apart,    *)
(* and only declared faults are applied.                                   *)
TypeOK ==
  /\ phase \in {"declared", "layering", "faults", "validators", "constraints", "ended", "error"}
  /\ code \in {"none", "unknown", "cycle", "segment", "incompatible", "validation",
               "expression", "step"}
  /\ (phase = "error") = (code # "none")
  /\ remaining \subseteq Names /\ Range(order) \subseteq Names \ remaining
  /\ IsInjective(order) /\ Range(applied) \subseteq {f.id : f \in Range(doc.faults)}
  /\ \A n \in Range(order) : Sub(resources, <<n>>) = Missing
  /\ next \in 1..(Len(doc.faults) + Len(doc.constraints) + 1)
  /\ report \in {"none", "passed", "failed"} /\ run \in 1..2

(* Resolution, whatever the order within layers, ends with the one         *)
(* assignment that satisfies every declaration at once; a cycle is refused *)
(* before anything is resolved, exactly when there is one, and no resource *)
(* is looked into before what it refers to is resolved.                    *)
ResolutionIsFixpoint ==
  LET Meets(n, p) == Sub(base, <<n>> \o p) = ValueIn(inputs, base, doc.resources[n][p])
      Knots == {S \in SUBSET Names : S # {} /\ \A n \in S : DependenciesOf(n) \cap S # {}}
  IN /\ IsResolved => \A n \in Names : Sub(base, <<n>>) # Missing
                                       /\ \A p \in DOMAIN doc.resources[n] : Meets(n, p)
     /\ code = "cycle" => Knots # {} /\ resources = Missing
     /\ IsResolved \/ resources # Missing => Knots = {}
     /\ code = "segment" /\ order # <<>> =>
          \A n \in DependenciesOf(Head(order)) : Sub(resources, <<n>>) # Missing

(* A fault changes what lies under its own path: resources that referred   *)
(* to it were resolved before and keep the value they had.                 *)
OverridesAreLocal ==
  IsResolved =>
    LET over == {f.path : f \in FaultsOf(Range(applied))}
        Outside(k) == \A p \in over : ~IsPrefix(p, k)
    IN \A k \in DOMAIN base \cup DOMAIN resources :
         Outside(k) => k \in DOMAIN base \cap DOMAIN resources /\ base[k] = resources[k]

(* Replay goes on only with inputs that lead to the same preparation, and  *)
(* refuses none that agree in every input that was read.                   *)
ReplayPreparesAlike ==
  run = 2 =>
    /\ phase = "ended" => /\ resources = first.resources /\ executed = first.executed
                          /\ ~executed => observed = first.observed
    /\ code \in {"segment", "unknown", "validation", "incompatible"} =>
         \E i \in DOMAIN first.hashes[1] : Sub(inputs, <<i>>) # first.hashes[1][i]

(* A run stops at its first violation, so a report that passes expects one *)
(* at most, the one there was; an applied fault that expects another makes *)
(* it fail, and nothing was executed when it is a constraint.              *)
PassMeansObserved ==
  report = "passed" =>
    /\ doc.oracle.expected \subseteq observed
    /\ \A f \in FaultsOf(Range(applied)) :
         f.expects \subseteq observed /\ (f.strict /\ observed # {} => observed \subseteq Expected)
    /\ observed \cap {c.id : c \in Range(doc.constraints)} # {} => ~executed
    /\ observed # {} /\ doc.oracle.strict => Expected = observed
(* What is prepared follows from the document and its inputs, and what is  *)
(* reported from what was observed.                                        *)
PreparationIsFaithful ==
  /\ TypeOK /\ ResolutionIsFixpoint /\ OverridesAreLocal /\ ReplayPreparesAlike
  /\ PassMeansObserved

-----------------------------------------------------------------------------
(* docs/phase5-architecture.md:145: resource faults before validation      *)
(* complete before scheduling starts, in Engine 2 as in Engine 1.          *)
FaultsPrecedeScheduling ==
  executed => \A f \in Range(doc.faults) :
    f.enabled /\ f.at = "before_validation" => f.id \in Range(applied)
=============================================================================
