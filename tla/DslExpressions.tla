----------------------------- MODULE DslExpressions -----------------------------
(***************************************************************************)
(* The expressions of a document: what the parser accepts in each place    *)
(* they may stand (dsl/parser.py) against what the environment of that     *)
(* place supplies when they are evaluated (expressions.py, dsl/compiler.py)*)
(* and the order in which the derived values of a step are evaluated.      *)
(*                                                                         *)
(* An expression is followed down one path, from its outermost operator to *)
(* a reference; it is accepted, and evaluates, if all its paths do.        *)
(***************************************************************************)
EXTENDS Integers, SequencesExt, FiniteSetsExt

CONSTANTS
  MaxDepth,    \* operators above a reference
  Derivations  \* functions from derived names to sequences of references

(* A step derives finitely many values.                                    *)
DerivationsAreFinite ==
  MaxDepth \in Nat /\ \A p \in Derivations : IsFiniteSet(DOMAIN p)

Places == {"derive", "write", "emission", "constraint", "invariant",
           "boundary", "argument", "resource_fault", "step_fault"}
(* Operators alike in what they pass on: arithmetic and comparison; $and   *)
(* and $or; $not and $len; $append; $object; $sum_field.                   *)
Operators == {"binary", "many", "unary", "$append", "$object", "$sum_field"}
References == {"$state", "$local", "$derived", "$resource", "$scope", "$literal"}

VARIABLES
  place, subflow,  \* where the expression stands, and if in a subflow
  path,            \* operators and, at last, the reference
  flags,           \* what the parser still watches for
  verdict,
  pending, done,   \* derived names of a step not evaluated, and evaluated
  failed

parsing == <<place, subflow, path, flags, verdict>>
deriving == <<pending, done, failed>>
vars == <<parsing, deriving>>

-----------------------------------------------------------------------------
(* Mutant: what a step writes is a control boundary.                       *)
FlagsOfWrites(p) ==
  IF p \in {"write", "boundary", "argument", "step_fault"} THEN {"control"} ELSE {}

(* The flags a place starts with.                                          *)
FlagsOf(p) ==
  CASE p = "emission" -> {"emission"}
    [] p \in {"constraint", "resource_fault"} -> {"constraint"}
    [] p \in {"boundary", "argument", "step_fault"} -> {"control"}
    [] OTHER -> {}

(* Mutant: control is not watched for.                                     *)
AllowedAnywhere(op, fs) ==
  /\ "emission" \in fs => op \in {"$state", "$literal", "$resource"}
  /\ "constraint" \in fs => op \notin {"$state", "$local", "$derived"}

(* _validate_expression                                                    *)
Allowed(op, fs) ==
  /\ "emission" \in fs => op \in {"$state", "$literal", "$resource"}
  /\ "constraint" \in fs => op \notin {"$state", "$local", "$derived"}
  /\ "control" \in fs => op \notin {"$local", "$derived"}

(* What it passes on to the operands: not everything, and not alike.       *)
Below(op, fs) ==
  CASE op = "binary" -> fs
    [] op \in {"many", "unary"} -> fs \ {"emission"}
    [] OTHER -> fs \ {"constraint"}

(* _parse_invariants looks through the whole expression once more.         *)
Forbidden(p) == IF p = "invariant" THEN {"$local", "$derived", "$scope"} ELSE {}

Descend(op) ==
  /\ verdict = "parsing" /\ Len(path) < MaxDepth
  /\ path' = Append(path, op)
  /\ IF Allowed(op, flags) THEN flags' = Below(op, flags) /\ UNCHANGED verdict
     ELSE verdict' = "rejected" /\ UNCHANGED flags
  /\ UNCHANGED <<place, subflow, deriving>>

Reach(ref) ==
  /\ verdict = "parsing" /\ path' = Append(path, ref)
  /\ verdict' = IF Allowed(ref, flags) /\ ref \notin Forbidden(place) THEN "accepted" ELSE "rejected"
  /\ UNCHANGED <<place, subflow, flags, deriving>>

(* The namespaces of the EvaluationEnvironment of each place.  Resources   *)
(* and, in a subflow, the scope are replaced when the step is compiled.    *)
Supplied ==
  CASE place \in {"derive", "write"} -> {"$state", "$local", "$derived"}
    [] place \in {"emission", "invariant", "boundary", "argument", "step_fault"} -> {"$state"}
    [] OTHER -> {}
Evaluable ==
  Supplied \cup {"$resource", "$literal"}
  \cup (IF subflow /\ place \notin {"constraint", "invariant", "resource_fault"}
        THEN {"$scope"} ELSE {})

Evaluate ==
  /\ verdict = "accepted"
  /\ verdict' = IF Last(path) \in Evaluable THEN "value" ELSE "unresolved"
  /\ UNCHANGED <<place, subflow, path, flags, deriving>>

-----------------------------------------------------------------------------
(* resolve_derivations: by layers of what they refer to.                   *)
Names == DOMAIN pending
(* Mutant: the references of an operand are not its operator's.            *)
DependenciesOfFirst(n) == IF pending[n] = <<>> THEN {} ELSE {Head(pending[n])}

Dependencies(n) == Range(pending[n])

Unknown == (UNION {Dependencies(n) : n \in Names}) \ Names
(* Mutant: what was evaluated is evaluated again.                          *)
WaitingAlways == Names

Waiting == Names \ Range(done)

Ready == {n \in Waiting : Dependencies(n) \cap Waiting = {}}

Derive ==
  /\ failed = "none" /\ Unknown = {} /\ Waiting # {}
  /\ IF Ready = {} THEN failed' = "cycle" /\ UNCHANGED done
     ELSE done' \in {done \o layer : layer \in SetToSeqs(Ready)} /\ UNCHANGED failed
  /\ UNCHANGED <<parsing, pending>>

RefuseUnknown ==
  /\ failed = "none" /\ Unknown # {} /\ failed' = "unknown"
  /\ UNCHANGED <<parsing, pending, done>>

Init ==
  /\ place \in Places /\ subflow \in BOOLEAN /\ path = <<>> /\ flags = FlagsOf(place)
  /\ verdict = "parsing" /\ done = <<>> /\ failed = "none"
  /\ pending \in IF place = "derive" THEN Derivations ELSE {<<>>}

Next ==
  \/ \E op \in Operators : Descend(op)
  \/ \E ref \in References : Reach(ref)
  \/ Evaluate
  \/ (verdict = "value" /\ (Derive \/ RefuseUnknown))

Spec == Init /\ [][Next]_vars
-----------------------------------------------------------------------------
TypeOK ==
  /\ flags \subseteq FlagsOf(place) /\ Len(path) <= MaxDepth + 1
  /\ verdict \in {"parsing", "rejected", "accepted", "value", "unresolved"}
  /\ verdict \in {"accepted", "value", "unresolved"} => Last(path) \in References
  /\ IsInjective(done) /\ Range(done) \subseteq Names
  /\ failed \in {"none", "cycle", "unknown"}

Outside == {"constraint", "resource_fault"}

(* Outside of what is decided before the run, an expression the parser     *)
(* accepts finds every namespace it refers to, save the scope of a subflow *)
(* at a step that is in none.                                              *)
AcceptedResolves ==
  verdict = "unresolved" /\ place \notin Outside => Last(path) = "$scope" /\ ~subflow

(* And nothing is rejected that would evaluate, but for the operators of   *)
(* emissions: the parser is not stricter than the engine.                  *)
RejectedWouldFail ==
  verdict = "rejected" /\ place # "emission" => Last(path) \notin Evaluable

(* A derived value is evaluated after all it refers to, by whatever way it *)
(* is nested; where that is impossible nothing of the knot is evaluated.   *)
DerivedInOrder ==
  /\ \A i \in DOMAIN done : Range(pending[done[i]]) \subseteq {done[j] : j \in 1..(i - 1)}
  /\ failed = "cycle" =>
       \A n \in Waiting : \E S \in SUBSET Waiting :
         /\ S # {} /\ \A m \in S : Range(pending[m]) \cap S # {}
         /\ n \in S \/ Range(pending[n]) \cap Waiting # {}

(* The parser judges expressions as their evaluation would.                *)
JudgedAsEvaluated == TypeOK /\ AcceptedResolves /\ RejectedWouldFail /\ DerivedInOrder
=============================================================================
