---------------------------- MODULE MCFlowTables ----------------------------
(***************************************************************************)
(* Flow tables for SoloActor: a main flow of one or two nodes, a subflow   *)
(* "f" of one or two nodes that may use the subflow "g", and "g" of two    *)
(* steps.  State and scopes are the numbers 0..2; a walk starts at 0 or 2. *)
(***************************************************************************)
EXTENDS Integers, Sequences, TLC

CONSTANTS NoFlow, NoScope, Undefined

MCStates == {0, 2}

MCTruth(when, s, scope) ==
  CASE when = "zero"  -> s = 0
    [] when = "scope" -> IF scope = NoScope THEN Undefined ELSE scope = s

MCCount(expression, s, scope) ==
  CASE expression = "state"  -> s
    [] expression = "two"    -> 2
    [] expression = "scoped" -> IF scope = NoScope THEN -1 ELSE scope + 1

MCBinding(bindings, s, scope) ==
  CASE bindings = "state" -> s
    [] bindings = "outer" -> IF scope = NoScope THEN Undefined ELSE scope

MCEffect(step, s) ==
  IF step.scope = NoScope THEN (s + 1) % 3 ELSE (s + step.scope + 1) % 3

Step(id) == [kind |-> "step", id |-> id]

Calls(id, sub) == {[kind |-> "call", id |-> id, sub |-> sub, with |-> "state"]}

Branches(id, sub) ==
  {[kind |-> "branch", id |-> id, with |-> "state", default |-> d,
    cases |-> <<[when |-> w, sub |-> sub], [when |-> "zero", sub |-> sub]>>] :
      d \in {NoFlow, sub}, w \in {"zero", "scope"}}

Repeats(id, sub) ==
  {[kind |-> "repeat", id |-> id, sub |-> sub, with |-> b, count |-> c,
    max |-> 2, indexed |-> x] :
      b \in {"state", "outer"}, c \in {"state", "two", "scoped"},
      x \in BOOLEAN}

Nodes(id, sub) ==
  {Step(id)} \cup Calls(id, sub) \cup Branches(id, sub) \cup Repeats(id, sub)

FlowsTo(name, sub) ==
  {<<n>> : n \in Nodes(name \o "1", sub)}
    \cup {<<n, Step(name \o "2")>> : n \in Nodes(name \o "1", sub)}

MainFlows ==
  FlowsTo("m", "f")
    \cup {<<n, k>> : n \in Calls("m1", "f") \cup Branches("m1", "f"),
                     k \in Calls("m2", "f") \cup Repeats("m2", "f")}

MCTables ==
  {[main |-> m, f |-> f, g |-> <<Step("g1"), Step("g2")>>] :
     m \in MainFlows, f \in FlowsTo("f", "g")}
=============================================================================
