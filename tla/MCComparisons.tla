---------------------------- MODULE MCComparisons ----------------------------
(***************************************************************************)
(* Pairs of definitions for Impact: scenarios that differ in resources and *)
(* who refers to them, in the steps of flows and subflows, in actors; long *)
(* sequences that start one step earlier; and faults in another order.     *)
(***************************************************************************)
EXTENDS Integers, TLC

MCExpr(text, refs) == [text |-> text, refs |-> refs, opaque |-> FALSE, whole |-> FALSE]
MCNothing == MCExpr("none", {})
MCWhole(name) == [MCExpr("r", {<<"$ref", name>>}) EXCEPT !.whole = TRUE]

MCAct(id, to) ==
  [id |-> id, kind |-> "step", generate |-> <<>>, derive |-> <<>>, write |-> <<>>, emit |-> MCNothing,
   advance |-> "0", transition |-> to, body |-> MCNothing, targets |-> {}]
MCWrite(id, to, name, refs) == [MCAct(id, to) EXCEPT !.write = (name :> MCExpr("w", refs))]
MCGo(id, to, kind, target) ==
  [MCAct(id, to) EXCEPT !.kind = kind, !.targets = {target}, !.body = MCExpr("b", {<<"state", "t">>})]

(* A step that generates, derives, writes and emits.                       *)
MCRich(to, text, opaque) ==
  [MCWrite("s", to, "t", {<<"derived", "d">>}) EXCEPT
     !.generate = ("g" :> [MCExpr(text, {<<"resource", "a">>, <<"state", "t">>}) EXCEPT !.opaque = opaque]),
     !.derive = ("d" :> MCExpr("d", {<<"local", "g">>, <<"state", "t">>})),
     !.emit = MCExpr("e", {<<"state", "t">>})]

MCHeader == [n \in {"scenario", "clock"} |-> "0"] @@ ("initial-state" :> ("t" :> 0))
MCFlowsOf(steps, subflows) == [steps |-> steps, subflows |-> subflows]
MCBare(version, owners) ==
  [version |-> version, definition |-> MCHeader, resources |-> ("a" :> MCExpr("1", {})), validators |-> <<>>,
   constraints |-> <<>>, invariants |-> <<>>, faults |-> <<>>,
   oracle |-> [given |-> FALSE, expected |-> {}], owners |-> owners]
MCOracle(expected) == [given |-> TRUE, expected |-> expected]
MCStarting(d, name, value) == [d EXCEPT !.definition["initial-state"] = (name :> value)]

(* Resources, one referring to another within its value and one as a whole.*)
MCResourced(v) ==
  [MCBare(1, <<>> :> MCFlowsOf(<<MCWrite("s", "null", "t", {<<"resource", "c">>})>>, <<>>)) EXCEPT
    !.resources = ("a" :> MCExpr(v, {})) @@ ("b" :> MCExpr("n", {<<"$ref", "a">>})) @@ ("c" :> MCWhole("a")),
    !.validators = <<[id |-> "v", resource |-> "c"]>>,
    !.constraints = <<[id |-> "k", check |-> MCExpr("k", {<<"resource", "b">>})]>>,
    !.invariants = <<[id |-> "i", check |-> MCExpr("i", {<<"state", "t">>})]>>]

MCOverride(id, operator, target, text) ==
  [id |-> id, operator |-> operator, target |-> target, subflow_path |-> <<>>, step |-> "s",
   value |-> MCExpr(text, {<<"resource", "a">>})]
MCOnResource(id, text) == MCOverride(id, "override_resource", "a", text)
MCOnWrite == MCOverride("g", "override_write", "t", "1")
MCFaulted(d, faults) == [d EXCEPT !.faults = faults]
MCJudged(d) == [d EXCEPT !.oracle = MCOracle({<<"constraint", "k">>, <<"invariant", "i">>})]

MCResourceful ==
  {MCResourced("1"), MCResourced("2"), MCJudged(MCResourced("1")),
   MCFaulted(MCResourced("1"), <<MCOnResource("f", "1"), MCOnWrite>>),
   MCFaulted(MCJudged(MCResourced("2")), <<MCOnWrite, MCOnResource("f", "2")>>),
   MCStarting([MCResourced("1") EXCEPT !.validators = <<>>, !.invariants[1].check = MCNothing], "u", 0)}

(* A flow that calls a subflow, which may call another or repeat it; steps *)
(* in two orders, and an order that does not compile.                      *)
MCFlowing(s, f, g) == MCBare(1, <<>> :> MCFlowsOf(s, ("f" :> f) @@ g))
MCMain(text, opaque) == <<MCRich("r", text, opaque), MCGo("r", "null", "call", "f")>>
MCLast == <<MCAct("p", "null")>>
MCOther == ("g" :> <<MCWrite("w", "null", "t", {<<"scope", "x">>})>>)
MCBodies ==
  {MCLast, <<MCGo("q", "p", "repeat", "g"), MCAct("p", "null")>>, <<MCAct("p", "q"), MCGo("q", "null", "branch", "g")>>}
MCRicher ==
  {MCFlowing(MCMain(text, opaque), f, MCOther) : opaque \in BOOLEAN, text \in {"1", "2"}, f \in MCBodies}
MCOrders ==
  {MCFlowing(s, MCLast, <<>>) :
     s \in {<<MCAct("r", "s"), MCAct("s", "null")>>, <<MCAct("s", "r"), MCAct("r", "null")>>,
            <<MCAct("s", "null"), MCAct("r", "null")>>}}
MCPoorer ==
  {MCStarting(MCFlowing(MCMain("1", TRUE), MCLast, <<>>), "t", 1),
   MCFlowing(<<MCGo("r", "null", "call", "f")>>, MCLast, <<>>),
   MCFlowing(<<MCAct("r", "s"), MCAct("s", "null")>>, MCLast, <<>>)}
MCFirstFlow == MCFlowing(MCMain("1", FALSE), <<MCGo("q", "p", "repeat", "g"), MCAct("p", "null")>>, MCOther)

(* Actors that share state.                                                *)
MCPlayer(n) == <<<<"actor", n>>>>
MCPlaying(owners) ==
  [MCBare(2, owners) EXCEPT !.constraints = <<[id |-> "k", check |-> MCExpr("k", {<<"resource", "a">>})]>>]
MCWriter(text) == MCFlowsOf(MCMain(text, FALSE), "f" :> <<MCWrite("w", "null", "u", {<<"scope", "x">>})>>)
MCReader(name) == MCFlowsOf(<<MCWrite("s", "null", "v", {<<"state", name>>})>>, <<>>)
MCAlone == MCPlaying(MCPlayer("a") :> MCWriter("1"))
MCPlayful ==
  {MCPlaying((MCPlayer("a") :> MCWriter(text)) @@ (MCPlayer("b") :> MCReader(name))) :
     text \in {"1", "2"}, name \in {"t", "u"}}
  \cup {MCAlone, [MCFaulted(MCAlone, <<MCOnResource("f", "1")>>) EXCEPT !.oracle = MCOracle({<<"constraint", "k">>})]}

MCChain(version, owner, n) ==
  MCBare(version, owner :> MCFlowsOf(
    [i \in 1..n |-> MCAct(ToString(n - i), IF i < n THEN ToString(n - i - 1) ELSE "null")], <<>>))
MCLonger(version, owner, n) == <<MCChain(version, owner, n), MCChain(version, owner, n + 1)>>
MCWithMore(d, k) == [d EXCEPT !.resources = [n \in {ToString(j) : j \in 1..k} |-> MCExpr("1", {})]]

MCComparisons ==
  (MCResourceful \X MCResourceful) \cup (MCPlayful \X MCPlayful) \cup ({MCFirstFlow} \X MCPlayful)
  \cup ({MCFirstFlow} \X (MCRicher \cup MCPoorer)) \cup (MCPoorer \X {MCFirstFlow})
  \cup (MCOrders \X MCOrders)
  \cup {MCLonger(1, <<>>, n) : n \in {3, 4, 5, 9}} \cup {MCLonger(2, MCPlayer("a"), n) : n \in {3, 5}}
  \cup {<<MCWithMore(MCChain(1, <<>>, 9), k), MCChain(1, <<>>, 10)>> : k \in {3, 6}}
  \cup {<<MCFaulted(MCResourced("1"), <<MCOnResource("f", "1"), MCOnResource("g", "2")>>),
         MCFaulted(MCResourced("1"), <<MCOnResource("g", "2"), MCOnResource("f", "1")>>)>>}
=============================================================================
