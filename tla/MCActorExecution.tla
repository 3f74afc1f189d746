-------------------------- MODULE MCActorExecution --------------------------
(***************************************************************************)
(* Scenarios of three actors for ActorExecution.  The routes of an actor   *)
(* are those of module ActorRouting over its flow table, tabulated once    *)
(* over the control stacks it can reach.  State and scopes are 0..2.       *)
(***************************************************************************)
EXTENDS ActorExecution

CONSTANTS NoFlow, NoScope, Undefined, RoutingLimit

MCTruth(when, s, scope) ==
  CASE when = "zero"  -> s = 0
    [] when = "scope" -> IF scope = NoScope THEN Undefined ELSE scope = s

MCCount(expression, s, scope) == IF expression = "state" THEN s ELSE 2

MCBinding(bindings, s, scope) == s

Routing == INSTANCE ActorRouting
             WITH Truth <- MCTruth, CountOf <- MCCount, Binding <- MCBinding

-----------------------------------------------------------------------------
(* A step adds to the state, may advance the clock and emit, and raises in *)
(* the phases fails when the state it runs in is 1.                        *)
Node(at, add, advance, fails) ==
  [kind |-> "step",
   id |-> [at |-> at, add |-> add, advance |-> advance, fails |-> fails]]

Flow(main, sub) == [main |-> main, sub |-> sub]
Sub == <<Node("sub", 1, 0, {})>>

(* What the first actor does: nested control over the shared state.        *)
Straight == Flow(<<Node("one", 1, 1, {}), Node("two", 2, 1, {})>>, <<>>)
Branching ==
  Flow(<<[kind |-> "branch", id |-> "b", with |-> "state", default |-> NoFlow,
          cases |-> <<[when |-> "zero", sub |-> "sub"]>>],
         Node("one", 1, 1, {})>>, Sub)
Repeating ==
  Flow(<<[kind |-> "repeat", id |-> "r", sub |-> "sub", with |-> "state",
          count |-> "state", max |-> 1, indexed |-> FALSE]>>, Sub)
Twice ==
  Flow(<<[kind |-> "repeat", id |-> "r", sub |-> "sub", with |-> "state",
          count |-> "two", max |-> 2, indexed |-> FALSE],
         [kind |-> "call", id |-> "c", sub |-> "sub", with |-> "state"]>>, Sub)
Long ==
  Flow(<<[kind |-> "repeat", id |-> "r", sub |-> "sub", with |-> "state",
          count |-> "two", max |-> 2, indexed |-> TRUE]>>,
       <<Node("sub", 1, 0, {}), Node("two", 2, 0, {})>>)
Unroutable ==
  Flow(<<Node("one", 1, 0, {}),
         [kind |-> "branch", id |-> "b", with |-> "state", default |-> "sub",
          cases |-> <<[when |-> "scope", sub |-> "sub"]>>]>>, Sub)

FirstFlows == {Straight, Branching, Repeating, Twice, Long, Unroutable}

(* What the second does: one step that may raise in one phase, or in two.  *)
Faults == {{}, {"emit", "invariants"}} \cup {{p} : p \in Phases}
SecondFlows == {Flow(<<Node("second", 2, 1, f)>>, <<>>) : f \in Faults}

(* The third takes one step, and only while the state is 0.                *)
ThirdFlow ==
  Flow(<<[kind |-> "branch", id |-> "b", with |-> "state", default |-> NoFlow,
          cases |-> <<[when |-> "zero", sub |-> "sub"]>>]>>, Sub)

MCActors == {"a1", "a2", "a3"}
MCRank == [a1 |-> 0, a2 |-> 1, a3 |-> 2]

MCScenarios ==
  {sc \in [a1 : FirstFlows, a2 : SecondFlows, a3 : {ThirdFlow}] :
     sc.a1 \in {Straight, Branching}
       \/ sc.a2.main[1].id.fails \in {{}, {"invariants"}}}
FlowTables == FirstFlows \cup SecondFlows \cup {ThirdFlow}

MCStates == 0..2
MCInitialState(sc) == IF sc.a1 = Repeating THEN 1 ELSE 0

-----------------------------------------------------------------------------
(* The control stacks of a flow table: those reached from the start in at  *)
(* most four routings, which exhausts every flow table above.              *)
Successors(flows, stacks) ==
  {Routing!RouteOf(flows, f, s).frames : f \in stacks, s \in MCStates}

StacksOf(flows) ==
  LET after[n \in 0..4] ==
        IF n = 0 THEN {Routing!StartFrames}
        ELSE UNION {k \cup Successors(flows, k) : k \in {after[n - 1]}}
  IN  after[4]

MCInitialControl == Routing!StartFrames
MCTerminal == <<>>

RoutingOf(r) ==
  CASE r.result = "step" ->
         [kind |-> "step", step |-> r.step, control |-> r.frames]
    [] r.result = "done" -> [kind |-> "done"]
    [] OTHER -> [kind |-> "error"]

RouteTable ==
  [flows \in FlowTables |->
     [f \in StacksOf(flows), s \in MCStates |->
        RoutingOf(Routing!RouteOf(flows, f, s))]]

MCControls == UNION {{r[1] : r \in DOMAIN RouteTable[t]} : t \in FlowTables}

MCRoute(sc, a, c, s) ==
  IF <<c, s>> \in DOMAIN RouteTable[sc[a]] THEN RouteTable[sc[a]][c, s]
  ELSE [kind |-> "done"]

MCSteps ==
  UNION {{r.step : r \in {k \in {RouteTable[t][d] : d \in DOMAIN RouteTable[t]} :
                            k.kind = "step"}} : t \in FlowTables}

Scope(step) == IF step.scope = NoScope THEN 0 ELSE step.scope
MCPost(step, s) == (s + step.id.add + Scope(step)) % 3
MCAdvance(step) == step.id.advance
MCArtifacts == {"second", "sub"}
MCEmits(step, s) == IF step.id.at \in MCArtifacts THEN <<step.id.at>> ELSE <<>>
MCRaises(step, s) == IF s = 1 THEN step.id.fails ELSE {}

-----------------------------------------------------------------------------
(* A seed is a number whose digits in base 3 are the selections to make;   *)
(* the digest also tells the other coordinates apart.                      *)
MCSeeds == 0..(3 ^ MaxSelections - 1)
MCDigest(c) ==
  ((c.seed \div 3 ^ c.ordinal) % 3)
    + 6 * (c.ordinal + 8 * (c.historyLength + 8 * (c.clock
           + 8 * Cardinality(c.ready \cap {"a1"})
           + 16 * Cardinality(c.ready \cap {"a2"})
           + 32 * Cardinality(c.ready \cap {"a3"}))))
=============================================================================
