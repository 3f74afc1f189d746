--------------------------- MODULE MCCommandLine ---------------------------
(***************************************************************************)
(* A scenario of each engine, a composition and a batch plan; two paths    *)
(* for what invocations leave behind.  Three invocations and an edit: a    *)
(* run, a replay of what it left, and one more.                            *)
(***************************************************************************)
EXTENDS CommandLine

(* TLC evaluates what the proofs suppose of the constants.                 *)
ASSUME CommandsAssumption == CommandsAreWellFormed

MCPaths == {"one", "two", "root", "plan", "out", "more"}

Content(kind, of) == [kind |-> kind, of |-> of, seed |-> 0, edit |-> "none"]
Of(kind, of, seed, edit) == [kind |-> kind, of |-> of, seed |-> seed, edit |-> edit]

MCFiles ==
  [p \in MCPaths |-> CASE p = "one" -> Content("dsl1", 1) [] p = "two" -> Content("dsl2", 2)
                       [] p = "root" -> Content("root", 3) [] p = "plan" -> Content("plan", 0)
                       [] OTHER -> Absent]

MCContents ==
  {Content(k, v) : k \in {"dsl1", "dsl2"}, v \in 1..2}
  \cup {Content("root", 3), Content("plan", 0), Content("dsl1", 3), Of("dsl1", 1, 0, "long")}
  \cup {Of("run", 1, 1, e) : e \in {"none", "schema", "child", "contract", "identity", "context"}}
  \cup {Of("result2", v, 1, e) : v \in 1..2, e \in {"none", "forged", "hash"}}
  \cup {Of("schedule", v, s, e) : v \in 1..2, s \in 1..2, e \in {"none", "hash"}}
  \cup {Of("html", v, 1, "none") : v \in 1..2}
  \cup {Of("run", v, s, "none") : v \in 1..2, s \in 1..2}
  \cup {Of("result2", v, s, "none") : v \in 1..2, s \in 1..2}

Plain(name, sources) ==
  [name |-> name, sources |-> sources, root |-> FALSE, seed |-> 1, schedule_seed |-> "none",
   replay_out |-> NoPath, schedule_out |-> NoPath, result_out |-> NoPath, schedule |-> NoPath,
   describe |-> FALSE, out |-> NoPath]

Cmd(name, sources, options) ==
  [f \in DOMAIN Plain(name, sources) |-> IF f \in DOMAIN options THEN options[f] ELSE Plain(name, sources)[f]]

None == [root |-> FALSE]
Engine2(more, schedule_seed) ==
  [schedule_seed |-> schedule_seed, schedule_out |-> "out", result_out |-> more]

MCRunCommands ==
  {Cmd("run", <<"one">>, [replay_out |-> "out"]), Cmd("run", <<"two">>, Engine2("more", "valid")),
   Cmd("run", <<"two">>, Engine2("more", "valid") @@ [seed |-> 2])}

MCReplayCommands ==
  {Cmd("replay", <<"out", s>>, None) : s \in {"one", "two"}}
  \cup {Cmd("replay", <<"more", s>>, [schedule |-> "out"]) : s \in {"one", "two"}}
  \cup {Cmd("replay", <<"out", "two">>, [schedule |-> "more"])}

MCOtherCommands ==
  {Cmd("run", <<"one">>, Engine2("more", "valid")), Cmd("run", <<"two">>, Engine2("out", "valid")),
   Cmd("run", <<"two">>, Engine2(NoPath, "bad")), Cmd("run", <<"root">>, [replay_out |-> "out"]),
   Cmd("run", <<"root">>, [root |-> TRUE]), Cmd("run", <<"more">>, [root |-> TRUE]),
   Cmd("run", <<"-">>, [root |-> TRUE]), Cmd("validate", <<"-">>, None), Cmd("validate", <<"one">>, [root |-> TRUE]),
   Cmd("validate", <<"plan">>, None), Cmd("validate", <<"one">>, None), Cmd("inspect", <<"more">>, None),
   Cmd("matrix", <<"one">>, None), Cmd("matrix", <<"two">>, None), Cmd("matrix", <<"one">>, [describe |-> TRUE]),
   Cmd("batch", <<"plan", "one", "root">>, None), Cmd("batch", <<"plan", "two">>, None), Cmd("batch", <<"out">>, None),
   Cmd("trace-view", <<"out">>, [out |-> "more"]), Cmd("trace-view", <<"more", "out">>, [out |-> "one"]),
   Cmd("diff", <<"more", "more">>, None), Cmd("diff", <<"-", "-">>, None), Cmd("diff", <<"more", "-">>, None),
   Cmd("replay", <<"-", "one">>, None), Cmd("replay", <<"-", "-">>, None)}

MCAll == MCRunCommands \cup MCReplayCommands \cup MCOtherCommands
MCPiped == Of("result2", 2, 1, "none")

(* Everything ends well or as one error, or only the second scenario fails *)
(* to be prepared.  It has the name of the first.                          *)
MCFates ==
  [1..3 -> {"ok"}] \cup {[v \in 1..3 |-> e] : e \in {"ExpressionEvaluationError", "TypeError", "KeyError"}}
  \cup {[v \in 1..3 |-> IF v = 2 THEN e ELSE "ok"] : e \in {"ResourceResolutionError", "PluginCompatibilityError"}}
MCScenarioId == <<"payments", "payments", "suite">>
=============================================================================
