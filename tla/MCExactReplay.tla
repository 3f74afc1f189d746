--------------------------- MODULE MCExactReplay ---------------------------
(* Exact replay over six of the scenarios of MCActorExecution: one that    *)
(* succeeds, and ones that fail, overflow the clock or abort.              *)
EXTENDS MCActorExecution, ExactReplay

MCReplayFaults == {{}, {"faults"}, {"invariants"}}

MCReplayScenarios ==
  {sc \in [a1 : {Straight, Branching}, a2 : SecondFlows, a3 : {ThirdFlow}] :
     sc.a2.main[1].id.fails \in MCReplayFaults}
=============================================================================
