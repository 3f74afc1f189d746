------------------------------ MODULE DslCompile ------------------------------
(***************************************************************************)
(* From a document to a runnable scenario: identities and faults are       *)
(* checked while nodes are parsed (dsl/parser.py), sequences must be       *)
(* linear and calls of subflows free of cycles (dsl/compiler.py), and what *)
(* was compiled is walked without a further check (dsl/runtime.py).        *)
(*                                                                         *)
(* An actor is a function from flow names to sequences of nodes, with its  *)
(* steps as the flow Root.  A DSL 1 document is a document of one actor.   *)
(***************************************************************************)
EXTENDS Integers, SequencesExt, FiniteSetsExt

CONSTANTS
  Documents,   \* records of version, actors (a sequence) and faults
  Root         \* the name of an actor's own steps

NoNode == "null"

(* Documents are made of sequences, and each actor has steps of its own.   *)
DocumentsAreWellFormed ==
  \A d \in Documents :
    /\ d.actors \in Seq(Range(d.actors)) /\ d.actors # <<>>
    /\ d.version = 1 => Len(d.actors) = 1
    /\ \A a \in DOMAIN d.actors :
         /\ Root \in DOMAIN d.actors[a]
         /\ \A f \in DOMAIN d.actors[a] : d.actors[a][f] \in Seq(Range(d.actors[a][f]))

(* A node: its control kind or "step", the flows of its cases, of its else *)
(* branch, its transition and, if a step, what it writes.                  *)
Step(id, to, writes) ==
  [id |-> id, kind |-> "step", cases |-> <<>>, default |-> <<>>, to |-> to, writes |-> writes]
Control(kind, id, to, cases, default) ==
  [id |-> id, kind |-> kind, cases |-> cases, default |-> default, to |-> to, writes |-> {}]

VARIABLES
  doc, phase, code,
  actor,        \* the actor that is compiled, then the one that runs
  visiting,     \* the depth-first search: flows under way and finished
  complete,
  stack         \* of the run: [flow, at]

search == <<visiting, complete>>
vars == <<doc, phase, code, actor, search, stack>>

Flows(a) == doc.actors[a]
Subflows(a) == DOMAIN Flows(a) \ {Root}
Nodes(a) == UNION {Range(Flows(a)[f]) : f \in DOMAIN Flows(a)}

Raise(c) ==
  /\ phase' = "refused" /\ code' = c /\ UNCHANGED <<doc, actor, search, stack>>

-----------------------------------------------------------------------------
(* _parse_node: an identity is unique in its actor, whatever the flow.     *)
UniqueIds(a) ==
  \A f, g \in DOMAIN Flows(a) : \A i \in DOMAIN Flows(a)[f], j \in DOMAIN Flows(a)[g] :
    Flows(a)[f][i].id = Flows(a)[g][j].id => f = g /\ i = j

WellFormed(n) ==
  /\ n.kind = "step" => n.cases = <<>> /\ n.default = <<>>
  /\ n.kind \in {"call", "repeat"} => Len(n.cases) = 1 /\ n.default = <<>>
  /\ n.kind = "branch" => n.cases # <<>> /\ Len(n.default) <= 1

(* _parse_faults: steps by identity, of all actors in one mapping, where   *)
(* the last declared one stays.                                            *)
Executable(id) ==
  LET owners == {a \in DOMAIN doc.actors : \E n \in Nodes(a) : n.id = id /\ n.kind = "step"}
  IN {n \in Nodes(CHOOSE a \in owners : \A b \in owners : b <= a) : n.id = id}

(* Mutant: the step is looked up, but not what it writes.                  *)
FaultDeclaredByStep(f) ==
  \E a \in DOMAIN doc.actors : \E n \in Nodes(a) : n.id = f.step /\ n.kind = "step"

FaultDeclared(f) ==
  /\ \E a \in DOMAIN doc.actors : \E n \in Nodes(a) : n.id = f.step /\ n.kind = "step"
  /\ \A n \in Executable(f.step) : f.target \in n.writes

Parse ==
  /\ phase = "text"
  /\ IF \A a \in DOMAIN doc.actors :
          /\ UniqueIds(a)
          /\ \A f \in DOMAIN Flows(a) : Flows(a)[f] # <<>>
          /\ \A n \in Nodes(a) : WellFormed(n)
     THEN IF \A f \in Range(doc.faults) : FaultDeclared(f)
          THEN phase' = "parsed" /\ UNCHANGED <<doc, code, actor, search, stack>>
          ELSE Raise("fault")
     ELSE Raise("schema")

-----------------------------------------------------------------------------
(* Mutant: the last transition is not looked at.                           *)
LinearButLast(steps) == \A i \in 1..(Len(steps) - 1) : steps[i].to = steps[i + 1].id

(* _validate_sequence                                                      *)
Linear(steps) ==
  \A i \in DOMAIN steps : steps[i].to = IF i < Len(steps) THEN steps[i + 1].id ELSE NoNode

(* Mutant: the else branch of a node is forgotten.                         *)
TargetsOfCases(n) == Range(n.cases)

(* _targets                                                                *)
Targets(n) == Range(n.cases) \cup Range(n.default)

Calls(a, f) == UNION {Targets(n) : n \in Range(Flows(a)[f])}

(* _validate_control, up to the search.                                    *)
CheckActor ==
  /\ phase = "parsed"
  /\ LET known == \A f \in DOMAIN Flows(actor) : Calls(actor, f) \subseteq Subflows(actor)
     IN IF ~\A f \in DOMAIN Flows(actor) : Linear(Flows(actor)[f]) THEN Raise("transition")
        ELSE IF ~known THEN Raise("unknown")
        ELSE /\ phase' = "searching" /\ visiting' = <<>> /\ complete' = {}
             /\ UNCHANGED <<doc, code, actor, stack>>

(* Mutant: a flow that was visited before is taken for a cycle.            *)
VisitOnce(f) ==
  IF f \in Range(visiting) \cup complete THEN Raise("cycle")
  ELSE /\ visiting' = Append(visiting, f)
       /\ UNCHANGED <<doc, phase, code, actor, complete, stack>>

(* visit: a call back to a flow under way is a cycle.                      *)
Visit(f) ==
  IF f \in Range(visiting) THEN Raise("cycle")
  ELSE /\ f \notin complete /\ visiting' = Append(visiting, f)
       /\ UNCHANGED <<doc, phase, code, actor, complete, stack>>

(* The search takes roots and calls by name; here, in any order.           *)
VisitRoot == /\ phase = "searching" /\ visiting = <<>>
             /\ \E f \in Subflows(actor) \ complete : Visit(f)

VisitCall == /\ phase = "searching" /\ visiting # <<>>
             /\ \E f \in Calls(actor, Last(visiting)) : Visit(f)

(* Mutant: the flow that is left is not finished.                          *)
LeaveUnder ==
  /\ phase = "searching" /\ visiting # <<>> /\ Calls(actor, Last(visiting)) \subseteq complete
  /\ complete' = complete \cup {Last(visiting)}
  /\ UNCHANGED <<doc, phase, code, actor, visiting, stack>>

Leave ==
  /\ phase = "searching" /\ visiting # <<>> /\ Calls(actor, Last(visiting)) \subseteq complete
  /\ visiting' = Front(visiting) /\ complete' = complete \cup {Last(visiting)}
  /\ UNCHANGED <<doc, phase, code, actor, stack>>

NextActor ==
  /\ phase = "searching" /\ visiting = <<>> /\ Subflows(actor) \subseteq complete
  /\ IF actor < Len(doc.actors) THEN actor' = actor + 1 /\ phase' = "parsed"
     ELSE phase' = "compiled" /\ UNCHANGED actor
  /\ UNCHANGED <<doc, code, search, stack>>

-----------------------------------------------------------------------------
(* A run of one actor, which takes any branch and any number, up to once,  *)
(* of iterations.                                                          *)
Enter(f) == [flow |-> f, at |-> 1]
Start ==
  /\ phase = "compiled" /\ phase' = "running" /\ actor' \in DOMAIN doc.actors
  /\ stack' = <<Enter(Root)>> /\ UNCHANGED <<doc, code, search>>

Frame == stack[Len(stack)]
Here == Flows(actor)[Frame.flow][Frame.at]
InFlow == phase = "running" /\ stack # <<>> /\ Frame.at <= Len(Flows(actor)[Frame.flow])
Advanced == [stack EXCEPT ![Len(stack)].at = @ + 1]

RunStep ==
  /\ InFlow /\ Here.kind = "step" /\ stack' = Advanced
  /\ UNCHANGED <<doc, phase, code, actor, search>>

(* Mutant: the caller's position stays on the call.                        *)
InvokeAgain ==
  /\ InFlow /\ Here.kind # "step"
  /\ \E f \in Range(Here.cases) \cup Range(Here.default) :
       /\ f \in DOMAIN Flows(actor) /\ stack' = Append(stack, Enter(f))
  /\ UNCHANGED <<doc, phase, code, actor, search>>

Invoke ==
  /\ InFlow /\ Here.kind # "step"
  /\ \E f \in Range(Here.cases) \cup Range(Here.default) :
       /\ f \in DOMAIN Flows(actor) /\ stack' = Append(Advanced, Enter(f))
  /\ UNCHANGED <<doc, phase, code, actor, search>>

(* No branch is taken, or there are no iterations.                         *)
PassOver ==
  /\ InFlow /\ Here.kind \in {"repeat", "branch"} /\ Here.default = <<>>
  /\ stack' = Advanced
  /\ UNCHANGED <<doc, phase, code, actor, search>>

Return ==
  /\ phase = "running" /\ stack # <<>> /\ ~InFlow
  /\ stack' = Front(stack)
  /\ phase' = IF Len(stack) = 1 THEN "ended" ELSE phase
  /\ UNCHANGED <<doc, code, actor, search>>

Init ==
  /\ doc \in Documents /\ phase = "text" /\ code = "none" /\ actor = 1
  /\ visiting = <<>> /\ complete = {} /\ stack = <<>>

Next ==
  \/ Parse \/ CheckActor \/ VisitRoot \/ VisitCall \/ Leave \/ NextActor
  \/ Start \/ RunStep \/ Invoke \/ PassOver \/ Return

Spec == Init /\ [][Next]_vars /\ WF_vars(Next)
-----------------------------------------------------------------------------
TypeOK ==
  /\ phase \in {"text", "parsed", "searching", "compiled", "running", "ended", "refused"}
  /\ (phase = "refused") = (code # "none") /\ actor \in DOMAIN doc.actors
  /\ complete \subseteq Subflows(actor) \/ phase # "searching"
  /\ phase = "searching" =>
       IsInjective(visiting) /\ Range(visiting) \subseteq Subflows(actor) \ complete
  /\ phase = "running" => stack # <<>> /\ \A i \in DOMAIN stack : stack[i].flow \in DOMAIN Flows(actor)

(* A document is refused for a cycle only when its actor has a knot: a set *)
(* of flows each of which calls one of them.  Two ways to one flow, or     *)
(* searches that meet, are none, however roots and calls are ordered.      *)
Knotted(a) ==
  \E S \in SUBSET Subflows(a) :
    /\ S # {}
    /\ \A f \in S : \E n \in Range(Flows(a)[f]) : S \cap (Range(n.cases) \cup Range(n.default)) # {}
CyclesAreReal == code = "cycle" => Knotted(actor)

(* What was compiled runs without a check: no flow is entered while it is  *)
(* under way, so nesting is bounded, and every flow that is called exists. *)
NestingIsBounded ==
  phase = "running" =>
    /\ \A i, j \in DOMAIN stack : stack[i].flow = stack[j].flow => i = j
    /\ InFlow => Range(Here.cases) \cup Range(Here.default) \subseteq Subflows(actor)

(* A node of a compiled flow is left to the node its transition names: the *)
(* position in the sequence and the transition are one control state.      *)
PositionIsTransition ==
  phase = "running" => \A i \in DOMAIN stack :
    LET f == Flows(actor)[stack[i].flow]
        k == stack[i].at
    IN k \in 2..(Len(f) + 1) => f[k - 1].to = IF k <= Len(f) THEN f[k].id ELSE NoNode

(* Compilation ends, and so does every run of what was compiled.           *)
Ends == <>(phase \in {"refused", "ended"})

(* Whenever a step runs that a fault selects, the step declares what the   *)
(* fault overrides: in DSL 1, where an identity is one step.               *)
HitDeclared ==
  phase = "running" /\ InFlow /\ Here.kind = "step" =>
    \A f \in Range(doc.faults) : f.step = Here.id => f.target \in Here.writes
FaultsHitDeclared == doc.version = 1 => HitDeclared

(* What is compiled can be run, and runs the way it was written.           *)
CompiledIsSound ==
  /\ TypeOK /\ CyclesAreReal /\ NestingIsBounded /\ PositionIsTransition
  /\ FaultsHitDeclared
=============================================================================
