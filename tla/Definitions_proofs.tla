-------------------------- MODULE Definitions_proofs --------------------------
(***************************************************************************)
(* From files to suites, for every value of the constants that is well     *)
(* formed.                                                                 *)
(*                                                                         *)
(* The compiler: the flows under way call one another and those finished   *)
(* call finished ones, not in a circle (CompileInv); so an actor is refused*)
(* for a circle it has, and a run of one that was not never enters a flow  *)
(* twice.                                                                  *)
(* Expressions: what a flag forbids at a place stays forbidden below it,   *)
(* so that the parser's verdict is that of the whole path (ExpressionInv). *)
(* Suites: what the cases used is the sum over those completed before, and *)
(* each is what execution makes of it (SuiteInv).                          *)
(* Composition: accepted bytes are summed over a finite set of files, and  *)
(* what is composed is a function of what was loaded (CompositionInv); the *)
(* rest is about that function.  Where names are apart a place tells the   *)
(* owner and the name of what is there, so that a rewritten reference finds*)
(* what it meant, and one that is not rewritten what it means in the root; *)
(* a circle is one of modules' resources or one of the root.               *)
(*                                                                         *)
(* Then the components side by side: a behaviour is one of one of them,    *)
(* and the others do not touch its variables (DefinitionsInv).             *)
(***************************************************************************)
EXTENDS MCDefinitions, FiniteSetTheorems, WellFoundedInduction, TLAPS

-----------------------------------------------------------------------------
(* The flows of S call each other without end.                             *)
CallsWithin(a, S) ==
  S \subseteq Compiling!Subflows(a) /\ S # {} /\ \A f \in S : Compiling!Calls(a, f) \cap S # {}

(* What _validate_control leaves of an actor.                              *)
Walkable(a) ==
  \A f \in DOMAIN Compiling!Flows(a) : Compiling!Linear(Compiling!Flows(a)[f]) /\ Compiling!Calls(a, f) \subseteq Compiling!Subflows(a)

ActorsAreCompiled ==
  \A a \in DOMAIN doc.actors :
    \/ phase \in {"compiled", "running", "ended"}
    \/ phase \in {"parsed", "searching"} /\ a < actor
    => Walkable(a) /\ ~Compiling!Knotted(a)

(* The flows under way call one another, those finished call finished ones *)
(* only and not in a circle.                                               *)
SearchIsDepthFirst ==
  phase = "searching" =>
    /\ Walkable(actor)
    /\ visiting \in Seq(Compiling!Subflows(actor)) /\ Compiling!IsInjective(visiting)
    /\ complete \subseteq Compiling!Subflows(actor) /\ Compiling!Range(visiting) \cap complete = {}
    /\ \A i \in 1..(Len(visiting) - 1) : visiting[i + 1] \in Compiling!Calls(actor, visiting[i])
    /\ \A f \in complete : Compiling!Calls(actor, f) \subseteq complete
    /\ \A S \in SUBSET complete : ~CallsWithin(actor, S)

FaultsAreDeclared ==
  phase \notin {"text", "refused"} => \A f \in Compiling!Range(doc.faults) : Compiling!FaultDeclared(f)

(* The frames of a run call one another.                                   *)
FramesAreCalls ==
  phase = "running" =>
    /\ stack # <<>> /\ stack \in Seq([flow : DOMAIN Compiling!Flows(actor), at : Nat \ {0}])
    /\ \A i \in 1..(Len(stack) - 1) : stack[i + 1].flow \in Compiling!Calls(actor, stack[i].flow)

CompileTyped ==
  /\ doc \in Programs /\ actor \in DOMAIN doc.actors
  /\ phase \in {"text", "parsed", "searching", "compiled", "running", "ended", "refused"}
  /\ (phase = "refused") = (code # "none")

FirstActor == phase = "text" => actor = 1

CompileInv ==
  /\ CompileTyped /\ FirstActor /\ ActorsAreCompiled /\ SearchIsDepthFirst
  /\ FaultsAreDeclared /\ FramesAreCalls /\ Compiling!CyclesAreReal

-----------------------------------------------------------------------------
LEMMA ActorsAreSequences ==
  ASSUME Compiling!DocumentsAreWellFormed, doc \in Programs
  PROVE  /\ Len(doc.actors) \in Nat \ {0} /\ DOMAIN doc.actors = 1..Len(doc.actors)
         /\ doc.version = 1 => Len(doc.actors) = 1
         /\ \A a \in DOMAIN doc.actors :
              /\ Root \in DOMAIN Compiling!Flows(a)
              /\ \A f \in DOMAIN Compiling!Flows(a) :
                   /\ Len(Compiling!Flows(a)[f]) \in Nat
                   /\ DOMAIN Compiling!Flows(a)[f] = 1..Len(Compiling!Flows(a)[f])
<1>1. doc.actors \in Seq(Compiling!Range(doc.actors)) /\ doc.actors # <<>>
  BY DEF Compiling!DocumentsAreWellFormed
<1>2. Len(doc.actors) \in Nat \ {0} /\ DOMAIN doc.actors = 1..Len(doc.actors)
  BY <1>1
<1>3. ASSUME NEW a \in DOMAIN doc.actors, NEW f \in DOMAIN Compiling!Flows(a)
      PROVE  Len(Compiling!Flows(a)[f]) \in Nat /\ DOMAIN Compiling!Flows(a)[f] = 1..Len(Compiling!Flows(a)[f])
  <2>1. Compiling!Flows(a)[f] \in Seq(Compiling!Range(Compiling!Flows(a)[f]))
    BY <1>3 DEF Compiling!DocumentsAreWellFormed, Compiling!Flows
  <2> QED
    BY <2>1
<1> QED
  BY <1>2, <1>3 DEF Compiling!DocumentsAreWellFormed, Compiling!Flows

LEMMA KnotsAreCalls ==
  ASSUME NEW a
  PROVE  Compiling!Knotted(a) <=> \E S \in SUBSET Compiling!Subflows(a) : CallsWithin(a, S)
<1>1. ASSUME NEW S, NEW f
      PROVE  Compiling!Calls(a, f) \cap S # {} <=>
               \E n \in Compiling!Range(Compiling!Flows(a)[f]) : S \cap (Compiling!Range(n.cases) \cup Compiling!Range(n.default)) # {}
  BY DEF Compiling!Calls, Compiling!Targets
<1>2. ASSUME NEW S \in SUBSET Compiling!Subflows(a)
      PROVE  CallsWithin(a, S) <=>
               /\ S # {}
               /\ \A f \in S : \E n \in Compiling!Range(Compiling!Flows(a)[f]) :
                    S \cap (Compiling!Range(n.cases) \cup Compiling!Range(n.default)) # {}
  BY <1>1 DEF CallsWithin
<1> QED
  BY <1>2 DEF Compiling!Knotted

(* A call back to a flow under way closes a circle of the flows since.     *)
LEMMA CallsBackAreKnots ==
  ASSUME NEW a, NEW s, NEW n \in Nat, NEW i \in 1..n, NEW f,
         \A k \in i..n : s[k] \in Compiling!Subflows(a),
         \A k \in i..(n - 1) : s[k + 1] \in Compiling!Calls(a, s[k]),
         s[i] = f, f \in Compiling!Calls(a, s[n])
  PROVE  Compiling!Knotted(a)
<1> DEFINE S == {s[k] : k \in i..n}
<1>1. S \subseteq Compiling!Subflows(a) /\ S # {}
  OBVIOUS
<1>2. ASSUME NEW k \in i..n PROVE Compiling!Calls(a, s[k]) \cap S # {}
  <2>1. CASE k = n
    BY <2>1
  <2>2. CASE k # n
    <3>1. k \in i..(n - 1) /\ k + 1 \in i..n
      BY <2>2
    <3> QED
      BY <3>1
  <2> QED
    BY <2>1, <2>2
<1>3. CallsWithin(a, S)
  BY <1>1, <1>2 DEF CallsWithin
<1> QED
  BY <1>1, <1>3, KnotsAreCalls

LEMMA CompileInit ==
  ASSUME Compiling!DocumentsAreWellFormed, Compiling!Init PROVE CompileInv
<1>1. doc \in Programs
  BY DEF Compiling!Init
<1> QED
  BY <1>1, ActorsAreSequences
  DEF Compiling!Init, CompileInv, CompileTyped, FirstActor, ActorsAreCompiled, SearchIsDepthFirst,
      FaultsAreDeclared, FramesAreCalls, Compiling!CyclesAreReal

(* Definitions of an actor do not look at the state but for the document.  *)
LEMMA ActorsStay ==
  ASSUME UNCHANGED doc
  PROVE  /\ \A a : Compiling!Flows(a)' = Compiling!Flows(a) /\ Compiling!Subflows(a)' = Compiling!Subflows(a) /\ Compiling!Nodes(a)' = Compiling!Nodes(a)
         /\ \A a : Compiling!Knotted(a)' = Compiling!Knotted(a) /\ Walkable(a)' = Walkable(a)
         /\ \A a, f : Compiling!Calls(a, f)' = Compiling!Calls(a, f)
         /\ \A a, S : CallsWithin(a, S)' = CallsWithin(a, S)
         /\ \A f : Compiling!FaultDeclared(f)' = Compiling!FaultDeclared(f)
  BY DEF Compiling!Flows, Compiling!Subflows, Compiling!Nodes, Compiling!Knotted, Walkable, Compiling!Calls, CallsWithin, Compiling!FaultDeclared, Compiling!Executable

LEMMA RaiseStep ==
  ASSUME NEW c, c # "none", c # "cycle", CompileInv, Compiling!Raise(c) PROVE CompileInv'
  BY ActorsStay
  DEF Compiling!Raise, Compiling!search, CompileInv, CompileTyped, FirstActor, ActorsAreCompiled, SearchIsDepthFirst,
      FaultsAreDeclared, FramesAreCalls, Compiling!CyclesAreReal

LEMMA ParseStep ==
  ASSUME Compiling!DocumentsAreWellFormed, CompileInv, Compiling!Parse, phase' # "refused" PROVE CompileInv'
<1>1. /\ \A f \in Compiling!Range(doc.faults) : Compiling!FaultDeclared(f)
      /\ phase = "text" /\ phase' = "parsed" /\ UNCHANGED <<doc, code, actor, Compiling!search, stack>>
  BY DEF Compiling!Parse, Compiling!Raise
<1>2. code = "none" /\ doc' = doc /\ actor' = actor /\ code' = code
  BY <1>1 DEF CompileInv, CompileTyped
<1>3. FaultsAreDeclared'
  BY <1>1, <1>2, ActorsStay DEF FaultsAreDeclared
<1>4. ActorsAreCompiled'
  <2> SUFFICES ASSUME NEW a \in DOMAIN doc.actors, a < actor PROVE FALSE
    BY <1>1, <1>2 DEF ActorsAreCompiled
  <2> QED
    BY <1>1, ActorsAreSequences DEF CompileInv, CompileTyped, FirstActor
<1> QED
  BY <1>1, <1>2, <1>3, <1>4, ActorsStay
  DEF Compiling!search, CompileInv, CompileTyped, FirstActor, ActorsAreCompiled, SearchIsDepthFirst,
      FaultsAreDeclared, FramesAreCalls, Compiling!CyclesAreReal

LEMMA CheckActorStep ==
  ASSUME CompileInv, Compiling!CheckActor, phase' # "refused" PROVE CompileInv'
<1>1. /\ phase = "parsed" /\ phase' = "searching" /\ visiting' = <<>> /\ complete' = {}
      /\ UNCHANGED <<doc, code, actor, stack>>
      /\ \A f \in DOMAIN Compiling!Flows(actor) : Compiling!Linear(Compiling!Flows(actor)[f]) /\ Compiling!Calls(actor, f) \subseteq Compiling!Subflows(actor)
  BY DEF Compiling!CheckActor, Compiling!Raise
<1>2. Walkable(actor)
  BY <1>1 DEF Walkable
<1>3. SearchIsDepthFirst'
  <2>1. visiting' \in Seq(Compiling!Subflows(actor)) /\ Len(visiting') = 0 /\ DOMAIN visiting' = {}
    BY <1>1
  <2>2. Compiling!IsInjective(visiting') /\ Compiling!Range(visiting') = {}
    BY <2>1 DEF Compiling!IsInjective, Compiling!Range
  <2>3. \A S \in SUBSET {} : ~CallsWithin(actor, S)
    BY DEF CallsWithin
  <2> QED
    BY <1>1, <1>2, <2>1, <2>2, <2>3, ActorsStay DEF SearchIsDepthFirst
<1> QED
  BY <1>1, <1>3, ActorsStay
  DEF CompileInv, CompileTyped, FirstActor, ActorsAreCompiled, FaultsAreDeclared, FramesAreCalls, Compiling!CyclesAreReal

(* A visit goes one flow deeper or finds a circle.                         *)
LEMMA VisitStep ==
  ASSUME CompileInv, phase = "searching", NEW f \in Compiling!Subflows(actor), Compiling!Visit(f),
         visiting # <<>> => f \in Compiling!Calls(actor, Compiling!Last(visiting))
  PROVE  CompileInv'
<1>1. CASE f \in Compiling!Range(visiting)
  <2>1. Compiling!Raise("cycle")
    BY <1>1 DEF Compiling!Visit
  <2>2. visiting \in Seq(Compiling!Subflows(actor))
    BY DEF CompileInv, SearchIsDepthFirst
  <2>3. PICK i \in 1..Len(visiting) : visiting[i] = f
    BY <1>1, <2>2 DEF Compiling!Range
  <2>4. Compiling!Knotted(actor)
    <3>1. Len(visiting) \in Nat /\ visiting # <<>>
      BY <2>2, <2>3
    <3>2. \A k \in i..Len(visiting) : visiting[k] \in Compiling!Subflows(actor)
      BY <2>2, <2>3
    <3>3. \A k \in i..(Len(visiting) - 1) : visiting[k + 1] \in Compiling!Calls(actor, visiting[k])
      BY <2>2, <2>3 DEF CompileInv, SearchIsDepthFirst
    <3>4. f \in Compiling!Calls(actor, visiting[Len(visiting)])
      BY <3>1 DEF Compiling!Last
    <3> QED
      BY <2>3, <3>1, <3>2, <3>3, <3>4, CallsBackAreKnots
  <2> QED
    BY <2>1, <2>4, ActorsStay
    DEF Compiling!Raise, Compiling!search, CompileInv, CompileTyped, FirstActor, ActorsAreCompiled, SearchIsDepthFirst,
        FaultsAreDeclared, FramesAreCalls, Compiling!CyclesAreReal
<1>2. CASE f \notin Compiling!Range(visiting)
  <2>1. /\ f \notin complete /\ visiting' = Append(visiting, f)
        /\ UNCHANGED <<doc, phase, code, actor, complete, stack>>
    BY <1>2 DEF Compiling!Visit
  <2>2. visiting \in Seq(Compiling!Subflows(actor)) /\ Len(visiting) \in Nat /\ DOMAIN visiting = 1..Len(visiting)
    BY DEF CompileInv, SearchIsDepthFirst
  <2>3. /\ visiting' \in Seq(Compiling!Subflows(actor)) /\ Len(visiting') = Len(visiting) + 1
        /\ DOMAIN visiting' = 1..(Len(visiting) + 1)
        /\ \A i \in 1..Len(visiting) : visiting'[i] = visiting[i]
        /\ visiting'[Len(visiting) + 1] = f
    BY <2>1, <2>2
  <2>4. Compiling!Range(visiting') = Compiling!Range(visiting) \cup {f}
    BY <2>2, <2>3 DEF Compiling!Range
  <2>5. Compiling!IsInjective(visiting')
    BY <1>2, <2>2, <2>3 DEF Compiling!IsInjective, Compiling!Range, CompileInv, SearchIsDepthFirst
  <2>6. \A i \in 1..(Len(visiting') - 1) : visiting'[i + 1] \in Compiling!Calls(actor, visiting'[i])
    <3> SUFFICES ASSUME NEW i \in 1..Len(visiting)
                 PROVE  visiting'[i + 1] \in Compiling!Calls(actor, visiting'[i])
      BY <2>2, <2>3
    <3>1. CASE i = Len(visiting)
      BY <3>1, <2>2, <2>3 DEF Compiling!Last
    <3>2. CASE i # Len(visiting)
      <4>1. i \in 1..(Len(visiting) - 1) /\ i + 1 \in 1..Len(visiting)
        <5>1. Len(visiting) \in Nat
          BY <2>2
        <5> QED
          BY <3>2, <5>1
      <4> QED
        BY <4>1, <2>3 DEF CompileInv, SearchIsDepthFirst
    <3> QED
      BY <3>1, <3>2
  <2>7. SearchIsDepthFirst'
    BY <2>1, <2>3, <2>4, <2>5, <2>6, ActorsStay DEF CompileInv, SearchIsDepthFirst
  <2> QED
    BY <2>1, <2>7, ActorsStay
    DEF CompileInv, CompileTyped, FirstActor, ActorsAreCompiled, FaultsAreDeclared, FramesAreCalls, Compiling!CyclesAreReal
<1> QED
  BY <1>1, <1>2

LEMMA LeaveStep ==
  ASSUME CompileInv, Compiling!Leave PROVE CompileInv'
<1> DEFINE g == Compiling!Last(visiting)
<1>1. /\ phase = "searching" /\ visiting # <<>> /\ Compiling!Calls(actor, g) \subseteq complete
      /\ visiting' = Compiling!Front(visiting) /\ complete' = complete \cup {g}
      /\ UNCHANGED <<doc, phase, code, actor, stack>>
  BY DEF Compiling!Leave
<1>2. /\ visiting \in Seq(Compiling!Subflows(actor)) /\ Len(visiting) \in Nat \ {0}
      /\ DOMAIN visiting = 1..Len(visiting)
  BY <1>1 DEF CompileInv, SearchIsDepthFirst
<1>3. /\ visiting' \in Seq(Compiling!Subflows(actor)) /\ Len(visiting') = Len(visiting) - 1
      /\ DOMAIN visiting' = 1..(Len(visiting) - 1)
      /\ \A i \in 1..(Len(visiting) - 1) : visiting'[i] = visiting[i]
  BY <1>1, <1>2 DEF Compiling!Front
<1>4. g = visiting[Len(visiting)] /\ g \in Compiling!Subflows(actor) /\ g \in Compiling!Range(visiting) /\ g \notin complete
  BY <1>1, <1>2 DEF Compiling!Last, Compiling!Range, CompileInv, SearchIsDepthFirst
<1>5. Compiling!IsInjective(visiting') /\ Compiling!Range(visiting') \subseteq Compiling!Range(visiting) \ {g}
  BY <1>1, <1>2, <1>3, <1>4 DEF Compiling!IsInjective, Compiling!Range, CompileInv, SearchIsDepthFirst
<1>6. \A i \in 1..(Len(visiting') - 1) : visiting'[i + 1] \in Compiling!Calls(actor, visiting'[i])
  BY <1>1, <1>2, <1>3 DEF CompileInv, SearchIsDepthFirst
<1>7. \A f \in complete' : Compiling!Calls(actor, f) \subseteq complete'
  BY <1>1 DEF CompileInv, SearchIsDepthFirst
<1>8. ASSUME NEW S \in SUBSET complete', CallsWithin(actor, S) PROVE FALSE
  <2>1. CASE g \notin S
    BY <2>1, <1>1, <1>8 DEF CompileInv, SearchIsDepthFirst
  <2>2. CASE g \in S
    <3>1. \A f \in S : Compiling!Calls(actor, f) \subseteq complete
      BY <1>1, <1>8 DEF CompileInv, SearchIsDepthFirst
    <3>2. \A f \in S : Compiling!Calls(actor, f) \cap (S \ {g}) # {}
      BY <3>1, <1>4, <1>8 DEF CallsWithin
    <3>3. S \ {g} # {}
      BY <2>2, <3>2
    <3>4. CallsWithin(actor, S \ {g})
      BY <3>2, <3>3, <1>8 DEF CallsWithin
    <3> QED
      BY <3>4, <1>1 DEF CompileInv, SearchIsDepthFirst
  <2> QED
    BY <2>1, <2>2
<1>9. SearchIsDepthFirst'
  BY <1>1, <1>3, <1>4, <1>5, <1>6, <1>7, <1>8, ActorsStay DEF CompileInv, SearchIsDepthFirst
<1> QED
  BY <1>1, <1>9, ActorsStay
  DEF CompileInv, CompileTyped, FirstActor, ActorsAreCompiled, FaultsAreDeclared, FramesAreCalls, Compiling!CyclesAreReal

LEMMA NextActorStep ==
  ASSUME Compiling!DocumentsAreWellFormed, CompileInv, Compiling!NextActor PROVE CompileInv'
<1>1. /\ phase = "searching" /\ Compiling!Subflows(actor) \subseteq complete
      /\ UNCHANGED <<doc, code, Compiling!search, stack>>
      /\ \/ actor < Len(doc.actors) /\ actor' = actor + 1 /\ phase' = "parsed"
         \/ ~(actor < Len(doc.actors)) /\ actor' = actor /\ phase' = "compiled"
  BY DEF Compiling!NextActor
<1>2. Walkable(actor) /\ ~Compiling!Knotted(actor)
  BY <1>1, KnotsAreCalls DEF CompileInv, SearchIsDepthFirst, CallsWithin
<1>3. Len(doc.actors) \in Nat \ {0} /\ DOMAIN doc.actors = 1..Len(doc.actors) /\ actor \in 1..Len(doc.actors)
  BY ActorsAreSequences DEF CompileInv, CompileTyped
<1>4. ActorsAreCompiled'
  <2> SUFFICES ASSUME NEW a \in DOMAIN doc.actors,
                      (phase' = "parsed" /\ a < actor') \/ phase' = "compiled"
               PROVE  Walkable(a) /\ ~Compiling!Knotted(a)
    BY <1>1, ActorsStay DEF ActorsAreCompiled
  <2>1. a < actor \/ a = actor
    BY <1>1, <1>3
  <2> QED
    BY <2>1, <1>1, <1>2 DEF CompileInv, ActorsAreCompiled
<1>5. CompileTyped'
  BY <1>1, <1>3 DEF CompileInv, CompileTyped
<1>6. phase' \in {"parsed", "compiled"} /\ phase # "text" /\ code' = code /\ doc' = doc /\ phase # "refused"
  BY <1>1
<1>7. code = "none"
  BY <1>6 DEF CompileInv, CompileTyped
<1> QED
  BY <1>4, <1>5, <1>6, <1>7, ActorsStay
  DEF CompileInv, FirstActor, SearchIsDepthFirst, FaultsAreDeclared, FramesAreCalls, Compiling!CyclesAreReal

(* A run enters a flow that is there, and no flow under way.               *)
LEMMA StartStep ==
  ASSUME Compiling!DocumentsAreWellFormed, CompileInv, Compiling!Start PROVE CompileInv'
<1>1. /\ phase = "compiled" /\ phase' = "running" /\ actor' \in DOMAIN doc.actors
      /\ stack' = <<Compiling!Enter(Root)>> /\ UNCHANGED <<doc, code, Compiling!search>>
  BY DEF Compiling!Start
<1>2. Root \in DOMAIN Compiling!Flows(actor')
  BY <1>1, ActorsAreSequences DEF CompileInv, CompileTyped
<1>3. FramesAreCalls'
  <2>1. stack' \in Seq([flow : DOMAIN Compiling!Flows(actor'), at : Nat \ {0}]) /\ Len(stack') = 1
    BY <1>1, <1>2 DEF Compiling!Enter
  <2> QED
    BY <1>1, <2>1, ActorsStay DEF FramesAreCalls
<1>4. code = "none"
  BY <1>1 DEF CompileInv, CompileTyped
<1> QED
  BY <1>1, <1>3, <1>4, ActorsStay
  DEF CompileInv, CompileTyped, FirstActor, ActorsAreCompiled, SearchIsDepthFirst, FaultsAreDeclared, Compiling!CyclesAreReal

LEMMA FrameIsThere ==
  ASSUME CompileInv, phase = "running"
  PROVE  /\ Len(stack) \in Nat \ {0} /\ DOMAIN stack = 1..Len(stack)
         /\ \A i \in 1..Len(stack) : stack[i] \in [flow : DOMAIN Compiling!Flows(actor), at : Nat \ {0}]
         /\ actor \in DOMAIN doc.actors /\ Walkable(actor) /\ ~Compiling!Knotted(actor)
<1> DEFINE F == [flow : DOMAIN Compiling!Flows(actor), at : Nat \ {0}]
<1>1. stack # <<>> /\ stack \in Seq(F)
  BY DEF CompileInv, FramesAreCalls
<1>2. actor \in DOMAIN doc.actors /\ Walkable(actor) /\ ~Compiling!Knotted(actor)
  BY DEF CompileInv, CompileTyped, ActorsAreCompiled
<1> HIDE DEF F
<1>3. Len(stack) \in Nat \ {0} /\ DOMAIN stack = 1..Len(stack) /\ \A i \in 1..Len(stack) : stack[i] \in F
  BY <1>1
<1> QED
  BY <1>2, <1>3 DEF F

LEMMA FrameAdvances ==
  ASSUME CompileInv, phase = "running"
  PROVE  /\ Compiling!Advanced \in Seq([flow : DOMAIN Compiling!Flows(actor), at : Nat \ {0}])
         /\ Len(Compiling!Advanced) = Len(stack) /\ DOMAIN Compiling!Advanced = 1..Len(stack)
         /\ \A i \in 1..Len(stack) : Compiling!Advanced[i].flow = stack[i].flow
<1>1. /\ Len(stack) \in Nat \ {0} /\ DOMAIN stack = 1..Len(stack)
      /\ stack \in Seq([flow : DOMAIN Compiling!Flows(actor), at : Nat \ {0}])
      /\ \A i \in 1..Len(stack) : stack[i] \in [flow : DOMAIN Compiling!Flows(actor), at : Nat \ {0}]
  BY FrameIsThere DEF CompileInv, FramesAreCalls
<1> DEFINE k == Len(stack)
           one == [stack[k] EXCEPT !.at = @ + 1]
<1>2. one \in [flow : DOMAIN Compiling!Flows(actor), at : Nat \ {0}] /\ one.flow = stack[k].flow
  BY <1>1
<1>3. Compiling!Advanced = [stack EXCEPT ![k] = one]
  BY <1>1 DEF Compiling!Advanced
<1> HIDE DEF one
<1>4. Compiling!Advanced \in Seq([flow : DOMAIN Compiling!Flows(actor), at : Nat \ {0}])
  BY <1>1, <1>2, <1>3
<1>5. Len(Compiling!Advanced) = Len(stack) /\ DOMAIN Compiling!Advanced = 1..Len(stack)
  BY <1>1, <1>3
<1>6. \A i \in 1..Len(stack) : Compiling!Advanced[i].flow = stack[i].flow
  BY <1>1, <1>2, <1>3
<1> QED
  BY <1>4, <1>5, <1>6

LEMMA AdvanceStep ==
  ASSUME CompileInv, phase = "running", stack' = Compiling!Advanced, UNCHANGED <<doc, phase, code, actor, Compiling!search>>
  PROVE  CompileInv'
<1>1. /\ Len(stack) \in Nat \ {0} /\ stack' \in Seq([flow : DOMAIN Compiling!Flows(actor), at : Nat \ {0}])
      /\ Len(stack') = Len(stack) /\ \A i \in 1..Len(stack) : stack'[i].flow = stack[i].flow
  BY FrameIsThere, FrameAdvances
<1>2. \A i \in 1..(Len(stack) - 1) : i \in 1..Len(stack) /\ i + 1 \in 1..Len(stack)
  BY <1>1
<1>3. FramesAreCalls'
  BY <1>1, <1>2, ActorsStay DEF FramesAreCalls, CompileInv
<1> QED
  BY <1>3, ActorsStay
  DEF Compiling!search, CompileInv, CompileTyped, FirstActor, ActorsAreCompiled, SearchIsDepthFirst, FaultsAreDeclared,
      Compiling!CyclesAreReal

(* A call leads to a flow of the actor that its frame's flow calls.        *)
LEMMA HereCalls ==
  ASSUME Compiling!DocumentsAreWellFormed, CompileInv, Compiling!InFlow,
         NEW f \in Compiling!Range(Compiling!Here.cases) \cup Compiling!Range(Compiling!Here.default)
  PROVE  f \in Compiling!Calls(actor, Compiling!Frame.flow) /\ f \in Compiling!Subflows(actor)
<1>1. phase = "running" /\ Compiling!Frame.at <= Len(Compiling!Flows(actor)[Compiling!Frame.flow])
  BY DEF Compiling!InFlow
<1>2. Compiling!Frame \in [flow : DOMAIN Compiling!Flows(actor), at : Nat \ {0}] /\ Walkable(actor)
      /\ actor \in DOMAIN doc.actors
  BY <1>1, FrameIsThere DEF Compiling!Frame
<1>3. DOMAIN Compiling!Flows(actor)[Compiling!Frame.flow] = 1..Len(Compiling!Flows(actor)[Compiling!Frame.flow])
      /\ Len(Compiling!Flows(actor)[Compiling!Frame.flow]) \in Nat
  BY <1>2, ActorsAreSequences DEF CompileInv, CompileTyped
<1>4. Compiling!Here \in Compiling!Range(Compiling!Flows(actor)[Compiling!Frame.flow])
  <2>1. Compiling!Frame.at \in Nat \ {0}
    BY <1>2
  <2>2. Compiling!Frame.at \in DOMAIN Compiling!Flows(actor)[Compiling!Frame.flow]
    BY <1>1, <1>3, <2>1
  <2> QED
    BY <2>2 DEF Compiling!Here, Compiling!Range
<1> QED
  BY <1>2, <1>4 DEF Compiling!Calls, Compiling!Targets, Walkable

LEMMA InvokeStep ==
  ASSUME Compiling!DocumentsAreWellFormed, CompileInv, Compiling!Invoke PROVE CompileInv'
<1> DEFINE F == [flow : DOMAIN Compiling!Flows(actor), at : Nat \ {0}]
<1>1. Compiling!InFlow /\ phase = "running" /\ UNCHANGED <<doc, phase, code, actor, Compiling!search>>
  BY DEF Compiling!Invoke, Compiling!InFlow
<1>2. PICK f \in Compiling!Range(Compiling!Here.cases) \cup Compiling!Range(Compiling!Here.default) :
        f \in DOMAIN Compiling!Flows(actor) /\ stack' = Append(Compiling!Advanced, Compiling!Enter(f))
  BY DEF Compiling!Invoke
<1>3. f \in Compiling!Calls(actor, Compiling!Frame.flow)
  BY <1>1, HereCalls
<1>4. /\ Len(stack) \in Nat \ {0} /\ Compiling!Advanced \in Seq(F) /\ Len(Compiling!Advanced) = Len(stack)
      /\ \A i \in 1..Len(stack) : Compiling!Advanced[i].flow = stack[i].flow
  BY <1>1, FrameIsThere, FrameAdvances
<1>5. Compiling!Enter(f) \in F /\ Compiling!Enter(f).flow = f
  BY <1>2 DEF Compiling!Enter
<1> HIDE DEF F
<1>6. /\ stack' \in Seq(F) /\ stack' # <<>> /\ Len(stack') = Len(stack) + 1
      /\ \A i \in 1..Len(stack) : stack'[i] = Compiling!Advanced[i]
      /\ stack'[Len(stack) + 1] = Compiling!Enter(f)
  BY <1>2, <1>4, <1>5
<1>7. ASSUME NEW i \in 1..Len(stack) PROVE stack'[i + 1].flow \in Compiling!Calls(actor, stack'[i].flow)
  <2>1. CASE i = Len(stack)
    BY <2>1, <1>3, <1>4, <1>5, <1>6 DEF Compiling!Frame
  <2>2. CASE i # Len(stack)
    <3>1. Len(stack) \in Nat
      BY <1>4
    <3>2. i \in 1..(Len(stack) - 1) /\ i + 1 \in 1..Len(stack)
      BY <2>2, <3>1
    <3>3. stack[i + 1].flow \in Compiling!Calls(actor, stack[i].flow)
      BY <3>2, <1>1 DEF CompileInv, FramesAreCalls
    <3> QED
      BY <3>2, <3>3, <1>4, <1>6
  <2> QED
    BY <2>1, <2>2
<1>8. FramesAreCalls'
  <2>1. Len(stack') - 1 = Len(stack)
    BY <1>4, <1>6
  <2>2. \A i \in 1..(Len(stack') - 1) : stack'[i + 1].flow \in Compiling!Calls(actor, stack'[i].flow)
    BY <2>1, <1>7
  <2> QED
    BY <2>2, <1>1, <1>6, ActorsStay DEF FramesAreCalls, F
<1> QED
  BY <1>1, <1>8, ActorsStay
  DEF Compiling!search, CompileInv, CompileTyped, FirstActor, ActorsAreCompiled, SearchIsDepthFirst, FaultsAreDeclared,
      Compiling!CyclesAreReal

LEMMA ReturnStep ==
  ASSUME Compiling!DocumentsAreWellFormed, CompileInv, Compiling!Return PROVE CompileInv'
<1> DEFINE F == [flow : DOMAIN Compiling!Flows(actor), at : Nat \ {0}]
<1>1. /\ phase = "running" /\ stack # <<>> /\ stack' = Compiling!Front(stack)
      /\ phase' = IF Len(stack) = 1 THEN "ended" ELSE phase
      /\ UNCHANGED <<doc, code, actor, Compiling!search>>
  BY DEF Compiling!Return
<1>2. /\ Len(stack) \in Nat \ {0} /\ DOMAIN stack = 1..Len(stack) /\ stack \in Seq(F)
  BY <1>1, FrameIsThere DEF CompileInv, FramesAreCalls
<1> HIDE DEF F
<1>3. /\ stack' \in Seq(F) /\ Len(stack') = Len(stack) - 1
      /\ \A i \in 1..(Len(stack) - 1) : stack'[i] = stack[i]
  BY <1>1, <1>2 DEF Compiling!Front
<1>4. FramesAreCalls'
  <2>1. CASE Len(stack) = 1
    BY <2>1, <1>1 DEF FramesAreCalls
  <2>2. CASE Len(stack) # 1
    <3>1. Len(stack') \in Nat \ {0} /\ stack' # <<>>
      BY <2>2, <1>2, <1>3
    <3>2. \A i \in 1..(Len(stack') - 1) :
             i \in 1..(Len(stack) - 1) /\ i + 1 \in 1..(Len(stack) - 1)
      BY <1>2, <1>3
    <3>3. \A i \in 1..(Len(stack') - 1) : stack'[i + 1].flow \in Compiling!Calls(actor, stack'[i].flow)
      BY <3>2, <1>1, <1>3 DEF CompileInv, FramesAreCalls
    <3> QED
      BY <3>1, <3>3, <1>1, <1>3, ActorsStay DEF FramesAreCalls, F
  <2> QED
    BY <2>1, <2>2
<1>5. code = "none" /\ phase' \in {"running", "ended"}
  BY <1>1 DEF CompileInv, CompileTyped
<1> QED
  BY <1>1, <1>4, <1>5, ActorsStay
  DEF Compiling!search, CompileInv, CompileTyped, FirstActor, ActorsAreCompiled, SearchIsDepthFirst, FaultsAreDeclared,
      Compiling!CyclesAreReal

LEMMA CompileNext ==
  ASSUME Compiling!DocumentsAreWellFormed, CompileInv, [Compiling!Next]_(Compiling!vars) PROVE CompileInv'
<1>1. CASE Compiling!Parse
  BY <1>1, ParseStep, RaiseStep DEF Compiling!Parse, Compiling!Raise
<1>2. CASE Compiling!CheckActor
  BY <1>2, CheckActorStep, RaiseStep DEF Compiling!CheckActor, Compiling!Raise
<1>3. CASE Compiling!VisitRoot
  BY <1>3, VisitStep DEF Compiling!VisitRoot
<1>4. CASE Compiling!VisitCall
  <2>1. phase = "searching" /\ visiting # <<>> /\ Walkable(actor)
    BY <1>4 DEF Compiling!VisitCall, CompileInv, SearchIsDepthFirst
  <2>2. PICK f \in Compiling!Calls(actor, Compiling!Last(visiting)) : Compiling!Visit(f)
    BY <1>4 DEF Compiling!VisitCall
  <2>3. visiting \in Seq(Compiling!Subflows(actor)) /\ Compiling!Last(visiting) \in Compiling!Subflows(actor)
    BY <2>1 DEF CompileInv, SearchIsDepthFirst, Compiling!Last
  <2>4. f \in Compiling!Subflows(actor)
    BY <2>1, <2>2, <2>3 DEF Walkable, Compiling!Subflows
  <2> QED
    BY <2>1, <2>2, <2>4, VisitStep
<1>5. CASE Compiling!Leave
  BY <1>5, LeaveStep
<1>6. CASE Compiling!NextActor
  BY <1>6, NextActorStep
<1>7. CASE Compiling!Start
  BY <1>7, StartStep
<1>8. CASE Compiling!RunStep
  BY <1>8, AdvanceStep DEF Compiling!RunStep, Compiling!InFlow
<1>9. CASE Compiling!Invoke
  BY <1>9, InvokeStep
<1>10. CASE Compiling!PassOver
  BY <1>10, AdvanceStep DEF Compiling!PassOver, Compiling!InFlow
<1>11. CASE Compiling!Return
  BY <1>11, ReturnStep
<1>12. CASE UNCHANGED Compiling!vars
  BY <1>12, ActorsStay
  DEF Compiling!vars, Compiling!search, CompileInv, CompileTyped, FirstActor, ActorsAreCompiled, SearchIsDepthFirst,
      FaultsAreDeclared, FramesAreCalls, Compiling!CyclesAreReal
<1> QED
  BY <1>1, <1>2, <1>3, <1>4, <1>5, <1>6, <1>7, <1>8, <1>9, <1>10, <1>11, <1>12 DEF Compiling!Next

(* Nesting: a flow entered again would be a circle of flows.               *)
LEMMA NestingHolds ==
  ASSUME Compiling!DocumentsAreWellFormed, CompileInv PROVE Compiling!NestingIsBounded
<1> SUFFICES ASSUME phase = "running" PROVE Compiling!NestingIsBounded
  BY DEF Compiling!NestingIsBounded
<1>1. /\ Len(stack) \in Nat \ {0} /\ DOMAIN stack = 1..Len(stack)
      /\ \A i \in 1..Len(stack) : stack[i] \in [flow : DOMAIN Compiling!Flows(actor), at : Nat \ {0}]
      /\ actor \in DOMAIN doc.actors /\ Walkable(actor) /\ ~Compiling!Knotted(actor)
  BY FrameIsThere
<1> DEFINE s == [k \in 1..Len(stack) |-> stack[k].flow]
<1>2. \A i \in 1..(Len(stack) - 1) : stack[i + 1].flow \in Compiling!Calls(actor, stack[i].flow)
  BY DEF CompileInv, FramesAreCalls
<1>3. ASSUME NEW i \in 1..Len(stack), NEW j \in 1..Len(stack), i < j,
             stack[i].flow = stack[j].flow
      PROVE  FALSE
  <2>1. Len(stack) \in Nat /\ i \in Nat /\ j \in Nat
    BY <1>1
  <2> DEFINE n == j - 1
  <2>2. n \in Nat /\ i \in 1..n /\ n < Len(stack) /\ n + 1 = j
    BY <2>1, <1>3
  <2>3. ASSUME NEW k \in 1..Len(stack), k # 1 PROVE s[k] \in Compiling!Subflows(actor)
    <3>1. k - 1 \in 1..(Len(stack) - 1) /\ (k - 1) + 1 = k /\ k - 1 \in 1..Len(stack)
      BY <2>1, <2>3
    <3>2. stack[k].flow \in Compiling!Calls(actor, stack[k - 1].flow)
      BY <1>2, <3>1
    <3>3. stack[k - 1].flow \in DOMAIN Compiling!Flows(actor)
      BY <1>1, <3>1
    <3> QED
      BY <1>1, <3>2, <3>3 DEF Walkable
  <2>4. s[i] = s[j] /\ j # 1
    BY <1>3, <2>1
  <2>5. \A k \in i..n : k \in 1..Len(stack) /\ (k = 1 => k = i)
    BY <2>1, <2>2
  <2>6. \A k \in i..n : s[k] \in Compiling!Subflows(actor)
    BY <2>3, <2>4, <2>5
  <2>7. \A k \in i..(n - 1) : k \in 1..(Len(stack) - 1) /\ k \in 1..Len(stack) /\ k + 1 \in 1..Len(stack)
    BY <2>1, <2>2
  <2>8. \A k \in i..(n - 1) : s[k + 1] \in Compiling!Calls(actor, s[k])
    BY <1>2, <2>7
  <2>9. s[j] \in Compiling!Calls(actor, s[n])
    <3>1. n \in 1..(Len(stack) - 1) /\ n \in 1..Len(stack)
      BY <2>1, <2>2
    <3> QED
      BY <1>2, <2>2, <3>1
  <2> HIDE DEF s, n
  <2> QED
    BY <1>1, <2>2, <2>4, <2>6, <2>8, <2>9, CallsBackAreKnots
<1>4. \A i, j \in DOMAIN stack : stack[i].flow = stack[j].flow => i = j
  <2> SUFFICES ASSUME NEW i \in 1..Len(stack), NEW j \in 1..Len(stack),
                      stack[i].flow = stack[j].flow
               PROVE  i = j
    BY <1>1
  <2>1. ~(i < j) /\ ~(j < i)
    BY <1>3
  <2> QED
    BY <1>1, <2>1
<1> QED
  BY <1>4, HereCalls DEF Compiling!NestingIsBounded

LEMMA PositionsHold ==
  ASSUME Compiling!DocumentsAreWellFormed, CompileInv PROVE Compiling!PositionIsTransition
<1> SUFFICES ASSUME phase = "running", NEW i \in DOMAIN stack,
                    stack[i].at \in 2..(Len(Compiling!Flows(actor)[stack[i].flow]) + 1)
             PROVE  LET f == Compiling!Flows(actor)[stack[i].flow]
                        k == stack[i].at
                    IN f[k - 1].to = IF k <= Len(f) THEN f[k].id ELSE Compiling!NoNode
  BY DEF Compiling!PositionIsTransition
<1> DEFINE f == Compiling!Flows(actor)[stack[i].flow]
           k == stack[i].at
<1>1. stack[i].flow \in DOMAIN Compiling!Flows(actor) /\ k \in Nat \ {0} /\ actor \in DOMAIN doc.actors
      /\ Compiling!Linear(f)
  BY FrameIsThere DEF Walkable
<1>2. Len(f) \in Nat /\ DOMAIN f = 1..Len(f)
  BY <1>1, ActorsAreSequences DEF CompileInv, CompileTyped
<1>3. k \in 2..(Len(f) + 1)
  OBVIOUS
<1> HIDE DEF f, k
<1>4. k - 1 \in 1..Len(f) /\ (k - 1 < Len(f) <=> k <= Len(f)) /\ (k - 1) + 1 = k
  BY <1>2, <1>3
<1>5. f[k - 1].to = IF k <= Len(f) THEN f[k].id ELSE Compiling!NoNode
  BY <1>1, <1>2, <1>4 DEF Compiling!Linear
<1> QED
  BY <1>5 DEF f, k

LEMMA FaultsHold ==
  ASSUME Compiling!DocumentsAreWellFormed, CompileInv PROVE Compiling!FaultsHitDeclared
<1> SUFFICES ASSUME doc.version = 1, phase = "running", Compiling!InFlow, Compiling!Here.kind = "step",
                    NEW f \in Compiling!Range(doc.faults), f.step = Compiling!Here.id
             PROVE  f.target \in Compiling!Here.writes
  BY DEF Compiling!FaultsHitDeclared, Compiling!HitDeclared
<1>1. DOMAIN doc.actors = {1} /\ actor = 1
  <2>1. DOMAIN doc.actors = 1..1
    BY ActorsAreSequences DEF CompileInv, CompileTyped
  <2> QED
    BY <2>1 DEF CompileInv, CompileTyped
<1>2. Compiling!FaultDeclared(f)
  BY DEF CompileInv, FaultsAreDeclared
<1>3. Compiling!Here \in Compiling!Nodes(1)
  <2>1. Compiling!Frame \in [flow : DOMAIN Compiling!Flows(actor), at : Nat \ {0}] /\ actor \in DOMAIN doc.actors
    BY FrameIsThere DEF Compiling!Frame
  <2>2. DOMAIN Compiling!Flows(actor)[Compiling!Frame.flow] = 1..Len(Compiling!Flows(actor)[Compiling!Frame.flow])
        /\ Len(Compiling!Flows(actor)[Compiling!Frame.flow]) \in Nat
    BY <2>1, ActorsAreSequences DEF CompileInv, CompileTyped
  <2>3. Compiling!Frame.at \in Nat \ {0}
    BY <2>1
  <2>4. Compiling!Frame.at \in DOMAIN Compiling!Flows(actor)[Compiling!Frame.flow]
    BY <2>2, <2>3 DEF Compiling!InFlow
  <2> QED
    BY <1>1, <2>1, <2>4 DEF Compiling!Here, Compiling!Range, Compiling!Nodes
<1> DEFINE owners == {a \in DOMAIN doc.actors : \E n \in Compiling!Nodes(a) : n.id = f.step /\ n.kind = "step"}
<1>4. owners = {1}
  BY <1>1, <1>3
<1>5. (CHOOSE a \in owners : \A b \in owners : b <= a) = 1
  BY <1>4
<1>6. Compiling!Here \in Compiling!Executable(f.step)
  BY <1>3, <1>5 DEF Compiling!Executable
<1> QED
  BY <1>2, <1>6 DEF Compiling!FaultDeclared

LEMMA CompileTypes ==
  ASSUME Compiling!DocumentsAreWellFormed, CompileInv PROVE Compiling!TypeOK
<1>1. phase = "searching" => /\ Compiling!IsInjective(visiting) /\ complete \subseteq Compiling!Subflows(actor)
                             /\ Compiling!Range(visiting) \subseteq Compiling!Subflows(actor) \ complete
  BY DEF CompileInv, SearchIsDepthFirst, Compiling!Range
<1>2. phase = "running" => stack # <<>> /\ \A i \in DOMAIN stack : stack[i].flow \in DOMAIN Compiling!Flows(actor)
  BY FrameIsThere DEF CompileInv, FramesAreCalls
<1> QED
  BY <1>1, <1>2 DEF Compiling!TypeOK, CompileInv, CompileTyped

(* CompiledIsSound follows.                                                *)
LEMMA CompileSound ==
  ASSUME Compiling!DocumentsAreWellFormed, CompileInv PROVE Compiling!CompiledIsSound
  BY CompileTypes, NestingHolds, PositionsHold, FaultsHold DEF Compiling!CompiledIsSound, CompileInv

-----------------------------------------------------------------------------
Judged == {"accepted", "value", "unresolved"}

ExpressionTyped ==
  /\ place \in Judging!Places /\ subflow \in BOOLEAN
  /\ path \in Seq(Judging!Operators \cup Judging!References) /\ Len(path) <= MaxDepth + 1
  /\ verdict = "parsing" => Len(path) <= MaxDepth
  /\ verdict \in {"parsing", "rejected", "accepted", "value", "unresolved"}
  /\ failed \in {"none", "cycle", "unknown"}
  /\ pending \in Derivations \cup {<<>>}

(* What a flag forbids stays forbidden below, but for constraints.         *)
FlagsAreKept ==
  /\ flags \subseteq Judging!FlagsOf(place)
  /\ "control" \in Judging!FlagsOf(place) => "control" \in flags
  /\ place = "emission" => flags = {"emission"} \/ verdict = "rejected"

VerdictIsParsed ==
  LET last == path[Len(path)] IN
  /\ verdict # "parsing" => path # <<>>
  /\ verdict \in Judged => last \in Judging!References /\ Judging!Allowed(last, flags) /\ last \notin Judging!Forbidden(place)
  /\ verdict = "unresolved" => last \notin Judging!Evaluable
  /\ verdict = "rejected" => ~Judging!Allowed(last, flags) \/ last \in Judging!Forbidden(place)

DerivedAreLayered ==
  /\ done \in Seq(Judging!Names) /\ Judging!IsInjective(done)
  /\ \A i \in 1..Len(done) : Judging!Dependencies(done[i]) \subseteq {done[j] : j \in 1..(i - 1)}
  /\ failed = "cycle" => \A n \in Judging!Waiting : Judging!Dependencies(n) \cap Judging!Waiting # {}

ExpressionInv == ExpressionTyped /\ FlagsAreKept /\ VerdictIsParsed /\ DerivedAreLayered

-----------------------------------------------------------------------------
(* The cases of a place, one by one.                                       *)
LEMMA FlagsByPlace ==
  /\ Judging!FlagsOf("emission") = {"emission"}
  /\ \A p \in {"constraint", "resource_fault"} : Judging!FlagsOf(p) = {"constraint"}
  /\ \A p \in {"boundary", "argument", "step_fault"} : Judging!FlagsOf(p) = {"control"}
  /\ \A p \in {"derive", "write", "invariant"} : Judging!FlagsOf(p) = {}
  BY DEF Judging!FlagsOf

LEMMA BelowByOperator ==
  ASSUME NEW fs
  PROVE  /\ Judging!Below("binary", fs) = fs
         /\ \A op \in {"many", "unary"} : Judging!Below(op, fs) = fs \ {"emission"}
         /\ \A op \in {"$append", "$object", "$sum_field"} : Judging!Below(op, fs) = fs \ {"constraint"}
  BY DEF Judging!Below

LEMMA SuppliedByPlace ==
  /\ place \in {"derive", "write"} => Judging!Supplied = {"$state", "$local", "$derived"}
  /\ place \in {"emission", "invariant", "boundary", "argument", "step_fault"} => Judging!Supplied = {"$state"}
  /\ place \in {"constraint", "resource_fault"} => Judging!Supplied = {}
  BY DEF Judging!Supplied

LEMMA DerivedStay ==
  ASSUME UNCHANGED <<pending, done>>, failed' = failed \/ failed' # "cycle", DerivedAreLayered
  PROVE  DerivedAreLayered'
<1>1. Judging!Names' = Judging!Names /\ Judging!Waiting' = Judging!Waiting /\ \A n : Judging!Dependencies(n)' = Judging!Dependencies(n)
  BY DEF Judging!Names, Judging!Waiting, Judging!Dependencies
<1>2. done' \in Seq(Judging!Names) /\ Judging!IsInjective(done')
  BY DEF DerivedAreLayered
<1>3. \A i \in 1..Len(done) : Judging!Dependencies(done[i]) \subseteq {done[j] : j \in 1..(i - 1)}
  BY DEF DerivedAreLayered
<1>4. failed' = "cycle" => \A n \in Judging!Waiting : Judging!Dependencies(n) \cap Judging!Waiting # {}
  BY DEF DerivedAreLayered
<1>5. done' = done
  OBVIOUS
<1>6. \A i \in 1..Len(done') : Judging!Dependencies(done'[i]) \subseteq {done'[j] : j \in 1..(i - 1)}
  BY <1>3, <1>5
<1> QED
  BY <1>1, <1>2, <1>4, <1>6 DEF DerivedAreLayered

LEMMA ExpressionInit ==
  ASSUME Judging!DerivationsAreFinite, Judging!Init PROVE ExpressionInv
<1>1. /\ place \in Judging!Places /\ subflow \in BOOLEAN /\ path = <<>> /\ flags = Judging!FlagsOf(place)
      /\ verdict = "parsing" /\ done = <<>> /\ failed = "none"
      /\ pending \in Derivations \cup {<<>>}
  BY DEF Judging!Init
<1>2. ExpressionTyped
  <2>1. path \in Seq(Judging!Operators \cup Judging!References) /\ Len(path) = 0
    BY <1>1
  <2> QED
    BY <1>1, <2>1 DEF ExpressionTyped, Judging!DerivationsAreFinite
<1>3. FlagsAreKept
  BY <1>1, FlagsByPlace DEF FlagsAreKept
<1>4. VerdictIsParsed
  BY <1>1 DEF VerdictIsParsed, Judged
<1>5. DerivedAreLayered
  BY <1>1 DEF DerivedAreLayered, Judging!IsInjective
<1> QED
  BY <1>2, <1>3, <1>4, <1>5 DEF ExpressionInv

LEMMA DescendStep ==
  ASSUME Judging!DerivationsAreFinite, ExpressionInv, NEW op \in Judging!Operators, Judging!Descend(op) PROVE ExpressionInv'
<1>1. /\ verdict = "parsing" /\ Len(path) < MaxDepth /\ path' = Append(path, op)
      /\ UNCHANGED <<place, subflow, pending, done, failed>>
      /\ \/ Judging!Allowed(op, flags) /\ flags' = Judging!Below(op, flags) /\ verdict' = verdict
         \/ ~Judging!Allowed(op, flags) /\ verdict' = "rejected" /\ flags' = flags
  BY DEF Judging!Descend, Judging!deriving
<1>2. path \in Seq(Judging!Operators \cup Judging!References) /\ Len(path) \in Nat /\ MaxDepth \in Nat
  BY DEF ExpressionInv, ExpressionTyped, Judging!DerivationsAreFinite
<1>3. /\ path' \in Seq(Judging!Operators \cup Judging!References) /\ Len(path') = Len(path) + 1
      /\ path'[Len(path')] = op /\ path' # <<>>
  BY <1>1, <1>2
<1>4. ExpressionTyped'
  BY <1>1, <1>2, <1>3 DEF ExpressionInv, ExpressionTyped
<1>5. FlagsAreKept'
  <2>1. place = "emission" => flags = {"emission"}
    BY <1>1 DEF ExpressionInv, FlagsAreKept
  <2>2. CASE Judging!Allowed(op, flags)
    <3>1. place # "emission"
      BY <2>1, <2>2 DEF Judging!Allowed, Judging!Operators
    <3>2. Judging!Below(op, flags) \subseteq flags /\ ("control" \in flags => "control" \in Judging!Below(op, flags))
      BY BelowByOperator DEF Judging!Operators
    <3> QED
      BY <1>1, <2>2, <3>1, <3>2 DEF ExpressionInv, FlagsAreKept
  <2>3. CASE ~Judging!Allowed(op, flags)
    BY <1>1, <2>3 DEF ExpressionInv, FlagsAreKept
  <2> QED
    BY <2>2, <2>3
<1>6. VerdictIsParsed'
  BY <1>1, <1>3 DEF VerdictIsParsed, Judged
<1>7. DerivedAreLayered'
  BY <1>1, DerivedStay DEF ExpressionInv
<1> QED
  BY <1>4, <1>5, <1>6, <1>7 DEF ExpressionInv

LEMMA ReachStep ==
  ASSUME Judging!DerivationsAreFinite, ExpressionInv, NEW ref \in Judging!References, Judging!Reach(ref) PROVE ExpressionInv'
<1>1. /\ verdict = "parsing" /\ path' = Append(path, ref)
      /\ UNCHANGED <<place, subflow, flags, pending, done, failed>>
      /\ \/ Judging!Allowed(ref, flags) /\ ref \notin Judging!Forbidden(place) /\ verdict' = "accepted"
         \/ (~Judging!Allowed(ref, flags) \/ ref \in Judging!Forbidden(place)) /\ verdict' = "rejected"
  BY DEF Judging!Reach, Judging!deriving
<1>2. path \in Seq(Judging!Operators \cup Judging!References) /\ Len(path) \in Nat /\ MaxDepth \in Nat
      /\ Len(path) <= MaxDepth
  BY <1>1 DEF ExpressionInv, ExpressionTyped, Judging!DerivationsAreFinite
<1>3. /\ path' \in Seq(Judging!Operators \cup Judging!References) /\ Len(path') = Len(path) + 1
      /\ path'[Len(path')] = ref /\ path' # <<>>
  BY <1>1, <1>2
<1>4. ExpressionTyped'
  BY <1>1, <1>2, <1>3 DEF ExpressionInv, ExpressionTyped
<1>5. FlagsAreKept'
  BY <1>1 DEF ExpressionInv, FlagsAreKept
<1>6. VerdictIsParsed'
  BY <1>1, <1>3 DEF VerdictIsParsed, Judged
<1>7. DerivedAreLayered'
  BY <1>1, DerivedStay DEF ExpressionInv
<1> QED
  BY <1>4, <1>5, <1>6, <1>7 DEF ExpressionInv

LEMMA EvaluateStep ==
  ASSUME ExpressionInv, Judging!Evaluate PROVE ExpressionInv'
<1>1. /\ verdict = "accepted" /\ UNCHANGED <<place, subflow, path, flags, pending, done, failed>>
      /\ \/ verdict' = "value"
         \/ Judging!Last(path) \notin Judging!Evaluable /\ verdict' = "unresolved"
  BY DEF Judging!Evaluate, Judging!deriving
<1>2. Judging!Evaluable' = Judging!Evaluable
  BY <1>1 DEF Judging!Evaluable, Judging!Supplied
<1>3. VerdictIsParsed'
  BY <1>1, <1>2 DEF ExpressionInv, VerdictIsParsed, Judged, Judging!Last
<1>4. ExpressionTyped'
  BY <1>1 DEF ExpressionInv, ExpressionTyped
<1>5. FlagsAreKept'
  BY <1>1 DEF ExpressionInv, FlagsAreKept
<1>6. DerivedAreLayered'
  BY <1>1, DerivedStay DEF ExpressionInv
<1> QED
  BY <1>3, <1>4, <1>5, <1>6 DEF ExpressionInv

LEMMA DeriveStep ==
  ASSUME Judging!DerivationsAreFinite, ExpressionInv, Judging!Derive PROVE ExpressionInv'
<1>1. /\ UNCHANGED <<place, subflow, path, flags, verdict, pending>> /\ failed = "none" /\ Judging!Unknown = {}
      /\ \/ Judging!Ready = {} /\ failed' = "cycle" /\ done' = done
         \/ failed' = failed /\ done' \in {done \o layer : layer \in Judging!SetToSeqs(Judging!Ready)}
  BY DEF Judging!Derive, Judging!parsing
<1>2. done \in Seq(Judging!Names) /\ Len(done) \in Nat /\ DOMAIN done = 1..Len(done)
  BY DEF ExpressionInv, DerivedAreLayered
<1>3. Judging!Evaluable' = Judging!Evaluable /\ Judging!Names' = Judging!Names /\ \A n : Judging!Dependencies(n)' = Judging!Dependencies(n)
  BY <1>1 DEF Judging!Evaluable, Judging!Supplied, Judging!Names, Judging!Dependencies
<1>4. DerivedAreLayered'
  <2>1. CASE Judging!Ready = {} /\ failed' = "cycle" /\ done' = done
    <3>1. Judging!Waiting' = Judging!Waiting
      BY <1>3, <2>1 DEF Judging!Waiting
    <3>2. \A n \in Judging!Waiting : Judging!Dependencies(n) \cap Judging!Waiting # {}
      BY <2>1 DEF Judging!Ready
    <3>3. \A i \in 1..Len(done) : Judging!Dependencies(done[i]) \subseteq {done[j] : j \in 1..(i - 1)}
      BY DEF ExpressionInv, DerivedAreLayered
    <3>4. done' = done /\ done \in Seq(Judging!Names) /\ Judging!IsInjective(done)
      BY <2>1 DEF ExpressionInv, DerivedAreLayered
    <3>5. \A i \in 1..Len(done') : Judging!Dependencies(done'[i]) \subseteq {done'[j] : j \in 1..(i - 1)}
      <4> SUFFICES ASSUME NEW i \in 1..Len(done')
                   PROVE  Judging!Dependencies(done'[i]) \subseteq {done'[j] : j \in 1..(i - 1)}
        OBVIOUS
      <4>1. i \in 1..Len(done) /\ done'[i] = done[i]
        BY <3>4
      <4>2. {done'[j] : j \in 1..(i - 1)} = {done[j] : j \in 1..(i - 1)}
        BY <3>4
      <4> QED
        BY <3>3, <4>1, <4>2
    <3>6. (done \in Seq(Judging!Names) /\ Judging!IsInjective(done))'
      BY <1>3, <3>4
    <3>7. \A n \in Judging!Waiting' : Judging!Dependencies(n)' \cap Judging!Waiting' # {}
      BY <1>3, <3>1, <3>2
    <3>8. (\A i \in 1..Len(done) : Judging!Dependencies(done[i]) \subseteq {done[j] : j \in 1..(i - 1)})'
      BY <1>3, <3>5
    <3> QED
      BY <3>6, <3>7, <3>8 DEF DerivedAreLayered
  <2>2. CASE failed' = failed /\ done' \in {done \o layer : layer \in Judging!SetToSeqs(Judging!Ready)}
    <3>1. PICK layer \in Judging!SetToSeqs(Judging!Ready) : done' = done \o layer
      BY <2>2
    <3>2. Cardinality(Judging!Ready) \in Nat
      <4>1. IsFiniteSet(Judging!Names)
        <5>1. IsFiniteSet(DOMAIN << >>)
          BY FS_EmptySet
        <5> QED
          BY <5>1 DEF Judging!Names, Judging!DerivationsAreFinite, Judging!IsFiniteSet, IsFiniteSet,
                      ExpressionInv, ExpressionTyped
      <4>2. IsFiniteSet(Judging!Ready)
        BY <4>1, FS_Subset DEF Judging!Ready, Judging!Waiting
      <4> QED
        BY <4>2, FS_CardinalityType
    <3>3. /\ layer \in [1..Cardinality(Judging!Ready) -> Judging!Ready]
          /\ \A i, j \in 1..Cardinality(Judging!Ready) : i # j => layer[i] # layer[j]
      <4>1. Judging!Cardinality(Judging!Ready) = Cardinality(Judging!Ready)
        BY DEF Judging!Cardinality, Cardinality
      <4> QED
        BY <4>1 DEF Judging!SetToSeqs
    <3>4. layer \in Seq(Judging!Ready) /\ Len(layer) \in Nat /\ DOMAIN layer = 1..Len(layer)
      BY <3>2, <3>3
    <3>5. Judging!Ready \subseteq Judging!Names /\ Judging!Ready \cap Judging!Range(done) = {}
      BY DEF Judging!Ready, Judging!Waiting
    <3>6. layer \in Seq(Judging!Names)
      BY <3>4, <3>5
    <3>7. /\ done' \in Seq(Judging!Names) /\ Len(done') = Len(done) + Len(layer)
          /\ DOMAIN done' = 1..(Len(done) + Len(layer))
          /\ \A i \in 1..Len(done) : done'[i] = done[i]
          /\ \A i \in 1..Len(layer) : done'[Len(done) + i] = layer[i]
      BY <1>2, <3>1, <3>4, <3>6
    <3>8. ASSUME NEW i \in DOMAIN done'
          PROVE  \/ i \in 1..Len(done)
                 \/ \E k \in 1..Len(layer) : i = Len(done) + k
      <4>1. CASE i > Len(done)
        <5>1. i - Len(done) \in 1..Len(layer) /\ i = Len(done) + (i - Len(done))
          BY <4>1, <1>2, <3>4, <3>7
        <5> QED
          BY <5>1
      <4> QED
        BY <4>1, <1>2, <3>4, <3>7
    <3>9. Judging!IsInjective(done')
      <4> SUFFICES ASSUME NEW i \in DOMAIN done', NEW j \in DOMAIN done', done'[i] = done'[j]
                   PROVE  i = j
        BY DEF Judging!IsInjective
      <4>1. CASE i \in 1..Len(done) /\ j \in 1..Len(done)
        BY <4>1, <1>2, <3>7 DEF ExpressionInv, DerivedAreLayered, Judging!IsInjective
      <4>2. CASE i \in 1..Len(done) /\ \E k \in 1..Len(layer) : j = Len(done) + k
        <5>1. PICK k \in 1..Len(layer) : j = Len(done) + k
          BY <4>2
        <5>2. done'[j] = layer[k] /\ layer[k] \in Judging!Ready /\ done'[i] = done[i]
          BY <4>2, <5>1, <3>3, <3>4, <3>7
        <5>3. done[i] \in Judging!Range(done)
          BY <4>2, <1>2 DEF Judging!Range
        <5> QED
          BY <5>2, <5>3, <3>5
      <4>3. CASE j \in 1..Len(done) /\ \E k \in 1..Len(layer) : i = Len(done) + k
        <5>1. PICK k \in 1..Len(layer) : i = Len(done) + k
          BY <4>3
        <5>2. done'[i] = layer[k] /\ layer[k] \in Judging!Ready /\ done'[j] = done[j]
          BY <4>3, <5>1, <3>3, <3>4, <3>7
        <5>3. done[j] \in Judging!Range(done)
          BY <4>3, <1>2 DEF Judging!Range
        <5> QED
          BY <5>2, <5>3, <3>5
      <4>4. CASE /\ \E k \in 1..Len(layer) : i = Len(done) + k
                 /\ \E k \in 1..Len(layer) : j = Len(done) + k
        <5>1. PICK k \in 1..Len(layer) : i = Len(done) + k
          BY <4>4
        <5>2. PICK m \in 1..Len(layer) : j = Len(done) + m
          BY <4>4
        <5>3. layer[k] = layer[m]
          BY <5>1, <5>2, <3>7
        <5>4. DOMAIN layer = 1..Cardinality(Judging!Ready) /\ DOMAIN layer = 1..Len(layer)
          BY <3>3, <3>4
        <5>5. k = m
          BY <5>3, <5>4, <3>3
        <5> QED
          BY <5>1, <5>2, <5>5
      <4> QED
        BY <3>8, <4>1, <4>2, <4>3, <4>4
    <3>10. ASSUME NEW i \in DOMAIN done'
           PROVE  Judging!Dependencies(done'[i]) \subseteq {done'[j] : j \in 1..(i - 1)}
      <4>1. CASE i \in 1..Len(done)
        <5>1. Judging!Dependencies(done[i]) \subseteq {done[j] : j \in 1..(i - 1)} /\ done'[i] = done[i]
          BY <4>1, <3>7 DEF ExpressionInv, DerivedAreLayered
        <5>2. \A j \in 1..(i - 1) : j \in 1..Len(done) /\ done'[j] = done[j]
          BY <4>1, <1>2, <3>7
        <5> QED
          BY <5>1, <5>2
      <4>2. CASE \E k \in 1..Len(layer) : i = Len(done) + k
        <5>1. PICK k \in 1..Len(layer) : i = Len(done) + k
          BY <4>2
        <5>2. done'[i] = layer[k] /\ layer[k] \in Judging!Ready
          BY <3>3, <3>4, <3>7, <5>1
        <5>3. Judging!Dependencies(layer[k]) \subseteq Judging!Range(done)
          <6>1. Judging!Dependencies(layer[k]) \subseteq Judging!Names
            <7>1. layer[k] \in Judging!Names
              BY <3>5, <5>2
            <7>2. \A n \in Judging!Names : Judging!Dependencies(n) \subseteq Judging!Names
              BY <1>1 DEF Judging!Unknown
            <7> QED
              BY <7>1, <7>2
          <6>2. Judging!Dependencies(layer[k]) \cap Judging!Waiting = {}
            BY <5>2 DEF Judging!Ready
          <6> QED
            BY <6>1, <6>2 DEF Judging!Waiting
        <5>4. \A j \in 1..Len(done) : j \in 1..(i - 1) /\ done'[j] = done[j]
          BY <1>2, <3>7, <5>1
        <5>5. Judging!Range(done) \subseteq {done'[j] : j \in 1..(i - 1)}
          BY <1>2, <5>4 DEF Judging!Range
        <5> QED
          BY <5>2, <5>3, <5>5
      <4> QED
        BY <3>8, <4>1, <4>2
    <3> QED
      BY <1>1, <1>3, <2>2, <3>7, <3>9, <3>10 DEF DerivedAreLayered
  <2> QED
    BY <1>1, <2>1, <2>2
<1>5. ExpressionTyped' /\ FlagsAreKept' /\ VerdictIsParsed'
  BY <1>1, <1>3 DEF ExpressionInv, ExpressionTyped, FlagsAreKept, VerdictIsParsed
<1> QED
  BY <1>4, <1>5 DEF ExpressionInv

LEMMA ExpressionNext ==
  ASSUME Judging!DerivationsAreFinite, ExpressionInv, [Judging!Next]_(Judging!vars) PROVE ExpressionInv'
<1>1. CASE Judging!RefuseUnknown
  <2>1. /\ UNCHANGED <<place, subflow, path, flags, verdict, pending, done>> /\ failed' = "unknown"
    BY <1>1 DEF Judging!RefuseUnknown, Judging!parsing
  <2>2. Judging!Evaluable' = Judging!Evaluable
    BY <2>1 DEF Judging!Evaluable, Judging!Supplied
  <2>3. DerivedAreLayered'
    BY <2>1, DerivedStay DEF ExpressionInv
  <2> QED
    BY <2>1, <2>2, <2>3 DEF ExpressionInv, ExpressionTyped, FlagsAreKept, VerdictIsParsed
<1>2. CASE UNCHANGED Judging!vars
  <2>1. UNCHANGED <<place, subflow, path, flags, verdict, pending, done, failed>>
    BY <1>2 DEF Judging!vars, Judging!parsing, Judging!deriving
  <2>2. Judging!Evaluable' = Judging!Evaluable
    BY <2>1 DEF Judging!Evaluable, Judging!Supplied
  <2>3. DerivedAreLayered'
    BY <2>1, DerivedStay DEF ExpressionInv
  <2> QED
    BY <2>1, <2>2, <2>3 DEF ExpressionInv, ExpressionTyped, FlagsAreKept, VerdictIsParsed
<1> QED
  BY <1>1, <1>2, DescendStep, ReachStep, EvaluateStep, DeriveStep DEF Judging!Next

(* JudgedAsEvaluated follows.                                              *)
LEMMA ExpressionSound ==
  ASSUME Judging!DerivationsAreFinite, ExpressionInv PROVE Judging!JudgedAsEvaluated
<1> DEFINE last == path[Len(path)]
<1>1. path \in Seq(Judging!Operators \cup Judging!References) /\ Len(path) \in Nat /\ place \in Judging!Places
  BY DEF ExpressionInv, ExpressionTyped
<1>2. verdict # "parsing" => last \in Judging!Operators \cup Judging!References
  BY <1>1 DEF ExpressionInv, VerdictIsParsed
<1>3. Judging!Last(path) = last
  BY DEF Judging!Last
<1>4. Judging!TypeOK
  BY <1>1, <1>3 DEF Judging!TypeOK, ExpressionInv, ExpressionTyped, FlagsAreKept, VerdictIsParsed, DerivedAreLayered,
     Judged, Judging!Range
<1>5. Judging!AcceptedResolves
  <2> SUFFICES ASSUME verdict = "unresolved", place \notin Judging!Outside PROVE last = "$scope" /\ ~subflow
    BY <1>3 DEF Judging!AcceptedResolves
  <2>1. last \in Judging!References /\ Judging!Allowed(last, flags) /\ last \notin Judging!Forbidden(place) /\ last \notin Judging!Evaluable
    BY DEF ExpressionInv, VerdictIsParsed, Judged
  <2>2. place = "emission" => flags = {"emission"}
    BY DEF ExpressionInv, FlagsAreKept
  <2>3. place \in {"boundary", "argument", "step_fault"} => "control" \in flags
    BY FlagsByPlace DEF ExpressionInv, FlagsAreKept
  <2>4. place \in {"derive", "write", "invariant", "emission", "boundary", "argument", "step_fault"}
    BY <1>1 DEF Judging!Outside, Judging!Places
  <2> HIDE DEF last
  <2> QED
    BY <2>1, <2>2, <2>3, <2>4, SuppliedByPlace DEF Judging!References, Judging!Allowed, Judging!Forbidden, Judging!Evaluable
<1>6. Judging!RejectedWouldFail
  <2> SUFFICES ASSUME verdict = "rejected", place # "emission" PROVE last \notin Judging!Evaluable
    BY <1>3 DEF Judging!RejectedWouldFail
  <2>1. ~Judging!Allowed(last, flags) \/ last \in Judging!Forbidden(place)
    BY DEF ExpressionInv, VerdictIsParsed
  <2>2. flags \subseteq Judging!FlagsOf(place)
    BY DEF ExpressionInv, FlagsAreKept
  <2>3. last \in Judging!Operators \cup Judging!References
    BY <1>2
  <2> HIDE DEF last
  <2>4. CASE last \in Judging!Forbidden(place)
    BY <2>4, SuppliedByPlace DEF Judging!Forbidden, Judging!Evaluable
  <2>5. CASE ~Judging!Allowed(last, flags)
    BY <1>1, <2>2, <2>5, FlagsByPlace, SuppliedByPlace DEF Judging!Allowed, Judging!Places, Judging!Evaluable
  <2> QED
    BY <2>1, <2>4, <2>5
<1>7. Judging!DerivedInOrder
  <2>1. \A i \in DOMAIN done : Judging!Range(pending[done[i]]) \subseteq {done[j] : j \in 1..(i - 1)}
    <3>1. DOMAIN done = 1..Len(done)
      BY DEF ExpressionInv, DerivedAreLayered
    <3>2. \A i \in 1..Len(done) : Judging!Dependencies(done[i]) \subseteq {done[j] : j \in 1..(i - 1)}
      BY DEF ExpressionInv, DerivedAreLayered
    <3> QED
      BY <3>1, <3>2 DEF Judging!Dependencies
  <2>2. ASSUME failed = "cycle", NEW n \in Judging!Waiting
        PROVE  \E S \in SUBSET Judging!Waiting :
                 /\ S # {} /\ \A m \in S : Judging!Range(pending[m]) \cap S # {}
                 /\ n \in S \/ Judging!Range(pending[n]) \cap Judging!Waiting # {}
    <3>1. \A m \in Judging!Waiting : Judging!Range(pending[m]) \cap Judging!Waiting # {}
      BY <2>2 DEF ExpressionInv, DerivedAreLayered, Judging!Dependencies
    <3> WITNESS Judging!Waiting \in SUBSET Judging!Waiting
    <3> QED
      BY <2>2, <3>1
  <2> QED
    BY <2>1, <2>2 DEF Judging!DerivedInOrder
<1> QED
  BY <1>4, <1>5, <1>6, <1>7 DEF Judging!JudgedAsEvaluated

-----------------------------------------------------------------------------
(* A result that the executor wrote, up to the state in it, and evidence   *)
(* that has such a result.                                                 *)
WrittenResult(w, r) ==
  \E s \in Seeds :
    r = [manifest |-> Running!Manifest(s), schedule |-> Running!Schedule(s, w[s]),
         failure |-> Running!Schedule(s, w[s]).failure, state |-> r.state, size |-> w[s].size]
IsEvidence(w, e) ==
  /\ e = [manifest |-> e.manifest, schedule |-> e.schedule, result |-> e.result]
  /\ WrittenResult(w, e.result)
IsCase(w, c) ==
  /\ c = [request |-> c.request, status |-> c.status, observed |-> c.observed,
          native |-> c.native, error |-> c.error]
  /\ c.status \in Running!Statuses
  /\ c.native # <<>> => c.native = <<c.native[1]>> /\ IsEvidence(w, c.native[1])

AreCases ==
  /\ cases \in Seq(Running!Range(cases)) /\ plan \in Seq(Running!Range(plan)) /\ Len(cases) <= Len(plan)
  /\ \A i \in 1..Len(plan) : plan[i].seed \in Seeds
  /\ \A i \in 1..Len(cases) : cases[i].request = plan[i] /\ IsCase(world, cases[i])

SuiteTyped ==
  /\ world \in Worlds /\ altered \in BOOLEAN
  /\ phase \in {"idle", "running", "refused", "aborted", "done", "verified", "rejected"}
  /\ phase \notin {"idle", "refused"} => Running!ValidPlan(plan)
  /\ phase \in {"done", "verified", "rejected"} => Len(cases) = Len(plan)
  /\ phase \in {"idle", "refused"} => cases = <<>>
  /\ phase \in {"idle", "refused", "running", "aborted"} => summary = <<>> /\ ~altered
  /\ replayed \subseteq 1..Len(cases) /\ (replayed # {} => phase = "verified")

(* What execution makes of case i, given what the cases before it used.    *)
FitsCase(i) ==
  /\ world[plan[i].seed].n <= MaxCaseSelections
  /\ Running!SelectedBefore(i) + world[plan[i].seed].n <= MaxSelections
IsError(i) ==
  /\ cases[i] = Running!ErrorCase(plan[i], cases[i].error) /\ cases[i].error # Running!None
  /\ cases[i].error = "SELECTION_BOUND_EXCEEDED" => ~FitsCase(i)
  /\ cases[i].error = "CHILD_EVIDENCE_BOUND_EXCEEDED" =>
       FitsCase(i) /\ Running!KeptBefore(i) + world[plan[i].seed].size > MaxRetained
IsCompleted(i) ==
  /\ world[plan[i].seed].how \in {Running!None} \cup Running!Failures
  /\ cases[i] = Running!Completed(plan[i], Running!Evidence(plan[i].seed),
                                  Running!CompletedStatus(plan[i].expects, world[plan[i].seed].how))
  /\ FitsCase(i) /\ Running!KeptBefore(i) + world[plan[i].seed].size <= MaxRetained

CasesAreExecuted ==
  ~altered =>
    /\ \A i \in 1..Len(cases) : IsError(i) \/ IsCompleted(i)
    /\ selections = Running!SelectedBefore(Len(cases) + 1) /\ selections \in 0..MaxSelections
    /\ retained = Running!KeptBefore(Len(cases) + 1) /\ retained \in 0..MaxRetained

EvidenceIsOffered ==
  phase \in {"done", "verified", "rejected"} =>
    /\ DOMAIN offered = 1..Len(cases)
    /\ ~altered => /\ \A i \in 1..Len(cases) : offered[i] = cases[i].native
                   /\ counts = [s \in Running!Statuses |-> Running!Count(s)] /\ status = Running!SuiteStatus

VerifiedIsLinked ==
  phase = "verified" => \A i \in 1..Len(cases) :
    /\ Running!ReadableCase(cases[i]) /\ offered[i] = cases[i].native
    /\ cases[i].native # <<>> => Running!Linked(cases[i], cases[i].native[1])

AbortIsDeserved == phase = "aborted" => world[Running!Next_.seed].how \in {"broken", "unserial"}

ReplayedAreGenuine == \A i \in replayed : offered[i] = <<Running!Evidence(plan[i].seed)>>

SuiteInv ==
  /\ SuiteTyped /\ AreCases /\ CasesAreExecuted /\ EvidenceIsOffered /\ VerifiedIsLinked
  /\ AbortIsDeserved /\ ReplayedAreGenuine /\ Running!OwnEvidenceVerifies /\ Running!SummaryAddsUp

-----------------------------------------------------------------------------
LEMMA LeastElement ==
  ASSUME NEW T, T \subseteq Nat, T # {}
  PROVE  \E x \in T : \A y \in T : ~ (y < x)
<1> DEFINE R == OpToRel(<, Nat)
<1>1. IsWellFoundedOn(R, Nat)
  BY NatLessThanWellFounded
<1> HIDE DEF R
<1>2. \E x \in T : \A y \in T : ~ (<<y, x>> \in R)
  BY <1>1, WFMin
<1> QED
  BY <1>2 DEF R, OpToRel

(* ... so a set of naturals closed under successor that has 0 has them all.*)
LEMMA SetInduction ==
  ASSUME NEW S, 0 \in S, \A n \in Nat : n \in S => n + 1 \in S
  PROVE  \A n \in Nat : n \in S
<1> SUFFICES ASSUME Nat \ S # {} PROVE FALSE
  OBVIOUS
<1>1. PICK x \in Nat \ S : \A y \in Nat \ S : ~ (y < x)
  BY LeastElement
<1>2. x # 0 /\ x - 1 \in Nat /\ x - 1 < x
  BY <1>1
<1>3. x - 1 \in S
  BY <1>1, <1>2
<1> QED
  BY <1>1, <1>2, <1>3

(* The sum of a sequence is the last of its partial sums.                  *)
PartialSums(f, v, m) == f = [i \in 0..m |-> IF i = 0 THEN 0 ELSE f[i - 1] + v[i]]

LEMMA SumDef ==
  ASSUME NEW v, Len(v) \in Nat
  PROVE  \E f : PartialSums(f, v, Len(v)) /\ Running!Sum(v) = f[Len(v)]
<1> DEFINE S == {m \in Nat : \E f : PartialSums(f, v, m)}
<1>1. 0 \in S
  <2>1. PartialSums([i \in 0..0 |-> 0], v, 0)
    BY DEF PartialSums
  <2> QED
    BY <2>1
<1>2. ASSUME NEW n \in Nat, n \in S PROVE n + 1 \in S
  <2>1. PICK f : PartialSums(f, v, n)
    BY <1>2
  <2> DEFINE g == [i \in 0..(n + 1) |-> IF i = n + 1 THEN f[n] + v[n + 1] ELSE f[i]]
  <2>2. ASSUME NEW i \in 0..(n + 1)
        PROVE  g[i] = IF i = 0 THEN 0 ELSE g[i - 1] + v[i]
    <3>1. CASE i = n + 1
      BY <3>1
    <3>2. CASE i # n + 1
      <4>1. i \in 0..n
        BY <3>2
      <4>2. f[i] = IF i = 0 THEN 0 ELSE f[i - 1] + v[i]
        BY <2>1, <4>1 DEF PartialSums
      <4>3. g[i] = f[i] /\ (i # 0 => g[i - 1] = f[i - 1])
        BY <3>2, <4>1
      <4> QED
        BY <4>2, <4>3
    <3> QED
      BY <3>1, <3>2
  <2>3. PartialSums(g, v, n + 1)
    BY <2>2 DEF PartialSums
  <2> QED
    BY <2>3
<1>3. \E f : PartialSums(f, v, Len(v))
  <2>1. \A n \in Nat : n \in S
    <3> HIDE DEF S
    <3> QED
      BY <1>1, <1>2, SetInduction
  <2> QED
    BY <2>1
<1> DEFINE at == CHOOSE f : PartialSums(f, v, Len(v))
<1>4. PartialSums(at, v, Len(v))
  BY <1>3
<1>5. Running!Sum(v) = at[Len(v)]
  BY DEF Running!Sum, PartialSums
<1> HIDE DEF at
<1> QED
  BY <1>4, <1>5

(* A longer sequence adds what it is longer by.                            *)
LEMMA SumExtends ==
  ASSUME NEW n \in Nat, NEW u, NEW v,
         DOMAIN u = 1..(n + 1), Len(u) = n + 1, DOMAIN v = 1..n, Len(v) = n,
         \A i \in 1..n : u[i] = v[i]
  PROVE  Running!Sum(u) = Running!Sum(v) + u[n + 1]
<1>1. PICK f : PartialSums(f, u, n + 1) /\ Running!Sum(u) = f[n + 1]
  <2>1. Len(u) \in Nat
    OBVIOUS
  <2> QED
    BY <2>1, SumDef
<1>2. PICK g : PartialSums(g, v, n) /\ Running!Sum(v) = g[n]
  <2>1. Len(v) \in Nat
    OBVIOUS
  <2> QED
    BY <2>1, SumDef
<1>3. \A i \in 0..(n + 1) : f[i] = IF i = 0 THEN 0 ELSE f[i - 1] + u[i]
  BY <1>1 DEF PartialSums
<1>4. \A i \in 0..n : g[i] = IF i = 0 THEN 0 ELSE g[i - 1] + v[i]
  BY <1>2 DEF PartialSums
<1> DEFINE S == {k \in Nat : k <= n => f[k] = g[k]}
<1>5. 0 \in S
  BY <1>3, <1>4
<1>6. ASSUME NEW k \in Nat, k \in S PROVE k + 1 \in S
  <2> SUFFICES ASSUME k + 1 <= n PROVE f[k + 1] = g[k + 1]
    OBVIOUS
  <2>1. k + 1 \in 1..n /\ k + 1 \in 0..n /\ k + 1 \in 0..(n + 1) /\ (k + 1) - 1 = k /\ k + 1 # 0
    OBVIOUS
  <2>2. f[k] = g[k]
    BY <1>6, <2>1
  <2> QED
    BY <1>3, <1>4, <2>1, <2>2
<1>7. f[n] = g[n]
  <2>1. \A k \in Nat : k \in S
    <3> HIDE DEF S
    <3> QED
      BY <1>5, <1>6, SetInduction
  <2> QED
    BY <2>1
<1>8. f[n + 1] = f[n] + u[n + 1]
  <2>1. n + 1 \in 0..(n + 1) /\ n + 1 # 0 /\ (n + 1) - 1 = n
    OBVIOUS
  <2> QED
    BY <1>3, <2>1
<1> QED
  BY <1>1, <1>2, <1>7, <1>8

LEMMA SumOfNothing ==
  ASSUME NEW v, Len(v) = 0 PROVE Running!Sum(v) = 0
<1>1. PICK f : PartialSums(f, v, 0) /\ Running!Sum(v) = f[0]
  BY SumDef
<1> QED
  BY <1>1 DEF PartialSums

-----------------------------------------------------------------------------
LEMMA CasesInPlan ==
  ASSUME AreCases
  PROVE  /\ Len(cases) \in Nat /\ DOMAIN cases = 1..Len(cases)
         /\ Len(plan) \in Nat /\ DOMAIN plan = 1..Len(plan) /\ Len(cases) <= Len(plan)
         /\ \A i \in 1..Len(cases) : i \in 1..Len(plan) /\ cases[i].request = plan[i] /\ IsCase(world, cases[i])
         /\ \A i \in 1..Len(plan) : plan[i].seed \in Seeds
<1>1. /\ Len(cases) \in Nat /\ DOMAIN cases = 1..Len(cases) /\ Len(plan) \in Nat /\ DOMAIN plan = 1..Len(plan)
      /\ Len(cases) <= Len(plan)
  BY DEF AreCases
<1> QED
  BY <1>1 DEF AreCases

LEMMA WorldIsSized ==
  ASSUME Running!ExecutionsAreSized, world \in Worlds, NEW s \in Seeds
  PROVE  world[s] \in [how : Running!Hows, n : Nat, size : Nat] /\ world[s].n \in Nat /\ world[s].size \in Nat
<1>1. world[s] \in [how : Running!Hows, n : Nat, size : Nat]
  BY DEF Running!ExecutionsAreSized
<1> QED
  BY <1>1

(* What was used before a case does not depend on later ones.              *)
LEMMA BeforeStays ==
  ASSUME UNCHANGED world, Len(cases) \in Nat, DOMAIN cases = 1..Len(cases),
         1..Len(cases) \subseteq DOMAIN cases', \A j \in 1..Len(cases) : cases'[j] = cases[j],
         NEW i \in 1..(Len(cases) + 1)
  PROVE  Running!SelectedBefore(i)' = Running!SelectedBefore(i) /\ Running!KeptBefore(i)' = Running!KeptBefore(i)
<1>1. \A j \in 1..(i - 1) : j \in 1..Len(cases)
  OBVIOUS
<1>2. \A j \in 1..(i - 1) : (j \in Running!Completions)' <=> j \in Running!Completions
  BY <1>1 DEF Running!Completions
<1>3. [j \in 1..(i - 1) |-> IF (j \in Running!Completions)' THEN world'[cases'[j].request.seed].n ELSE 0]
        = [j \in 1..(i - 1) |-> IF j \in Running!Completions THEN world[cases[j].request.seed].n ELSE 0]
  BY <1>1, <1>2
<1>4. [j \in 1..(i - 1) |-> IF (j \in Running!Completions)' THEN world'[cases'[j].request.seed].size ELSE 0]
        = [j \in 1..(i - 1) |-> IF j \in Running!Completions THEN world[cases[j].request.seed].size ELSE 0]
  BY <1>1, <1>2
<1> QED
  BY <1>3, <1>4 DEF Running!SelectedBefore, Running!KeptBefore

(* A case adds what it used.                                               *)
UsesAddUp ==
  /\ \A i \in Nat \ {0} :
       /\ Running!SelectedBefore(i + 1) = Running!SelectedBefore(i)
            + IF i \in Running!Completions THEN world[cases[i].request.seed].n ELSE 0
       /\ Running!KeptBefore(i + 1) = Running!KeptBefore(i)
            + IF i \in Running!Completions THEN world[cases[i].request.seed].size ELSE 0
  /\ Running!SelectedBefore(1) = 0 /\ Running!KeptBefore(1) = 0

LEMMA BeforeExtends == UsesAddUp
<1> SUFFICES ASSUME NEW i \in Nat \ {0}
             PROVE  /\ Running!SelectedBefore(i + 1) = Running!SelectedBefore(i)
                         + IF i \in Running!Completions THEN world[cases[i].request.seed].n ELSE 0
                    /\ Running!KeptBefore(i + 1) = Running!KeptBefore(i)
                         + IF i \in Running!Completions THEN world[cases[i].request.seed].size ELSE 0
                    /\ Running!SelectedBefore(1) = 0 /\ Running!KeptBefore(1) = 0
  BY DEF UsesAddUp
<1> DEFINE n(k) == [j \in 1..k |-> IF j \in Running!Completions THEN world[cases[j].request.seed].n ELSE 0]
           z(k) == [j \in 1..k |-> IF j \in Running!Completions THEN world[cases[j].request.seed].size ELSE 0]
<1>1. (i + 1) - 1 = (i - 1) + 1 /\ i - 1 \in Nat /\ (i - 1) + 1 = i
  OBVIOUS
<1>2. Running!Sum(n(i)) = Running!Sum(n(i - 1)) + n(i)[i]
  <2>1. /\ DOMAIN n(i) = 1..((i - 1) + 1) /\ Len(n(i)) = (i - 1) + 1
        /\ DOMAIN n(i - 1) = 1..(i - 1) /\ Len(n(i - 1)) = i - 1
        /\ \A j \in 1..(i - 1) : n(i)[j] = n(i - 1)[j]
    OBVIOUS
  <2> HIDE DEF n
  <2>2. Running!Sum(n(i)) = Running!Sum(n(i - 1)) + n(i)[(i - 1) + 1]
    BY <1>1, <2>1, SumExtends
  <2> QED
    BY <1>1, <2>2
<1>3. Running!Sum(z(i)) = Running!Sum(z(i - 1)) + z(i)[i]
  <2>1. /\ DOMAIN z(i) = 1..((i - 1) + 1) /\ Len(z(i)) = (i - 1) + 1
        /\ DOMAIN z(i - 1) = 1..(i - 1) /\ Len(z(i - 1)) = i - 1
        /\ \A j \in 1..(i - 1) : z(i)[j] = z(i - 1)[j]
    OBVIOUS
  <2> HIDE DEF z
  <2>2. Running!Sum(z(i)) = Running!Sum(z(i - 1)) + z(i)[(i - 1) + 1]
    BY <1>1, <2>1, SumExtends
  <2> QED
    BY <1>1, <2>2
<1>4. /\ Running!SelectedBefore(i + 1) = Running!Sum(n(i)) /\ Running!SelectedBefore(i) = Running!Sum(n(i - 1))
      /\ Running!KeptBefore(i + 1) = Running!Sum(z(i)) /\ Running!KeptBefore(i) = Running!Sum(z(i - 1))
  <2>1. (i + 1) - 1 = i
    OBVIOUS
  <2> QED
    BY <2>1 DEF Running!SelectedBefore, Running!KeptBefore
<1>5. Running!SelectedBefore(1) = 0 /\ Running!KeptBefore(1) = 0
  <2>1. Len(n(1 - 1)) = 0 /\ Len(z(1 - 1)) = 0
    OBVIOUS
  <2>2. Running!Sum(n(1 - 1)) = 0 /\ Running!Sum(z(1 - 1)) = 0
    <3> HIDE DEF n, z
    <3> QED
      BY <2>1, SumOfNothing
  <2> QED
    BY <2>2 DEF Running!SelectedBefore, Running!KeptBefore
<1>6. /\ n(i)[i] = IF i \in Running!Completions THEN world[cases[i].request.seed].n ELSE 0
      /\ z(i)[i] = IF i \in Running!Completions THEN world[cases[i].request.seed].size ELSE 0
  OBVIOUS
<1> HIDE DEF n, z
<1> QED
  BY <1>2, <1>3, <1>4, <1>5, <1>6

LEMMA ThenBeforeExtends == UsesAddUp'
  BY BeforeExtends, PTL

LEMMA CasesStay ==
  ASSUME UNCHANGED <<world, plan, cases, selections, retained, altered>>, AreCases, CasesAreExecuted
  PROVE  CasesAreExecuted'
<1>1. Len(cases) \in Nat /\ DOMAIN cases = 1..Len(cases)
  BY CasesInPlan
<1>2. \A i \in 1..(Len(cases) + 1) :
        Running!SelectedBefore(i)' = Running!SelectedBefore(i) /\ Running!KeptBefore(i)' = Running!KeptBefore(i)
  BY <1>1, BeforeStays
<1>3. ASSUME NEW i \in 1..Len(cases)
      PROVE  (IsError(i) \/ IsCompleted(i))' <=> IsError(i) \/ IsCompleted(i)
  <2>1. i \in 1..(Len(cases) + 1)
    BY <1>1
  <2>2. FitsCase(i)' <=> FitsCase(i)
    BY <1>2, <2>1 DEF FitsCase
  <2> QED
    BY <1>2, <2>1, <2>2 DEF IsError, IsCompleted, Running!Evidence
<1>4. /\ Running!SelectedBefore(Len(cases) + 1)' = Running!SelectedBefore(Len(cases) + 1)
      /\ Running!KeptBefore(Len(cases) + 1)' = Running!KeptBefore(Len(cases) + 1)
  <2>1. PICK k : k = Len(cases) + 1
    OBVIOUS
  <2>2. k \in 1..(Len(cases) + 1) /\ Len(cases') + 1 = k
    BY <1>1, <2>1
  <2>3. Running!SelectedBefore(k)' = Running!SelectedBefore(k) /\ Running!KeptBefore(k)' = Running!KeptBefore(k)
    BY <1>2, <2>2
  <2> QED
    BY <2>1, <2>2, <2>3 DEF Running!SelectedBefore, Running!KeptBefore
<1> QED
  BY <1>3, <1>4 DEF CasesAreExecuted

LEMMA SuiteInit ==
  ASSUME Running!ExecutionsAreSized, Running!Init PROVE SuiteInv
<1>1. /\ world \in Worlds /\ plan = <<>> /\ phase = "idle" /\ selections = 0 /\ retained = 0
      /\ cases = <<>> /\ altered = FALSE /\ replayed = {} /\ summary = <<>>
  BY DEF Running!Init
<1>2. Len(cases) = 0 /\ Len(plan) = 0 /\ cases \in Seq(Running!Range(cases)) /\ plan \in Seq(Running!Range(plan))
  BY <1>1
<1>3. SuiteTyped /\ AreCases
  <2>1. SuiteTyped
    BY <1>1, <1>2 DEF SuiteTyped
  <2>2. AreCases
    BY <1>2 DEF AreCases
  <2> QED
    BY <2>1, <2>2
<1>4. Running!SelectedBefore(1) = 0 /\ Running!KeptBefore(1) = 0
  BY BeforeExtends DEF UsesAddUp
<1>5. CasesAreExecuted
  <2>1. MaxSelections \in Nat /\ MaxRetained \in Nat
    BY DEF Running!ExecutionsAreSized
  <2> QED
    BY <1>1, <1>2, <1>4, <2>1 DEF CasesAreExecuted
<1> QED
  BY <1>1, <1>3, <1>5
  DEF SuiteInv, EvidenceIsOffered, VerifiedIsLinked, AbortIsDeserved, ReplayedAreGenuine,
      Running!OwnEvidenceVerifies, Running!SummaryAddsUp

(* A plan is taken while there are no cases.                               *)
LEMMA PlanStep ==
  ASSUME Running!ExecutionsAreSized, SuiteInv, NEW requests, requests \in Seq(Running!Range(requests)),
         \A i \in 1..Len(requests) : requests[i].seed \in Seeds, Running!NewPlan(requests)
  PROVE  SuiteInv'
<1>1. /\ phase = "idle" /\ plan' = requests /\ phase' \in {"running", "refused"}
      /\ phase' = "running" => Running!ValidPlan(requests)
      /\ UNCHANGED <<world, selections, retained, cases, counts, status, offered, altered,
                     replayed, summary>>
  BY DEF Running!NewPlan, Running!budget, Running!suite
<1>2. cases = <<>> /\ Len(cases) = 0 /\ replayed = {} /\ ~altered /\ summary = <<>>
  BY <1>1 DEF SuiteInv, SuiteTyped
<1>3. SuiteTyped'
  BY <1>1, <1>2 DEF SuiteInv, SuiteTyped
<1>4. AreCases'
  <2>1. Len(requests) \in Nat
    OBVIOUS
  <2> QED
    BY <1>1, <1>2, <2>1 DEF SuiteInv, AreCases
<1>5. CasesAreExecuted'
  <2>1. 1 \in 1..(Len(cases) + 1) /\ 1..Len(cases) = {} /\ Len(cases) \in Nat /\ DOMAIN cases = 1..Len(cases)
    BY <1>2
  <2>2. Running!SelectedBefore(1)' = Running!SelectedBefore(1) /\ Running!KeptBefore(1)' = Running!KeptBefore(1)
    BY <1>1, <2>1, BeforeStays
  <2> QED
    BY <1>1, <1>2, <2>2 DEF SuiteInv, CasesAreExecuted
<1> QED
  BY <1>1, <1>2, <1>3, <1>4, <1>5
  DEF SuiteInv, EvidenceIsOffered, VerifiedIsLinked, AbortIsDeserved, ReplayedAreGenuine,
      Running!OwnEvidenceVerifies, Running!SummaryAddsUp

(* A new outcome is appended: an error that uses nothing, or a completion. *)
LEMMA RecordStep ==
  ASSUME Running!ExecutionsAreSized, SuiteInv, Running!Running, NEW o, Running!Record(o), IsCase(world, o), o.request = Running!Next_,
         \/ /\ UNCHANGED Running!budget /\ o = Running!ErrorCase(Running!Next_, o.error) /\ o.error # Running!None
            /\ o.error = "SELECTION_BOUND_EXCEEDED" => Running!OverSelections(world[Running!Next_.seed].n)
            /\ o.error = "CHILD_EVIDENCE_BOUND_EXCEEDED" =>
                 ~Running!OverSelections(world[Running!Next_.seed].n)
                 /\ retained + world[Running!Next_.seed].size > MaxRetained
         \/ /\ selections' = selections + world[Running!Next_.seed].n
            /\ retained' = retained + world[Running!Next_.seed].size
            /\ world[Running!Next_.seed].how \in {Running!None} \cup Running!Failures
            /\ o = Running!Completed(Running!Next_, Running!Evidence(Running!Next_.seed),
                                     Running!CompletedStatus(Running!Next_.expects, world[Running!Next_.seed].how))
            /\ o.status # "ERROR"
            /\ ~Running!OverSelections(world[Running!Next_.seed].n)
            /\ retained + world[Running!Next_.seed].size <= MaxRetained
  PROVE  SuiteInv'
<1>0. PICK n : n = Len(cases)
  OBVIOUS
<1>1. /\ phase = "running" /\ n < Len(plan) /\ cases' = Append(cases, o)
      /\ UNCHANGED <<world, plan, phase, counts, status, offered, altered, replayed, summary>>
  BY <1>0 DEF Running!Running, Running!Record
<1>2. AreCases /\ SuiteTyped /\ CasesAreExecuted /\ ~altered /\ replayed = {}
  BY <1>1 DEF SuiteInv, SuiteTyped
<1>3. /\ n \in Nat /\ DOMAIN cases = 1..n /\ Len(plan) \in Nat /\ n + 1 \in 1..Len(plan)
      /\ cases \in Seq(Running!Range(cases))
  BY <1>0, <1>1, <1>2, CasesInPlan DEF AreCases
<1>4. /\ Len(cases') = n + 1 /\ DOMAIN cases' = 1..(n + 1)
      /\ \A i \in 1..n : cases'[i] = cases[i]
      /\ cases'[n + 1] = o /\ cases' \in Seq(Running!Range(cases'))
  <2>1. Len(cases') = n + 1 /\ DOMAIN cases' = 1..(n + 1) /\ cases'[n + 1] = o
        /\ \A i \in 1..n : cases'[i] = cases[i]
    BY <1>1, <1>3
  <2> DEFINE T == Running!Range(cases) \cup {o}
  <2>2. cases' \in Seq(T)
    <3>1. cases \in Seq(T) /\ o \in T
      BY <1>3
    <3> HIDE DEF T
    <3> QED
      BY <1>1, <3>1
  <2>3. T \subseteq Running!Range(cases')
    BY <1>3, <2>1 DEF Running!Range
  <2> HIDE DEF T
  <2> QED
    BY <2>1, <2>2, <2>3
<1>5. Running!Next_ = plan[n + 1] /\ plan[n + 1].seed \in Seeds
  BY <1>0, <1>2, <1>3 DEF Running!Next_, AreCases
<1>6. /\ world[Running!Next_.seed].n \in Nat /\ world[Running!Next_.seed].size \in Nat
      /\ MaxSelections \in Nat /\ MaxRetained \in Nat /\ MaxCaseSelections \in Nat
  BY <1>2, <1>5, WorldIsSized DEF SuiteTyped, Running!ExecutionsAreSized
<1>7. AreCases'
  <2>1. \A i \in 1..(n + 1) : cases'[i].request = plan[i] /\ IsCase(world, cases'[i])
    BY <1>0, <1>2, <1>3, <1>4, <1>5, CasesInPlan
  <2>3. \A i \in 1..Len(cases') : cases'[i].request = plan'[i] /\ IsCase(world', cases'[i])
    BY <1>1, <1>4, <2>1
  <2>4. Len(cases') <= Len(plan')
    BY <1>1, <1>3, <1>4
  <2> QED
    BY <1>1, <1>2, <1>4, <2>3, <2>4 DEF AreCases
<1>8. \A i \in 1..(n + 1) : Running!SelectedBefore(i)' = Running!SelectedBefore(i) /\ Running!KeptBefore(i)' = Running!KeptBefore(i)
  BY <1>0, <1>1, <1>3, <1>4, BeforeStays
<1>9. /\ selections = Running!SelectedBefore(n + 1) /\ selections \in 0..MaxSelections
      /\ retained = Running!KeptBefore(n + 1) /\ retained \in 0..MaxRetained
  BY <1>0, <1>2 DEF CasesAreExecuted
<1>10. \A i \in 1..n : (IsError(i) \/ IsCompleted(i))'
  <2> SUFFICES ASSUME NEW i \in 1..n PROVE (IsError(i) \/ IsCompleted(i))'
    OBVIOUS
  <2>1. i \in 1..(n + 1) /\ cases'[i] = cases[i]
    BY <1>3, <1>4
  <2>2. FitsCase(i)' = FitsCase(i)
    BY <1>1, <1>8, <2>1 DEF FitsCase
  <2>3. IsError(i) \/ IsCompleted(i)
    BY <1>0, <1>2 DEF CasesAreExecuted
  <2> QED
    BY <1>1, <1>8, <2>1, <2>2, <2>3 DEF IsError, IsCompleted, Running!Evidence
<1>11. FitsCase(n + 1)' <=> ~Running!OverSelections(world[Running!Next_.seed].n)
  <2>1. n + 1 \in 1..(n + 1)
    BY <1>3
  <2>2. Running!SelectedBefore(n + 1)' = selections
    BY <1>8, <1>9, <2>1
  <2>3. FitsCase(n + 1)' <=> /\ world[Running!Next_.seed].n <= MaxCaseSelections
                             /\ selections + world[Running!Next_.seed].n <= MaxSelections
    BY <1>1, <1>5, <2>2 DEF FitsCase
  <2> QED
    BY <1>6, <1>9, <2>3 DEF Running!OverSelections
<1>12. (n + 1 \in Running!Completions)' <=> o.status # "ERROR"
  BY <1>3, <1>4 DEF Running!Completions
<1>13. /\ Running!SelectedBefore(n + 2)' = selections + IF o.status # "ERROR" THEN world[Running!Next_.seed].n ELSE 0
       /\ Running!KeptBefore(n + 2)' = retained + IF o.status # "ERROR" THEN world[Running!Next_.seed].size ELSE 0
  <2>1. n + 1 \in Nat \ {0} /\ (n + 1) + 1 = n + 2 /\ n + 1 \in 1..(n + 1)
    BY <1>3
  <2>2. /\ Running!SelectedBefore((n + 1) + 1)' = Running!SelectedBefore(n + 1)'
             + IF (n + 1 \in Running!Completions)' THEN world'[cases'[n + 1].request.seed].n ELSE 0
        /\ Running!KeptBefore((n + 1) + 1)' = Running!KeptBefore(n + 1)'
             + IF (n + 1 \in Running!Completions)' THEN world'[cases'[n + 1].request.seed].size ELSE 0
    BY <2>1, ThenBeforeExtends DEF UsesAddUp
  <2> QED
    BY <1>1, <1>4, <1>8, <1>9, <1>12, <2>1, <2>2
<1>14. selections' = Running!SelectedBefore(n + 2)' /\ retained' = Running!KeptBefore(n + 2)'
       /\ selections' \in 0..MaxSelections /\ retained' \in 0..MaxRetained
  <2>1. CASE UNCHANGED Running!budget /\ o = Running!ErrorCase(Running!Next_, o.error)
    <3>1. o.status = "ERROR"
      BY <2>1 DEF Running!ErrorCase
    <3> QED
      BY <2>1, <3>1, <1>9, <1>13, <1>6 DEF Running!budget
  <2>2. CASE /\ selections' = selections + world[Running!Next_.seed].n
             /\ retained' = retained + world[Running!Next_.seed].size
             /\ ~Running!OverSelections(world[Running!Next_.seed].n)
             /\ retained + world[Running!Next_.seed].size <= MaxRetained
             /\ o.status # "ERROR"
    <3>1. selections + world[Running!Next_.seed].n <= MaxSelections
      BY <2>2, <1>6, <1>9 DEF Running!OverSelections
    <3>2. /\ Running!SelectedBefore(n + 2)' = selections + world[Running!Next_.seed].n
          /\ Running!KeptBefore(n + 2)' = retained + world[Running!Next_.seed].size
      BY <1>13, <2>2
    <3> QED
      BY <2>2, <3>1, <3>2, <1>6, <1>9
  <2> QED
    BY <2>1, <2>2
<1>15. (IsError(n + 1) \/ IsCompleted(n + 1))'
  <2>0. n + 1 \in 1..(n + 1) /\ cases'[n + 1] = o /\ plan' = plan /\ world' = world
    BY <1>1, <1>3, <1>4
  <2>1. CASE /\ UNCHANGED Running!budget /\ o = Running!ErrorCase(Running!Next_, o.error) /\ o.error # Running!None
             /\ o.error = "SELECTION_BOUND_EXCEEDED" => Running!OverSelections(world[Running!Next_.seed].n)
             /\ o.error = "CHILD_EVIDENCE_BOUND_EXCEEDED" =>
                  ~Running!OverSelections(world[Running!Next_.seed].n)
                  /\ retained + world[Running!Next_.seed].size > MaxRetained
    BY <2>0, <2>1, <1>5, <1>8, <1>9, <1>11 DEF IsError
  <2>2. CASE /\ world[Running!Next_.seed].how \in {Running!None} \cup Running!Failures
             /\ o = Running!Completed(Running!Next_, Running!Evidence(Running!Next_.seed),
                                      Running!CompletedStatus(Running!Next_.expects, world[Running!Next_.seed].how))
             /\ ~Running!OverSelections(world[Running!Next_.seed].n)
             /\ retained + world[Running!Next_.seed].size <= MaxRetained
    <3>2. Running!Evidence(plan[n + 1].seed)' = Running!Evidence(Running!Next_.seed)
      BY <1>1, <1>5 DEF Running!Evidence
    <3> QED
      BY <2>0, <2>2, <3>2, <1>5, <1>8, <1>9, <1>11 DEF IsCompleted
  <2> QED
    BY <2>1, <2>2
<1>16. CasesAreExecuted'
  <2>1. Len(cases') + 1 = n + 2 /\ \A i \in 1..Len(cases') : i \in 1..n \/ i = n + 1
    BY <1>3, <1>4
  <2> QED
    BY <1>2, <1>10, <1>14, <1>15, <2>1 DEF CasesAreExecuted
<1>17. SuiteTyped'
  BY <1>1, <1>2, <1>3, <1>4 DEF SuiteTyped
<1> QED
  BY <1>1, <1>2, <1>7, <1>16, <1>17
  DEF SuiteInv, SuiteTyped, EvidenceIsOffered, VerifiedIsLinked, AbortIsDeserved, ReplayedAreGenuine,
      Running!OwnEvidenceVerifies, Running!SummaryAddsUp

(* Genuine evidence is evidence, and what its parts are.                   *)
LEMMA EvidenceIsEvidence ==
  ASSUME NEW s \in Seeds
  PROVE  IsEvidence(world, Running!Evidence(s))
<1> DEFINE sched == Running!Schedule(s, world[s])
           r == [manifest |-> Running!Manifest(s), schedule |-> sched, failure |-> sched.failure,
                 state |-> "observed", size |-> world[s].size]
<1>1. Running!Result(s, world[s]) = r
  BY DEF Running!Result
<1>2. Running!Evidence(s) = [manifest |-> Running!Manifest(s), schedule |-> sched, result |-> r]
  BY <1>1 DEF Running!Evidence
<1>3. WrittenResult(world, r)
  BY DEF WrittenResult
<1> HIDE DEF r, sched
<1> QED
  BY <1>2, <1>3 DEF IsEvidence

LEMMA ExecuteStep ==
  ASSUME Running!ExecutionsAreSized, SuiteInv, Running!FailCase \/ Running!LimitCase \/ Running!CompleteCase PROVE SuiteInv'
<1>1. Running!Running /\ Len(cases) + 1 \in 1..Len(plan) /\ Running!Next_.seed \in Seeds /\ Running!Next_ = plan[Len(cases) + 1]
  <2>1. Running!Running
    BY DEF Running!FailCase, Running!LimitCase, Running!CompleteCase
  <2>2. Len(cases) \in Nat /\ Len(plan) \in Nat
    BY CasesInPlan DEF SuiteInv
  <2> QED
    BY <2>1, <2>2, CasesInPlan DEF Running!Running, Running!Next_, SuiteInv
<1>2. ASSUME NEW failure, failure # Running!None
      PROVE  /\ IsCase(world, Running!ErrorCase(Running!Next_, failure)) /\ Running!ErrorCase(Running!Next_, failure).request = Running!Next_
             /\ Running!ErrorCase(Running!Next_, failure) = Running!ErrorCase(Running!Next_, Running!ErrorCase(Running!Next_, failure).error)
             /\ Running!ErrorCase(Running!Next_, failure).error = failure
  BY DEF IsCase, Running!ErrorCase, Running!Statuses
<1>3. CASE Running!FailCase
  <2> DEFINE failure == Running!ErrorCode(world[Running!Next_.seed].how)
  <2>1. failure \in {"PLUGIN_EXECUTION_FAILED", "INTERNAL_EXECUTION_FAILED"} /\ failure # Running!None
    BY DEF Running!ErrorCode, Running!None
  <2>2. UNCHANGED Running!budget /\ Running!Record(Running!ErrorCase(Running!Next_, failure))
    BY <1>3 DEF Running!FailCase
  <2>3. failure # "SELECTION_BOUND_EXCEEDED" /\ failure # "CHILD_EVIDENCE_BOUND_EXCEEDED"
    BY <2>1
  <2> HIDE DEF failure
  <2> QED
    BY <1>1, <1>2, <2>1, <2>2, <2>3, RecordStep
<1>4. CASE Running!LimitCase
  <2>1. CASE /\ Running!OverSelections(world[Running!Next_.seed].n)
             /\ Running!Record(Running!ErrorCase(Running!Next_, "SELECTION_BOUND_EXCEEDED"))
    <3>1. UNCHANGED Running!budget
      BY <1>4 DEF Running!LimitCase
    <3> QED
      BY <1>1, <1>2, <2>1, <3>1, RecordStep DEF Running!None
  <2>2. CASE /\ ~Running!OverSelections(world[Running!Next_.seed].n)
             /\ retained + world[Running!Next_.seed].size > MaxRetained
             /\ Running!Record(Running!ErrorCase(Running!Next_, "CHILD_EVIDENCE_BOUND_EXCEEDED"))
    <3>1. UNCHANGED Running!budget
      BY <1>4 DEF Running!LimitCase
    <3> QED
      BY <1>1, <1>2, <2>2, <3>1, RecordStep DEF Running!None
  <2> QED
    BY <1>4, <2>1, <2>2 DEF Running!LimitCase
<1>5. CASE Running!CompleteCase
  <2> DEFINE outcome == world[Running!Next_.seed]
             s == Running!CompletedStatus(Running!Next_.expects, outcome.how)
             o == Running!Completed(Running!Next_, Running!Evidence(Running!Next_.seed), s)
  <2>1. outcome.how \in {Running!None} \cup Running!Failures /\ ~Running!OverSelections(outcome.n) /\ retained + outcome.size <= MaxRetained
    BY <1>5 DEF Running!CompleteCase
  <2>2. Running!ObservedStatus(Running!Next_.expects, outcome.how) = s
    <3>1. CASE outcome.how = Running!None
      BY <3>1 DEF Running!ObservedStatus, Running!CompletedStatus, Running!None, Running!Invariant
    <3>2. CASE outcome.how = Running!Invariant /\ Running!Next_.expects = Running!Invariant
      BY <3>2 DEF Running!ObservedStatus, Running!CompletedStatus, Running!None, Running!Invariant
    <3>3. CASE outcome.how # Running!None /\ ~(outcome.how = Running!Invariant /\ Running!Next_.expects = Running!Invariant)
      BY <3>3 DEF Running!ObservedStatus, Running!CompletedStatus, Running!None, Running!Invariant
    <3> QED
      BY <3>1, <3>2, <3>3
  <2>3. Running!Record(o) /\ selections' = selections + outcome.n /\ retained' = retained + outcome.size
    BY <1>5, <2>2 DEF Running!CompleteCase
  <2>4. s \in Running!Statuses /\ s # "ERROR"
    BY DEF Running!CompletedStatus, Running!Statuses
  <2>5. IsCase(world, o) /\ o.request = Running!Next_ /\ o.status = s
    <3>1. IsEvidence(world, Running!Evidence(Running!Next_.seed))
      BY <1>1, EvidenceIsEvidence
    <3> HIDE DEF s
    <3> QED
      BY <2>4, <3>1 DEF IsCase, Running!Completed
  <2> QED
    BY <1>1, <2>1, <2>3, <2>4, <2>5, RecordStep
<1> QED
  BY <1>3, <1>4, <1>5

LEMMA AbortStep ==
  ASSUME Running!ExecutionsAreSized, SuiteInv, Running!BreakCase \/ Running!UnserialCase PROVE SuiteInv'
<1>1. /\ phase = "running" /\ world[Running!Next_.seed].how \in {"broken", "unserial"} /\ phase' = "aborted"
      /\ UNCHANGED <<world, plan, selections, retained, cases, counts, status, offered, altered,
                     replayed, summary>>
  BY DEF Running!BreakCase, Running!UnserialCase, Running!Running, Running!Abort, Running!budget, Running!suite
<1>2. SuiteTyped' /\ AreCases' /\ AbortIsDeserved'
  <2>1. SuiteTyped'
    BY <1>1 DEF SuiteInv, SuiteTyped
  <2>2. AreCases'
    BY <1>1 DEF SuiteInv, AreCases
  <2>3. AbortIsDeserved'
    BY <1>1 DEF AbortIsDeserved, Running!Next_
  <2> QED
    BY <2>1, <2>2, <2>3
<1> QED
  BY <1>1, <1>2, CasesStay
  DEF SuiteInv, SuiteTyped, EvidenceIsOffered, VerifiedIsLinked, ReplayedAreGenuine,
      Running!OwnEvidenceVerifies, Running!SummaryAddsUp

(* Counting, by the cases that are counted.                                *)
LEMMA SuiteCounts ==
  ASSUME NEW S PROVE Running!Cardinality(S) = Cardinality(S)
  BY DEF Running!Cardinality, Cardinality

CountsOfCases == \A s : Running!Count(s) = Cardinality({i \in DOMAIN cases : cases[i].status = s})

LEMMA CountsAreOfCases == CountsOfCases
  BY SuiteCounts DEF CountsOfCases, Running!Count, Running!Quantify

LEMMA ThenCountsAreOfCases == CountsOfCases'
  BY CountsAreOfCases, PTL

LEMMA CountsStay ==
  ASSUME UNCHANGED cases PROVE (\A s : Running!Count(s)' = Running!Count(s)) /\ Running!SuiteStatus' = Running!SuiteStatus
<1>1. \A s : Running!Count(s)' = Running!Count(s)
  BY CountsAreOfCases, ThenCountsAreOfCases DEF CountsOfCases
<1> QED
  BY <1>1 DEF Running!SuiteStatus

LEMMA FinishStep ==
  ASSUME Running!ExecutionsAreSized, SuiteInv, Running!Finish PROVE SuiteInv'
<1>1. /\ phase = "running" /\ phase' = "done" /\ Len(cases) = Len(plan)
      /\ counts' = [s \in Running!Statuses |-> Running!Count(s)] /\ status' = Running!SuiteStatus
      /\ offered' = [i \in DOMAIN cases |-> cases[i].native]
      /\ UNCHANGED <<world, plan, selections, retained, cases, altered, replayed, summary>>
  BY DEF Running!Finish, Running!budget
<1>2. DOMAIN cases = 1..Len(cases)
  BY CasesInPlan DEF SuiteInv
<1>3. SuiteTyped'
  BY <1>1 DEF SuiteInv, SuiteTyped
<1>4. AreCases'
  BY <1>1 DEF SuiteInv, AreCases
<1>5. (\A s : Running!Count(s)' = Running!Count(s)) /\ Running!SuiteStatus' = Running!SuiteStatus
  BY <1>1, CountsStay
<1>6. EvidenceIsOffered'
  BY <1>1, <1>2, <1>5 DEF EvidenceIsOffered
<1> QED
  BY <1>1, <1>3, <1>4, <1>6, CasesStay
  DEF SuiteInv, SuiteTyped, VerifiedIsLinked, ReplayedAreGenuine, AbortIsDeserved,
      Running!OwnEvidenceVerifies, Running!SummaryAddsUp

(* Whatever is altered, what there is was once written.                    *)
LEMMA AlteredEvidenceIsEvidence ==
  ASSUME NEW e, IsEvidence(world, e), NEW others, \A o \in others : IsEvidence(world, o),
         NEW x \in Running!AlteredEvidence(e, others)
  PROVE  IsEvidence(world, x)
<1>1. e = [manifest |-> e.manifest, schedule |-> e.schedule, result |-> e.result]
      /\ WrittenResult(world, e.result)
  BY DEF IsEvidence
<1>2. PICK m, c, r : e = [manifest |-> m, schedule |-> c, result |-> r] /\ WrittenResult(world, r)
  BY <1>1
<1>3. CASE x \in others
  BY <1>3
<1>4. ASSUME NEW o \in others, x = [e EXCEPT !.schedule = o.schedule] PROVE IsEvidence(world, x)
  <2>1. x = [manifest |-> m, schedule |-> o.schedule, result |-> r]
    BY <1>2, <1>4
  <2> QED
    BY <1>2, <2>1 DEF IsEvidence
<1>5. ASSUME NEW o \in others, x = [e EXCEPT !.manifest = o.manifest] PROVE IsEvidence(world, x)
  <2>1. x = [manifest |-> o.manifest, schedule |-> c, result |-> r]
    BY <1>2, <1>5
  <2> QED
    BY <1>2, <2>1 DEF IsEvidence
<1>6. ASSUME NEW o \in others, x = [e EXCEPT !.result = o.result] PROVE IsEvidence(world, x)
  <2>1. x = [manifest |-> m, schedule |-> c, result |-> o.result]
    BY <1>2, <1>6
  <2> QED
    BY <2>1 DEF IsEvidence
<1>7. CASE x = [e EXCEPT !.schedule.n = 1]
  <2>1. x = [manifest |-> m, schedule |-> [c EXCEPT !.n = 1], result |-> r]
    BY <1>2, <1>7
  <2> QED
    BY <1>2, <2>1 DEF IsEvidence
<1>8. CASE x = [e EXCEPT !.result.state = "other"]
  <2>1. x = [manifest |-> m, schedule |-> c, result |-> [r EXCEPT !.state = "other"]]
    BY <1>2, <1>8
  <2>2. PICK s \in Seeds :
          r = [manifest |-> Running!Manifest(s), schedule |-> Running!Schedule(s, world[s]),
               failure |-> Running!Schedule(s, world[s]).failure, state |-> r.state, size |-> world[s].size]
    BY <1>2 DEF WrittenResult
  <2>3. PICK a, b, f, t, z : r = [manifest |-> a, schedule |-> b, failure |-> f, state |-> t, size |-> z]
    BY <2>2
  <2>4. [r EXCEPT !.state = "other"]
          = [manifest |-> a, schedule |-> b, failure |-> f, state |-> "other", size |-> z]
    BY <2>3
  <2>5. a = Running!Manifest(s) /\ b = Running!Schedule(s, world[s]) /\ f = Running!Schedule(s, world[s]).failure
        /\ z = world[s].size
    BY <2>2, <2>3
  <2>6. WrittenResult(world, [r EXCEPT !.state = "other"])
    BY <2>4, <2>5 DEF WrittenResult
  <2> QED
    BY <2>1, <2>6 DEF IsEvidence
<1> QED
  BY <1>3, <1>4, <1>5, <1>6, <1>7, <1>8 DEF Running!AlteredEvidence

LEMMA AlteredCaseIsCase ==
  ASSUME AreCases, NEW i \in DOMAIN cases, NEW c \in Running!AlteredCase(i)
  PROVE  IsCase(world, c) /\ c.request = plan[i]
<1>1. PICK d : d = cases[i]
  OBVIOUS
<1>2. IsCase(world, d) /\ d.request = plan[i]
  BY <1>1, CasesInPlan
<1>3. PICK q, s, o, n, x : /\ d = [request |-> q, status |-> s, observed |-> o, native |-> n, error |-> x]
                           /\ s \in Running!Statuses /\ (n # <<>> => n = <<n[1]>> /\ IsEvidence(world, n[1]))
  BY <1>2 DEF IsCase
<1>4. q = plan[i] /\ d.native = n
  BY <1>2, <1>3
<1>5. \A e \in Running!EvidenceBut(i) : IsEvidence(world, e)
  BY CasesInPlan DEF IsCase, Running!EvidenceBut
<1>6. CASE c \in Running!AlteredVerdict(d)
  <2>1. PICK t \in Running!Statuses, f \in Running!Failures \cup {Running!None} : c = Running!Claiming(d, t, f)
    BY <1>6 DEF Running!AlteredVerdict
  <2>2. PICK r : r = [d EXCEPT !.status = t] /\ c = [r EXCEPT !.observed = f]
    BY <2>1 DEF Running!Claiming
  <2>3. r = [request |-> q, status |-> t, observed |-> o, native |-> n, error |-> x]
    BY <1>3, <2>2
  <2>4. c = [r EXCEPT !.observed = f]
    BY <2>2
  <2>5. c = [request |-> q, status |-> t, observed |-> f, native |-> n, error |-> x]
    BY <2>3, <2>4
  <2> QED
    BY <1>3, <1>4, <2>5 DEF IsCase
<1>7. CASE c = Running!ErrorCase(d.request, "INTERNAL_EXECUTION_FAILED")
  BY <1>2, <1>7 DEF Running!ErrorCase, IsCase, Running!Statuses
<1>8. ASSUME n # <<>>, NEW e \in Running!AlteredEvidence(n[1], Running!EvidenceBut(i)), c = [d EXCEPT !.native = <<e>>]
      PROVE  IsCase(world, c) /\ c.request = plan[i]
  <2>1. IsEvidence(world, e)
    BY <1>3, <1>5, <1>8, AlteredEvidenceIsEvidence
  <2>2. c = [request |-> q, status |-> s, observed |-> o, native |-> <<e>>, error |-> x]
    BY <1>3, <1>8
  <2> QED
    BY <1>3, <1>4, <2>1, <2>2 DEF IsCase
<1>9. c \in Running!AlteredVerdict(d) \/ c \in Running!AlteredNative(d, Running!EvidenceBut(i))
  BY <1>1 DEF Running!AlteredCase
<1> QED
  BY <1>4, <1>6, <1>7, <1>8, <1>9 DEF Running!AlteredNative

LEMMA AlterStep ==
  ASSUME SuiteInv, NEW i \in DOMAIN cases, NEW c \in Running!AlteredCase(i), NEW along \in BOOLEAN,
         Running!Alter(i, c, along)
  PROVE  SuiteInv'
<1>1. /\ phase = "done" /\ altered' = TRUE /\ cases' = [cases EXCEPT ![i] = c]
      /\ offered' = IF along THEN [offered EXCEPT ![i] = c.native] ELSE offered
      /\ UNCHANGED <<world, plan, phase, selections, retained, replayed, summary>>
  BY DEF Running!Alter, Running!budget
<1>2. IsCase(world, c) /\ c.request = plan[i]
  BY AlteredCaseIsCase DEF SuiteInv
<1>3. PICK n : n = Len(cases)
  OBVIOUS
<1>4. n \in Nat /\ DOMAIN cases = 1..n /\ cases \in Seq(Running!Range(cases)) /\ replayed = {}
  BY <1>1, <1>3, CasesInPlan DEF SuiteInv, AreCases, SuiteTyped
<1>5. /\ Len(cases') = n /\ DOMAIN cases' = 1..n /\ cases'[i] = c
      /\ \A j \in 1..n : j # i => cases'[j] = cases[j]
  BY <1>1, <1>3, <1>4
<1>6. cases' \in Seq(Running!Range(cases'))
  <2> DEFINE T == Running!Range(cases) \cup {c}
  <2>1. cases' \in Seq(T)
    <3>1. cases \in Seq(T) /\ c \in T
      BY <1>4
    <3> HIDE DEF T
    <3> QED
      BY <1>1, <3>1
  <2>2. \A j \in 1..n : cases'[j] \in Running!Range(cases')
    BY <1>5 DEF Running!Range
  <2> HIDE DEF T
  <2>3. cases' = [j \in 1..n |-> cases'[j]]
    BY <1>4, <1>5, <2>1
  <2> QED
    BY <1>4, <1>5, <2>2, <2>3
<1>7. AreCases'
  BY <1>1, <1>2, <1>3, <1>4, <1>5, <1>6 DEF SuiteInv, AreCases
<1>8. SuiteTyped'
  BY <1>1, <1>3, <1>5 DEF SuiteInv, SuiteTyped
<1>9. DOMAIN offered' = DOMAIN offered /\ DOMAIN offered = 1..n
  BY <1>1, <1>3 DEF SuiteInv, EvidenceIsOffered
<1> QED
  BY <1>1, <1>3, <1>4, <1>5, <1>7, <1>8, <1>9
  DEF SuiteInv, CasesAreExecuted, EvidenceIsOffered, VerifiedIsLinked, AbortIsDeserved,
      ReplayedAreGenuine, Running!OwnEvidenceVerifies, Running!SummaryAddsUp

LEMMA AlterStatusStep ==
  ASSUME SuiteInv, Running!AlterStatus PROVE SuiteInv'
<1>1. /\ phase = "done" /\ altered' = TRUE
      /\ UNCHANGED <<world, plan, phase, selections, retained, cases, counts, offered, replayed, summary>>
  BY DEF Running!AlterStatus, Running!budget
<1>2. AreCases'
  BY <1>1 DEF SuiteInv, AreCases
<1>3. SuiteTyped'
  BY <1>1 DEF SuiteInv, SuiteTyped
<1> QED
  BY <1>1, <1>2, <1>3
  DEF SuiteInv, SuiteTyped, CasesAreExecuted, EvidenceIsOffered, VerifiedIsLinked, AbortIsDeserved,
      ReplayedAreGenuine, Running!OwnEvidenceVerifies, Running!SummaryAddsUp

-----------------------------------------------------------------------------
(* What there is to read in the evidence of a seed.                        *)
LEMMA EvidenceTells ==
  ASSUME NEW s, world[s].how \in {Running!None} \cup Running!Failures
  PROVE  /\ Running!Evidence(s).manifest = Running!Manifest(s) /\ Running!Evidence(s).schedule = Running!Schedule(s, world[s])
         /\ Running!Evidence(s).result.manifest = Running!Manifest(s)
         /\ Running!Evidence(s).result.schedule = Running!Schedule(s, world[s])
         /\ Running!Evidence(s).result.failure = world[s].how
         /\ Running!Evidence(s).result.size = world[s].size /\ Running!Evidence(s).result.state = "observed"
         /\ Running!Schedule(s, world[s]).failure = world[s].how
         /\ Running!Schedule(s, world[s]).n = world[s].n /\ Running!Schedule(s, world[s]).seed = s
         /\ Running!Manifest(s).seed = s
<1>1. Running!Schedule(s, world[s]) = [seed |-> s, failure |-> world[s].how, n |-> world[s].n]
  BY DEF Running!Schedule
<1>2. PICK d : d = Running!Schedule(s, world[s])
  OBVIOUS
<1>3. d.failure = world[s].how /\ d.n = world[s].n /\ d.seed = s
  BY <1>1, <1>2
<1>4. PICK r : r = Running!Result(s, world[s])
  OBVIOUS
<1>5. r = [manifest |-> Running!Manifest(s), schedule |-> d, failure |-> d.failure, state |-> "observed",
           size |-> world[s].size]
  BY <1>2, <1>4 DEF Running!Result
<1>6. Running!Evidence(s) = [manifest |-> Running!Manifest(s), schedule |-> d, result |-> r]
  BY <1>2, <1>4 DEF Running!Evidence
<1>7. Running!Manifest(s).seed = s
  BY DEF Running!Manifest
<1> QED
  BY <1>2, <1>3, <1>5, <1>6, <1>7

LEMMA CompletedTells ==
  ASSUME NEW i, IsCompleted(i)
  PROVE  /\ cases[i].request = plan[i] /\ cases[i].observed = world[plan[i].seed].how
         /\ cases[i].status = Running!CompletedStatus(plan[i].expects, world[plan[i].seed].how)
         /\ cases[i].native = <<Running!Evidence(plan[i].seed)>> /\ cases[i].native # <<>>
         /\ cases[i].native[1] = Running!Evidence(plan[i].seed)
         /\ cases[i].error = Running!None /\ cases[i].status \in Running!Statuses \ {"ERROR"}
<1> DEFINE s == Running!CompletedStatus(plan[i].expects, world[plan[i].seed].how)
<1>1. cases[i] = [request |-> plan[i], status |-> s, observed |-> Running!Evidence(plan[i].seed).result.failure,
                  native |-> <<Running!Evidence(plan[i].seed)>>, error |-> Running!None]
  BY DEF IsCompleted, Running!Completed
<1>2. Running!Evidence(plan[i].seed).result.failure = world[plan[i].seed].how
  BY EvidenceTells DEF IsCompleted
<1>3. s \in Running!Statuses \ {"ERROR"}
  BY DEF Running!CompletedStatus, Running!Statuses
<1> HIDE DEF s
<1>4. /\ cases[i].request = plan[i] /\ cases[i].observed = Running!Evidence(plan[i].seed).result.failure
      /\ cases[i].status = s /\ cases[i].native = <<Running!Evidence(plan[i].seed)>> /\ cases[i].error = Running!None
  BY <1>1
<1> QED
  BY <1>2, <1>3, <1>4 DEF s

LEMMA ErrorTells ==
  ASSUME NEW i, IsError(i)
  PROVE  /\ cases[i].request = plan[i] /\ cases[i].observed = Running!None /\ cases[i].status = "ERROR"
         /\ cases[i].native = <<>> /\ cases[i].error # Running!None
  BY DEF IsError, Running!ErrorCase

(* Unaltered cases satisfy the verifier, one by one ...                    *)
LEMMA ExecutedIsReadable ==
  ASSUME NEW i, IsError(i) \/ IsCompleted(i)
  PROVE  Running!ReadableCase(cases[i]) /\ (cases[i].native # <<>> => Running!Linked(cases[i], cases[i].native[1]))
<1>1. CASE IsError(i)
  BY <1>1, ErrorTells DEF Running!ReadableCase
<1>2. CASE IsCompleted(i)
  <2>1. world[plan[i].seed].how \in {Running!None} \cup Running!Failures
    BY <1>2 DEF IsCompleted
  <2> QED
    BY <1>2, <2>1, CompletedTells, EvidenceTells DEF Running!ReadableCase, Running!Linked
<1> QED
  BY <1>1, <1>2

(* ... and in sum.                                                         *)
LEMMA OfferedIsWithinBounds ==
  ASSUME Running!ExecutionsAreSized, SuiteInv, phase = "done", ~altered
  PROVE  Running!WithinBounds
<1>1. /\ Len(cases) \in Nat /\ DOMAIN cases = 1..Len(cases) /\ DOMAIN offered = 1..Len(cases)
      /\ \A i \in 1..Len(cases) : offered[i] = cases[i].native
      /\ \A i \in 1..Len(cases) : IsError(i) \/ IsCompleted(i)
  BY CasesInPlan DEF SuiteInv, EvidenceIsOffered, CasesAreExecuted
<1>2. ASSUME NEW i \in 1..Len(cases)
      PROVE  /\ Running!OfferedSizes[i] = IF i \in Running!Completions THEN world[cases[i].request.seed].size ELSE 0
             /\ Running!OfferedSelections[i] = IF i \in Running!Completions THEN world[cases[i].request.seed].n ELSE 0
             /\ Running!OfferedSelections[i] <= MaxCaseSelections
  <2>0. MaxCaseSelections \in Nat
    BY DEF Running!ExecutionsAreSized
  <2>1. CASE IsError(i)
    <3>1. i \notin Running!Completions /\ offered[i] = <<>>
      BY <1>1, <2>1, ErrorTells DEF Running!Completions
    <3> QED
      BY <1>1, <2>0, <3>1 DEF Running!OfferedSizes, Running!OfferedSelections
  <2>2. CASE IsCompleted(i)
    <3>1. i \in Running!Completions /\ offered[i] # <<>> /\ offered[i][1] = Running!Evidence(plan[i].seed)
          /\ cases[i].request = plan[i]
      BY <1>1, <2>2, CompletedTells DEF Running!Completions
    <3>2. /\ Running!Evidence(plan[i].seed).result.size = world[plan[i].seed].size
          /\ Running!Evidence(plan[i].seed).schedule.n = world[plan[i].seed].n
          /\ world[plan[i].seed].n <= MaxCaseSelections
      BY <2>2, EvidenceTells DEF IsCompleted, FitsCase
    <3>3. Running!OfferedSizes[i] = world[plan[i].seed].size /\ Running!OfferedSelections[i] = world[plan[i].seed].n
      BY <1>1, <3>1, <3>2 DEF Running!OfferedSizes, Running!OfferedSelections
    <3> QED
      BY <3>1, <3>2, <3>3
  <2> QED
    BY <1>1, <2>1, <2>2
<1> DEFINE size(j) == IF j \in Running!Completions THEN world[cases[j].request.seed].size ELSE 0
           n(j) == IF j \in Running!Completions THEN world[cases[j].request.seed].n ELSE 0
<1>3. Running!OfferedSizes = [j \in 1..Len(cases) |-> size(j)]
      /\ Running!OfferedSelections = [j \in 1..Len(cases) |-> n(j)]
  <2>1. /\ Running!OfferedSizes = [j \in 1..Len(cases) |-> Running!OfferedSizes[j]]
        /\ Running!OfferedSelections = [j \in 1..Len(cases) |-> Running!OfferedSelections[j]]
    BY <1>1 DEF Running!OfferedSizes, Running!OfferedSelections
  <2>2. \A j \in 1..Len(cases) : Running!OfferedSizes[j] = size(j) /\ Running!OfferedSelections[j] = n(j)
    BY <1>2
  <2> HIDE DEF size, n
  <2> QED
    BY <2>1, <2>2
<1>4. Running!Sum(Running!OfferedSizes) = Running!KeptBefore(Len(cases) + 1) /\ Running!Sum(Running!OfferedSelections) = Running!SelectedBefore(Len(cases) + 1)
  <2>1. (Len(cases) + 1) - 1 = Len(cases)
    BY <1>1
  <2> QED
    BY <1>3, <2>1 DEF Running!KeptBefore, Running!SelectedBefore
<1>5. Running!Sum(Running!OfferedSizes) <= MaxRetained /\ Running!Sum(Running!OfferedSelections) <= MaxSelections
  BY <1>4 DEF SuiteInv, CasesAreExecuted, Running!ExecutionsAreSized
<1> QED
  BY <1>1, <1>2, <1>5 DEF Running!WithinBounds

LEMMA VerifyStep ==
  ASSUME Running!ExecutionsAreSized, SuiteInv, Running!Verify PROVE SuiteInv'
<1> DEFINE sound == Running!Readable /\ Running!WithinBounds /\ \A i \in DOMAIN cases :
                   /\ offered[i] = cases[i].native
                   /\ cases[i].native # <<>> => Running!Linked(cases[i], offered[i][1])
<1>1. /\ phase = "done" /\ phase' = IF sound THEN "verified" ELSE "rejected"
      /\ UNCHANGED <<world, plan, selections, retained, cases, counts, status, offered, altered,
                     replayed, summary>>
  BY DEF Running!Verify, Running!budget, Running!suite
<1>2. DOMAIN cases = 1..Len(cases)
  BY CasesInPlan DEF SuiteInv
<1>3. SuiteTyped' /\ AreCases'
  <2>1. SuiteTyped'
    BY <1>1 DEF SuiteInv, SuiteTyped
  <2>2. AreCases'
    BY <1>1 DEF SuiteInv, AreCases
  <2> QED
    BY <2>1, <2>2
<1>4. VerifiedIsLinked'
  <2> SUFFICES ASSUME sound, phase' = "verified" PROVE VerifiedIsLinked'
    BY <1>1 DEF VerifiedIsLinked
  <2>1. \A i \in 1..Len(cases) :
          /\ Running!ReadableCase(cases[i]) /\ offered[i] = cases[i].native
          /\ cases[i].native # <<>> => Running!Linked(cases[i], cases[i].native[1])
    BY <1>2 DEF Running!Readable
  <2> QED
    BY <1>1, <2>1 DEF VerifiedIsLinked
<1>5. EvidenceIsOffered'
  BY <1>1, CountsStay DEF SuiteInv, EvidenceIsOffered
<1>6. Running!OwnEvidenceVerifies'
  <2> SUFFICES ASSUME ~altered PROVE sound
    BY <1>1 DEF Running!OwnEvidenceVerifies
  <2>1. \A i \in 1..Len(cases) : offered[i] = cases[i].native /\ (IsError(i) \/ IsCompleted(i))
    BY <1>1 DEF SuiteInv, EvidenceIsOffered, CasesAreExecuted
  <2>2. Running!Readable
    BY <1>1, <1>2, <2>1, ExecutedIsReadable DEF Running!Readable, SuiteInv, EvidenceIsOffered
  <2>3. Running!WithinBounds
    BY <1>1, OfferedIsWithinBounds
  <2> QED
    BY <1>2, <2>1, <2>2, <2>3, ExecutedIsReadable
<1> QED
  BY <1>1, <1>3, <1>4, <1>5, <1>6, CasesStay
  DEF SuiteInv, SuiteTyped, AbortIsDeserved, ReplayedAreGenuine, Running!SummaryAddsUp

(* What a case of a verified suite has, was written for its seed.          *)
IsWritten(i, s, e) ==
  /\ e = [manifest |-> Running!Manifest(s), schedule |-> Running!Schedule(s, world[s]), result |-> e.result]
  /\ e.result = [manifest |-> Running!Manifest(s), schedule |-> Running!Schedule(s, world[s]),
                 failure |-> Running!Schedule(s, world[s]).failure, state |-> e.result.state,
                 size |-> world[s].size]
  /\ cases[i].observed = Running!Schedule(s, world[s]).failure
  /\ cases[i].native = <<e>> /\ offered[i] = <<e>>

LEMMA VerifiedIsWritten ==
  ASSUME SuiteInv, phase = "verified", NEW i \in 1..Len(cases), cases[i].native # <<>>,
         NEW s, s = plan[i].seed, NEW e, e = cases[i].native[1]
  PROVE  IsWritten(i, s, e)
<1>1. IsCase(world, cases[i]) /\ cases[i].request.seed = s
  BY CasesInPlan DEF SuiteInv
<1>2. /\ cases[i].native = <<e>>
      /\ e = [manifest |-> e.manifest, schedule |-> e.schedule, result |-> e.result]
      /\ WrittenResult(world, e.result)
  BY <1>1 DEF IsCase, IsEvidence
<1>3. /\ e.manifest = e.result.manifest /\ e.manifest.seed = s /\ e.result.schedule = e.schedule
      /\ e.result.failure = cases[i].observed /\ offered[i] = <<e>>
  BY <1>1, <1>2 DEF SuiteInv, VerifiedIsLinked, Running!Linked
<1>4. PICK z : e.result = [manifest |-> Running!Manifest(z), schedule |-> Running!Schedule(z, world[z]),
                           failure |-> Running!Schedule(z, world[z]).failure, state |-> e.result.state,
                           size |-> world[z].size]
  BY <1>2 DEF WrittenResult
<1>5. e.result.manifest = Running!Manifest(z) /\ e.result.schedule = Running!Schedule(z, world[z])
      /\ e.result.failure = Running!Schedule(z, world[z]).failure
  BY <1>4
<1>6. z = s
  BY <1>3, <1>5 DEF Running!Manifest
<1> QED
  BY <1>2, <1>3, <1>4, <1>5, <1>6 DEF IsWritten

LEMMA ReplayStep ==
  ASSUME Running!ExecutionsAreSized, SuiteInv, NEW i \in DOMAIN cases, Running!Replay(i) PROVE SuiteInv'
<1>1. /\ phase = "verified" /\ offered[i] # <<>> /\ replayed' = replayed \cup {i}
      /\ offered[i][1].result = Running!Evidence(offered[i][1].schedule.seed).result
      /\ UNCHANGED <<world, plan, phase, selections, retained, cases, counts, status, offered,
                     altered, summary>>
  BY DEF Running!Replay, Running!budget, Running!suite
<1>2. DOMAIN cases = 1..Len(cases)
  BY CasesInPlan DEF SuiteInv
<1>3. offered[i] = <<Running!Evidence(plan[i].seed)>>
  <2>1. offered[i] = cases[i].native
    BY <1>1, <1>2 DEF SuiteInv, VerifiedIsLinked
  <2>2. PICK s, e : s = plan[i].seed /\ e = cases[i].native[1]
    OBVIOUS
  <2>3. /\ e = [manifest |-> Running!Manifest(s), schedule |-> Running!Schedule(s, world[s]), result |-> e.result]
        /\ offered[i] = <<e>>
    <3>1. i \in 1..Len(cases) /\ cases[i].native # <<>> /\ phase = "verified"
      BY <1>1, <1>2, <2>1
    <3>2. IsWritten(i, s, e)
      BY <2>2, <3>1, VerifiedIsWritten
    <3> QED
      BY <3>2 DEF IsWritten
  <2>4. e.schedule.seed = s
    <3>1. e.schedule = Running!Schedule(s, world[s])
      BY <2>3
    <3> QED
      BY <3>1 DEF Running!Schedule
  <2>5. e.result = Running!Evidence(s).result
    BY <1>1, <2>3, <2>4
  <2>6. PICK r : r = Running!Result(s, world[s])
    OBVIOUS
  <2>7. Running!Evidence(s) = [manifest |-> Running!Manifest(s), schedule |-> Running!Schedule(s, world[s]), result |-> r]
    BY <2>6 DEF Running!Evidence
  <2>8. e.result = r
    BY <2>5, <2>7
  <2> QED
    BY <2>2, <2>3, <2>7, <2>8
<1>4. SuiteTyped' /\ AreCases'
  <2>1. SuiteTyped'
    BY <1>1, <1>2 DEF SuiteInv, SuiteTyped
  <2>2. AreCases'
    BY <1>1 DEF SuiteInv, AreCases
  <2> QED
    BY <2>1, <2>2
<1>5. ReplayedAreGenuine'
  BY <1>1, <1>3 DEF SuiteInv, ReplayedAreGenuine, Running!Evidence
<1>6. EvidenceIsOffered'
  BY <1>1, CountsStay DEF SuiteInv, EvidenceIsOffered
<1> QED
  BY <1>1, <1>4, <1>5, <1>6, CasesStay
  DEF SuiteInv, VerifiedIsLinked, AbortIsDeserved, Running!OwnEvidenceVerifies, Running!SummaryAddsUp

-----------------------------------------------------------------------------
(* As many values as arguments, if no two arguments have the same value.   *)
LEMMA SubsetCounts ==
  ASSUME NEW S, IsFiniteSet(S), NEW T \in SUBSET S
  PROVE  IsFiniteSet(T) /\ Cardinality(T) \in Nat
BY FS_Subset, FS_CardinalityType

LEMMA DisjointCounts ==
  ASSUME NEW S, IsFiniteSet(S), NEW T, IsFiniteSet(T), S \cap T = {}
  PROVE  Cardinality(S \cup T) = Cardinality(S) + Cardinality(T)
<1>1. Cardinality(S \cup T) = Cardinality(S) + Cardinality(T) - Cardinality({})
  BY FS_Union
<1>2. Cardinality({}) = 0 /\ Cardinality(S) \in Int /\ Cardinality(T) \in Int
  BY FS_EmptySet, FS_CardinalityType
<1> QED
  BY <1>1, <1>2

LEMMA InjectiveImage ==
  ASSUME NEW S, IsFiniteSet(S), NEW f, \A x, y \in S : f[x] = f[y] => x = y
  PROVE  Cardinality({f[x] : x \in S}) = Cardinality(S)
<1> DEFINE T == {f[x] : x \in S}
           g == [x \in S |-> f[x]]
<1>1. g \in Bijection(S, T)
  BY DEF Bijection, Injection, Surjection, IsInjective
<1> QED
  BY <1>1, FS_Bijection DEF ExistsBijection

LEMMA SummariseStep ==
  ASSUME Running!ExecutionsAreSized, SuiteInv, Running!Summarise PROVE SuiteInv'
<1>1. /\ phase = "done" /\ ~altered /\ Running!SweepShaped
      /\ UNCHANGED <<world, plan, phase, selections, retained, cases, counts, status, offered,
                     altered, replayed>>
  BY DEF Running!Summarise, Running!budget, Running!suite
<1>2. PICK n : n = Len(cases)
  OBVIOUS
<1>3. /\ n \in Nat /\ DOMAIN cases = 1..n /\ DOMAIN plan = 1..n /\ Len(plan) = n
      /\ \A i \in 1..n : cases[i].request = plan[i] /\ (IsError(i) \/ IsCompleted(i))
      /\ counts = [s \in Running!Statuses |-> Running!Count(s)]
  BY <1>1, <1>2, CasesInPlan DEF SuiteInv, SuiteTyped, CasesAreExecuted, EvidenceIsOffered
<1> DEFINE seed == [i \in 1..n |-> plan[i].seed]
           failing == {i \in 1..n : Running!Failing(i)}
           whole == {i \in 1..n : cases[i].native # <<>>}
<1>4. \A i, j \in 1..n : seed[i] = seed[j] => i = j
  <2>1. [i \in DOMAIN cases |-> cases[i].request.seed] = seed
    BY <1>3
  <2>2. Running!IsInjective(seed)
    BY <1>1, <2>1 DEF Running!SweepShaped
  <2> QED
    BY <2>2 DEF Running!IsInjective
<1>5. /\ summary'[2] = {seed[i] : i \in failing}
      /\ summary'[3] = {cases[i].native[1].schedule : i \in whole}
  <2>1. summary' = <<[i \in DOMAIN cases |-> cases[i].request.seed],
                     {cases[i].request.seed : i \in {j \in DOMAIN cases : Running!Failing(j)}},
                     {cases[i].native[1].schedule : i \in {j \in DOMAIN cases : cases[j].native # <<>>}}>>
    BY DEF Running!Summarise
  <2>2. {cases[i].request.seed : i \in {j \in DOMAIN cases : Running!Failing(j)}} = {seed[i] : i \in failing}
    BY <1>3
  <2>3. whole = {j \in DOMAIN cases : cases[j].native # <<>>}
    BY <1>3
  <2> QED
    BY <2>1, <2>2, <2>3
<1>6. ASSUME NEW i \in 1..n
      PROVE  /\ Running!Failing(i) <=> \/ world[plan[i].seed].how # Running!None \/ plan[i].expects # Running!None
                                       \/ cases[i].error # Running!None
             /\ cases[i].native # <<>> <=> cases[i].status # "ERROR"
             /\ cases[i].native # <<>> => cases[i].native[1].schedule = Running!Schedule(seed[i], world[seed[i]])
  <2>1. CASE IsError(i)
    BY <2>1, ErrorTells DEF Running!Failing
  <2>2. CASE IsCompleted(i)
    <3>1. Running!CompletedStatus(plan[i].expects, world[plan[i].seed].how) = "SUCCESS"
            <=> world[plan[i].seed].how = Running!None /\ plan[i].expects = Running!None
      BY DEF Running!CompletedStatus
    <3>2. Running!Evidence(plan[i].seed).schedule = Running!Schedule(seed[i], world[seed[i]])
      BY <2>2, EvidenceTells DEF IsCompleted
    <3> QED
      BY <2>2, <3>1, <3>2, CompletedTells DEF Running!Failing
  <2> QED
    BY <1>3, <2>1, <2>2
<1>7. /\ IsFiniteSet(1..n) /\ Cardinality(1..n) = n
      /\ IsFiniteSet(failing) /\ IsFiniteSet(whole)
      /\ Cardinality(failing) \in Nat /\ Cardinality(whole) \in Nat
  <2>1. IsFiniteSet(1..n) /\ Cardinality(1..n) = n
    BY <1>3, FS_Interval
  <2>2. failing \in SUBSET (1..n) /\ whole \in SUBSET (1..n)
    OBVIOUS
  <2> HIDE DEF failing, whole
  <2> QED
    BY <2>1, <2>2, FS_Subset, FS_CardinalityType
<1>8. Cardinality({seed[i] : i \in failing}) = Cardinality(failing)
  <2>1. \A i, j \in failing : seed[i] = seed[j] => i = j
    BY <1>4
  <2> HIDE DEF seed, failing
  <2> QED
    BY <1>7, <2>1, InjectiveImage
<1>9. Cardinality({cases[i].native[1].schedule : i \in whole}) = Cardinality(whole)
  <2> DEFINE schedule == [i \in 1..n |-> Running!Schedule(seed[i], world[seed[i]])]
  <2>1. \A i, j \in whole : schedule[i] = schedule[j] => i = j
    <3>1. \A i \in 1..n : schedule[i].seed = seed[i]
      BY DEF Running!Schedule
    <3> QED
      BY <1>4, <3>1
  <2>2. {cases[i].native[1].schedule : i \in whole} = {schedule[i] : i \in whole}
    BY <1>6
  <2> HIDE DEF schedule, whole, seed
  <2>3. Cardinality({schedule[i] : i \in whole}) = Cardinality(whole)
    BY <1>7, <2>1, InjectiveImage
  <2> QED
    BY <2>2, <2>3
<1> DEFINE good == {i \in 1..n : cases[i].status = "SUCCESS"}
           bad == {i \in 1..n : cases[i].status = "ERROR"}
<1>10. counts["SUCCESS"] = Cardinality(good) /\ counts["ERROR"] = Cardinality(bad)
  BY <1>3, CountsAreOfCases DEF CountsOfCases, Running!Statuses
<1>11. Cardinality(failing) + Cardinality(good) = n /\ Cardinality(whole) + Cardinality(bad) = n
  <2>1. /\ failing \cup good = 1..n /\ failing \cap good = {}
        /\ whole \cup bad = 1..n /\ whole \cap bad = {}
    BY <1>6 DEF Running!Failing
  <2>2. IsFiniteSet(good) /\ IsFiniteSet(bad) /\ Cardinality(good) \in Nat /\ Cardinality(bad) \in Nat
    <3>1. good \in SUBSET (1..n) /\ bad \in SUBSET (1..n)
      OBVIOUS
    <3> HIDE DEF good, bad
    <3> QED
      BY <1>7, <3>1, SubsetCounts
  <2> HIDE DEF failing, whole, good, bad
  <2>3. Cardinality(failing \cup good) = Cardinality(failing) + Cardinality(good)
    BY <1>7, <2>1, <2>2, DisjointCounts
  <2>4. Cardinality(whole \cup bad) = Cardinality(whole) + Cardinality(bad)
    BY <1>7, <2>1, <2>2, DisjointCounts
  <2>5. Cardinality(failing \cup good) = n /\ Cardinality(whole \cup bad) = n
    BY <1>7, <2>1
  <2> QED
    BY <2>3, <2>4, <2>5
<1>12. Running!SummaryAddsUp'
  <2>1. {plan[i].seed : i \in {j \in DOMAIN plan : world[plan[j].seed].how # Running!None
                                     \/ plan[j].expects # Running!None \/ cases[j].error # Running!None}}
          = {seed[i] : i \in failing}
    BY <1>3, <1>6
  <2>2. /\ Cardinality(summary'[2]) = Len(plan) - counts["SUCCESS"]
        /\ Cardinality(summary'[3]) + counts["ERROR"] = Len(plan)
    <3>1. Cardinality(good) \in Int
      <4>1. good \in SUBSET (1..n)
        OBVIOUS
      <4> HIDE DEF good
      <4>2. Cardinality(good) \in Nat
        BY <1>7, <4>1, SubsetCounts
      <4> QED
        BY <4>2
    <3> HIDE DEF good, bad, failing, whole, seed
    <3>2. Cardinality(summary'[2]) = Cardinality(failing) /\ Cardinality(summary'[3]) = Cardinality(whole)
      BY <1>5, <1>8, <1>9
    <3>3. Len(plan) = n /\ n \in Int /\ Cardinality(failing) \in Int /\ Cardinality(whole) \in Int
      BY <1>3, <1>7
    <3> QED
      BY <1>10, <1>11, <3>1, <3>2, <3>3
  <2> HIDE DEF failing, whole, seed
  <2> QED
    BY <1>1, <1>5, <2>1, <2>2, SuiteCounts DEF Running!SummaryAddsUp
<1>13. SuiteTyped' /\ AreCases'
  <2>1. SuiteTyped'
    BY <1>1 DEF SuiteInv, SuiteTyped
  <2>2. AreCases'
    BY <1>1 DEF SuiteInv, AreCases
  <2> QED
    BY <2>1, <2>2
<1>14. EvidenceIsOffered'
  BY <1>1, CountsStay DEF SuiteInv, EvidenceIsOffered
<1> HIDE DEF seed, failing, whole, good, bad
<1> QED
  BY <1>1, <1>12, <1>13, <1>14, CasesStay
  DEF SuiteInv, VerifiedIsLinked, AbortIsDeserved, ReplayedAreGenuine, Running!OwnEvidenceVerifies, Running!Evidence

LEMMA SuiteNext ==
  ASSUME Running!ExecutionsAreSized, SuiteInv, [Running!Next]_(Running!vars) PROVE SuiteInv'
<1>1. ASSUME NEW requests \in Plans, Running!NewPlan(requests) PROVE SuiteInv'
  <2>1. requests \in Seq(Running!Range(requests)) /\ \A i \in 1..Len(requests) : requests[i].seed \in Seeds
    <3>1. requests \in Seq(Running!Range(requests)) /\ \A r \in Running!Range(requests) : r.seed \in Seeds
      BY DEF Running!ExecutionsAreSized
    <3>2. \A i \in 1..Len(requests) : requests[i] \in Running!Range(requests)
      BY <3>1
    <3> QED
      BY <3>1, <3>2
  <2> QED
    BY <1>1, <2>1, PlanStep
<1>2. ASSUME NEW seeds \in Sweeps, NEW expects, Running!NewSweep(seeds, expects) PROVE SuiteInv'
  <2> DEFINE requests == Running!SweepPlan(seeds, expects)
             id(i) == ToString(i)
  <2>1. seeds \in Seq(Seeds) /\ Len(seeds) \in Nat /\ DOMAIN seeds = 1..Len(seeds)
    BY DEF Running!ExecutionsAreSized
  <2>2. requests = [i \in 1..Len(seeds) |->
                      [id |-> id(i), seed |-> seeds[i], expects |-> expects, input |-> 1]]
    BY <2>1 DEF Running!SweepPlan, Running!Request
  <2> HIDE DEF requests, id
  <2>3. requests \in Seq(Running!Range(requests)) /\ \A i \in 1..Len(requests) : requests[i].seed \in Seeds
    <3>1. \A i \in 1..Len(seeds) : requests[i] \in Running!Range(requests) /\ requests[i].seed = seeds[i]
      BY <2>2 DEF Running!Range
    <3>2. requests \in [1..Len(seeds) -> Running!Range(requests)]
      BY <2>2, <3>1
    <3>3. requests \in Seq(Running!Range(requests)) /\ Len(requests) = Len(seeds)
      BY <2>1, <3>2
    <3> QED
      BY <2>1, <3>1, <3>3
  <2> QED
    BY <1>2, <2>3, PlanStep DEF Running!NewSweep, requests
<1>3. CASE Running!Execute
  BY <1>3, ExecuteStep, AbortStep, FinishStep DEF Running!Execute
<1>4. CASE UNCHANGED Running!vars
  <2>1. /\ UNCHANGED <<world, plan, phase, selections, retained, cases, counts, status, offered,
                       altered, replayed, summary>>
    BY <1>4 DEF Running!vars, Running!budget, Running!suite
  <2>2. SuiteTyped' /\ AreCases'
    <3>1. SuiteTyped'
      BY <2>1 DEF SuiteInv, SuiteTyped
    <3>2. AreCases'
      BY <2>1 DEF SuiteInv, AreCases
    <3> QED
      BY <3>1, <3>2
  <2>3. EvidenceIsOffered'
    BY <2>1, CountsStay DEF SuiteInv, EvidenceIsOffered
  <2>4. ReplayedAreGenuine' /\ AbortIsDeserved'
    BY <2>1 DEF SuiteInv, ReplayedAreGenuine, AbortIsDeserved, Running!Evidence, Running!Next_
  <2> QED
    BY <2>1, <2>2, <2>3, <2>4, CasesStay DEF SuiteInv, VerifiedIsLinked, Running!OwnEvidenceVerifies, Running!SummaryAddsUp
<1> QED
  BY <1>1, <1>2, <1>3, <1>4, SummariseStep, AlterStep, AlterStatusStep, VerifyStep, ReplayStep DEF Running!Next

LEMMA SuiteSound ==
  ASSUME SuiteInv PROVE Running!SuiteIsGenuine
<1>1. /\ DOMAIN cases = 1..Len(cases) /\ Len(cases) \in Nat /\ Len(cases) <= Len(plan)
      /\ \A i \in 1..Len(cases) : cases[i].request = plan[i] /\ IsCase(world, cases[i])
  BY CasesInPlan DEF SuiteInv
<1>2. Running!TypeOK
  <2>1. \A i \in DOMAIN cases :
          cases[i].request = plan[i] /\ cases[i].status \in Running!Statuses /\ Len(cases[i].native) <= 1
    <3>1. ASSUME NEW i \in 1..Len(cases), cases[i].native # <<>> PROVE Len(cases[i].native) <= 1
      <4>1. cases[i].native = <<cases[i].native[1]>>
        BY <1>1, <3>1 DEF IsCase
      <4>2. \A x : Len(<<x>>) = 1
        OBVIOUS
      <4>3. Len(cases[i].native) = 1
        BY <4>1, <4>2, Zenon
      <4> QED
        BY <4>3
    <3>2. Len(<< >>) <= 1
      OBVIOUS
    <3> QED
      BY <1>1, <3>1, <3>2 DEF IsCase
  <2> QED
    BY <1>1, <2>1 DEF SuiteInv, SuiteTyped, Running!TypeOK
<1>3. Running!BudgetsAreShared
  <2> SUFFICES ASSUME ~altered, NEW i \in 1..Len(cases)
               PROVE  LET outcome == world[cases[i].request.seed]
                          selected == Running!SelectedBefore(i) + outcome.n
                          kept == Running!KeptBefore(i) + outcome.size
                          fits == outcome.n <= MaxCaseSelections /\ selected <= MaxSelections
                      IN /\ cases[i].error = "SELECTION_BOUND_EXCEEDED" => ~fits
                         /\ cases[i].error = "CHILD_EVIDENCE_BOUND_EXCEEDED" => fits /\ kept > MaxRetained
                         /\ i \in Running!Completions => fits /\ kept <= MaxRetained
    BY <1>1 DEF Running!BudgetsAreShared
  <2>1. IsError(i) \/ IsCompleted(i)
    BY DEF SuiteInv, CasesAreExecuted
  <2>2. CASE IsError(i)
    BY <1>1, <2>2, ErrorTells DEF IsError, FitsCase, Running!Completions
  <2>3. CASE IsCompleted(i)
    <3>1. cases[i].error = Running!None /\ Running!None # "SELECTION_BOUND_EXCEEDED"
          /\ Running!None # "CHILD_EVIDENCE_BOUND_EXCEEDED"
      BY <2>3, CompletedTells DEF Running!None
    <3> QED
      BY <1>1, <2>3, <3>1 DEF IsCompleted, FitsCase
  <2> QED
    BY <2>1, <2>2, <2>3
<1>4. Running!StatusIsDeserved
  <2> SUFFICES ASSUME ~altered, NEW i \in Running!Completions, NEW how, how = world[plan[i].seed].how
               PROVE  /\ cases[i].status = "SUCCESS" <=> how = Running!None /\ plan[i].expects = Running!None
                      /\ cases[i].status = "EXPECTED_FAILURE" <=> how = Running!Invariant /\ plan[i].expects = how
                      /\ cases[i].observed = how
    BY DEF Running!StatusIsDeserved, SuiteInv, AbortIsDeserved
  <2>1. i \in 1..Len(cases) /\ cases[i].status # "ERROR"
    BY <1>1 DEF Running!Completions
  <2>2. IsCompleted(i)
    BY <2>1, ErrorTells DEF SuiteInv, CasesAreExecuted
  <2>3. Running!CompletedStatus(plan[i].expects, how) = cases[i].status /\ cases[i].observed = how
    BY <2>2, CompletedTells
  <2> QED
    BY <2>3 DEF Running!CompletedStatus, Running!None, Running!Invariant
<1>5. Running!VerifiedIsGenuine
  <2> SUFFICES ASSUME phase = "verified", NEW i \in Running!Completions, NEW s, s = plan[i].seed
               PROVE  /\ cases[i].status = Running!CompletedStatus(plan[i].expects, Running!Evidence(s).result.failure)
                      /\ cases[i].observed = Running!Evidence(s).result.failure
                      /\ [cases[i].native[1] EXCEPT !.result.state = "observed"] = Running!Evidence(s)
    BY DEF Running!VerifiedIsGenuine
  <2>1. i \in 1..Len(cases) /\ cases[i].status # "ERROR"
    BY <1>1 DEF Running!Completions
  <2>2. /\ cases[i].native # <<>> /\ cases[i].request = plan[i]
        /\ cases[i].status = Running!CompletedStatus(plan[i].expects, cases[i].observed)
    BY <1>1, <2>1 DEF SuiteInv, VerifiedIsLinked, Running!ReadableCase
  <2>3. PICK e : e = cases[i].native[1]
    OBVIOUS
  <2>4. PICK c : c = Running!Schedule(s, world[s])
    OBVIOUS
  <2>5. /\ e = [manifest |-> Running!Manifest(s), schedule |-> c, result |-> e.result]
        /\ e.result = [manifest |-> Running!Manifest(s), schedule |-> c, failure |-> c.failure,
                       state |-> e.result.state, size |-> world[s].size]
        /\ cases[i].observed = c.failure
    BY <2>1, <2>2, <2>3, <2>4, VerifiedIsWritten DEF IsWritten
  <2>6. PICK r : r = Running!Result(s, world[s])
    OBVIOUS
  <2>7. r = [manifest |-> Running!Manifest(s), schedule |-> c, failure |-> c.failure, state |-> "observed",
             size |-> world[s].size]
    BY <2>4, <2>6 DEF Running!Result
  <2>8. Running!Evidence(s) = [manifest |-> Running!Manifest(s), schedule |-> c, result |-> r]
    BY <2>4, <2>6 DEF Running!Evidence
  <2>9. PICK a, t : e = [manifest |-> Running!Manifest(s), schedule |-> c, result |-> a]
               /\ a = [manifest |-> Running!Manifest(s), schedule |-> c, failure |-> c.failure,
                       state |-> t, size |-> world[s].size]
    BY <2>5
  <2>10. [a EXCEPT !.state = "observed"] = r
    BY <2>7, <2>9
  <2>11. [e EXCEPT !.result.state = "observed"]
           = [manifest |-> Running!Manifest(s), schedule |-> c, result |-> [a EXCEPT !.state = "observed"]]
    BY <2>9
  <2>12. Running!Evidence(s).result.failure = c.failure
    BY <2>7, <2>8
  <2> QED
    BY <2>2, <2>3, <2>5, <2>8, <2>10, <2>11, <2>12
<1> QED
  BY <1>2, <1>3, <1>4, <1>5 DEF Running!SuiteIsGenuine, SuiteInv, ReplayedAreGenuine,
    Running!ReplayedIsGenuine

-----------------------------------------------------------------------------
(* Sums over finite sets: the function by which they are defined.          *)
Some(s) == CHOOSE x \in s : TRUE
Sums(f, S) ==
  CHOOSE sum : sum = [s \in SUBSET S |-> IF s = {} THEN 0 ELSE f[Some(s)] + sum[s \ {Some(s)}]]

LEMMA SomeIsIn == ASSUME NEW s, s # {} PROVE Some(s) \in s
BY DEF Some

LEMMA FewerWithout ==
  ASSUME NEW s, IsFiniteSet(s), s # {}
  PROVE  /\ Cardinality(s) \in Nat /\ Cardinality(s \ {Some(s)}) = Cardinality(s) - 1
         /\ s \ {Some(s)} \in SUBSET s
BY SomeIsIn, FS_RemoveElement, FS_CardinalityType

LEMMA SumsExist ==
  ASSUME NEW S, IsFiniteSet(S), NEW f
  PROVE  Sums(f, S) = [s \in SUBSET S |-> IF s = {} THEN 0
                                          ELSE f[Some(s)] + Sums(f, S)[s \ {Some(s)}]]
<1> DEFINE Below(n) == {s \in SUBSET S : Cardinality(s) <= n}
           IsSum(h, n) == h = [s \in Below(n) |-> IF s = {} THEN 0 ELSE f[Some(s)] + h[s \ {Some(s)}]]
           G == {n \in Nat : \E h : IsSum(h, n)}
<1>0. \A s \in SUBSET S : IsFiniteSet(s) /\ Cardinality(s) \in Nat /\ Cardinality(s) <= Cardinality(S)
  BY FS_Subset, FS_CardinalityType
<1>1. 0 \in G
  <2>1. \A s \in Below(0) : s = {}
    BY <1>0, FS_EmptySet
  <2> DEFINE h == [s \in Below(0) |-> 0]
  <2>2. h = [s \in Below(0) |-> IF s = {} THEN 0 ELSE f[Some(s)] + h[s \ {Some(s)}]]
    BY <2>1
  <2> QED
    BY <2>2
<1>2. ASSUME NEW n \in Nat, n \in G PROVE n + 1 \in G
  <2>1. PICK h : IsSum(h, n)
    BY <1>2
  <2> DEFINE k == [s \in Below(n + 1) |-> IF s = {} THEN 0 ELSE f[Some(s)] + h[s \ {Some(s)}]]
  <2>2. ASSUME NEW s \in Below(n + 1), s # {} PROVE k[s \ {Some(s)}] = h[s \ {Some(s)}]
    <3> DEFINE t == s \ {Some(s)}
    <3>1. t \in SUBSET S /\ Cardinality(t) \in Nat /\ Cardinality(t) = Cardinality(s) - 1
          /\ Cardinality(s) \in Nat
      BY <1>0, <2>2, FewerWithout
    <3> HIDE DEF t
    <3>2. t \in Below(n) /\ t \in Below(n + 1)
      BY <3>1
    <3> HIDE DEF Below
    <3>3. h[t] = IF t = {} THEN 0 ELSE f[Some(t)] + h[t \ {Some(t)}]
      BY <2>1, <3>2
    <3>4. k[t] = IF t = {} THEN 0 ELSE f[Some(t)] + h[t \ {Some(t)}]
      BY <3>2
    <3> QED
      BY <3>3, <3>4 DEF t
  <2>3. IsSum(k, n + 1)
    <3> HIDE DEF Below
    <3> QED
      BY <2>2
  <2> HIDE DEF k, IsSum
  <2> QED
    BY <2>3
<1>3. Cardinality(S) \in G
  <2>1. Cardinality(S) \in Nat
    BY FS_CardinalityType
  <2> HIDE DEF G
  <2> QED
    BY <1>1, <1>2, <2>1, SetInduction
<1>4. Below(Cardinality(S)) = SUBSET S
  BY <1>0
<1>5. PICK h : h = [s \in SUBSET S |-> IF s = {} THEN 0 ELSE f[Some(s)] + h[s \ {Some(s)}]]
  BY <1>3, <1>4
<1> QED
  BY <1>5 DEF Sums

(* One more in one place is one more in the sum.                           *)
LEMMA SumsChange ==
  ASSUME NEW S, IsFiniteSet(S), NEW f \in [S -> Nat], NEW z \in S, NEW k \in Nat,
         NEW g \in [S -> Nat], \A x \in S : g[x] = IF x = z THEN f[x] + k ELSE f[x]
  PROVE  Sums(f, S)[S] \in Nat /\ Sums(g, S)[S] = Sums(f, S)[S] + k
<1> DEFINE More(s) == IF z \in s THEN k ELSE 0
           F == Sums(f, S)
           H == Sums(g, S)
           Agrees(s) == F[s] \in Nat /\ H[s] = F[s] + More(s)
           G == {n \in Nat : \A s \in SUBSET S : Cardinality(s) = n => Agrees(s)}
<1>0. \A s \in SUBSET S : IsFiniteSet(s) /\ Cardinality(s) \in Nat
  BY FS_Subset, FS_CardinalityType
<1>1. /\ F = [s \in SUBSET S |-> IF s = {} THEN 0 ELSE f[Some(s)] + F[s \ {Some(s)}]]
      /\ H = [s \in SUBSET S |-> IF s = {} THEN 0 ELSE g[Some(s)] + H[s \ {Some(s)}]]
  BY SumsExist
<1> HIDE DEF F, H
<1>2. 0 \in G
  <2>1. \A s \in SUBSET S : Cardinality(s) = 0 => s = {}
    BY <1>0, FS_EmptySet
  <2>2. F[{}] = 0 /\ H[{}] = 0
    BY <1>1
  <2> QED
    BY <2>1, <2>2
<1>3. ASSUME NEW n \in Nat, n \in G PROVE n + 1 \in G
  <2> SUFFICES ASSUME NEW s \in SUBSET S, Cardinality(s) = n + 1 PROVE Agrees(s)
    OBVIOUS
  <2>1. s # {}
    BY FS_EmptySet
  <2> DEFINE x == Some(s)
             t == s \ {x}
  <2>2. x \in s /\ t \in SUBSET S /\ Cardinality(t) = n
    BY <1>0, <2>1, SomeIsIn, FewerWithout
  <2>3. Agrees(t)
    BY <1>3, <2>2
  <2>4. F[s] = f[x] + F[t] /\ H[s] = g[x] + H[t]
    BY <1>1, <2>1
  <2>5. f[x] \in Nat /\ g[x] = IF x = z THEN f[x] + k ELSE f[x]
    BY <2>2
  <2>6. CASE x = z
    BY <2>2, <2>3, <2>4, <2>5, <2>6
  <2>7. CASE x # z
    BY <2>2, <2>3, <2>4, <2>5, <2>7
  <2> QED
    BY <2>6, <2>7
<1>4. Cardinality(S) \in G
  <2> HIDE DEF G
  <2> QED
    BY <1>0, <1>2, <1>3, SetInduction
<1>5. Agrees(S)
  BY <1>4
<1> QED
  BY <1>5 DEF F, H

Added == Sums(accepted, DOMAIN accepted)[DOMAIN accepted]

LEMMA TotalIsSum == Loading!Total = Added
BY DEF Loading!Total, Added, Loading!MapThenSumSet, Loading!MapThenFoldSet, Sums, Some

LEMMA TotalWillBeSum == Loading!Total' = Added'
BY DEF Loading!Total, Added, Loading!MapThenSumSet, Loading!MapThenFoldSet, Sums, Some

LEMMA TotalStays == ASSUME accepted' = accepted PROVE Loading!Total' = Loading!Total
<1>1. Added' = Added
  BY DEF Added
<1> QED
  BY <1>1, TotalIsSum, TotalWillBeSum

-----------------------------------------------------------------------------
(* What a layout and what was loaded of it are.                            *)
CompositionTyped ==
  /\ layout \in Layouts /\ Loading!TypeOK
  /\ sizes \in [DOMAIN layout.files \cup {"root"} -> Nat]
  /\ accepted \in [DOMAIN layout.files \cup {"root"} -> Nat]

ReadInTurn ==
  /\ phase = "root" => loaded = <<>> /\ reading = "none" /\ \A s \in DOMAIN accepted : accepted[s] = 0
  /\ phase \in {"root", "modules"} => composed = {}
  /\ phase \in {"compile", "composed"} => reading = "none"
  /\ reading # "none" => layout.modules[reading] \in DOMAIN layout.files

LoadedAsDeclared ==
  \A a \in DOMAIN loaded :
    /\ layout.modules[a] \in DOMAIN layout.files
    /\ loaded[a] = Loading!File(layout.modules[a]).declares

AcceptedOnce ==
  \A s \in DOMAIN layout.files : accepted[s] # 0 => Loading!File(s).identity \in DOMAIN loaded

(* What is composed, as a function of what was loaded.                     *)
Within(aliases, a, name) == IF name[1] \in aliases THEN name ELSE <<a>> \o name
ResourceWithin(aliases, a, to) ==
  CASE to[1] \notin aliases -> <<Loading!Physical, a>> \o to
    [] to[1] \in aliases /\ Len(to) > 1 -> <<Loading!Physical>> \o to
    [] OTHER -> to
Moved(aliases, a, ref) ==
  CASE ref.kind = "$ref" -> ResourceWithin(aliases, a, ref.to)
    [] ref.kind = "subflow_path" -> ref.to
    [] OTHER -> Within(aliases, a, ref.to)
PlaceOf(aliases, o, d) ==
  CASE o = "root" -> d.name
    [] o # "root" /\ d.section = "resources" -> <<Loading!Physical, o>> \o d.name
    [] o # "root" /\ d.section = "subflows" -> <<o>> \o d.name
    [] OTHER -> Within(aliases, o, d.name)
RefsOf(aliases, o, d) ==
  IF o = "root" THEN d.refs ELSE {[ref EXCEPT !.to = Moved(aliases, o, ref)] : ref \in d.refs}
EntryOf(aliases, o, d) == Loading!Entry(o, d, PlaceOf(aliases, o, d), RefsOf(aliases, o, d))
Owned(root, modules, o) == IF o = "root" THEN root ELSE modules[o]
MergedOf(root, modules) ==
  UNION {{EntryOf(DOMAIN modules, o, d) : d \in Owned(root, modules, o)} :
           o \in DOMAIN modules \cup {"root"}}

ComposedIsMerged ==
  phase \in {"compile", "composed"} =>
    DOMAIN loaded = Loading!Aliases /\ composed = Loading!Merged /\ ~Loading!RootCollides /\ ~Loading!Collide

FirstIsMerged == first = <<>> \/ \E r, m : first = <<<<r, m>>, MergedOf(r, m)>>

CompositionInv ==
  /\ CompositionTyped /\ ReadInTurn /\ LoadedAsDeclared /\ AcceptedOnce /\ Loading!AcceptedWithinBounds
  /\ ComposedIsMerged /\ FirstIsMerged

LEMMA MergedIsFunction ==
  ASSUME "root" \notin Loading!Aliases, DOMAIN loaded = Loading!Aliases
  PROVE  Loading!Merged = MergedOf(layout.root, loaded)
<1> DEFINE A == Loading!Aliases
<1>1. \A o \in Loading!Aliases : \A d : Loading!Coordinate(o, d) = PlaceOf(Loading!Aliases, o, d)
  BY DEF Loading!Coordinate, PlaceOf, Within, Loading!Qualified
<1>2. \A o \in Loading!Aliases : \A ref : Loading!Rewritten(o, ref) = Moved(Loading!Aliases, o, ref)
  BY DEF Loading!Rewritten, Moved, Loading!ResourceReference, ResourceWithin, Within, Loading!Qualified
<1>3. ASSUME NEW o \in Loading!Aliases PROVE Loading!Namespaced(o) =
               {EntryOf(Loading!Aliases, o, d) : d \in loaded[o]}
  <2>1. \A d : {[ref EXCEPT !.to = Loading!Rewritten(o, ref)] : ref \in d.refs} =
          RefsOf(Loading!Aliases, o, d)
    BY <1>2 DEF RefsOf
  <2> QED
    BY <1>1, <2>1 DEF Loading!Namespaced, EntryOf
<1>4. {Loading!Entry("root", d, d.name, d.refs) : d \in layout.root} =
        {EntryOf(Loading!Aliases, "root", d) : d \in layout.root}
  BY DEF EntryOf, PlaceOf, RefsOf
<1> HIDE DEF A
<1> QED
  BY <1>3, <1>4 DEF Loading!Merged, MergedOf, Owned

MergesAll ==
  "root" \notin Loading!Aliases /\ DOMAIN loaded = Loading!Aliases =>
    Loading!Merged = MergedOf(layout.root, loaded)

LEMMA MergesNow == MergesAll
BY MergedIsFunction DEF MergesAll

LEMMA MergesNext == MergesAll'
BY MergesNow, PTL

LEMMA MergedStays ==
  ASSUME "root" \notin Loading!Aliases, DOMAIN loaded = Loading!Aliases, UNCHANGED <<layout, loaded>>
  PROVE  Loading!Merged' = Loading!Merged /\ Loading!RootCollides' = Loading!RootCollides
           /\ Loading!Collide' = Loading!Collide
<1>1. Loading!Aliases' = Loading!Aliases
  BY DEF Loading!Aliases
<1>2. Loading!Merged = MergedOf(layout.root, loaded)
  BY MergesNow DEF MergesAll
<1>3. Loading!Merged' = MergedOf(layout'.root, loaded')
  BY <1>1, MergesNext DEF MergesAll
<1>4. Loading!Merged' = Loading!Merged
  BY <1>2, <1>3
<1> QED
  BY <1>1, <1>4 DEF Loading!RootCollides, Loading!Collide

-----------------------------------------------------------------------------
(* The invariant, step by step.                                            *)
LEMMA LayoutTells ==
  ASSUME Loading!LayoutsAreWellFormed, layout \in Layouts
  PROVE  /\ layout = [root |-> layout.root, modules |-> layout.modules, files |-> layout.files]
         /\ Loading!DeclaredOnce(layout.root) /\ "root" \notin DOMAIN layout.files
         /\ IsFiniteSet(DOMAIN layout.files)
         /\ "root" \notin Loading!Aliases /\ "none" \notin Loading!Aliases
              /\ Loading!Physical \notin Loading!Aliases
         /\ \A s \in DOMAIN layout.files : Loading!DeclaredOnce(Loading!File(s).declares)
         /\ MaxFile \in Nat /\ MaxAggregate \in Nat
BY DEF Loading!LayoutsAreWellFormed, Loading!Aliases, Loading!File, Loading!IsFiniteSet, IsFiniteSet

LEMMA CompositionInit ==
  ASSUME Loading!LayoutsAreWellFormed, Loading!Init PROVE CompositionInv
<1>1. layout \in Layouts /\ phase = "root" /\ code = "none" /\ reading = "none" /\ loaded = <<>>
      /\ composed = {} /\ first = <<>>
      /\ sizes = [s \in DOMAIN layout.files \cup {"root"} |-> 1]
      /\ accepted = [s \in DOMAIN layout.files \cup {"root"} |-> 0]
  BY DEF Loading!Init
<1>2. DOMAIN loaded = {}
  BY <1>1
<1>3. CompositionTyped
  BY <1>1, <1>2 DEF CompositionTyped, Loading!TypeOK
<1>4. ReadInTurn /\ LoadedAsDeclared /\ AcceptedOnce
  BY <1>1, <1>2 DEF ReadInTurn, LoadedAsDeclared, AcceptedOnce
<1>5. Loading!AcceptedWithinBounds
  BY <1>1, <1>2, LayoutTells DEF Loading!AcceptedWithinBounds
<1>6. ComposedIsMerged /\ FirstIsMerged
  BY <1>1 DEF ComposedIsMerged, FirstIsMerged
<1> QED
  BY <1>3, <1>4, <1>5, <1>6 DEF CompositionInv

LEMMA RefuseStep ==
  ASSUME Loading!LayoutsAreWellFormed, CompositionInv, phase # "refused", NEW c, Loading!Refuse(c),
         c \in {"bound", "missing", "type", "declaration", "collision", "invalid"}
  PROVE  CompositionInv'
<1>1. phase' = "refused" /\ code' = c
      /\ UNCHANGED <<layout, sizes, reading, loaded, accepted, composed, first>>
  BY DEF Loading!Refuse
<1>2. Loading!Aliases' = Loading!Aliases /\ Loading!Total' = Loading!Total
        /\ \A s : Loading!File(s)' = Loading!File(s)
  BY <1>1, TotalStays DEF Loading!Aliases, Loading!File
<1>3. CompositionTyped'
  BY <1>1, <1>2 DEF CompositionInv, CompositionTyped, Loading!TypeOK
<1>4. ReadInTurn' /\ LoadedAsDeclared' /\ AcceptedOnce'
  BY <1>1, <1>2 DEF CompositionInv, ReadInTurn, LoadedAsDeclared, AcceptedOnce
<1>5. Loading!AcceptedWithinBounds'
  BY <1>1, <1>2 DEF CompositionInv, Loading!AcceptedWithinBounds
<1>6. ComposedIsMerged' /\ FirstIsMerged'
  BY <1>1 DEF CompositionInv, ComposedIsMerged, FirstIsMerged
<1> QED
  BY <1>3, <1>4, <1>5, <1>6 DEF CompositionInv

LEMMA ReadRootStep ==
  ASSUME Loading!LayoutsAreWellFormed, CompositionInv, Loading!ReadRoot PROVE CompositionInv'
<1>1. CASE sizes["root"] > MaxFile
  BY <1>1, RefuseStep DEF Loading!ReadRoot
<1>2. CASE ~(sizes["root"] > MaxFile)
  <2>1. /\ phase = "root" /\ accepted' = [accepted EXCEPT !["root"] = sizes["root"]]
        /\ \/ phase' = "refused" /\ code' = "bound"
           \/ phase' = "modules" /\ code' = code
        /\ UNCHANGED <<layout, sizes, reading, loaded, composed, first>>
    BY <1>2 DEF Loading!ReadRoot
  <2>2. Loading!Aliases' = Loading!Aliases /\ \A s : Loading!File(s)' = Loading!File(s)
    BY <2>1 DEF Loading!Aliases, Loading!File
  <2>3. sizes["root"] \in Nat /\ sizes["root"] <= MaxFile
    BY <1>2, LayoutTells DEF CompositionInv, CompositionTyped
  <2>4. CompositionTyped'
    <3>1. accepted' \in [DOMAIN layout'.files \cup {"root"} -> Nat]
      BY <2>1, <2>3 DEF CompositionInv, CompositionTyped
    <3>2. Loading!TypeOK'
      BY <2>1, <2>2 DEF CompositionInv, CompositionTyped, Loading!TypeOK
    <3> QED
      BY <2>1, <3>1, <3>2 DEF CompositionInv, CompositionTyped
  <2>5. DOMAIN loaded = {}
    BY <2>1 DEF CompositionInv, ReadInTurn
  <2>6. ReadInTurn' /\ LoadedAsDeclared'
    BY <2>1, <2>2 DEF CompositionInv, ReadInTurn, LoadedAsDeclared
  <2>7. \A s \in DOMAIN layout.files : accepted'[s] = accepted[s]
    BY <2>1, LayoutTells DEF CompositionInv, CompositionTyped
  <2>8. AcceptedOnce'
    BY <2>1, <2>2, <2>7 DEF CompositionInv, AcceptedOnce
  <2>9. Loading!AcceptedWithinBounds'
    BY <2>1, <2>3, <2>5 DEF CompositionInv, CompositionTyped, Loading!AcceptedWithinBounds
  <2>10. ComposedIsMerged' /\ FirstIsMerged'
    BY <2>1 DEF CompositionInv, ComposedIsMerged, FirstIsMerged
  <2> QED
    BY <2>4, <2>6, <2>8, <2>9, <2>10 DEF CompositionInv
<1> QED
  BY <1>1, <1>2

LEMMA StatStep ==
  ASSUME Loading!LayoutsAreWellFormed, CompositionInv, NEW a, Loading!Stat(a) PROVE CompositionInv'
<1> DEFINE s == layout.modules[a]
<1>1. /\ phase = "modules" /\ reading = "none" /\ a \in Loading!Aliases \ DOMAIN loaded
      /\ \/ Loading!Refuse("missing") \/ Loading!Refuse("type") \/ Loading!Refuse("bound")
         \/ /\ s \in DOMAIN layout.files /\ reading' = a
            /\ UNCHANGED <<layout, sizes, phase, code, loaded, accepted, composed, first>>
  BY DEF Loading!Stat
<1>2. CASE Loading!Refuse("missing") \/ Loading!Refuse("type") \/ Loading!Refuse("bound")
  BY <1>1, <1>2, RefuseStep
<1>3. CASE /\ s \in DOMAIN layout.files /\ reading' = a
           /\ UNCHANGED <<layout, sizes, phase, code, loaded, accepted, composed, first>>
  <2>1. Loading!Aliases' = Loading!Aliases /\ Loading!Total' = Loading!Total
          /\ \A z : Loading!File(z)' = Loading!File(z)
    BY <1>3, TotalStays DEF Loading!Aliases, Loading!File
  <2>2. CompositionTyped'
    BY <1>1, <1>3, <2>1 DEF CompositionInv, CompositionTyped, Loading!TypeOK
  <2>3. ReadInTurn' /\ LoadedAsDeclared' /\ AcceptedOnce'
    BY <1>1, <1>3, <2>1 DEF CompositionInv, ReadInTurn, LoadedAsDeclared, AcceptedOnce
  <2>4. Loading!AcceptedWithinBounds'
    BY <1>3, <2>1 DEF CompositionInv, Loading!AcceptedWithinBounds
  <2>5. ComposedIsMerged' /\ FirstIsMerged'
    BY <1>1, <1>3 DEF CompositionInv, ComposedIsMerged, FirstIsMerged
  <2> QED
    BY <2>2, <2>3, <2>4, <2>5 DEF CompositionInv
<1> QED
  BY <1>1, <1>2, <1>3

LEMMA ReadModuleStep ==
  ASSUME Loading!LayoutsAreWellFormed, CompositionInv, Loading!ReadModule PROVE CompositionInv'
<1> DEFINE s == layout.modules[reading]
<1>1. /\ phase = "modules" /\ reading # "none"
      /\ \/ Loading!Refuse("bound") \/ Loading!Refuse("declaration")
         \/ /\ Loading!Fits(s) /\ Loading!File(s).identity = reading
            /\ loaded' = [a \in DOMAIN loaded \cup {reading} |->
                            IF a = reading THEN Loading!File(s).declares ELSE loaded[a]]
            /\ accepted' = [accepted EXCEPT ![s] = @ + sizes[s]]
            /\ reading' = "none"
            /\ UNCHANGED <<layout, sizes, phase, code, composed, first>>
  BY DEF Loading!ReadModule
<1>2. CASE Loading!Refuse("bound") \/ Loading!Refuse("declaration")
  BY <1>1, <1>2, RefuseStep
<1>3. CASE /\ Loading!Fits(s) /\ Loading!File(s).identity = reading
           /\ loaded' = [a \in DOMAIN loaded \cup {reading} |->
                           IF a = reading THEN Loading!File(s).declares ELSE loaded[a]]
           /\ accepted' = [accepted EXCEPT ![s] = @ + sizes[s]]
           /\ reading' = "none"
           /\ UNCHANGED <<layout, sizes, phase, code, composed, first>>
  <2>1. Loading!Aliases' = Loading!Aliases /\ \A z : Loading!File(z)' = Loading!File(z)
    BY <1>3 DEF Loading!Aliases, Loading!File
  <2>2. /\ reading \in Loading!Aliases \ DOMAIN loaded /\ s \in DOMAIN layout.files /\ s \in DOMAIN accepted
        /\ DOMAIN accepted = DOMAIN layout.files \cup {"root"}
    BY <1>1 DEF CompositionInv, CompositionTyped, Loading!TypeOK, ReadInTurn
  <2>3. accepted[s] = 0 /\ sizes[s] \in Nat
    BY <1>3, <2>2 DEF CompositionInv, CompositionTyped, AcceptedOnce
  <2>4. DOMAIN loaded' = DOMAIN loaded \cup {reading}
    BY <1>3
  <2> DEFINE D == DOMAIN accepted
  <2>5. /\ accepted \in [D -> Nat] /\ accepted' \in [D -> Nat] /\ DOMAIN accepted' = D
        /\ \A z \in D : accepted'[z] = IF z = s THEN accepted[z] + sizes[s] ELSE accepted[z]
    BY <1>3, <2>2, <2>3 DEF CompositionInv, CompositionTyped
  <2>6. Loading!Total' = Loading!Total + sizes[s]
    <3>1. IsFiniteSet(D)
      <4>1. IsFiniteSet(DOMAIN layout.files)
        BY LayoutTells DEF CompositionInv, CompositionTyped
      <4> QED
        BY <2>2, <4>1, FS_AddElement
    <3>2. Sums(accepted', D)[D] = Sums(accepted, D)[D] + sizes[s]
      <4> HIDE DEF D, s
      <4>1. s \in D
        BY <2>2 DEF D
      <4>2. PICK f, g, k : f = accepted /\ g = accepted' /\ k = sizes[s]
        OBVIOUS
      <4>3. /\ f \in [D -> Nat] /\ g \in [D -> Nat] /\ k \in Nat
            /\ \A z \in D : g[z] = IF z = s THEN f[z] + k ELSE f[z]
        BY <2>3, <2>5, <4>2
      <4>4. Sums(g, D)[D] = Sums(f, D)[D] + k
        BY <3>1, <4>1, <4>3, SumsChange
      <4> QED
        BY <4>2, <4>4
    <3> QED
      BY <2>5, <3>2, TotalIsSum, TotalWillBeSum DEF Added
  <2>7. CompositionTyped'
    <3>1. Loading!TypeOK'
      BY <1>1, <1>3, <2>1, <2>2, <2>4 DEF CompositionInv, CompositionTyped, Loading!TypeOK, ReadInTurn
    <3> QED
      BY <1>3, <2>2, <2>5, <3>1 DEF CompositionInv, CompositionTyped
  <2>8. ReadInTurn'
    BY <1>1, <1>3 DEF CompositionInv, ReadInTurn
  <2>9. LoadedAsDeclared'
    BY <1>3, <2>1, <2>2, <2>4 DEF CompositionInv, LoadedAsDeclared
  <2>10. AcceptedOnce'
    BY <1>3, <2>1, <2>2, <2>4, <2>5 DEF CompositionInv, AcceptedOnce
  <2>11. Loading!AcceptedWithinBounds'
    <3>1. \A z \in DOMAIN accepted' : accepted'[z] <= MaxFile
      BY <1>3, <2>3, <2>5 DEF CompositionInv, Loading!AcceptedWithinBounds, Loading!Fits
    <3>2. Loading!Total' <= MaxAggregate
      BY <1>3, <2>6 DEF Loading!Fits
    <3> QED
      BY <3>1, <3>2 DEF Loading!AcceptedWithinBounds
  <2>12. ComposedIsMerged' /\ FirstIsMerged'
    BY <1>1, <1>3 DEF CompositionInv, ComposedIsMerged, FirstIsMerged
  <2> QED
    BY <2>7, <2>8, <2>9, <2>10, <2>11, <2>12 DEF CompositionInv
<1> QED
  BY <1>1, <1>2, <1>3

LEMMA ComposedStays ==
  ASSUME Loading!LayoutsAreWellFormed, CompositionInv, phase \in {"modules", "compile"},
           phase' \in {"compile", "composed"},
         UNCHANGED <<layout, sizes, code, reading, loaded, accepted, first>>,
         reading = "none", DOMAIN loaded = Loading!Aliases, composed' =
           Loading!Merged, ~Loading!RootCollides, ~Loading!Collide
  PROVE  CompositionInv'
<1>1. Loading!Aliases' = Loading!Aliases /\ Loading!Total' = Loading!Total
        /\ \A z : Loading!File(z)' = Loading!File(z)
  BY TotalStays DEF Loading!Aliases, Loading!File
<1>2. Loading!Merged' = Loading!Merged /\ Loading!RootCollides' = Loading!RootCollides
        /\ Loading!Collide' = Loading!Collide
  BY LayoutTells, MergedStays DEF CompositionInv, CompositionTyped
<1>4. CompositionTyped'
  BY <1>1 DEF CompositionInv, CompositionTyped, Loading!TypeOK
<1>5. ReadInTurn' /\ LoadedAsDeclared' /\ AcceptedOnce'
  BY <1>1 DEF CompositionInv, ReadInTurn, LoadedAsDeclared, AcceptedOnce
<1>6. Loading!AcceptedWithinBounds'
  BY <1>1 DEF CompositionInv, Loading!AcceptedWithinBounds
<1>7. ComposedIsMerged' /\ FirstIsMerged'
  BY <1>1, <1>2 DEF CompositionInv, ComposedIsMerged, FirstIsMerged
<1> QED
  BY <1>4, <1>5, <1>6, <1>7 DEF CompositionInv

LEMMA MergeStep ==
  ASSUME Loading!LayoutsAreWellFormed, CompositionInv, Loading!Merge PROVE CompositionInv'
<1>1. CASE Loading!RootCollides \/ Loading!Collide
  BY <1>1, RefuseStep DEF Loading!Merge
<1>2. CASE ~(Loading!RootCollides \/ Loading!Collide)
  BY <1>2, ComposedStays DEF Loading!Merge
<1> QED
  BY <1>1, <1>2

LEMMA CompileStep ==
  ASSUME Loading!LayoutsAreWellFormed, CompositionInv, Loading!Compile PROVE CompositionInv'
<1>1. phase = "compile"
      /\ \/ Loading!Refuse("invalid")
         \/ phase' = "composed" /\ UNCHANGED <<layout, sizes, code, reading, loaded, accepted,
              composed, first>>
  BY DEF Loading!Compile
<1>2. CASE Loading!Refuse("invalid")
  BY <1>1, <1>2, RefuseStep
<1>3. CASE phase' = "composed" /\ UNCHANGED <<layout, sizes, code, reading, loaded, accepted,
        composed, first>>
  BY <1>1, <1>3, ComposedStays DEF CompositionInv, ReadInTurn, ComposedIsMerged
<1> QED
  BY <1>1, <1>2, <1>3

LEMMA GrowStep ==
  ASSUME Loading!LayoutsAreWellFormed, CompositionInv, NEW s \in DOMAIN sizes,
           Loading!Grow(s) PROVE CompositionInv'
<1>1. /\ phase \in {"root", "modules"} /\ sizes' = [sizes EXCEPT ![s] = @ + 1]
      /\ UNCHANGED <<layout, phase, code, reading, loaded, accepted, composed, first>>
  BY DEF Loading!Grow
<1>2. Loading!Aliases' = Loading!Aliases /\ Loading!Total' = Loading!Total
        /\ \A z : Loading!File(z)' = Loading!File(z)
  BY <1>1, TotalStays DEF Loading!Aliases, Loading!File
<1>3. CompositionTyped'
  <2>1. sizes' \in [DOMAIN layout'.files \cup {"root"} -> Nat]
    BY <1>1 DEF CompositionInv, CompositionTyped
  <2> QED
    BY <1>1, <1>2, <2>1 DEF CompositionInv, CompositionTyped, Loading!TypeOK
<1>4. ReadInTurn' /\ LoadedAsDeclared' /\ AcceptedOnce'
  BY <1>1, <1>2 DEF CompositionInv, ReadInTurn, LoadedAsDeclared, AcceptedOnce
<1>5. Loading!AcceptedWithinBounds'
  BY <1>1, <1>2 DEF CompositionInv, Loading!AcceptedWithinBounds
<1>6. ComposedIsMerged' /\ FirstIsMerged'
  BY <1>1 DEF CompositionInv, ComposedIsMerged, FirstIsMerged
<1> QED
  BY <1>3, <1>4, <1>5, <1>6 DEF CompositionInv

LEMMA ReloadStep ==
  ASSUME Loading!LayoutsAreWellFormed, CompositionInv, Loading!Reload PROVE CompositionInv'
<1>1. PICK l \in Layouts :
        /\ layout' = l /\ sizes' = [s \in DOMAIN l.files \cup {"root"} |-> 1]
        /\ accepted' = [s \in DOMAIN l.files \cup {"root"} |-> 0]
  BY DEF Loading!Reload
<1>2. /\ phase = "composed" /\ first' = <<Loading!Identity, composed>> /\ phase' = "root"
      /\ loaded' = <<>> /\ composed' = {} /\ code' = code /\ reading' = reading
  BY DEF Loading!Reload
<1>3. DOMAIN loaded' = {} /\ reading' = "none"
  BY <1>2 DEF CompositionInv, ReadInTurn
<1>4. CompositionTyped'
  <2>1. Loading!TypeOK'
    BY <1>2, <1>3 DEF CompositionInv, CompositionTyped, Loading!TypeOK
  <2> QED
    BY <1>1, <2>1 DEF CompositionTyped
<1>5. ReadInTurn' /\ LoadedAsDeclared' /\ AcceptedOnce'
  BY <1>1, <1>2, <1>3 DEF ReadInTurn, LoadedAsDeclared, AcceptedOnce, Loading!File
<1>6. Loading!AcceptedWithinBounds'
  BY <1>1, <1>3, LayoutTells DEF Loading!AcceptedWithinBounds, CompositionInv, CompositionTyped
<1>7. ComposedIsMerged'
  BY <1>2 DEF ComposedIsMerged
<1>8. FirstIsMerged'
  <2>1. composed = MergedOf(layout.root, loaded)
    BY <1>2, LayoutTells, MergedIsFunction DEF CompositionInv, CompositionTyped, ComposedIsMerged
  <2> QED
    BY <1>2, <2>1 DEF FirstIsMerged, Loading!Identity
<1> QED
  BY <1>4, <1>5, <1>6, <1>7, <1>8 DEF CompositionInv

LEMMA CompositionNext ==
  ASSUME Loading!LayoutsAreWellFormed, CompositionInv, [Loading!Next]_(Loading!vars) PROVE CompositionInv'
<1>1. CASE UNCHANGED Loading!vars
  <2>1. UNCHANGED <<layout, sizes, phase, code, reading, loaded, accepted, composed, first>>
    BY <1>1 DEF Loading!vars
  <2>2. Loading!Aliases' = Loading!Aliases /\ Loading!Total' = Loading!Total
          /\ \A z : Loading!File(z)' = Loading!File(z)
    BY <2>1, TotalStays DEF Loading!Aliases, Loading!File
  <2>3. CompositionTyped' /\ ReadInTurn' /\ LoadedAsDeclared' /\ AcceptedOnce'
    BY <2>1, <2>2 DEF CompositionInv, CompositionTyped, Loading!TypeOK, ReadInTurn,
      LoadedAsDeclared, AcceptedOnce
  <2>4. Loading!AcceptedWithinBounds' /\ FirstIsMerged'
    BY <2>1, <2>2 DEF CompositionInv, Loading!AcceptedWithinBounds, FirstIsMerged
  <2>5. ComposedIsMerged'
    <3>1. CASE phase \in {"compile", "composed"}
      <4>1. composed' = Loading!Merged /\ reading = "none" /\ DOMAIN loaded = Loading!Aliases
              /\ ~Loading!RootCollides /\ ~Loading!Collide
        BY <2>1, <3>1 DEF CompositionInv, ComposedIsMerged, ReadInTurn
      <4>2. Loading!Merged' = Loading!Merged /\ Loading!RootCollides' = Loading!RootCollides
              /\ Loading!Collide' = Loading!Collide
        BY <2>1, <4>1, LayoutTells, MergedStays DEF CompositionInv, CompositionTyped
      <4> QED
        BY <2>1, <2>2, <4>1, <4>2 DEF ComposedIsMerged
    <3> QED
      BY <2>1, <3>1 DEF ComposedIsMerged
  <2> QED
    BY <2>3, <2>4, <2>5 DEF CompositionInv
<1> QED
  BY <1>1, ReadRootStep, ReadModuleStep, MergeStep, CompileStep, ReloadStep, StatStep,
    GrowStep DEF Loading!Next

-----------------------------------------------------------------------------
(* What is in a composed scenario.                                         *)
Owners == Loading!Aliases \cup {"root"}
HasEntry(e, o, d) ==
  /\ e.owner = o /\ e.section = d.section /\ e.name = d.name
  /\ e.at = PlaceOf(Loading!Aliases, o, d) /\ e.refs = RefsOf(Loading!Aliases, o, d)

LEMMA EntryTells ==
  ASSUME NEW o, NEW d PROVE HasEntry(EntryOf(Loading!Aliases, o, d), o, d)
BY DEF HasEntry, EntryOf, Loading!Entry

Composed ==
  /\ Loading!LayoutsAreWellFormed /\ CompositionInv /\ phase = "composed"

LEMMA ComposedTells ==
  ASSUME Composed
  PROVE  /\ "root" \notin Loading!Aliases /\ Loading!Physical \notin Loading!Aliases
              /\ DOMAIN loaded = Loading!Aliases
         /\ ~Loading!RootCollides /\ ~Loading!Collide /\ composed = Loading!Merged
         /\ \A o \in Owners : Loading!DeclaredOnce(Loading!DeclarationsOf(o))
         /\ Loading!DeclarationsOf("root") = layout.root
              /\ \A a \in Loading!Aliases : Loading!DeclarationsOf(a) = loaded[a]
         /\ \A e \in composed : \E o \in Owners : \E d \in Loading!DeclarationsOf(o) : e =
              EntryOf(Loading!Aliases, o, d)
         /\ \A o \in Owners : \A d \in Loading!DeclarationsOf(o) : EntryOf(Loading!Aliases, o, d) \in composed
<1>1. /\ "root" \notin Loading!Aliases /\ Loading!Physical \notin Loading!Aliases
           /\ DOMAIN loaded = Loading!Aliases
      /\ ~Loading!RootCollides /\ ~Loading!Collide /\ composed = Loading!Merged
  BY LayoutTells DEF Composed, CompositionInv, CompositionTyped, ComposedIsMerged
<1>2. Loading!DeclarationsOf("root") = layout.root
        /\ \A a \in Loading!Aliases : Loading!DeclarationsOf(a) = loaded[a]
  BY <1>1 DEF Loading!DeclarationsOf
<1>3. \A o \in Owners : Loading!DeclaredOnce(Loading!DeclarationsOf(o))
  BY <1>1, <1>2, LayoutTells DEF Composed, CompositionInv, CompositionTyped, LoadedAsDeclared, Owners
<1>4. composed = MergedOf(layout.root, loaded)
  BY <1>1, MergedIsFunction
<1>5. \A o \in Owners : Owned(layout.root, loaded, o) = Loading!DeclarationsOf(o)
  BY <1>2 DEF Owned, Owners
<1>6. composed = UNION {{EntryOf(Loading!Aliases, o, d) : d \in Owned(layout.root, loaded, o)} : o \in Owners}
  BY <1>1, <1>4 DEF MergedOf, Owners
<1>7. ASSUME NEW e \in composed
      PROVE  \E o \in Owners : \E d \in Loading!DeclarationsOf(o) : e = EntryOf(Loading!Aliases, o, d)
  BY <1>5, <1>6
<1>8. ASSUME NEW o \in Owners, NEW d \in Loading!DeclarationsOf(o)
               PROVE EntryOf(Loading!Aliases, o, d) \in composed
  BY <1>5, <1>6
<1> QED
  BY <1>1, <1>2, <1>3, <1>7, <1>8

(* Sequences by what they begin with.                                      *)
LEMMA ConsIs ==
  ASSUME NEW T, NEW a, NEW x \in Seq(T)
  PROVE  /\ (<<a>> \o x)[1] = a /\ Len(<<a>> \o x) = Len(x) + 1 /\ Len(x) \in Nat
         /\ \A i \in 1..Len(x) : (<<a>> \o x)[i + 1] = x[i]
  OBVIOUS

LEMMA ConsInjective ==
  ASSUME NEW T, NEW a, NEW x \in Seq(T), NEW b, NEW y \in Seq(T), <<a>> \o x = <<b>> \o y
  PROVE  a = b /\ x = y
<1>1. a = b /\ Len(x) = Len(y)
  BY ConsIs
<1>2. \A i \in 1..Len(x) : x[i] = y[i]
  BY <1>1, ConsIs
<1> QED
  BY <1>1, <1>2

LEMMA SameSequence ==
  ASSUME NEW T, NEW x \in Seq(T), NEW y \in Seq(T), Len(x) = Len(y), \A i \in 1..Len(x) : x[i] = y[i]
  PROVE  x = y
  OBVIOUS

LEMMA AppendOne ==
  ASSUME NEW p, NEW a, NEW b PROVE <<p, a>> \o <<b>> = <<p, a, b>>
<1> DEFINE T == {p, a, b}
<1>1. <<p, a>> \in Seq(T) /\ <<b>> \in Seq(T) /\ <<p, a, b>> \in Seq(T)
  OBVIOUS
<1>2. Len(<<p, a>> \o <<b>>) = 3 /\ <<p, a>> \o <<b>> \in Seq(T)
  BY <1>1
<1>3. \A i \in 1..3 : (<<p, a>> \o <<b>>)[i] = <<p, a, b>>[i]
  OBVIOUS
<1>4. PICK u, v : u = <<p, a>> \o <<b>> /\ v = <<p, a, b>>
  OBVIOUS
<1> HIDE DEF T
<1>5. u \in Seq(T) /\ v \in Seq(T) /\ Len(u) = 3 /\ Len(v) = 3 /\ \A i \in 1..3 : u[i] = v[i]
  BY <1>1, <1>2, <1>3, <1>4
<1>6. u = v
  BY <1>5, SameSequence
<1> QED
  BY <1>4, <1>6

(* A name: its first component, and what is behind it.                     *)
LEMMA NameTells ==
  ASSUME NEW n, Loading!IsName(n)
  PROVE  /\ n \in Seq(Loading!Range(n)) /\ Len(n) \in Nat \ {0} /\ n[1] # Loading!Physical
              /\ n[1] \in Loading!Range(n)
         /\ n = <<n[1]>> \o Tail(n) /\ Tail(n) \in Seq(Loading!Range(n)) /\ Len(Tail(n)) = Len(n) - 1
         /\ Len(n) = 1 => n = <<n[1]>>
         /\ Len(n) > 1 => Tail(n)[1] = n[2] /\ Tail(n) # <<>>
<1> DEFINE T == Loading!Range(n)
<1>1. n \in Seq(T) /\ n # <<>> /\ Loading!Physical \notin T
  BY DEF Loading!IsName
<1>2. \A i \in 1..Len(n) : n[i] \in T
  BY <1>1
<1> HIDE DEF T
<1>3. Len(n) \in Nat \ {0} /\ n[1] \in T
  BY <1>1, <1>2
<1>4. Tail(n) \in Seq(T) /\ Len(Tail(n)) = Len(n) - 1 /\ \A i \in 1..(Len(n) - 1) : Tail(n)[i] = n[i + 1]
  BY <1>1, <1>3
<1>5. n = <<n[1]>> \o Tail(n)
  BY <1>1, <1>3
<1>6. Len(n) = 1 => n = <<n[1]>>
  BY <1>1, <1>3
<1>7. ASSUME Len(n) > 1 PROVE Tail(n)[1] = n[2] /\ Tail(n) # <<>>
  <2>1. 1 \in 1..(Len(n) - 1) /\ Len(Tail(n)) # 0
    BY <1>3, <1>4, <1>7
  <2>2. PICK t : t = Tail(n)
    OBVIOUS
  <2>3. t[1] = n[1 + 1] /\ Len(t) # 0
    BY <1>4, <2>1, <2>2
  <2>4. t # <<>>
    BY <2>3
  <2> QED
    BY <2>2, <2>3, <2>4
<1> QED
  BY <1>1, <1>3, <1>4, <1>5, <1>6, <1>7 DEF T

-----------------------------------------------------------------------------
(* What is found at a place of the composed scenario, by owner and name.   *)
At(s, p) == {e \in composed : e.section = s /\ e.at = p}
Pairs(E) == {<<e.owner, e.name>> : e \in E}
Called(o, s, n) == {<<o, d.name>> : d \in {x \in Loading!DeclarationsOf(o) : x.section = s /\ x.name = n}}
Apart == \A o \in Owners : \A d \in Loading!DeclarationsOf(o) : d.name[1] \notin Loading!Aliases

LEMMA ApartTells == ASSUME Composed, Loading!NamesApart PROVE Apart
BY ComposedTells, EntryTells DEF Loading!NamesApart, Apart, HasEntry

LEMMA DeclarationTells ==
  ASSUME Composed, NEW o \in Owners, NEW d \in Loading!DeclarationsOf(o)
  PROVE  /\ Loading!IsName(d.name)
         /\ d.section = "resources" => Len(d.name) = 1
         /\ \A ref \in d.refs : ref = Loading!Reference(ref.kind, ref.to) /\ Loading!IsName(ref.to)
BY ComposedTells DEF Loading!DeclaredOnce

(* Where a declaration is, by the kind of its section and of its owner.    *)
LEMMA PlaceOfRoot == ASSUME NEW d PROVE PlaceOf(Loading!Aliases, "root", d) = d.name
BY DEF PlaceOf

LEMMA PlaceOfResource ==
  ASSUME NEW d, NEW o, o # "root", d.section = "resources"
  PROVE  PlaceOf(Loading!Aliases, o, d) = <<Loading!Physical, o>> \o d.name
BY DEF PlaceOf

LEMMA PlaceOfOther ==
  ASSUME NEW d, NEW o, o # "root", d.section # "resources", d.name[1] \notin Loading!Aliases
  PROVE  PlaceOf(Loading!Aliases, o, d) = <<o>> \o d.name
BY DEF PlaceOf, Within

(* Owners of what is at a place, if only one of them can be.               *)
LEMMA OnlyOneOwns ==
  ASSUME Composed, NEW o \in Owners, NEW s, NEW p, NEW n,
         \A x \in Owners : \A d \in Loading!DeclarationsOf(x) :
           d.section = s => (PlaceOf(Loading!Aliases, x, d) = p <=> x = o /\ d.name = n)
  PROVE  Pairs(At(s, p)) = Called(o, s, n)
<1>1. ASSUME NEW z \in Pairs(At(s, p)) PROVE z \in Called(o, s, n)
  <2>1. PICK e \in composed : e.section = s /\ e.at = p /\ z = <<e.owner, e.name>>
    BY DEF Pairs, At
  <2>2. PICK x \in Owners : \E d \in Loading!DeclarationsOf(x) : e = EntryOf(Loading!Aliases, x, d)
    BY <2>1, ComposedTells
  <2>2a. PICK d \in Loading!DeclarationsOf(x) : e = EntryOf(Loading!Aliases, x, d)
    BY <2>2
  <2>3. HasEntry(e, x, d)
    BY <2>2a, EntryTells
  <2> QED
    BY <2>1, <2>2a, <2>3 DEF HasEntry, Called
<1>2. ASSUME NEW z \in Called(o, s, n) PROVE z \in Pairs(At(s, p))
  <2>1. PICK d \in Loading!DeclarationsOf(o) : d.section = s /\ d.name = n /\ z = <<o, d.name>>
    BY DEF Called
  <2>2. EntryOf(Loading!Aliases, o, d) \in composed /\ HasEntry(EntryOf(Loading!Aliases, o, d), o, d)
    BY ComposedTells, EntryTells
  <2> QED
    BY <2>1, <2>2 DEF HasEntry, Pairs, At
<1> QED
  BY <1>1, <1>2

LEMMA FoundInModule ==
  ASSUME Composed, Apart, NEW a \in Loading!Aliases, NEW s, s # "resources", NEW T, NEW n \in Seq(T)
  PROVE  Pairs(At(s, <<a>> \o n)) = Called(a, s, n)
<1> SUFFICES ASSUME NEW x \in Owners, NEW d \in Loading!DeclarationsOf(x), d.section = s
             PROVE  PlaceOf(Loading!Aliases, x, d) = <<a>> \o n <=> x = a /\ d.name = n
  BY OnlyOneOwns DEF Owners
<1>1. d.name \in Seq(Loading!Range(d.name)) /\ d.name[1] \notin Loading!Aliases
  BY DeclarationTells, NameTells DEF Apart
<1>2. CASE x = "root"
  <2>1. PlaceOf(Loading!Aliases, x, d) = d.name /\ x # a
    BY <1>2, PlaceOfRoot, ComposedTells
  <2>2. (<<a>> \o n)[1] = a
    BY ConsIs
  <2> QED
    BY <1>1, <2>1, <2>2
<1>3. CASE x # "root"
  <2>1. PlaceOf(Loading!Aliases, x, d) = <<x>> \o d.name
    BY <1>1, <1>3, PlaceOfOther
  <2> DEFINE U == Loading!Range(d.name) \cup T
  <2>2. d.name \in Seq(U) /\ n \in Seq(U)
    BY <1>1
  <2> HIDE DEF U
  <2> QED
    BY <2>1, <2>2, ConsInjective
<1> QED
  BY <1>2, <1>3

LEMMA FoundInRoot ==
  ASSUME Composed, Apart, NEW s, s # "resources", NEW n, Loading!IsName(n), n[1] \notin Loading!Aliases
  PROVE  Pairs(At(s, n)) = Called("root", s, n)
<1> SUFFICES ASSUME NEW x \in Owners, NEW d \in Loading!DeclarationsOf(x), d.section = s
             PROVE  PlaceOf(Loading!Aliases, x, d) = n <=> x = "root" /\ d.name = n
  BY OnlyOneOwns DEF Owners
<1>1. d.name \in Seq(Loading!Range(d.name)) /\ d.name[1] \notin Loading!Aliases
  BY DeclarationTells, NameTells DEF Apart
<1>2. CASE x = "root"
  BY <1>2, PlaceOfRoot
<1>3. CASE x # "root"
  <2>1. PlaceOf(Loading!Aliases, x, d) = <<x>> \o d.name /\ x \in Loading!Aliases
    BY <1>1, <1>3, PlaceOfOther DEF Owners
  <2>2. (<<x>> \o d.name)[1] = x
    BY <1>1, ConsIs
  <2> QED
    BY <1>3, <2>1, <2>2
<1> QED
  BY <1>2, <1>3

LEMMA FoundNowhere ==
  ASSUME Composed, Apart, NEW s, s # "resources", NEW a \in Loading!Aliases
  PROVE  Pairs(At(s, <<a>>)) = {}
<1> SUFFICES ASSUME NEW e \in At(s, <<a>>) PROVE FALSE
  BY DEF Pairs
<1>0. PICK x \in Owners : \E d \in Loading!DeclarationsOf(x) : e = EntryOf(Loading!Aliases, x, d)
  BY ComposedTells DEF At
<1>1. PICK d \in Loading!DeclarationsOf(x) : e = EntryOf(Loading!Aliases, x, d)
  BY <1>0
<1>2. d.section = s /\ PlaceOf(Loading!Aliases, x, d) = <<a>>
  BY <1>1, EntryTells DEF HasEntry, At
<1>3. d.name \in Seq(Loading!Range(d.name)) /\ d.name[1] \notin Loading!Aliases /\ Len(d.name) \in Nat \ {0}
  BY DeclarationTells, NameTells DEF Apart
<1>4. CASE x = "root"
  BY <1>2, <1>3, <1>4, PlaceOfRoot
<1>5. CASE x # "root"
  <2>1. <<x>> \o d.name = <<a>>
    BY <1>2, <1>3, <1>5, PlaceOfOther
  <2>2. Len(<<x>> \o d.name) = Len(d.name) + 1 /\ Len(<<a>>) = 1
    BY <1>3, ConsIs
  <2>3. Len(<<x>> \o d.name) = Len(<<a>>)
    BY <2>1
  <2> QED
    BY <1>3, <2>2, <2>3
<1> QED
  BY <1>4, <1>5

LEMMA ResourceInModule ==
  ASSUME Composed, NEW a \in Loading!Aliases, NEW c
  PROVE  Pairs(At("resources", <<Loading!Physical, a, c>>)) = Called(a, "resources", <<c>>)
<1> SUFFICES ASSUME NEW x \in Owners, NEW d \in Loading!DeclarationsOf(x), d.section = "resources"
             PROVE  PlaceOf(Loading!Aliases, x, d) = <<Loading!Physical, a, c>> <=> x = a /\ d.name = <<c>>
  BY OnlyOneOwns DEF Owners
<1>1. d.name = <<d.name[1]>> /\ Len(d.name) = 1
  BY DeclarationTells, NameTells
<1>2. CASE x = "root"
  <2>1. PlaceOf(Loading!Aliases, x, d) = d.name /\ x # a
    BY <1>2, PlaceOfRoot, ComposedTells
  <2>2. Len(<<Loading!Physical, a, c>>) = 3
    OBVIOUS
  <2> QED
    BY <1>1, <2>1, <2>2
<1>3. CASE x # "root"
  <2>1. PlaceOf(Loading!Aliases, x, d) = <<Loading!Physical, x>> \o d.name
    BY <1>3, PlaceOfResource
  <2>2. PICK b : b = d.name[1]
    OBVIOUS
  <2>3. <<Loading!Physical, x>> \o <<b>> = <<Loading!Physical, x, b>>
    BY AppendOne
  <2>4. d.name = <<b>>
    BY <1>1, <2>2
  <2>5. <<Loading!Physical, x, b>> = <<Loading!Physical, a, c>> <=> x = a /\ b = c
    OBVIOUS
  <2>6. <<b>> = <<c>> <=> b = c
    OBVIOUS
  <2> QED
    BY <2>1, <2>3, <2>4, <2>5, <2>6
<1> QED
  BY <1>2, <1>3

LEMMA ResourceInRoot ==
  ASSUME Composed, NEW c
  PROVE  Pairs(At("resources", <<c>>)) = Called("root", "resources", <<c>>)
<1> SUFFICES ASSUME NEW x \in Owners, NEW d \in Loading!DeclarationsOf(x), d.section = "resources"
             PROVE  PlaceOf(Loading!Aliases, x, d) = <<c>> <=> x = "root" /\ d.name = <<c>>
  BY OnlyOneOwns DEF Owners
<1>1. d.name = <<d.name[1]>> /\ Len(d.name) = 1
  BY DeclarationTells, NameTells
<1>2. CASE x = "root"
  BY <1>2, PlaceOfRoot
<1>3. CASE x # "root"
  <2>1. PlaceOf(Loading!Aliases, x, d) = <<Loading!Physical, x>> \o d.name
    BY <1>3, PlaceOfResource
  <2>2. PICK b : b = d.name[1]
    OBVIOUS
  <2>3. <<Loading!Physical, x>> \o <<b>> = <<Loading!Physical, x, b>>
    BY AppendOne
  <2>4. d.name = <<b>>
    BY <1>1, <2>2
  <2>5. <<Loading!Physical, x, b>> # <<c>>
    OBVIOUS
  <2> QED
    BY <1>3, <2>1, <2>3, <2>4, <2>5
<1> QED
  BY <1>2, <1>3

LEMMA ResourcesOfModule ==
  ASSUME Composed, NEW a \in Loading!Aliases
  PROVE  Pairs({e \in composed : e.section = "resources" /\ e.owner = a})
           = {<<a, d.name>> : d \in {x \in Loading!DeclarationsOf(a) : x.section = "resources"}}
<1>1. ASSUME NEW e \in composed, e.section = "resources", e.owner = a
      PROVE  \E d \in Loading!DeclarationsOf(a) : d.section = "resources" /\ d.name = e.name
  BY <1>1, ComposedTells, EntryTells DEF HasEntry
<1>2. ASSUME NEW d \in Loading!DeclarationsOf(a), d.section = "resources"
      PROVE  \E e \in composed : e.section = "resources" /\ e.owner = a /\ e.name = d.name
  BY <1>2, ComposedTells, EntryTells DEF HasEntry, Owners
<1> QED
  BY <1>1, <1>2 DEF Pairs

(* What a reference means: in its own file, or behind an alias.            *)
NameOf(k, t) == IF Loading!Section(k) = "resources" THEN <<t[1]>> ELSE t

LEMMA Redirected ==
  ASSUME NEW k, NEW t, NEW u
  PROVE  /\ Loading!Reference(k, t).to = t /\ Loading!Reference(k, t).kind = k
         /\ [Loading!Reference(k, t) EXCEPT !.to = u] = Loading!Reference(k, u)
BY DEF Loading!Reference

LEMMA NamesAre ==
  ASSUME NEW o, NEW k, NEW t
  PROVE  /\ {<<o, d.name>> : d \in Loading!Names(o, Loading!Reference(k, t))} =
              Called(o, Loading!Section(k), NameOf(k, t))
         /\ \A d \in Loading!Names(o, Loading!Reference(k, t)) : d \in Loading!DeclarationsOf(o)
              /\ d.name = NameOf(k, t)
<1>1. Loading!Reference(k, t).kind = k /\ Loading!Reference(k, t).to = t
  BY DEF Loading!Reference
<1>2. Loading!Names(o, Loading!Reference(k, t)) = {d \in Loading!DeclarationsOf(o) : d.section = Loading!Section(k) /\ d.name = NameOf(k, t)}
  BY <1>1 DEF Loading!Names, NameOf
<1> QED
  BY <1>2 DEF Called

LEMMA MeantHere ==
  ASSUME NEW o, NEW k, NEW t, t[1] \notin Loading!Aliases
  PROVE  Loading!Meaning(o, Loading!Reference(k, t)) = Called(o, Loading!Section(k), NameOf(k, t))
<1>1. Loading!Reference(k, t).to = t
  BY DEF Loading!Reference
<1>2. CASE Loading!Names(o, Loading!Reference(k, t)) = {}
  <2>1. Loading!Meaning(o, Loading!Reference(k, t)) = {}
    BY <1>1, <1>2 DEF Loading!Meaning
  <2> QED
    BY <1>2, <2>1, NamesAre
<1>3. CASE Loading!Names(o, Loading!Reference(k, t)) # {}
  BY <1>3, NamesAre DEF Loading!Meaning
<1> QED
  BY <1>2, <1>3

LEMMA MeantBehindAlias ==
  ASSUME Composed, Apart, NEW o \in Owners, NEW k, NEW t, Loading!IsName(t), t[1] \in Loading!Aliases
  PROVE  /\ Len(t) # 1 => Loading!Meaning(o, Loading!Reference(k, t)) =
              Called(t[1], Loading!Section(k), NameOf(k, Tail(t)))
         /\ Len(t) = 1 /\ Loading!Section(k) # "resources" => Loading!Meaning(o, Loading!Reference(k, t)) = {}
         /\ Len(t) = 1 /\ Loading!Section(k) = "resources" =>
              Loading!Meaning(o, Loading!Reference(k, t))
                = {<<t[1], d.name>> : d \in {x \in Loading!DeclarationsOf(t[1]) : x.section = "resources"}}
<1>1. Loading!Reference(k, t).to = t /\ Loading!Reference(k, t).kind = k
      /\ [Loading!Reference(k, t) EXCEPT !.to = Tail(t)] = Loading!Reference(k, Tail(t))
  BY Redirected
<1>2. NameOf(k, t)[1] = t[1]
  BY DEF NameOf
<1>3. Loading!Names(o, Loading!Reference(k, t)) = {}
  BY <1>2, NamesAre DEF Apart
<1>4. CASE Len(t) # 1
  <2>1. Loading!Meaning(o, Loading!Reference(k, t)) =
          {<<t[1], d.name>> : d \in Loading!Names(t[1], Loading!Reference(k, Tail(t)))}
    BY <1>1, <1>3, <1>4 DEF Loading!Meaning
  <2> QED
    BY <1>4, <2>1, NamesAre
<1>5. CASE Len(t) = 1
  <2>1. Loading!Meaning(o, Loading!Reference(k, t))
          = {<<t[1], d.name>> : d \in {e \in loaded[t[1]] : e.section = "resources" /\ Loading!Section(k) = "resources"}}
    BY <1>1, <1>3, <1>5 DEF Loading!Meaning
  <2>2. Loading!DeclarationsOf(t[1]) = loaded[t[1]]
    BY ComposedTells
  <2> QED
    BY <1>5, <2>1, <2>2
<1> QED
  BY <1>4, <1>5

LEMMA FoundTells ==
  ASSUME NEW k, NEW t
  PROVE  /\ Loading!Section(k) # "resources" =>
              Loading!Found(Loading!Reference(k, t)) = At(Loading!Section(k), t)
         /\ Loading!Section(k) = "resources" =>
              Loading!Found(Loading!Reference(k, t)) = Loading!FoundResource(t)
BY DEF Loading!Found, Loading!Reference, At

LEMMA FoundResourceTells ==
  ASSUME NEW t, Loading!Physical \notin Loading!Aliases
  PROVE  /\ t[1] = Loading!Physical => Loading!FoundResource(t) = At("resources", SubSeq(t, 1, 3))
         /\ t[1] \in Loading!Aliases /\ Len(t) > 1 =>
              Loading!FoundResource(t) = At("resources", <<Loading!Physical, t[1], t[2]>>)
         /\ t[1] \in Loading!Aliases /\ Len(t) = 1 =>
              Loading!FoundResource(t) = {d \in composed : d.section = "resources" /\ d.owner = t[1]}
         /\ t[1] # Loading!Physical /\ t[1] \notin Loading!Aliases =>
              Loading!FoundResource(t) = At("resources", <<t[1]>>)
<1>1. t[1] = Loading!Physical => Loading!FoundResource(t) = At("resources", SubSeq(t, 1, 3))
  BY DEF Loading!FoundResource, At
<1>2. ASSUME t[1] \in Loading!Aliases, Len(t) > 1
               PROVE Loading!FoundResource(t) = At("resources", <<Loading!Physical, t[1], t[2]>>)
  BY <1>2 DEF Loading!FoundResource, At
<1>3. ASSUME t[1] \in Loading!Aliases, Len(t) = 1
      PROVE  Loading!FoundResource(t) = {d \in composed : d.section = "resources" /\ d.owner = t[1]}
  BY <1>3 DEF Loading!FoundResource, At
<1>4. ASSUME t[1] # Loading!Physical, t[1] \notin Loading!Aliases
               PROVE Loading!FoundResource(t) = At("resources", <<t[1]>>)
  BY <1>4 DEF Loading!FoundResource, At
<1> QED
  BY <1>1, <1>2, <1>3, <1>4

(* A reference behind an alias is written anywhere as it is.               *)
LEMMA FoundBehindAlias ==
  ASSUME Composed, Apart, NEW o \in Owners, NEW k, NEW t, Loading!IsName(t), t[1] \in Loading!Aliases
  PROVE  Pairs(Loading!Found(Loading!Reference(k, t))) = Loading!Meaning(o, Loading!Reference(k, t))
<1>1. /\ Len(t) \in Nat \ {0} /\ t = <<t[1]>> \o Tail(t) /\ Tail(t) \in Seq(Loading!Range(t))
      /\ Len(t) = 1 => t = <<t[1]>>
      /\ Len(t) > 1 => Tail(t)[1] = t[2]
  BY NameTells
<1>2. CASE Loading!Section(k) # "resources" /\ Len(t) > 1
  <2>1. Pairs(At(Loading!Section(k), <<t[1]>> \o Tail(t))) = Called(t[1], Loading!Section(k), Tail(t))
    BY <1>1, <1>2, FoundInModule
  <2>2. NameOf(k, Tail(t)) = Tail(t)
    BY <1>2 DEF NameOf
  <2>3. Loading!Found(Loading!Reference(k, t)) = At(Loading!Section(k), t)
    BY <1>2, FoundTells
  <2>4. Len(t) # 1
    BY <1>1, <1>2
  <2>5. Loading!Meaning(o, Loading!Reference(k, t)) = Called(t[1], Loading!Section(k), Tail(t))
    BY <2>2, <2>4, MeantBehindAlias
  <2> QED
    BY <1>1, <2>1, <2>3, <2>5
<1>3. CASE Loading!Section(k) # "resources" /\ Len(t) = 1
  <2>1. Pairs(At(Loading!Section(k), <<t[1]>>)) = {}
    BY <1>3, FoundNowhere
  <2>2. Loading!Found(Loading!Reference(k, t)) = At(Loading!Section(k), t)
    BY <1>3, FoundTells
  <2>3. Loading!Meaning(o, Loading!Reference(k, t)) = {}
    BY <1>3, MeantBehindAlias
  <2> QED
    BY <1>1, <1>3, <2>1, <2>2, <2>3
<1>4. CASE Loading!Section(k) = "resources" /\ Len(t) > 1
  <2>1. Loading!Found(Loading!Reference(k, t)) = At("resources", <<Loading!Physical, t[1], t[2]>>)
    <3>1. Loading!Found(Loading!Reference(k, t)) = Loading!FoundResource(t)
            /\ Loading!Physical \notin Loading!Aliases
      BY <1>4, FoundTells, ComposedTells
    <3> QED
      BY <1>4, <3>1, FoundResourceTells
  <2>2. NameOf(k, Tail(t)) = <<t[2]>>
    BY <1>1, <1>4 DEF NameOf
  <2>3. Len(t) # 1
    BY <1>1, <1>4
  <2>4. Loading!Meaning(o, Loading!Reference(k, t)) = Called(t[1], "resources", <<t[2]>>)
    BY <1>4, <2>2, <2>3, MeantBehindAlias
  <2> QED
    BY <2>1, <2>4, ResourceInModule
<1>5. CASE Loading!Section(k) = "resources" /\ Len(t) = 1
  <2>1. Loading!Found(Loading!Reference(k, t)) = {d \in composed : d.section = "resources" /\ d.owner = t[1]}
    <3>1. Loading!Found(Loading!Reference(k, t)) = Loading!FoundResource(t)
            /\ Loading!Physical \notin Loading!Aliases
      BY <1>5, FoundTells, ComposedTells
    <3> QED
      BY <1>5, <3>1, FoundResourceTells
  <2> QED
    BY <1>5, <2>1, MeantBehindAlias, ResourcesOfModule
<1> QED
  BY <1>1, <1>2, <1>3, <1>4, <1>5

LEMMA LinkOfRoot ==
  ASSUME Composed, Apart, NEW k, NEW t, Loading!IsName(t)
  PROVE  Pairs(Loading!Found(Loading!Reference(k, t))) = Loading!Meaning("root", Loading!Reference(k, t))
<1>1. CASE t[1] \in Loading!Aliases
  BY <1>1, FoundBehindAlias DEF Owners
<1>2. CASE t[1] \notin Loading!Aliases
  <2>1. Loading!Meaning("root", Loading!Reference(k, t)) = Called("root", Loading!Section(k), NameOf(k, t))
    BY <1>2, MeantHere
  <2>2. CASE Loading!Section(k) = "resources"
    <3>1. Loading!Found(Loading!Reference(k, t)) = At("resources", <<t[1]>>)
      BY <1>2, <2>2, FoundTells, FoundResourceTells, ComposedTells, NameTells
    <3>2. NameOf(k, t) = <<t[1]>>
      BY <2>2 DEF NameOf
    <3> QED
      BY <2>1, <2>2, <3>1, <3>2, ResourceInRoot
  <2>3. CASE Loading!Section(k) # "resources"
    <3>1. NameOf(k, t) = t
      BY <2>3 DEF NameOf
    <3>2. Pairs(At(Loading!Section(k), t)) = Called("root", Loading!Section(k), t)
      BY <1>2, <2>3, FoundInRoot
    <3> QED
      BY <2>1, <2>3, <3>1, <3>2, FoundTells
  <2> QED
    BY <2>2, <2>3
<1> QED
  BY <1>1, <1>2

(* Resources of a module by the coordinates that references to them get.   *)
LEMMA FirstThree ==
  ASSUME NEW U, NEW w \in Seq(U), Len(w) >= 3
  PROVE  SubSeq(w, 1, 3) = <<w[1], w[2], w[3]>>
<1>1. Len(w) \in Nat /\ w[1] \in U /\ w[2] \in U /\ w[3] \in U
  OBVIOUS
<1>2. SubSeq(w, 1, 3) \in Seq(U) /\ Len(SubSeq(w, 1, 3)) = 3
      /\ \A i \in 1..3 : SubSeq(w, 1, 3)[i] = w[i]
  BY <1>1
<1>3. PICK u, v : u = SubSeq(w, 1, 3) /\ v = <<w[1], w[2], w[3]>>
  OBVIOUS
<1>4. v \in Seq(U) /\ Len(v) = 3 /\ v[1] = w[1] /\ v[2] = w[2] /\ v[3] = w[3]
  BY <1>1, <1>3
<1>5. \A i \in 1..3 : u[i] = v[i]
  BY <1>2, <1>3, <1>4
<1>6. u = v
  BY <1>2, <1>3, <1>4, <1>5, SameSequence
<1> QED
  BY <1>3, <1>6

LEMMA Coordinates ==
  ASSUME NEW T, NEW n \in Seq(T)
  PROVE  /\ \A a : Len(n) # 0 =>
              /\ (<<Loading!Physical, a>> \o n)[1] = Loading!Physical
              /\ SubSeq(<<Loading!Physical, a>> \o n, 1, 3) = <<Loading!Physical, a, n[1]>>
         /\ Len(n) > 1 =>
              /\ (<<Loading!Physical>> \o n)[1] = Loading!Physical
              /\ SubSeq(<<Loading!Physical>> \o n, 1, 3) = <<Loading!Physical, n[1], n[2]>>
<1>1. ASSUME NEW a, Len(n) # 0
      PROVE  /\ (<<Loading!Physical, a>> \o n)[1] = Loading!Physical
             /\ SubSeq(<<Loading!Physical, a>> \o n, 1, 3) = <<Loading!Physical, a, n[1]>>
  <2> DEFINE U == T \cup {Loading!Physical, a}
  <2>1. <<Loading!Physical, a>> \in Seq(U) /\ n \in Seq(U) /\ Len(n) \in Nat \ {0}
    BY <1>1
  <2>2. PICK w : w = <<Loading!Physical, a>> \o n
    OBVIOUS
  <2>3. w \in Seq(U) /\ Len(w) >= 3 /\ w[1] = Loading!Physical /\ w[2] = a /\ w[3] = n[1]
    BY <2>1, <2>2
  <2> HIDE DEF U
  <2> QED
    BY <2>2, <2>3, FirstThree
<1>2. ASSUME Len(n) > 1
      PROVE  /\ (<<Loading!Physical>> \o n)[1] = Loading!Physical
             /\ SubSeq(<<Loading!Physical>> \o n, 1, 3) = <<Loading!Physical, n[1], n[2]>>
  <2> DEFINE U == T \cup {Loading!Physical}
  <2>1. <<Loading!Physical>> \in Seq(U) /\ n \in Seq(U) /\ Len(n) \in Nat
    BY <1>2
  <2>2. PICK w : w = <<Loading!Physical>> \o n
    OBVIOUS
  <2>3. w \in Seq(U) /\ Len(w) >= 3 /\ w[1] = Loading!Physical /\ w[2] = n[1] /\ w[3] = n[2]
    BY <1>2, <2>1, <2>2
  <2> HIDE DEF U
  <2> QED
    BY <2>2, <2>3, FirstThree
<1> QED
  BY <1>1, <1>2

LEMMA LinkOfModule ==
  ASSUME Composed, Apart, NEW a \in Loading!Aliases, NEW k, NEW t, Loading!IsName(t),
         k # "subflow_path"
  PROVE  Pairs(Loading!Found(Loading!Reference(k, Loading!Rewritten(a, Loading!Reference(k, t))))) = Loading!Meaning(a, Loading!Reference(k, t))
<1>0. Loading!Physical \notin Loading!Aliases /\ a \in Owners
  BY ComposedTells DEF Owners
<1>1. /\ Len(t) \in Nat \ {0} /\ t = <<t[1]>> \o Tail(t) /\ Tail(t) \in Seq(Loading!Range(t))
           /\ t \in Seq(Loading!Range(t))
      /\ Len(Tail(t)) = Len(t) - 1
      /\ Len(t) = 1 => t = <<t[1]>>
      /\ Len(t) > 1 => Tail(t)[1] = t[2]
  BY NameTells
<1>2. Loading!Rewritten(a, Loading!Reference(k, t)) = IF k =
        "$ref" THEN Loading!ResourceReference(a, t) ELSE Loading!Qualified(a, t)
  BY Redirected DEF Loading!Rewritten
<1>3. CASE k = "$ref"
  <2>0. Loading!Section(k) = "resources"
    BY <1>3 DEF Loading!Section
  <2>1. CASE t[1] \notin Loading!Aliases
    <3>1. Loading!Rewritten(a, Loading!Reference(k, t)) = <<Loading!Physical, a>> \o t
      BY <1>2, <1>3, <2>1 DEF Loading!ResourceReference
    <3>2. Loading!FoundResource(<<Loading!Physical, a>> \o t) = At("resources", <<Loading!Physical, a, t[1]>>)
      <4>1. t \in Seq(Loading!Range(t)) /\ Len(t) # 0
        BY <1>1
      <4>2. /\ (<<Loading!Physical, a>> \o t)[1] = Loading!Physical
            /\ SubSeq(<<Loading!Physical, a>> \o t, 1, 3) = <<Loading!Physical, a, t[1]>>
        BY <4>1, Coordinates
      <4> QED
        BY <1>0, <4>2, FoundResourceTells
    <3>3. Loading!Meaning(a, Loading!Reference(k, t)) = Called(a, "resources", <<t[1]>>)
      BY <2>0, <2>1, MeantHere DEF NameOf
    <3> QED
      BY <2>0, <3>1, <3>2, <3>3, FoundTells, ResourceInModule
  <2>2. CASE t[1] \in Loading!Aliases /\ Len(t) > 1
    <3>1. Loading!Rewritten(a, Loading!Reference(k, t)) = <<Loading!Physical>> \o t
      BY <1>2, <1>3, <2>2 DEF Loading!ResourceReference
    <3>2. Loading!FoundResource(<<Loading!Physical>> \o t) = At("resources", <<Loading!Physical, t[1], t[2]>>)
      <4>1. t \in Seq(Loading!Range(t)) /\ Len(t) > 1
        BY <1>1, <2>2
      <4>2. /\ (<<Loading!Physical>> \o t)[1] = Loading!Physical
            /\ SubSeq(<<Loading!Physical>> \o t, 1, 3) = <<Loading!Physical, t[1], t[2]>>
        BY <4>1, Coordinates
      <4> QED
        BY <1>0, <4>2, FoundResourceTells
    <3>3. Len(t) # 1
      BY <1>1, <2>2
    <3>4. NameOf(k, Tail(t)) = <<t[2]>>
      BY <1>1, <2>0, <2>2 DEF NameOf
    <3>5. Loading!Meaning(a, Loading!Reference(k, t)) = Called(t[1], "resources", <<t[2]>>)
      BY <1>0, <2>0, <2>2, <3>3, <3>4, MeantBehindAlias
    <3> QED
      BY <2>0, <2>2, <3>1, <3>2, <3>5, FoundTells, ResourceInModule
  <2>3. CASE t[1] \in Loading!Aliases /\ Len(t) = 1
    <3>1. Loading!Rewritten(a, Loading!Reference(k, t)) = t
      BY <1>2, <1>3, <2>3 DEF Loading!ResourceReference
    <3> QED
      BY <1>0, <2>3, <3>1, FoundBehindAlias
  <2> QED
    BY <1>1, <2>1, <2>2, <2>3
<1>4. CASE k # "$ref" /\ t[1] \in Loading!Aliases
  <2>1. Loading!Rewritten(a, Loading!Reference(k, t)) = t
    BY <1>2, <1>4 DEF Loading!Qualified
  <2> QED
    BY <1>0, <1>4, <2>1, FoundBehindAlias
<1>5. CASE k # "$ref" /\ t[1] \notin Loading!Aliases
  <2>1. Loading!Rewritten(a, Loading!Reference(k, t)) = <<a>> \o t
    BY <1>2, <1>5 DEF Loading!Qualified
  <2>2. Loading!Meaning(a, Loading!Reference(k, t)) = Called(a, Loading!Section(k), NameOf(k, t))
    BY <1>5, MeantHere
  <2>3. CASE Loading!Section(k) # "resources"
    <3>1. Pairs(At(Loading!Section(k), <<a>> \o t)) = Called(a, Loading!Section(k), t)
      BY <1>1, <2>3, FoundInModule
    <3>2. NameOf(k, t) = t
      BY <2>3 DEF NameOf
    <3> QED
      BY <2>1, <2>2, <2>3, <3>1, <3>2, FoundTells
  <2>4. CASE Loading!Section(k) = "resources"
    <3>1. /\ (<<a>> \o t)[1] = a /\ Len(<<a>> \o t) > 1 /\ (<<a>> \o t)[2] = t[1]
      BY <1>1, ConsIs
    <3>2. Loading!FoundResource(<<a>> \o t) = At("resources", <<Loading!Physical, a, t[1]>>)
      BY <1>0, <3>1, FoundResourceTells
    <3>3. NameOf(k, t) = <<t[1]>>
      BY <2>4 DEF NameOf
    <3> QED
      BY <2>1, <2>2, <2>4, <3>2, <3>3, FoundTells, ResourceInModule
  <2> QED
    BY <2>3, <2>4
<1> QED
  BY <1>3, <1>4, <1>5

(* What the entry of a declaration was written as.                         *)
LEMMA WrittenIs ==
  ASSUME Composed, NEW o \in Owners, NEW x \in Loading!DeclarationsOf(o), NEW d, HasEntry(d, o, x)
  PROVE  Loading!Written(d) = x.refs
<1>1. \A e \in Loading!DeclarationsOf(o) : e.section = d.section /\ e.name = d.name <=> e = x
  BY ComposedTells DEF HasEntry, Loading!DeclaredOnce
<1>2. d.owner = o
  BY DEF HasEntry
<1>3. (CHOOSE e \in Loading!DeclarationsOf(o) : e.section = d.section /\ e.name = d.name) = x
  BY <1>1
<1> QED
  BY <1>2, <1>3 DEF Loading!Written

LEMMA LinksHold == ASSUME Composed PROVE Loading!LinksAreFaithful
<1> SUFFICES ASSUME Apart, NEW d \in composed, NEW ref \in Loading!Written(d),
                    ref.kind # "subflow_path"
             PROVE  Loading!Finds(d, ref) = Loading!Meaning(d.owner, ref)
  BY ApartTells DEF Loading!LinksAreFaithful
<1> DEFINE to == IF d.owner = "root" THEN ref.to ELSE Loading!Rewritten(d.owner, ref)
<1>1. PICK o \in Owners : \E x \in Loading!DeclarationsOf(o) : d = EntryOf(Loading!Aliases, o, x)
  BY ComposedTells
<1>2. PICK x \in Loading!DeclarationsOf(o) : d = EntryOf(Loading!Aliases, o, x)
  BY <1>1
<1>3. HasEntry(d, o, x) /\ d.owner = o
  BY <1>2, EntryTells DEF HasEntry
<1>4. ref \in x.refs
  BY <1>3, WrittenIs
<1>5. PICK k, t : ref = Loading!Reference(k, t) /\ ref.to = t /\ Loading!IsName(t)
  BY <1>4, DeclarationTells
<1>6. [ref EXCEPT !.to = to] = Loading!Reference(k, to)
  BY <1>5, Redirected
<1>7. Loading!Finds(d, ref) = Pairs(Loading!Found(Loading!Reference(k, to))) /\ k # "subflow_path"
  BY <1>5, <1>6, Redirected DEF Loading!Finds, Pairs
<1>8. CASE o = "root"
  BY <1>3, <1>5, <1>7, <1>8, LinkOfRoot
<1>9. CASE o \in Loading!Aliases
  <2>1. o # "root"
    BY <1>9, ComposedTells
  <2> QED
    BY <1>3, <1>5, <1>7, <1>9, <2>1, LinkOfModule
<1> QED
  BY <1>8, <1>9 DEF Owners

(* The nodes of a path are left as they are, wherever it was written.      *)
LEMMA PathsHold == ASSUME Composed PROVE Loading!PathsAreOfTheRoot
<1> SUFFICES ASSUME Apart, NEW d \in composed, NEW ref \in Loading!Written(d),
                    ref.kind = "subflow_path"
             PROVE  /\ Loading!Finds(d, ref) = Loading!Meaning("root", ref)
                    /\ ref.to[1] \notin Loading!Aliases =>
                         \A f \in Loading!Finds(d, ref) : f[1] = "root"
  BY ApartTells DEF Loading!PathsAreOfTheRoot
<1>1. PICK o \in Owners : \E x \in Loading!DeclarationsOf(o) : d = EntryOf(Loading!Aliases, o, x)
  BY ComposedTells
<1>2. PICK x \in Loading!DeclarationsOf(o) : d = EntryOf(Loading!Aliases, o, x)
  BY <1>1
<1>3. HasEntry(d, o, x)
  BY <1>2, EntryTells DEF HasEntry
<1>4. ref \in x.refs
  BY <1>3, WrittenIs
<1>5. PICK k, t : ref = Loading!Reference(k, t) /\ ref.to = t /\ Loading!IsName(t)
  BY <1>4, DeclarationTells
<1>6. Loading!Rewritten(d.owner, ref) = ref.to
  BY DEF Loading!Rewritten
<1>7. Loading!Finds(d, ref) = Pairs(Loading!Found(ref))
  BY <1>5, <1>6, Redirected DEF Loading!Finds, Pairs
<1>8. Loading!Finds(d, ref) = Loading!Meaning("root", ref)
  BY <1>5, <1>7, LinkOfRoot
<1>9. ASSUME t[1] \notin Loading!Aliases
      PROVE  \A f \in Loading!Finds(d, ref) : f[1] = "root"
  BY <1>5, <1>8, <1>9, MeantHere DEF Called
<1> QED
  BY <1>5, <1>8, <1>9

(* Nothing is lost: an owner's entries are as many as its declarations.    *)
LEMMA NothingLost == ASSUME Composed PROVE Loading!NothingIsLost
<1>1. ASSUME NEW d \in composed, NEW e \in composed, d.section = e.section, d.at = e.at PROVE d = e
  BY <1>1, ComposedTells DEF Loading!Collide
<1>2. ASSUME NEW d \in composed PROVE d.owner \in Owners
  BY ComposedTells, EntryTells DEF HasEntry
<1>3. ASSUME NEW o \in Owners
      PROVE  Cardinality({d \in composed : d.owner = o}) = Cardinality(Loading!DeclarationsOf(o))
  <2> DEFINE D == Loading!DeclarationsOf(o)
             f == [d \in D |-> EntryOf(Loading!Aliases, o, d)]
  <2>1. Loading!DeclaredOnce(D)
    BY ComposedTells
  <2>2. ASSUME NEW d \in D, NEW e \in D, f[d] = f[e] PROVE d = e
    <3>1. EntryOf(Loading!Aliases, o, d) = EntryOf(Loading!Aliases, o, e)
      BY <2>2
    <3>2. d.section = e.section /\ d.name = e.name
      BY <3>1, EntryTells DEF HasEntry
    <3> QED
      BY <2>1, <3>2 DEF Loading!DeclaredOnce
  <2>3. {d \in composed : d.owner = o} = {f[d] : d \in D}
    <3>1. \A d \in D : EntryOf(Loading!Aliases, o, d) \in composed /\ EntryOf(Loading!Aliases, o, d).owner = o
      BY ComposedTells, EntryTells DEF HasEntry
    <3>2. ASSUME NEW e \in composed, e.owner = o PROVE \E d \in D : e = EntryOf(Loading!Aliases, o, d)
      <4>1. PICK x \in Owners : \E d \in Loading!DeclarationsOf(x) : e = EntryOf(Loading!Aliases, x, d)
        BY ComposedTells
      <4>2. PICK d \in Loading!DeclarationsOf(x) : e = EntryOf(Loading!Aliases, x, d)
        BY <4>1
      <4> QED
        BY <3>2, <4>2, EntryTells DEF HasEntry
    <3>3. {d \in composed : d.owner = o} = {EntryOf(Loading!Aliases, o, d) : d \in D}
      BY <3>1, <3>2
    <3> QED
      BY <3>3
  <2>4. IsFiniteSet(D)
    BY <2>1 DEF Loading!DeclaredOnce, Loading!IsFiniteSet, IsFiniteSet
  <2> HIDE DEF f, D
  <2>5. Cardinality({f[d] : d \in D}) = Cardinality(D)
    BY <2>2, <2>4, InjectiveImage
  <2> QED
    BY <2>3, <2>5 DEF D
<1>4. \A S : Loading!Cardinality(S) = Cardinality(S)
  BY DEF Loading!Cardinality, Cardinality
<1> QED
  BY <1>1, <1>2, <1>3, <1>4 DEF Loading!NothingIsLost, Owners

-----------------------------------------------------------------------------
(* A circle of the composed scenario was one where it was written: that of *)
(* its resources of modules, if it has any, as these depend on one another *)
(* alone; otherwise the circle itself, which then is all of the root.      *)
LEMMA ModuleDependsAsWritten ==
  ASSUME Composed, Apart, NEW a \in Loading!Aliases, NEW x \in Loading!DeclarationsOf(a),
         NEW d, HasEntry(d, a, x), NEW ref \in d.refs, ref.kind = "$ref", NEW e \in Loading!DependsOn(ref.to)
  PROVE  \E r \in Loading!Written(d) :
           r.kind = "$ref" /\ <<e.owner, e.name>> \in Loading!Meaning(a, r) /\ e.owner \in Loading!Aliases
<1>0. a # "root" /\ Loading!Physical \notin Loading!Aliases /\ a \in Owners
  BY ComposedTells DEF Owners
<1>1. d.refs = {[r EXCEPT !.to = Moved(Loading!Aliases, a, r)] : r \in x.refs}
  BY <1>0 DEF HasEntry, RefsOf
<1>2. PICK r \in x.refs : ref = [r EXCEPT !.to = Moved(Loading!Aliases, a, r)]
  BY <1>1
<1>3. PICK k, t : r = Loading!Reference(k, t) /\ Loading!IsName(t)
  BY <1>0, <1>2, DeclarationTells
<1>4. ref = Loading!Reference(k, Moved(Loading!Aliases, a, r)) /\ ref.kind = k
        /\ ref.to = Moved(Loading!Aliases, a, r)
  BY <1>2, <1>3, Redirected
<1>5. k = "$ref" /\ r.kind = "$ref" /\ r.to = t
  BY <1>3, <1>4, Redirected
<1>6. Loading!Rewritten(a, r) = Loading!ResourceReference(a, t)
        /\ Moved(Loading!Aliases, a, r) = Loading!ResourceReference(a, t)
  BY <1>5 DEF Loading!Rewritten, Moved, Loading!ResourceReference, ResourceWithin
<1>7. ref = Loading!Reference(k, Loading!Rewritten(a, r)) /\ ref.to = Loading!ResourceReference(a, t)
  BY <1>4, <1>6
<1>8. Pairs(Loading!Found(ref)) = Loading!Meaning(a, r)
  BY <1>3, <1>5, <1>7, LinkOfModule
<1>9. Loading!Section(k) = "resources"
  BY <1>5 DEF Loading!Section
<1>10. Loading!Found(ref) = Loading!FoundResource(ref.to)
  BY <1>7, <1>6, <1>9, FoundTells
<1>11. t \in Seq(Loading!Range(t)) /\ Len(t) \in Nat \ {0}
  BY <1>3, NameTells
<1>12. Loading!DependsOn(ref.to) = Loading!FoundResource(ref.to)
  <2>1. CASE t[1] \notin Loading!Aliases
    <3>1. ref.to = <<Loading!Physical, a>> \o t
      BY <1>7, <2>1 DEF Loading!ResourceReference
    <3>2. ref.to[1] = Loading!Physical
      BY <1>11, <3>1, Coordinates
    <3> QED
      BY <1>0, <3>2 DEF Loading!DependsOn
  <2>2. CASE t[1] \in Loading!Aliases /\ Len(t) > 1
    <3>1. ref.to = <<Loading!Physical>> \o t
      BY <1>7, <2>2 DEF Loading!ResourceReference
    <3>2. ref.to[1] = Loading!Physical
      BY <1>11, <2>2, <3>1, Coordinates
    <3> QED
      BY <1>0, <3>2 DEF Loading!DependsOn
  <2>3. CASE t[1] \in Loading!Aliases /\ Len(t) = 1
    <3>1. ref.to = t
      BY <1>7, <2>3 DEF Loading!ResourceReference
    <3>2. Loading!FoundResource(t) = {z \in composed : z.section = "resources" /\ z.owner = t[1]}
      BY <1>0, <2>3, FoundResourceTells
    <3>3. Loading!DependsOn(t) = {z \in composed : z.owner = t[1] /\ z.section = "resources"}
      BY <2>3 DEF Loading!DependsOn
    <3> QED
      BY <3>1, <3>2, <3>3
  <2>4. Len(t) = 1 \/ Len(t) > 1
    <3>1. PICK l \in Nat \ {0} : l = Len(t)
      BY <1>11
    <3> QED
      BY <3>1
  <2> QED
    BY <2>1, <2>2, <2>3, <2>4
<1>13. <<e.owner, e.name>> \in Loading!Meaning(a, r)
  BY <1>8, <1>10, <1>12 DEF Pairs
<1>14. \A z \in Loading!Meaning(a, r) : z[1] \in Loading!Aliases
  <2>1. \A s, n : \A b \in Loading!Aliases : \A z \in Called(b, s, n) : z[1] \in Loading!Aliases
    BY DEF Called
  <2>2. CASE t[1] \notin Loading!Aliases
    BY <1>3, <2>1, <2>2, MeantHere
  <2>3. CASE t[1] \in Loading!Aliases /\ Len(t) # 1
    BY <1>0, <1>3, <2>1, <2>3, MeantBehindAlias
  <2>4. CASE t[1] \in Loading!Aliases /\ Len(t) = 1
    <3>1. Loading!Meaning(a, r) = {<<t[1], z.name>> : z \in {y \in Loading!DeclarationsOf(t[1]) : y.section = "resources"}}
      BY <1>0, <1>3, <1>9, <2>4, MeantBehindAlias
    <3> QED
      BY <2>4, <3>1
  <2> QED
    BY <2>2, <2>3, <2>4
<1>15. r \in Loading!Written(d)
  BY <1>0, <1>2, WrittenIs
<1>16. e.owner \in Loading!Aliases
  BY <1>13, <1>14
<1> QED
  BY <1>5, <1>13, <1>15, <1>16

LEMMA RootDependsAsWritten ==
  ASSUME Composed, Apart, NEW x \in Loading!DeclarationsOf("root"),
         NEW d, HasEntry(d, "root", x), NEW ref \in d.refs, ref.kind =
           "$ref", NEW e \in Loading!DependsOn(ref.to)
  PROVE  \/ e.owner \in Loading!Aliases
         \/ ref \in Loading!Written(d) /\ <<e.owner, e.name>> \in Loading!Meaning("root", ref)
<1>0. "root" \in Owners
  BY DEF Owners
<1>1. ref \in x.refs /\ ref \in Loading!Written(d)
  BY <1>0, WrittenIs DEF HasEntry, RefsOf
<1>2. PICK k, t : ref = Loading!Reference(k, t) /\ Loading!IsName(t)
  BY <1>0, <1>1, DeclarationTells
<1>3. ref.to = t /\ k = "$ref"
  BY <1>2, Redirected
<1>4. Loading!Section(k) = "resources"
  BY <1>3 DEF Loading!Section
<1>5. CASE t[1] \in Loading!Aliases
  BY <1>3, <1>5 DEF Loading!DependsOn
<1>6. CASE t[1] \notin Loading!Aliases
  <2>1. Loading!DependsOn(t) = Loading!Found(ref)
    BY <1>2, <1>4, <1>6, FoundTells DEF Loading!DependsOn
  <2>2. Pairs(Loading!Found(ref)) = Loading!Meaning("root", ref)
    BY <1>2, LinkOfRoot
  <2> QED
    BY <1>1, <1>3, <2>1, <2>2 DEF Pairs
<1> QED
  BY <1>5, <1>6

LEMMA CyclesWereWritten == ASSUME Composed PROVE Loading!NoNewCycles
<1> SUFFICES ASSUME Apart, NEW S \in SUBSET {d \in composed : d.section = "resources"}, S # {},
                    \A d \in S : \E ref \in d.refs : ref.kind = "$ref"
                      /\ Loading!DependsOn(ref.to) \cap S # {}
             PROVE  \E T \in SUBSET S :
                      T # {} /\ \A d \in T : \E ref \in Loading!Written(d) : ref.kind = "$ref" /\
                        \E e \in T : <<e.owner, e.name>> \in Loading!Meaning(d.owner, ref)
  BY ApartTells DEF Loading!NoNewCycles
<1> DEFINE M == {d \in S : d.owner \in Loading!Aliases}
<1>1. ASSUME NEW d \in S
      PROVE  \E o \in Owners : \E x \in Loading!DeclarationsOf(o) : HasEntry(d, o, x) /\ d.owner = o
  <2>1. PICK o \in Owners : \E x \in Loading!DeclarationsOf(o) : d = EntryOf(Loading!Aliases, o, x)
    BY ComposedTells
  <2>2. PICK x \in Loading!DeclarationsOf(o) : d = EntryOf(Loading!Aliases, o, x)
    BY <2>1
  <2>3. HasEntry(d, o, x)
    BY <2>2, EntryTells
  <2> QED
    BY <2>3 DEF HasEntry
<1>2. ASSUME NEW d \in M
      PROVE  \E r \in Loading!Written(d) : r.kind = "$ref"
               /\ \E e \in M : <<e.owner, e.name>> \in Loading!Meaning(d.owner, r)
  <2>1. PICK a \in Loading!Aliases : d.owner = a /\ \E x \in Loading!DeclarationsOf(a) : HasEntry(d, a, x)
    BY <1>1, <1>2
  <2>2. PICK x \in Loading!DeclarationsOf(a) : HasEntry(d, a, x)
    BY <2>1
  <2>3. PICK ref \in d.refs : ref.kind = "$ref" /\ Loading!DependsOn(ref.to) \cap S # {}
    OBVIOUS
  <2>4. PICK e \in S : e \in Loading!DependsOn(ref.to)
    BY <2>3
  <2>5. \E r \in Loading!Written(d) :
          r.kind = "$ref" /\ <<e.owner, e.name>> \in Loading!Meaning(a, r) /\ e.owner \in Loading!Aliases
    BY <2>2, <2>3, <2>4, ModuleDependsAsWritten
  <2> QED
    BY <2>1, <2>4, <2>5
<1>3. CASE M # {}
  <2>1. M \in SUBSET S
    OBVIOUS
  <2> HIDE DEF M
  <2> QED
    BY <1>2, <1>3, <2>1
<1>4. CASE M = {}
  <2>1. ASSUME NEW d \in S
        PROVE  \E r \in Loading!Written(d) : r.kind = "$ref"
                 /\ \E e \in S : <<e.owner, e.name>> \in Loading!Meaning(d.owner, r)
    <3>1. d.owner = "root" /\ \E x \in Loading!DeclarationsOf("root") : HasEntry(d, "root", x)
      BY <1>1, <1>4 DEF Owners
    <3>2. PICK x \in Loading!DeclarationsOf("root") : HasEntry(d, "root", x)
      BY <3>1
    <3>3. PICK ref \in d.refs : ref.kind = "$ref" /\ Loading!DependsOn(ref.to) \cap S # {}
      OBVIOUS
    <3>4. PICK e \in S : e \in Loading!DependsOn(ref.to)
      BY <3>3
    <3>5. e.owner \notin Loading!Aliases
      BY <1>4
    <3>6. ref \in Loading!Written(d) /\ <<e.owner, e.name>> \in Loading!Meaning("root", ref)
      BY <3>2, <3>3, <3>4, <3>5, RootDependsAsWritten
    <3> QED
      BY <3>1, <3>3, <3>6
  <2> QED
    BY <2>1
<1> QED
  BY <1>3, <1>4

(* What was composed depends on what was loaded alone.                     *)
LEMMA IdentityTells == ASSUME Composed PROVE Loading!IdentityIsContent
<1> SUFFICES ASSUME first # <<>>, Loading!Identity = first[1] PROVE composed = first[2]
  BY DEF Loading!IdentityIsContent
<1>1. PICK r, m : first = <<<<r, m>>, MergedOf(r, m)>>
  BY DEF Composed, CompositionInv, FirstIsMerged
<1>2. layout.root = r /\ loaded = m
  BY <1>1 DEF Loading!Identity
<1>3. composed = MergedOf(layout.root, loaded)
  BY ComposedTells, MergedIsFunction
<1> QED
  BY <1>1, <1>2, <1>3

LEMMA CompositionSound ==
  ASSUME Loading!LayoutsAreWellFormed, CompositionInv PROVE Loading!CompositionIsFaithful
<1>1. Loading!TypeOK /\ Loading!AcceptedWithinBounds
  BY DEF CompositionInv, CompositionTyped
<1>2. CASE phase = "composed"
  <2>1. Composed
    BY <1>2 DEF Composed
  <2> QED
    BY <1>1, <2>1, LinksHold, PathsHold, NothingLost, CyclesWereWritten, IdentityTells
       DEF Loading!CompositionIsFaithful
<1>3. CASE phase # "composed"
  BY <1>1, <1>3
     DEF Loading!CompositionIsFaithful, Loading!LinksAreFaithful,
       Loading!PathsAreOfTheRoot, Loading!NothingIsLost,
       Loading!NoNewCycles, Loading!IdentityIsContent
<1> QED
  BY <1>2, <1>3

-----------------------------------------------------------------------------
(* The components together.                                                *)
DefinitionsInv ==
  /\ component = "loading" => CompositionInv
  /\ component = "compiling" => CompileInv
  /\ component = "judging" => ExpressionInv
  /\ component = "running" => SuiteInv

LEMMA DefinitionsStart ==
  ASSUME DefinitionsInit PROVE DefinitionsInv
<1>1. ASSUME component = "compiling" PROVE CompileInv
  <2>1. Compiling!Init
    BY <1>1 DEF DefinitionsInit
  <2> QED
    BY <2>1, ProgramsAssumption, CompileInit
<1>2. ASSUME component = "judging" PROVE ExpressionInv
  <2>1. Judging!Init
    BY <1>2 DEF DefinitionsInit
  <2> QED
    BY <2>1, DerivationsAssumption, ExpressionInit
<1>3. ASSUME component = "running" PROVE SuiteInv
  <2>1. Running!Init
    BY <1>3 DEF DefinitionsInit
  <2> QED
    BY <2>1, WorldsAssumption, SuiteInit
<1>4. ASSUME component = "loading" PROVE CompositionInv
  <2>1. Loading!Init
    BY <1>4 DEF DefinitionsInit
  <2> QED
    BY <2>1, LayoutsAssumption, CompositionInit
<1> QED
  BY <1>1, <1>2, <1>3, <1>4 DEF DefinitionsInv

LEMMA DefinitionsStep ==
  ASSUME DefinitionsInv, [DefinitionsNext]_definitions PROVE DefinitionsInv'
<1>1. UNCHANGED component
  BY DEF DefinitionsNext, definitions
<1>2. ASSUME component = "compiling" PROVE CompileInv'
  <2>1. Compiling!Next \/ UNCHANGED definitions
    BY <1>2 DEF DefinitionsNext
  <2>2. [Compiling!Next]_(Compiling!vars)
    BY <2>1 DEF definitions, OfCompiled, Compiling!vars, Compiling!search
  <2>3. CompileInv
    BY <1>2 DEF DefinitionsInv
  <2> QED
    BY <2>2, <2>3, ProgramsAssumption, CompileNext
<1>3. ASSUME component = "judging" PROVE ExpressionInv'
  <2>1. Judging!Next \/ UNCHANGED definitions
    BY <1>3 DEF DefinitionsNext
  <2>2. [Judging!Next]_(Judging!vars)
    BY <2>1 DEF definitions, OfJudged, Judging!vars, Judging!parsing, Judging!deriving
  <2>3. ExpressionInv
    BY <1>3 DEF DefinitionsInv
  <2> QED
    BY <2>2, <2>3, DerivationsAssumption, ExpressionNext
<1>4. ASSUME component = "running" PROVE SuiteInv'
  <2>1. Running!Next \/ UNCHANGED definitions
    BY <1>4 DEF DefinitionsNext
  <2>2. [Running!Next]_(Running!vars)
    BY <2>1 DEF definitions, OfRun, Running!vars, Running!budget, Running!suite
  <2>3. SuiteInv
    BY <1>4 DEF DefinitionsInv
  <2> QED
    BY <2>2, <2>3, WorldsAssumption, SuiteNext
<1>5. ASSUME component = "loading" PROVE CompositionInv'
  <2>1. Loading!Next \/ UNCHANGED definitions
    BY <1>5 DEF DefinitionsNext
  <2>2. [Loading!Next]_(Loading!vars)
    BY <2>1 DEF definitions, OfLoaded, Loading!vars
  <2>3. CompositionInv
    BY <1>5 DEF DefinitionsInv
  <2> QED
    BY <2>2, <2>3, LayoutsAssumption, CompositionNext
<1> QED
  BY <1>1, <1>2, <1>3, <1>4, <1>5 DEF DefinitionsInv

LEMMA DefinitionsInvariance == DefinitionsSpec => []DefinitionsInv
<1>1. DefinitionsInit => DefinitionsInv
  BY DefinitionsStart
<1>2. DefinitionsInv /\ [DefinitionsNext]_definitions => DefinitionsInv'
  BY DefinitionsStep
<1> QED
  BY <1>1, <1>2, PTL DEF DefinitionsSpec

(* Whatever files are named and grow to while they are read: no more than  *)
(* the bounds is accepted, every reference finds in the composed scenario  *)
(* what it meant where it was written, but the nodes of a fault's path,    *)
(* which find what they mean in the root; nothing is lost or merged, no    *)
(* resources come to depend on each other in a circle, and the identity    *)
(* tells what was composed (composition/resolver.py; CompositionIsFaithful)*)
THEOREM DefinitionsComposeFaithfully == DefinitionsSpec => []CompositionIsFaithful
<1>1. DefinitionsInv => CompositionIsFaithful
  BY LayoutsAssumption, CompositionSound DEF DefinitionsInv, CompositionIsFaithful
<1> QED
  BY <1>1, DefinitionsInvariance, PTL

(* Whatever is compiled and judged: a cycle of subflows is refused only    *)
(* where there is one and nothing compiled nests a flow in itself,         *)
(* positions agree with transitions, a fault hits a field the selected     *)
(* step declares; an accepted expression has a value wherever evaluation   *)
(* knows what it refers to, and derived values follow what they refer to   *)
(* (compile_dsl, _parse_expression, _derived_order; FrontEndIsSound).      *)
THEOREM DefinitionsCompileSoundly == DefinitionsSpec => []FrontEndIsSound
<1>1. DefinitionsInv => FrontEndIsSound
  BY ProgramsAssumption, DerivationsAssumption, CompileSound, ExpressionSound
  DEF DefinitionsInv, FrontEndIsSound
<1> QED
  BY <1>1, DefinitionsInvariance, PTL

(* Whatever the executions do, whichever plans are run and whatever is     *)
(* done to the evidence: budgets are shared and never exceeded, each case  *)
(* has the status its execution deserves, what verifies or replays is what *)
(* was executed, and the summary accounts for every case                   *)
(* (execute_actor_suite, replay_actor_suite_case; SuiteIsGenuine).         *)
THEOREM DefinitionsRunGenuinely == DefinitionsSpec => []SuiteIsGenuine
<1>1. DefinitionsInv => SuiteIsGenuine
  BY SuiteSound DEF DefinitionsInv, SuiteIsGenuine
<1> QED
  BY <1>1, DefinitionsInvariance, PTL
=============================================================================
