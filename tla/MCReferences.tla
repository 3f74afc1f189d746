----------------------------- MODULE MCReferences -----------------------------
(***************************************************************************)
(* What is compared with a second account of itself: expressions by two    *)
(* evaluators, the matrix of cases of Engine 1 with the product of its     *)
(* dimensions, the walk of an actor with the recursion of Engine 1, the    *)
(* impact of a change with the graph.  A behaviour is one of one component;*)
(* variables of the same name are shared, and those of the others rest.    *)
(***************************************************************************)
EXTENDS Values, TLC, MCFlowTables, MCComparisons

CONSTANTS
  Literals, Fields, Places, MaxStack, MaxSteps,
  Axes, Comparands, Inputs, MaxDimensions, MaxRaw, MaxRetained,
  RoutingLimit, Truth(_, _, _), CountOf(_, _, _), Binding(_, _, _), Effect(_, _),
  Pairs, MaxChanges, MaxNodes, MaxEdges, MaxPath, MaxRecords

VARIABLES
  component,
  stack, last, steps, plan, phase, checked, position, index, seen,
  retained, wanted, inputs, bound, failure,
  flows, initial, frames, state, trace, result,
  code, left, right, offered, changes, before, union, change, queue,
  visited, best, records

Evaluating == INSTANCE Semantics
Expanding == INSTANCE Matrix
Walking == INSTANCE SoloActor WITH Programs <- MCTables, InitialStates <- MCStates
Comparing == INSTANCE Impact WITH Comparisons <- Pairs, MaxDepth <- MaxPath

-----------------------------------------------------------------------------
(* Values of every type, and those that are alike to Python only.          *)
MCLiterals ==
  {Missing, Null, Bool(TRUE), Bool(FALSE), Integer(1), Integer(0), Integer(-3), Dec(10, 1), Dec(15, 1), Dec(100, 2),
   Text(""), Text("b"), Time(4, 0), Time(5, 1), Map({<<"$type", Text("missing")>>}),
   Listed(<<Map({<<"f", Integer(1)>>}), Map({<<"f", Dec(15, 1)>>})>>), Listed(<<Integer(1)>>)}

(* Up to three dimensions of one to three values, some of them repeated,   *)
(* some the same to Python only.                                           *)
MCAxes == {<<Integer(0)>>, <<Integer(1), Integer(0)>>, <<Integer(1), Bool(TRUE)>>, <<Dec(10, 1), Integer(1), Integer(2)>>,
           <<Text("b"), Text("b")>>}
MCComparands == {Integer(1), Bool(TRUE), Integer(2)}

-----------------------------------------------------------------------------
Resting == "resting"
OfEvaluated == <<stack, last, steps>>
OfExpanded == <<plan, checked, position, index, seen, retained, wanted,
  inputs, bound, failure>>
OfWalked == <<flows, initial, frames, state, trace, result>>
OfCompared == <<code, left, right, offered, changes, before, union, change,
  queue, visited, best, records>>

(* Before anything happens to them.                                        *)
NothingEvaluated == stack = Resting /\ last = Resting /\ steps = Resting
NothingExpanded ==
  /\ plan = Resting /\ checked = Resting /\ position = Resting
  /\ index = Resting /\ seen = Resting /\ retained = Resting
  /\ wanted = Resting /\ inputs = Resting /\ bound = Resting
  /\ failure = Resting
NothingWalked ==
  /\ flows = Resting /\ initial = Resting /\ frames = Resting
  /\ state = Resting /\ trace = Resting /\ result = Resting
NothingCompared ==
  /\ code = Resting /\ left = Resting /\ right = Resting
  /\ offered = Resting /\ changes = Resting /\ before = Resting
  /\ union = Resting /\ change = Resting /\ queue = Resting
  /\ visited = Resting /\ best = Resting /\ records = Resting

ReferencesInit ==
  \/ /\ component = "evaluating" /\ Evaluating!Init /\ phase = Resting
     /\ NothingExpanded /\ NothingWalked /\ NothingCompared
  \/ /\ component = "expanding" /\ Expanding!Init
     /\ NothingEvaluated /\ NothingWalked /\ NothingCompared
  \/ /\ component = "walking" /\ Walking!Init /\ phase = Resting
     /\ NothingEvaluated /\ NothingExpanded /\ NothingCompared
  \/ /\ component = "comparing" /\ Comparing!Init
     /\ NothingEvaluated /\ NothingExpanded /\ NothingWalked

ReferencesNext ==
  \/ /\ component = "evaluating" /\ Evaluating!Next
     /\ UNCHANGED <<component, phase, OfExpanded, OfWalked, OfCompared>>
  \/ /\ component = "expanding" /\ Expanding!Next
     /\ UNCHANGED <<component, OfEvaluated, OfWalked, OfCompared>>
  \/ /\ component = "walking" /\ Walking!Next
     /\ UNCHANGED <<component, phase, OfEvaluated, OfExpanded, OfCompared>>
  \/ /\ component = "comparing" /\ Comparing!Next
     /\ UNCHANGED <<component, OfEvaluated, OfExpanded, OfWalked>>

(* The fairness of SoloActor; the others are checked for safety.           *)
ReferencesSpec ==
  /\ ReferencesInit
  /\ [][ReferencesNext]_<<component, phase, OfEvaluated, OfExpanded, OfWalked,
                         OfCompared>>
  /\ WF_(Walking!vars)(component = "walking" /\ (Walking!CommitStep \/ Walking!Stop))

-----------------------------------------------------------------------------
(* The two evaluators agree, ordering is total, differences tell order,    *)
(* canonical bytes tell values apart, and quotients are exact to a place.  *)
EvaluationIsSound == component = "evaluating" => Evaluating!EvaluationIsSound

(* A matrix is the filtered product of its dimensions, within its bound,   *)
(* and executes what it retained.                                          *)
MatrixIsExact == component = "expanding" => Expanding!MatrixIsExact

(* One actor routed by Engine 2 keeps a stack that points into its flows   *)
(* and executes what Engine 1 executes for the same flow; no two of its    *)
(* commits share an address, nor their random streams; and it gets to the  *)
(* end, as Engine 1 does: its repeats are finite and its subflows do not   *)
(* recur.                                                                  *)
WalksAsEngineOne ==
  /\ [](component = "walking" =>
           Walking!TypeOK /\ Walking!MatchesEngineOne /\ Walking!AddressesUnique)
  /\ component = "walking" => Walking!EventuallyStops

(* Comparison: a change is above everything that differs and only above    *)
(* that; everything reachable from a change is reported, with the class    *)
(* its paths give it; and what is counted is of the graph.                 *)
ComparisonIsSound == component = "comparing" => Comparing!ComparisonIsSound

-----------------------------------------------------------------------------
(* docs/phase5-architecture.md:1001: the public classifications of a       *)
(* finding of impact/2 are four.                                           *)
FindingsAreClassified == component = "comparing" => Comparing!FindingsAreClassified
=============================================================================
