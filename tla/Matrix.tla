--------------------------------- MODULE Matrix ---------------------------------
(***************************************************************************)
(* A scenario matrix: the checks of a plan, its ordered expansion, the     *)
(* selection of a case and the execution of one case or of all of them     *)
(* (matrix/models.py, expand.py, filtering.py, runtime.py).                *)
(***************************************************************************)
EXTENDS Values

CONSTANTS
  Axes,         \* the dimensions a plan may have: sequences of values
  Comparands,   \* values filters compare the first parameter with
  Inputs,       \* names a caller may give a value of its own
  MaxDimensions, MaxRaw, MaxRetained  \* MAX_DIMENSIONS, _RAW_CARDINALITY, _RETAINED_CASES

(* Parameters are named by their dimension; a filter is an operator, a     *)
(* parameter and a value.                                                  *)
Plans == [dims : UNION {[1..n -> Axes] : n \in 0..MaxDimensions},
          filter : {<<"none", 0, Null>>} \cup {<<op, p, v>> : op \in {"$eq", "$lt"}, p \in {1, 2}, v \in Comparands},
          target : BOOLEAN]
(* What a caller wants that offers no case.                                *)
AllCases == [index |-> 0, id |-> <<>>, assignment |-> <<>>]

VARIABLES
  plan,
  phase,       \* "plan", "expand", "expanded", "run", "done" or "failed"
  checked,     \* dimensions multiplied so far, and their product
  position,    \* the combination that is next; <<>> once there is none
  index, seen, \* its number; canonical assignments met
  retained,
  wanted,      \* AllCases, or the one case a caller offers
  inputs,
  bound,       \* cases run, with what they were run with
  failure

vars == <<plan, phase, checked, position, index, seen, retained, wanted, inputs, bound, failure>>
call == <<plan, wanted, inputs>>

Stop(why) == phase' = "failed" /\ failure' = why

-----------------------------------------------------------------------------
Count(d) == Len(plan.dims[d])

(* Mutant: the product is compared once it is there, without its last.     *)
FitsBefore(product, count) == product <= MaxRaw

(* raw_cardinality: cardinality > MAX // count, before it is multiplied.   *)
Fits(product, count) == product <= MaxRaw \div count

Multiply ==
  /\ phase = "plan" /\ checked.upto < Len(plan.dims)
  /\ LET d == checked.upto + 1
     IN IF Fits(checked.product, Count(d))
        THEN checked' = [upto |-> d, product |-> checked.product * Count(d)] /\ UNCHANGED <<phase, failure>>
        ELSE Stop("cardinality") /\ UNCHANGED checked
  /\ UNCHANGED <<call, position, index, seen, retained, bound>>

Begin ==
  /\ phase = "plan" /\ checked.upto = Len(plan.dims)
  /\ phase' = "expand" /\ position' = [d \in DOMAIN plan.dims |-> 1]
  /\ UNCHANGED <<call, checked, index, seen, retained, bound, failure>>

Assignment(pos) == [d \in DOMAIN pos |-> plan.dims[d][pos[d]]]
Canonical(assignment) == [d \in DOMAIN assignment |-> Normalize(assignment[d])]

(* itertools.product: the last dimension changes fastest.                  *)
Following(pos) ==
  LET turn == CHOOSE d \in DOMAIN pos : pos[d] < Count(d) /\ \A e \in (d + 1)..Len(pos) : pos[e] = Count(e)
  IN [d \in DOMAIN pos |-> IF d < turn THEN pos[d] ELSE IF d = turn THEN pos[d] + 1 ELSE 1]
IsLast(pos) == \A d \in DOMAIN pos : pos[d] = Count(d)

(* evaluate_filter                                                         *)
Keeps(assignment) ==
  IF plan.filter[1] = "none" THEN Gives(Bool(TRUE))
  ELSE IF plan.filter[2] \notin DOMAIN assignment THEN Refused
  ELSE Compare(plan.filter[1], assignment[plan.filter[2]], plan.filter[3])

(* Mutant: the identity of a case is its position among those kept.        *)
CaseByPlace(assignment) ==
  [index |-> Len(retained), id |-> <<Len(retained), Canonical(assignment)>>, assignment |-> assignment]

(* stable_case_id over the raw index and the canonical assignment.         *)
Case(assignment) ==
  [index |-> index, id |-> <<index, Canonical(assignment)>>, assignment |-> assignment]

Advance ==
  /\ index' = index + 1 /\ seen' = seen \cup {Canonical(Assignment(position))}
  /\ IF IsLast(position) THEN phase' = "expanded" /\ UNCHANGED position
     ELSE position' = Following(position) /\ UNCHANGED phase
  /\ UNCHANGED failure

(* Mutant: values are told apart as Python does.                           *)
SeenBefore(assignment) ==
  \E other \in seen : \A d \in DOMAIN assignment : PythonEqual(other[d], Normalize(assignment[d]))

(* Mutant: assignments are not compared.                                   *)
SeenNever(assignment) == FALSE

Seen(assignment) == Canonical(assignment) \in seen

Expand ==
  /\ phase = "expand"
  /\ LET a == Assignment(position)
     IN IF Seen(a) THEN Stop("duplicate") /\ UNCHANGED <<position, index, seen, retained>>
        ELSE IF ~IsValue(Keeps(a)) THEN Stop("filter") /\ UNCHANGED <<position, index, seen, retained>>
        ELSE IF Keeps(a) = Gives(Bool(FALSE)) THEN Advance /\ UNCHANGED retained
        ELSE IF Len(retained) >= MaxRetained THEN Stop("retained") /\ UNCHANGED <<position, index, seen, retained>>
        ELSE retained' = Append(retained, Case(a)) /\ Advance
  /\ UNCHANGED <<call, checked, bound>>

-----------------------------------------------------------------------------
(* The fields of a case, compared as Python does: a dataclass.             *)
SameCase(a, b) ==
  /\ a.index = b.index /\ a.id = b.id
  /\ DOMAIN a.assignment = DOMAIN b.assignment
  /\ \A d \in DOMAIN a.assignment : PythonEqual(a.assignment[d], b.assignment[d])

(* Mutant: a case that has the identity of a retained one is that one.     *)
AdmittedById(case) == \E i \in DOMAIN retained : retained[i].id = case.id

(* execute_matrix_case: select_matrix_case by its identity, then equality. *)
Admitted(case) == \E i \in DOMAIN retained : SameCase(retained[i], case)

(* _inputs                                                                 *)
Free(case) == inputs \cap DOMAIN case.assignment = {}

(* What running a case may end as: an error of the run ends a matrix too.  *)
RunCase(case) ==
  IF ~Admitted(case) THEN Stop("identity") /\ UNCHANGED bound
  ELSE IF ~plan.target THEN Stop("target") /\ UNCHANGED bound
  ELSE IF ~Free(case) THEN Stop("binding") /\ UNCHANGED bound
  ELSE \/ bound' = Append(bound, case) /\ UNCHANGED failure
          /\ phase' = IF wanted = AllCases /\ Len(bound) + 1 < Len(retained) THEN "run" ELSE "done"
       \/ Stop("run") /\ UNCHANGED bound

(* A case as it may be offered: as it was retained or with one field       *)
(* replaced, by another value of its type or by one Python takes for it.   *)
Altered(case) ==
  {case} \cup {[case EXCEPT !.index = @ + 1], [case EXCEPT !.id = <<>>]}
  \cup {[case EXCEPT !.assignment[d] = v] : d \in DOMAIN case.assignment, v \in Comparands}

Offer ==
  /\ phase = "expanded" /\ wanted = AllCases
  /\ \E i \in DOMAIN retained, given \in SUBSET Inputs :
       /\ wanted' \in Altered(retained[i]) /\ inputs' = given
  /\ phase' = "run"
  /\ UNCHANGED <<plan, checked, position, index, seen, retained, bound, failure>>

ExecuteCase ==
  /\ phase = "run" /\ wanted # AllCases /\ RunCase(wanted)
  /\ UNCHANGED <<call, checked, position, index, seen, retained>>

ExecuteAll ==
  /\ phase = "expanded" /\ inputs' \in SUBSET Inputs
  /\ phase' = IF retained = <<>> THEN "done" ELSE "run"
  /\ UNCHANGED <<plan, checked, position, index, seen, retained, wanted, bound, failure>>

ExecuteNext ==
  /\ phase = "run" /\ wanted = AllCases /\ RunCase(retained[Len(bound) + 1])
  /\ UNCHANGED <<call, checked, position, index, seen, retained>>

Init ==
  /\ plan \in Plans /\ phase = "plan" /\ checked = [upto |-> 0, product |-> 1]
  /\ position = <<>> /\ index = 0 /\ seen = {} /\ retained = <<>>
  /\ wanted = AllCases /\ inputs = {} /\ bound = <<>> /\ failure = "none"

Next == Multiply \/ Begin \/ Expand \/ Offer \/ ExecuteCase \/ ExecuteAll \/ ExecuteNext

Spec == Init /\ [][Next]_vars
-----------------------------------------------------------------------------
TypeOK ==
  /\ phase \in {"plan", "expand", "expanded", "run", "done", "failed"}
  /\ (phase = "failed") = (failure # "none")
  /\ Len(retained) <= MaxRetained /\ Len(retained) <= index /\ index <= MaxRaw
  /\ Cardinality(seen) = index

Product == FoldLeft(LAMBDA n, axis : n * Len(axis), 1, plan.dims)

(* The bound on combinations is on the product, for every order of the     *)
(* dimensions, and is known before the first of them is made.              *)
CardinalityExact ==
  /\ phase \notin {"plan", "failed"} => Product <= MaxRaw
  /\ failure = "cardinality" => Product > MaxRaw /\ index = 0

(* The combination with a given number, counted in mixed radix.            *)
Numbered(i) ==
  [d \in DOMAIN plan.dims |->
     LET weight == FoldLeft(LAMBDA n, axis : n * Len(axis), 1, SubSeq(plan.dims, d + 1, Len(plan.dims)))
     IN plan.dims[d][((i \div weight) % Len(plan.dims[d])) + 1]]

(* What is retained is what the filter keeps of the combinations so far,   *)
(* in odometer order, under the numbers they have without a filter; the    *)
(* whole of them once expansion ends.                                      *)
RetainedIsProduct ==
  phase # "plan" =>
    LET kept == {i \in 0..(index - 1) : Keeps(Numbered(i)) = Gives(Bool(TRUE))}
    IN /\ {retained[i].index : i \in DOMAIN retained} = kept
       /\ \A i \in DOMAIN retained : retained[i].assignment = Numbered(retained[i].index)
       /\ \A i, j \in DOMAIN retained : i < j => retained[i].index < retained[j].index
       /\ phase \in {"expanded", "run", "done"} => index = Product

(* Duplicates are refused where, and only where, a dimension has a value   *)
(* twice; what Python takes for equal but is not the same value stays.     *)
DuplicatesAreRepeated ==
  LET repeats == \E d \in DOMAIN plan.dims : \E i, j \in DOMAIN plan.dims[d] :
                   i # j /\ CanonicalEqual(plan.dims[d][i], plan.dims[d][j])
  IN /\ failure = "duplicate" => repeats
     /\ phase \in {"expanded", "run", "done"} => ~repeats

(* What runs is a retained case, to Python, with its number and identity,  *)
(* and no input of the caller stands where the matrix assigns one; a       *)
(* matrix runs its cases in their order and ends with all or with none.    *)
ExecutedIsRetained ==
  /\ \A i \in DOMAIN bound : /\ \E j \in DOMAIN retained : SameCase(bound[i], retained[j])
                             /\ inputs \cap DOMAIN bound[i].assignment = {}
  /\ (wanted = AllCases) => /\ bound = SubSeq(retained, 1, Len(bound))
                         /\ (phase = "done" => bound = retained)

(* A matrix is its filtered product, and its cases are what is executed.   *)
MatrixIsExact ==
  TypeOK /\ CardinalityExact /\ RetainedIsProduct /\ DuplicatesAreRepeated /\ ExecutedIsRetained
=============================================================================
