------------------------------- MODULE Semantics -------------------------------
(***************************************************************************)
(* The evaluation of an expression, from its operands up, by the two       *)
(* evaluators of the program: that of scenarios (expressions.py) and that  *)
(* of matrix filters (matrix/filtering.py), which know some operators in   *)
(* common.  Every action applies one operator to the outcomes of the       *)
(* operands on a stack.                                                    *)
(***************************************************************************)
EXTENDS Values

CONSTANTS
  Literals,  \* the values an expression starts from
  Fields,    \* the keys of $object and $sum_field
  Places,    \* places a quotient is cut at
  MaxStack, MaxSteps

VARIABLES
  stack,  \* outcomes of the operands, per evaluator
  last,   \* the operator applied last and its operands
  steps

vars == <<stack, last, steps>>

Both(outcome) == [engine |-> outcome, filter |-> outcome]
(* Mutant: a filter has every operator of the engine.                      *)
EveryOperator(outcome) == Both(outcome)

(* An operator that filters do not have.                                   *)
EngineOnly(outcome) == [engine |-> outcome, filter |-> Refused]

Top(n) == SubSeq(stack, Len(stack) - n + 1, Len(stack))
(* What remains of the stack once an operator has been applied to its top. *)
Apply(op, n, outcome) ==
  /\ Len(stack) >= n /\ Len(stack) - n < MaxStack /\ steps < MaxSteps
  /\ stack' = Append(SubSeq(stack, 1, Len(stack) - n), outcome)
  /\ last' = [op |-> op, operands |-> Top(n)]
  /\ steps' = steps + 1

(* The first operand that failed decides how the operator does.            *)
FirstFailure(outcomes) == SelectSeq(outcomes, LAMBDA o : ~IsValue(o))
OrFails(outcomes, outcome) ==
  IF FirstFailure(outcomes) # <<>> THEN Head(FirstFailure(outcomes)) ELSE outcome
By(evaluator, operands) == [i \in DOMAIN operands |-> operands[i][evaluator]]

-----------------------------------------------------------------------------
Literal(v) == Apply("$literal", 0, Both(Gives(v)))

(* $state of a name that is not declared, $parameter that is not assigned. *)
Unknown == Apply("$state", 0, Both(Refused))

Comparison(op) ==
  LET result(evaluator) ==
        LET os == By(evaluator, Top(2))
        IN OrFails(os, Compare(op, os[1][2], os[2][2]))
  IN /\ Len(stack) >= 2
     /\ Apply(op, 2, [engine |-> result("engine"), filter |-> result("filter")])

Conjoin(op, bs) ==
  IF op = "$and" THEN \A i \in DOMAIN bs : bs[i] ELSE \E i \in DOMAIN bs : bs[i]

(* What stops $and and $or: the first operand that failed or is no boolean.*)
FirstOdd(os) == SelectSeq(os, LAMBDA o : ~IsBool(o))
Conjoined(op, os) == Gives(Bool(Conjoin(op, [i \in DOMAIN os |-> os[i][2][2]])))

(* BooleanMany looks at every operand as it is evaluated; none is left out.*)
ManyByEngine(op, os) ==
  LET odd == FirstOdd(os)
  IN IF odd = <<>> THEN Conjoined(op, os) ELSE IF IsValue(odd[1]) THEN Refused ELSE odd[1]

(* Mutant: an operand that decides is the last that is looked at.          *)
ManyByFilterLazily(op, os) ==
  IF IsBool(os[1]) /\ os[1][2][2] = (op = "$or") THEN os[1]
  ELSE OrFails(os, IF FirstOdd(os) = <<>> THEN Conjoined(op, os) ELSE Refused)

(* A filter evaluates them all, then looks at all the values.              *)
ManyByFilter(op, os) == OrFails(os, IF FirstOdd(os) = <<>> THEN Conjoined(op, os) ELSE Refused)

Many(op, n) ==
  /\ Len(stack) >= n
  /\ Apply(op, n, [engine |-> ManyByEngine(op, By("engine", Top(n))),
                   filter |-> ManyByFilter(op, By("filter", Top(n)))])

Negated(outcome) ==
  OrFails(<<outcome>>, IF IsBool(outcome) THEN Gives(Bool(~outcome[2][2])) ELSE Refused)
Not ==
  /\ stack # <<>>
  /\ Apply("$not", 1, [engine |-> Negated(Last(stack).engine), filter |-> Negated(Last(stack).filter)])

-----------------------------------------------------------------------------
Aligned(a, b) == IF Scale(a) > Scale(b) THEN Scale(a) ELSE Scale(b)
Raised(v, places) == Coefficient(v) * 10^(places - Scale(v))
(* The number nearest to a quotient, and of two the even one.              *)
Nearest(n, d) ==
  LET num == IF d < 0 THEN -n ELSE n  den == IF d < 0 THEN -d ELSE d
      q == num \div den  r == num % den
  IN IF 2 * r > den \/ (2 * r = den /\ q % 2 = 1) THEN q + 1 ELSE q

(* The operations of the decimal module, below its precision.              *)
DecimalBinary(op, a, b) ==
  LET p == Aligned(a, b)
  IN CASE op = "$add" -> Dec(Raised(a, p) + Raised(b, p), p)
       [] op = "$sub" -> Dec(Raised(a, p) - Raised(b, p), p)
       [] op = "$mul" -> Dec(Coefficient(a) * Coefficient(b), Scale(a) + Scale(b))
       [] op = "$div" -> Dec(Nearest(Raised(a, p) * 10^Places, Raised(b, p)), Places)

(* Mutant: two integers are divided as integers.                           *)
ArithmeticFloors(op, a, b) ==
  IF ~Numeric(a) \/ ~Numeric(b) \/ (op = "$div" /\ Coefficient(b) = 0) THEN Refused
  ELSE IF Kind(a) = "int" /\ Kind(b) = "int"
  THEN Gives(Integer(CASE op = "$add" -> a[2] + b[2] [] op = "$sub" -> a[2] - b[2]
                   [] op = "$mul" -> a[2] * b[2] [] op = "$div" -> Nearest(a[2], b[2])))
  ELSE Gives(DecimalBinary(op, a, b))

(* Add, Subtract, Multiply, Divide                                         *)
Arithmetic(op, a, b) ==
  IF ~Numeric(a) \/ ~Numeric(b) \/ (op = "$div" /\ Coefficient(b) = 0) THEN Refused
  ELSE IF op # "$div" /\ Kind(a) = "int" /\ Kind(b) = "int"
  THEN Gives(Integer(CASE op = "$add" -> a[2] + b[2] [] op = "$sub" -> a[2] - b[2] [] op = "$mul" -> a[2] * b[2]))
  ELSE Gives(DecimalBinary(op, a, b))

Calculate(op) ==
  LET os == By("engine", Top(2))
  IN Len(stack) >= 2 /\ Apply(op, 2, EngineOnly(OrFails(os, Arithmetic(op, os[1][2], os[2][2]))))

Length ==
  LET o == Last(stack).engine
  IN /\ stack # <<>>
     /\ Apply("$len", 1, EngineOnly(OrFails(<<o>>,
          IF Kind(o[2]) = "str" THEN Gives(Integer(Len(o[2][2])))
          ELSE IF Kind(o[2]) = "list" THEN Gives(Integer(Len(o[2][2])))
          ELSE IF Kind(o[2]) = "map" THEN Gives(Integer(Cardinality(o[2][2]))) ELSE Refused)))

(* What is not a list is added to as Python does it: not at all.           *)
AppendItem ==
  LET os == By("engine", Top(2))
  IN /\ Len(stack) >= 2
     /\ Apply("$append", 2, EngineOnly(OrFails(os,
          IF Kind(os[1][2]) = "list" THEN Gives(Listed(Append(os[1][2][2], os[2][2]))) ELSE Escapes)))

Object(key) ==
  LET o == Last(stack).engine
  IN /\ stack # <<>>
     /\ Apply("$object", 1, EngineOnly(OrFails(<<o>>, Gives(Map({<<key, o[2]>>})))))

(* Items are looked up without a check; an empty string or map has none.   *)
Summed(v, key) ==
  CASE Kind(v) = "list" -> FoldLeft(LAMBDA sum, item :
         IF ~IsValue(sum) THEN sum
         ELSE IF Kind(item) # "map" THEN Escapes
         ELSE IF key \notin Keys(item) THEN Escapes
         ELSE Arithmetic("$add", sum[2], At(item, key)), Gives(Integer(0)), v[2])
    [] Kind(v) = "str" /\ v[2] = "" -> Gives(Integer(0))
    [] Kind(v) = "map" /\ v[2] = {} -> Gives(Integer(0))
    [] OTHER -> Escapes

SumField(key) ==
  LET o == Last(stack).engine
  IN /\ stack # <<>>
     /\ Apply("$sum_field", 1, EngineOnly(OrFails(<<o>>, Summed(o[2], key))))

-----------------------------------------------------------------------------
Init == stack = <<>> /\ last = [op |-> "none", operands |-> <<>>] /\ steps = 0

Next ==
  \/ \E v \in Literals : Literal(v)
  \/ Unknown
  \/ \E op \in Comparisons : Comparison(op)
  \/ \E op \in {"$and", "$or"}, n \in 1..MaxStack : Many(op, n)
  \/ Not
  \/ \E op \in {"$add", "$sub", "$mul", "$div"} : Calculate(op)
  \/ Length \/ AppendItem
  \/ \E key \in Fields : Object(key) \/ SumField(key)

Spec == Init /\ [][Next]_vars
-----------------------------------------------------------------------------
Shared == {"$literal", "$state", "$and", "$or", "$not"} \cup Comparisons
Agree(o) == IF IsValue(o.engine) THEN o.filter = o.engine ELSE ~IsValue(o.filter)
(* The operands of the last operator, when the engine had a value for each.*)
Valued == \A i \in DOMAIN last.operands : IsValue(last.operands[i].engine)
Left == last.operands[1].engine[2]
Right == last.operands[2].engine[2]
Result == Last(stack)

TypeOK ==
  /\ steps \in 0..MaxSteps /\ Len(stack) <= MaxStack
  /\ \A i \in DOMAIN stack : /\ stack[i].engine[1] \in {"value", "refused", "escapes"}
                             /\ stack[i].filter[1] \in {"value", "refused"}

(* A filter keeps a case exactly where the engine, given the same          *)
(* expression, would have found it true, and fails where that would fail.  *)
FiltersAgree ==
  /\ \A i \in DOMAIN stack : IsValue(stack[i].filter) => Agree(stack[i])
  /\ last.op \in Shared /\ (\A i \in DOMAIN last.operands : Agree(last.operands[i])) => Agree(Result)

(* Values that may be ordered are ordered totally by the four operators,   *)
(* and what is equal is neither before nor after.                          *)
OrderIsTotal ==
  last.op \in Orderings /\ Valued /\ IsValue(Result.engine) =>
    LET holds(op) == Compare(op, Left, Right) = Gives(Bool(TRUE))
    IN /\ Cardinality({op \in {"$lt", "$gt"} : holds(op)}) = (IF holds("$lte") /\ holds("$gte") THEN 0 ELSE 1)
       /\ holds("$lt") => holds("$lte") /\ ~holds("$gte")
       /\ holds("$gt") => holds("$gte") /\ ~holds("$lte")
       /\ holds("$eq") => holds("$lte") /\ holds("$gte")

(* Whatever can be ordered and is neither text nor a time can be           *)
(* subtracted, and the sign of the difference tells the order.             *)
SubtractionTellsOrder ==
  last.op = "$sub" /\ Valued /\ Comparable(Left, Right) /\ Kind(Left) \notin {"str", "time"} =>
    /\ IsValue(Result.engine)
    /\ (Number(Result.engine[2]) < 0) = Before(Left, Right)
    /\ (Number(Result.engine[2]) > 0) = Before(Right, Left)

(* A mapping written the way an absent value is, taken for one.            *)
RECURSIVE Unwrapped(_)
Unwrapped(v) ==
  CASE v = Map({<<"$type", Text("missing")>>}) -> Missing
    [] Kind(v) = "list" -> Listed([i \in DOMAIN v[2] |-> Unwrapped(v[2][i])])
    [] Kind(v) = "map" /\ v # Map({<<"$type", Text("missing")>>}) ->
         Map({<<pair[1], Unwrapped(pair[2])>> : pair \in v[2]})
    [] OTHER -> v

(* Values with the same canonical bytes are of one type and the same to    *)
(* Python, but for mappings written the way an absent value is.            *)
CanonicalSeparates ==
  last.op = "$eq" /\ Valued /\ Result.engine = Gives(Bool(TRUE)) =>
    LET l == Unwrapped(Left)  r == Unwrapped(Right)
    IN Kind(l) = Kind(r) /\ PythonEqual(l, r)

(* docs/dsl-reference.md:117: $div always returns Decimal.  And it is off  *)
(* by no more than half a unit of the last place.                          *)
QuotientsAreDecimal ==
  last.op = "$div" /\ Valued /\ IsValue(Result.engine) =>
    LET q == Result.engine[2]  p == Aligned(Left, Right)
        error == Number(q) * Raised(Right, p) - Raised(Left, p) * 10^Scale(q)
        size(n) == IF n < 0 THEN -n ELSE n
    IN Kind(q) = "dec" /\ 2 * size(error) <= size(Raised(Right, p))

(* The two evaluators and the canonical form agree on what values are.     *)
EvaluationIsSound ==
  /\ TypeOK /\ FiltersAgree /\ OrderIsTotal /\ SubtractionTellsOrder
  /\ CanonicalSeparates /\ QuotientsAreDecimal
=============================================================================
