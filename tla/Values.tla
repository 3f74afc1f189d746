--------------------------------- MODULE Values ---------------------------------
(***************************************************************************)
(* The semantic values of a scenario (values.py), their canonical form,    *)
(* and the comparisons of expressions.py and matrix/filtering.py.          *)
(*                                                                         *)
(* A value is a tuple headed by its type.  A decimal is a coefficient and  *)
(* the number of its places, a time is a local time and its offset; a map  *)
(* is a set of pairs of a key and a value.                                 *)
(***************************************************************************)
EXTENDS Integers, SequencesExt, FiniteSetsExt

Missing == <<"missing">>
Null == <<"null">>
Bool(b) == <<"bool", b>>
Integer(n) == <<"int", n>>
Dec(coefficient, places) == <<"dec", coefficient, places>>
Text(s) == <<"str", s>>
Time(local, offset) == <<"time", local, offset>>
Listed(items) == <<"list", items>>
Map(pairs) == <<"map", pairs>>

Kind(v) == v[1]
Keys(v) == {pair[1] : pair \in v[2]}
At(v, key) == (CHOOSE pair \in v[2] : pair[1] = key)[2]
Instant(v) == v[2] - v[3]
Numeric(v) == Kind(v) \in {"int", "dec"}
Coefficient(v) == v[2]
Scale(v) == IF Kind(v) = "dec" THEN v[3] ELSE 0

-----------------------------------------------------------------------------
(* Mutant: a truth value is written as the integer it is to Python.        *)
RECURSIVE NormalizeTruth(_)
NormalizeTruth(v) ==
  CASE Kind(v) = "bool" -> Integer(IF v[2] THEN 1 ELSE 0)
    [] Kind(v) = "list" -> Listed([i \in DOMAIN v[2] |-> NormalizeTruth(v[2][i])])
    [] OTHER -> v

(* The JSON value that stands for a semantic value.                        *)
RECURSIVE Normalize(_)
Normalize(v) ==
  CASE Kind(v) = "missing" -> Map({<<"$type", Text("missing")>>})
    [] Kind(v) = "dec" -> Map({<<"$type", Text("decimal")>>, <<"value", <<"text", v[2], v[3]>>>>})
    [] Kind(v) = "time" -> Map({<<"$type", Text("datetime")>>, <<"value", <<"text", Instant(v)>>>>})
    [] Kind(v) = "list" -> Listed([i \in DOMAIN v[2] |-> Normalize(v[2][i])])
    [] Kind(v) = "map" -> Map({<<pair[1], Normalize(pair[2])>> : pair \in v[2]})
    [] OTHER -> v

CanonicalEqual(a, b) == Normalize(a) = Normalize(b)

(* Python's ==, which compares numbers by value and takes True for 1.      *)
Number(v) == IF Kind(v) = "bool" THEN (IF v[2] THEN 1 ELSE 0) ELSE Coefficient(v)
RECURSIVE PythonEqual(_, _)
PythonEqual(a, b) ==
  CASE {Kind(a), Kind(b)} \subseteq {"bool", "int", "dec"} ->
         Number(a) * 10^Scale(b) = Number(b) * 10^Scale(a)
    [] Kind(a) # Kind(b) -> FALSE
    [] Kind(a) = "time" -> Instant(a) = Instant(b)
    [] Kind(a) = "list" -> /\ Len(a[2]) = Len(b[2])
                           /\ \A i \in DOMAIN a[2] : PythonEqual(a[2][i], b[2][i])
    [] Kind(a) = "map" -> /\ Keys(a) = Keys(b)
                          /\ \A key \in Keys(a) : PythonEqual(At(a, key), At(b, key))
    [] OTHER -> a = b

-----------------------------------------------------------------------------
(* What evaluating gives: a value, an ExpressionEvaluationError or a       *)
(* MatrixFilterError, or an exception of Python that is neither.           *)
Gives(v) == <<"value", v>>
Refused == <<"refused">>
Escapes == <<"escapes">>
IsValue(outcome) == outcome[1] = "value"
IsBool(outcome) == IsValue(outcome) /\ Kind(outcome[2]) = "bool"

Orderings == {"$lt", "$lte", "$gt", "$gte"}
Comparisons == {"$eq", "$ne"} \cup Orderings

(* Mutant: True is a number.                                               *)
ComparableToPython(a, b) ==
  \/ {Kind(a), Kind(b)} \subseteq {"bool", "int", "dec"}
  \/ Kind(a) = Kind(b) /\ Kind(a) \in {"str", "time"}

Comparable(a, b) ==
  \/ Numeric(a) /\ Numeric(b)
  \/ Kind(a) = Kind(b) /\ Kind(a) \in {"str", "time"}

(* The place of a value among those it is comparable to; strings are taken *)
(* from a set in which they are in the order of their lengths.             *)
Before(a, b) ==
  CASE Kind(a) = "str" -> Len(a[2]) < Len(b[2])
    [] Kind(a) = "time" -> Instant(a) < Instant(b)
    [] OTHER -> Number(a) * 10^Scale(b) < Number(b) * 10^Scale(a)

(* Mutant: at most is less than.                                           *)
OrderedStrictly(op, a, b) ==
  CASE op \in {"$lt", "$lte"} -> Before(a, b)
    [] op = "$gt" -> Before(b, a)
    [] op = "$gte" -> ~Before(a, b)

Ordered(op, a, b) ==
  CASE op = "$lt" -> Before(a, b)
    [] op = "$lte" -> ~Before(b, a)
    [] op = "$gt" -> Before(b, a)
    [] op = "$gte" -> ~Before(a, b)

Compare(op, a, b) ==
  CASE op = "$eq" -> Gives(Bool(CanonicalEqual(a, b)))
    [] op = "$ne" -> Gives(Bool(~CanonicalEqual(a, b)))
    [] op \in Orderings /\ Comparable(a, b) -> Gives(Bool(Ordered(op, a, b)))
    [] OTHER -> Refused
=============================================================================
