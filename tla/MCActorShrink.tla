--------------------------- MODULE MCActorShrink ---------------------------
(***************************************************************************)
(* Three eligible actors.  Every deterministic oracle for which the source *)
(* without a set of them is refused, fails in the same way or fails in     *)
(* another; and oracles with one set for which a run may also yield no     *)
(* usable failure.  The budgets are enough, too few evaluations, or too    *)
(* few executions for a candidate or for the baseline.                     *)
(***************************************************************************)
EXTENDS ActorShrink

MCOrder == <<"a", "b", "c">>

Deterministic ==
  {f \in [SUBSET {"a", "b", "c"} -> {{}, {"same"}, {"other"}}] : f[{}] = {"same"}}

Transient ==
  {[f EXCEPT ![s] = {"same", "none"}] :
     f \in [SUBSET {"a", "b", "c"} -> {{"same"}, {"none"}}],
     s \in SUBSET {"a", "b", "c"}}

Mixed == {[s \in SUBSET {"a", "b", "c"} |-> {"same", "other"}]}

MCOracles == Deterministic \cup Transient \cup Mixed

MCLimits ==
  {[evaluations |-> v, executions |-> x] : v \in {2, 6}, x \in {10, 28}}
    \cup {[evaluations |-> 6, executions |-> 3]}
=============================================================================
