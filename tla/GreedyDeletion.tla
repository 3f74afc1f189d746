--------------------------- MODULE GreedyDeletion ---------------------------
(***************************************************************************)
(* What the actor minimizer promises (docs/engine2-shrink.md): actors are  *)
(* deleted one at a time, each the first in canonical order whose deletion *)
(* preserves the failure; minimality is claimed only when no single        *)
(* deletion is left that would.  Executions, budgets and the deadline do   *)
(* not appear.                                                             *)
(***************************************************************************)
EXTENDS Integers, Sequences

CONSTANTS
  Order,    \* the eligible actors, in canonical order
  Oracles   \* [sets of deleted actors -> outcomes an execution may have]

VARIABLES oracle, removed, claim

vars == <<oracle, removed, claim>>

Removed == {removed[i] : i \in 1..Len(removed)}
Left == {i \in 1..Len(Order) : Order[i] \notin Removed}

(* Deleting an actor more may, or is certain to, preserve the failure.     *)
MayDelete(i) == "same" \in oracle[Removed \cup {Order[i]}]
MustDelete(i) == oracle[Removed \cup {Order[i]}] = {"same"}

Init == oracle \in Oracles /\ removed = <<>> /\ claim = "open"

Delete(i) ==
  /\ claim = "open" /\ i \in Left /\ MayDelete(i)
  /\ \A j \in Left : j < i => ~MustDelete(j)
  /\ removed' = Append(removed, Order[i])
  /\ UNCHANGED <<oracle, claim>>

ClaimMinimal ==
  /\ claim = "open" /\ \A i \in Left : ~MustDelete(i)
  /\ claim' = "minimal"
  /\ UNCHANGED <<oracle, removed>>

(* A limit is reached: the deletions so far stand.                         *)
GiveUp ==
  /\ claim = "open"
  /\ claim' = "not_established"
  /\ UNCHANGED <<oracle, removed>>

(* The failure to preserve was not reproduced to begin with.               *)
Reject ==
  /\ claim = "open" /\ removed = <<>>
  /\ claim' = "rejected"
  /\ UNCHANGED <<oracle, removed>>

Next == (\E i \in 1..Len(Order) : Delete(i)) \/ ClaimMinimal \/ GiveUp \/ Reject

Spec == Init /\ [][Next]_vars
=============================================================================
