---------------------------- MODULE SerialBatch ----------------------------
(***************************************************************************)
(* What a batch promises: one request after the other is executed and its  *)
(* item delivered in plan order, whatever the number of workers and the    *)
(* order in which they finish.  Threads, futures and windows do not        *)
(* appear; when and with what a batch ends is a function of its plan.      *)
(***************************************************************************)
EXTENDS Integers, Sequences

CONSTANTS
  Plans,    \* sequences of [outcome, size]: what executing a request gives
  Limit     \* retained_result_bytes

VARIABLES plan, failFast, complete, delivered, retained, raised

vars == <<plan, failFast, complete, delivered, retained, raised>>

(* With fail_fast no request after a failed one is executed.               *)
Skipped(i) == failFast /\ \E j \in 1..(i - 1) : plan[j].outcome = "failure"

Item(i) ==
  IF Skipped(i) THEN [request |-> i, status |-> "not_run", size |-> 0]
  ELSE [request |-> i, status |-> plan[i].outcome, size |-> plan[i].size]

Init ==
  /\ plan \in Plans /\ failFast \in BOOLEAN
  /\ complete \in BOOLEAN
  /\ delivered = <<>> /\ retained = 0 /\ raised = "none"

NextItem == Len(delivered) + 1

(* The next item is delivered; execute_batch adds up the sizes.            *)
Deliver ==
  /\ raised = "none" /\ NextItem <= Len(plan)
  /\ Item(NextItem).status # "escape" /\ Item(NextItem).size <= Limit
  /\ delivered' = Append(delivered, Item(NextItem))
  /\ retained' = IF complete THEN retained + Item(NextItem).size ELSE retained
  /\ raised' = IF retained' > Limit THEN "aggregate" ELSE raised
  /\ UNCHANGED <<plan, failFast, complete>>

(* The next item cannot be delivered.                                      *)
Refuse ==
  /\ raised = "none" /\ NextItem <= Len(plan)
  /\ raised' = IF Item(NextItem).status = "escape" THEN "escape" ELSE "bound"
  /\ raised' = "bound" => Item(NextItem).size > Limit
  /\ UNCHANGED <<plan, failFast, complete, delivered, retained>>

(* Every item was delivered.                                               *)
Finish ==
  /\ raised = "none" /\ NextItem > Len(plan)
  /\ raised' = "stop"
  /\ UNCHANGED <<plan, failFast, complete, delivered, retained>>

(* The caller interrupts the batch or gives the stream up.                 *)
GiveUp ==
  /\ raised = "none"
  /\ raised' \in {"interrupt", "abandoned"}
  /\ UNCHANGED <<plan, failFast, complete, delivered, retained>>

Next == Deliver \/ Refuse \/ Finish \/ GiveUp

Spec == Init /\ [][Next]_vars
=============================================================================
