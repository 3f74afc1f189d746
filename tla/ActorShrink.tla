---------------------------- MODULE ActorShrink ----------------------------
(***************************************************************************)
(* The actor minimizer (engine2_shrink.py, shrink_failed_scenario): a      *)
(* greedy search over deletions of whole actors, in which every candidate  *)
(* is executed several times and replayed, under a budget of evaluations,  *)
(* a budget of executions and a deadline.                                  *)
(*                                                                         *)
(* Whether a candidate still fails in the same way is an oracle that need  *)
(* not be monotone: a deleted actor changes the ready sets, and with them  *)
(* the digest and every later selection.  oracle[R] is the set of outcomes *)
(* an execution without the actors R may have: "same" (the failure to      *)
(* preserve), "other" (another failure with evidence) or "none" (no usable *)
(* failure).  It is empty when the source without R is refused, and has    *)
(* two members when a transient error of the host may occur.               *)
(***************************************************************************)
EXTENDS Integers, Sequences

CONSTANTS
  Order,        \* the eligible actors in canonical order, fixed before search
  Oracles,
  LimitChoices, \* [evaluations, executions]: the budgets of the requests
  Repetitions   \* repetition_count

Outcomes == {"same", "other", "none"}
Eligible == {Order[i] : i \in 1..Len(Order)}

ASSUME OrderAssumption ==
  /\ Order \in Seq(Eligible)
  /\ \A i, j \in 1..Len(Order) : Order[i] = Order[j] => i = j

ASSUME OraclesAssumption == Oracles \subseteq [SUBSET Eligible -> SUBSET Outcomes]

ASSUME LimitsAssumption ==
  /\ LimitChoices \subseteq [evaluations : Nat \ {0}, executions : Nat \ {0}]
  /\ Repetitions \in Nat /\ Repetitions >= 3

VARIABLES
  oracle, limits,
  late,         \* monotonic() has reached the deadline
  phase,
  observed,     \* outcomes of the runs of the source under test
  position,     \* of the current pass over Order
  removed,      \* the accepted deletions
  executions,   \* _Budget.executions
  evaluations,
  accepted, rejected, invalid,
  status, reason,
  complete      \* complete_pass: minimality is claimed

request == <<oracle, limits>>
tally == <<accepted, rejected, invalid>>
verdict == <<status, reason, complete>>
vars == <<request, late, phase, observed, position, removed, executions,
          evaluations, tally, verdict>>

Removed == {removed[i] : i \in 1..Len(removed)}
Candidate == Removed \cup {Order[position]}

-----------------------------------------------------------------------------
(* Mutant: one execution more than the budget allows.                      *)
OutOfBudgetLate == late \/ executions > limits.executions

(* _Budget.take refuses an execution.                                      *)
OutOfBudget == late \/ executions >= limits.executions

BudgetStop ==
  IF late THEN "DEADLINE_REACHED" ELSE "TOTAL_EXECUTION_BUDGET_EXHAUSTED"

Reject(why) ==
  /\ phase' = "ended" /\ status' = "REJECTED" /\ reason' = why
  /\ complete' = FALSE

Finish(why, pass) ==
  /\ phase' = "ended" /\ reason' = why /\ complete' = pass
  /\ status' = IF removed = <<>> THEN "NO_REDUCTION" ELSE "REDUCED"

(* A candidate is settled without being accepted.                          *)
Refuse ==
  /\ rejected' = rejected + 1 /\ UNCHANGED <<accepted, invalid>>
  /\ position' = position + 1 /\ phase' = "search"

Invalidate ==
  /\ invalid' = invalid + 1 /\ UNCHANGED <<accepted, rejected>>
  /\ position' = position + 1 /\ phase' = "search"

-----------------------------------------------------------------------------
(* The accepted evidence must replay against the baseline ...              *)
ReplayBaseline ==
  /\ phase = "baseline_replay"
  /\ \/ OutOfBudget /\ Reject(BudgetStop) /\ UNCHANGED executions
     \/ /\ ~OutOfBudget /\ executions' = executions + 1
        /\ \E y \in oracle[{}] :
             IF y = "same" THEN phase' = "baseline_rerun" /\ UNCHANGED verdict
             ELSE Reject("BASELINE_EXACT_REPLAY_FAILED")
  /\ UNCHANGED <<request, late, observed, position, removed, evaluations,
                 tally>>

(* ... and be reproduced by every one of its reruns.                       *)
RerunBaseline ==
  /\ phase = "baseline_rerun" /\ Len(observed) < Repetitions
  /\ \/ OutOfBudget /\ Reject(BudgetStop) /\ UNCHANGED <<executions, observed>>
     \/ /\ ~OutOfBudget /\ executions' = executions + 1
        /\ \E y \in oracle[{}] :
             /\ observed' = Append(observed, y)
             /\ CASE y = "same" -> UNCHANGED <<phase, verdict>>
                  [] y = "none" -> Reject("BASELINE_NATIVE_REPRODUCTION_FAILED")
                  [] OTHER -> Reject("BASELINE_NOT_DETERMINISTIC_OR_TARGET_MISMATCH")
  /\ UNCHANGED <<request, late, position, removed, evaluations, tally>>

StartSearch ==
  /\ phase = "baseline_rerun" /\ Len(observed) = Repetitions
  /\ phase' = "search" /\ observed' = <<>>
  /\ UNCHANGED <<request, late, position, removed, executions, evaluations,
                 tally, verdict>>

-----------------------------------------------------------------------------
Skip ==
  /\ phase = "search" /\ position <= Len(Order) /\ Order[position] \in Removed
  /\ position' = position + 1
  /\ UNCHANGED <<request, late, phase, observed, removed, executions,
                 evaluations, tally, verdict>>

(* The budgets are checked in front of a candidate, which counts as        *)
(* evaluated even when its source is refused.                              *)
Evaluate ==
  /\ phase = "search" /\ position <= Len(Order)
  /\ Order[position] \notin Removed
  /\ IF evaluations >= limits.evaluations
     THEN /\ Finish("EVALUATION_BUDGET_EXHAUSTED", FALSE)
          /\ UNCHANGED <<evaluations, tally, position, observed>>
     ELSE IF late
     THEN /\ Finish("DEADLINE_REACHED", FALSE)
          /\ UNCHANGED <<evaluations, tally, position, observed>>
     ELSE /\ evaluations' = evaluations + 1
          /\ observed' = <<>>
          /\ IF oracle[Candidate] = {} THEN Invalidate
             ELSE phase' = "rerun" /\ UNCHANGED <<tally, position>>
          /\ UNCHANGED verdict
  /\ UNCHANGED <<request, late, removed, executions>>

(* A run of the candidate: without a usable failure it is the last one.    *)
Rerun ==
  /\ phase = "rerun" /\ Len(observed) < Repetitions
  /\ \/ /\ OutOfBudget /\ Finish(BudgetStop, FALSE)
        /\ UNCHANGED <<executions, observed, position, tally>>
     \/ /\ ~OutOfBudget /\ executions' = executions + 1
        /\ \E y \in oracle[Candidate] :
             IF y = "none" THEN Refuse /\ UNCHANGED observed
             ELSE /\ observed' = Append(observed, y)
                  /\ UNCHANGED <<phase, position, tally>>
        /\ UNCHANGED verdict
  /\ UNCHANGED <<request, late, removed, evaluations>>

(* All runs the same bytes with the failure to preserve.                   *)
Preserved == \A i \in 1..Len(observed) : observed[i] = "same"

(* Mutant: the pass goes on behind an accepted deletion.                   *)
AcceptInPass ==
  /\ removed' = Append(removed, Order[position])
  /\ accepted' = accepted + 1 /\ UNCHANGED <<rejected, invalid>>
  /\ position' = position + 1 /\ phase' = "search"

(* An accepted deletion starts the pass again.                             *)
Accept ==
  /\ removed' = Append(removed, Order[position])
  /\ accepted' = accepted + 1 /\ UNCHANGED <<rejected, invalid>>
  /\ position' = 1 /\ phase' = "search"

(* Mutant: a failed replay is not counted.                                 *)
JudgeUncounted ==
  /\ phase = "rerun" /\ Len(observed) = Repetitions
  /\ \/ /\ ~Preserved /\ Refuse
        /\ UNCHANGED <<removed, executions, verdict>>
     \/ /\ Preserved /\ OutOfBudget /\ Finish(BudgetStop, FALSE)
        /\ UNCHANGED <<removed, executions, position, tally>>
     \/ /\ Preserved /\ ~OutOfBudget /\ executions' = executions + 1
        /\ \E y \in oracle[Candidate] :
             \/ y = "same" /\ Accept
             \/ /\ y # "same" /\ position' = position + 1 /\ phase' = "search"
                /\ UNCHANGED <<removed, tally>>
        /\ UNCHANGED verdict
  /\ UNCHANGED <<request, late, observed, evaluations>>

(* The failure is compared with the one to preserve, and the candidate is  *)
(* replayed against its own schedule.                                      *)
Judge ==
  /\ phase = "rerun" /\ Len(observed) = Repetitions
  /\ \/ /\ ~Preserved /\ Refuse
        /\ UNCHANGED <<removed, executions, verdict>>
     \/ /\ Preserved /\ OutOfBudget /\ Finish(BudgetStop, FALSE)
        /\ UNCHANGED <<removed, executions, position, tally>>
     \/ /\ Preserved /\ ~OutOfBudget /\ executions' = executions + 1
        /\ \E y \in oracle[Candidate] :
             \/ y = "same" /\ Accept
             \/ y # "same" /\ Refuse /\ UNCHANGED removed
        /\ UNCHANGED verdict
  /\ UNCHANGED <<request, late, observed, evaluations>>

(* Mutants: the budget is looked at before the end of the pass; a pass     *)
(* without a change is not the last one.                                   *)
EndPassAfterBudget ==
  /\ phase = "search" /\ position > Len(Order)
  /\ IF evaluations >= limits.evaluations
     THEN Finish("EVALUATION_BUDGET_EXHAUSTED", FALSE)
     ELSE Finish("NO_FURTHER_ACCEPTABLE_DELETION", TRUE)
  /\ UNCHANGED <<request, late, observed, position, removed, executions,
                 evaluations, tally>>

EndPassRestarts ==
  /\ phase = "search" /\ position > Len(Order)
  /\ position' = 1
  /\ UNCHANGED <<request, late, phase, observed, removed, executions,
                 evaluations, tally, verdict>>

(* A pass over all positions that accepted nothing.                        *)
EndPass ==
  /\ phase = "search" /\ position > Len(Order)
  /\ Finish("NO_FURTHER_ACCEPTABLE_DELETION", TRUE)
  /\ UNCHANGED <<request, late, observed, position, removed, executions,
                 evaluations, tally>>

(* The deadline passes at any time.                                        *)
DeadlinePasses ==
  /\ phase # "ended" /\ ~late
  /\ late' = TRUE
  /\ UNCHANGED <<request, phase, observed, position, removed, executions,
                 evaluations, tally, verdict>>

-----------------------------------------------------------------------------
Init ==
  /\ oracle \in Oracles /\ oracle[{}] # {} /\ limits \in LimitChoices
  /\ late = FALSE
  /\ phase = "baseline_replay" /\ observed = <<>> /\ position = 1
  /\ removed = <<>> /\ executions = 0 /\ evaluations = 0
  /\ accepted = 0 /\ rejected = 0 /\ invalid = 0
  /\ status = "SEARCHING" /\ reason = "none" /\ complete = FALSE

Search ==
  \/ ReplayBaseline \/ RerunBaseline \/ StartSearch
  \/ Skip \/ Evaluate \/ Rerun \/ Judge \/ EndPass

Next == Search \/ DeadlinePasses

Spec == Init /\ [][Next]_vars
FairSpec == Spec /\ WF_vars(Search)

-----------------------------------------------------------------------------
(* Type invariant; both budgets are kept to the last execution.            *)
TypeOK ==
  /\ oracle \in Oracles /\ limits \in LimitChoices /\ late \in BOOLEAN
  /\ phase \in {"baseline_replay", "baseline_rerun", "search", "rerun", "ended"}
  /\ observed \in Seq(Outcomes) /\ Len(observed) <= Repetitions
  /\ position \in 1..(Len(Order) + 1)
  /\ phase = "rerun" => position <= Len(Order)
  /\ removed \in Seq(Eligible)
  /\ executions \in 0..limits.executions
  /\ evaluations \in 0..limits.evaluations
  /\ accepted \in Nat /\ rejected \in Nat /\ invalid \in Nat
  /\ status \in {"SEARCHING", "REJECTED", "REDUCED", "NO_REDUCTION"}
  /\ complete \in BOOLEAN

(* Budgets, repetitions and a deadline that passes at any moment neither   *)
(* make the search accept a deletion out of order nor claim a minimality   *)
(* that a single deletion refutes, though the oracle is not monotone.      *)
Claim ==
  IF phase # "ended" THEN "open"
  ELSE IF status = "REJECTED" THEN "rejected"
  ELSE IF complete THEN "minimal" ELSE "not_established"

Reduction == INSTANCE GreedyDeletion WITH claim <- Claim
ReductionSpec == Reduction!Spec

(* Every evaluation is accounted for: accepted, rejected, invalid, or the  *)
(* one in progress when the search was stopped; every acceptance removed   *)
(* an actor of its own.                                                    *)
EveryEvaluationCounted ==
  LET settled == accepted + rejected + invalid
      stopped == reason \in {"DEADLINE_REACHED", "TOTAL_EXECUTION_BUDGET_EXHAUSTED"}
  IN  /\ \/ evaluations = settled
         \/ (phase = "rerun" \/ stopped) /\ evaluations = settled + 1
      /\ accepted = Len(removed)
      /\ \A i, j \in 1..Len(removed) : removed[i] = removed[j] => i = j

(* Minimality is withheld for a reason only: a search that was stopped had *)
(* an eligible actor left that the current pass had not settled.           *)
WithheldForAReason ==
  status \in {"REDUCED", "NO_REDUCTION"} /\ ~complete =>
    \E i \in position..Len(Order) : Order[i] \notin Removed

(* The search ends, with or without a deadline.                            *)
SearchEnds == <>(phase = "ended")
=============================================================================
