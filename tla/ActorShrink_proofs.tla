------------------------- MODULE ActorShrink_proofs -------------------------
(***************************************************************************)
(* Proofs about the actor minimizer for every set of eligible actors,      *)
(* oracle, budget and number of repetitions.  The inductive invariant adds *)
(* to the types what the search knows: no outcome was observed that the    *)
(* oracle does not have, no position of the current pass that is settled   *)
(* belongs to a deletion that is certain to preserve the failure, and      *)
(* every evaluation but the current one has been counted.                  *)
(***************************************************************************)
EXTENDS ActorShrink, SequenceTheorems, TLAPS

(* Until the search starts nothing is deleted; the outcomes observed of a  *)
(* candidate are outcomes the oracle has.                                  *)
Underway ==
  /\ phase \in {"baseline_replay", "baseline_rerun"} =>
       removed = <<>> /\ position = 1
  /\ phase = "rerun" =>
       /\ Order[position] \notin Removed
       /\ \A i \in 1..Len(observed) : observed[i] \in oracle[Candidate]

(* The positions the pass has behind it.                                   *)
Settled ==
  phase # "ended" =>
    \A j \in 1..(position - 1) :
      Order[j] \notin Removed => oracle[Removed \cup {Order[j]}] # {"same"}

(* The evaluations before the search ends.                                 *)
Accounted ==
  phase # "ended" =>
    /\ status = "SEARCHING"
    /\ evaluations = accepted + rejected + invalid
                       + (IF phase = "rerun" THEN 1 ELSE 0)

IInv ==
  /\ TypeOK /\ Underway /\ Settled /\ Accounted
  /\ EveryEvaluationCounted /\ WithheldForAReason

-----------------------------------------------------------------------------
(* Facts about the parameters and the current candidate.                   *)
LEMMA Numbers ==
  ASSUME TypeOK
  PROVE  /\ Len(Order) \in Nat /\ position \in 1..(Len(Order) + 1)
         /\ Repetitions \in Nat
         /\ executions \in 0..limits.executions
         /\ evaluations \in 0..limits.evaluations
         /\ limits.evaluations \in Nat /\ limits.executions \in Nat
BY OrderAssumption, LimitsAssumption DEF TypeOK

LEMMA Candidates ==
  ASSUME TypeOK
  PROVE  /\ \A i \in 1..Len(Order) : Order[i] \in Eligible
         /\ Removed \in SUBSET Eligible
         /\ \A R \in SUBSET Eligible : oracle[R] \subseteq Outcomes
         /\ oracle[{}] \subseteq Outcomes
         /\ position <= Len(Order) => oracle[Candidate] \subseteq Outcomes
<1>1. \A i \in 1..Len(Order) : Order[i] \in Eligible
  BY DEF Eligible
<1>2. Removed \in SUBSET Eligible
  BY DEF TypeOK, Removed
<1>3. \A R \in SUBSET Eligible : oracle[R] \subseteq Outcomes
  BY OraclesAssumption DEF TypeOK
<1>4. position <= Len(Order) => Candidate \in SUBSET Eligible
  BY <1>1, <1>2, Numbers DEF Candidate
<1> QED
  BY <1>1, <1>2, <1>3, <1>4

-----------------------------------------------------------------------------
(* What a step does to each variable, action by action.                    *)
LEMMA SameRequest ==
  ASSUME [Next]_vars
  PROVE  UNCHANGED oracle /\ UNCHANGED limits
BY DEF request, Next, Search, ReplayBaseline, RerunBaseline, StartSearch,
   Skip, Evaluate, Rerun, Judge, EndPass, DeadlinePasses, vars

LEMMA CountersStep ==
  ASSUME [Next]_vars
  PROVE  /\ \/ UNCHANGED executions
            \/ ~OutOfBudget /\ executions' = executions + 1
         /\ \/ UNCHANGED evaluations
            \/ /\ ~(evaluations >= limits.evaluations)
               /\ evaluations' = evaluations + 1
         /\ UNCHANGED tally \/ Accept \/ Refuse \/ Invalidate
<1>1. CASE ReplayBaseline
  BY <1>1 DEF ReplayBaseline
<1>2. CASE RerunBaseline
  BY <1>2 DEF RerunBaseline
<1>3. CASE StartSearch
  BY <1>3 DEF StartSearch
<1>4. CASE Skip
  BY <1>4 DEF Skip
<1>5. CASE Evaluate
  BY <1>5 DEF Evaluate
<1>6. CASE Rerun
  BY <1>6 DEF Rerun
<1>7. CASE Judge
  BY <1>7 DEF Judge
<1>8. CASE EndPass
  BY <1>8 DEF EndPass
<1>9. CASE DeadlinePasses \/ UNCHANGED vars
  BY <1>9 DEF DeadlinePasses, vars
<1> QED
  BY <1>1, <1>2, <1>3, <1>4, <1>5, <1>6, <1>7, <1>8, <1>9 DEF Next, Search

LEMMA PositionStep ==
  ASSUME TypeOK, [Next]_vars
  PROVE  /\ \/ /\ UNCHANGED position
               /\ phase' = "rerun" => position <= Len(Order)
            \/ position' = 1 /\ phase' = "search"
            \/ /\ position' = position + 1 /\ position <= Len(Order)
               /\ phase' = "search"
         /\ UNCHANGED removed \/ (Accept /\ position <= Len(Order))
<1>0. phase = "rerun" => position <= Len(Order)
  BY DEF TypeOK
<1>1. CASE ReplayBaseline
  BY <1>0, <1>1 DEF ReplayBaseline, Reject
<1>2. CASE RerunBaseline
  BY <1>0, <1>2 DEF RerunBaseline, Reject
<1>3. CASE StartSearch
  BY <1>0, <1>3 DEF StartSearch
<1>4. CASE Skip
  BY <1>0, <1>4 DEF Skip
<1>5. CASE Evaluate
  BY <1>0, <1>5 DEF Evaluate, Finish, Invalidate
<1>6. CASE Rerun
  BY <1>0, <1>6 DEF Rerun, Finish, Refuse
<1>7. CASE Judge
  BY <1>0, <1>7 DEF Judge, Finish, Refuse, Accept
<1>8. CASE EndPass
  BY <1>0, <1>8 DEF EndPass, Finish
<1>9. CASE DeadlinePasses \/ UNCHANGED vars
  BY <1>0, <1>9 DEF DeadlinePasses, vars
<1> QED
  BY <1>1, <1>2, <1>3, <1>4, <1>5, <1>6, <1>7, <1>8, <1>9 DEF Next, Search

LEMMA ObservedStep ==
  ASSUME TypeOK, [Next]_vars
  PROVE  \/ UNCHANGED observed
         \/ observed' = <<>>
         \/ /\ Len(observed) < Repetitions
            /\ \E y \in Outcomes : observed' = Append(observed, y)
<1>0. /\ phase = "rerun" => position <= Len(Order)
      /\ oracle[{}] \subseteq Outcomes
      /\ position <= Len(Order) => oracle[Candidate] \subseteq Outcomes
  BY Candidates DEF TypeOK
<1>1. CASE ReplayBaseline
  BY <1>0, <1>1 DEF ReplayBaseline
<1>2. CASE RerunBaseline
  BY <1>0, <1>2 DEF RerunBaseline
<1>3. CASE StartSearch
  BY <1>0, <1>3 DEF StartSearch
<1>4. CASE Skip
  BY <1>0, <1>4 DEF Skip
<1>5. CASE Evaluate
  BY <1>0, <1>5 DEF Evaluate
<1>6. CASE Rerun
  BY <1>0, <1>6 DEF Rerun
<1>7. CASE Judge
  BY <1>0, <1>7 DEF Judge
<1>8. CASE EndPass
  BY <1>0, <1>8 DEF EndPass
<1>9. CASE DeadlinePasses \/ UNCHANGED vars
  BY <1>0, <1>9 DEF DeadlinePasses, vars
<1> QED
  BY <1>1, <1>2, <1>3, <1>4, <1>5, <1>6, <1>7, <1>8, <1>9 DEF Next, Search

LEMMA VerdictStep ==
  ASSUME TypeOK, [Next]_vars
  PROVE  /\ phase' \in {"baseline_replay", "baseline_rerun",
                       "search", "rerun", "ended"}
         /\ status' \in {"SEARCHING", "REJECTED", "REDUCED", "NO_REDUCTION"}
         /\ complete' \in BOOLEAN /\ late' \in BOOLEAN
<1>0. /\ phase \in {"baseline_replay", "baseline_rerun", "search",
                   "rerun", "ended"}
      /\ status \in {"SEARCHING", "REJECTED", "REDUCED", "NO_REDUCTION"}
      /\ complete \in BOOLEAN /\ late \in BOOLEAN
  BY DEF TypeOK
<1>1. CASE ReplayBaseline
  BY <1>0, <1>1 DEF ReplayBaseline, Reject, verdict
<1>2. CASE RerunBaseline
  BY <1>0, <1>2 DEF RerunBaseline, Reject, verdict
<1>3. CASE StartSearch
  BY <1>0, <1>3 DEF StartSearch, verdict
<1>4. CASE Skip
  BY <1>0, <1>4 DEF Skip, verdict
<1>5. CASE Evaluate
  BY <1>0, <1>5 DEF Evaluate, Finish, Invalidate, verdict
<1>6. CASE Rerun
  BY <1>0, <1>6 DEF Rerun, Finish, Refuse, verdict
<1>7. CASE Judge
  BY <1>0, <1>7 DEF Judge, Finish, Refuse, Accept, verdict
<1>8. CASE EndPass
  BY <1>0, <1>8 DEF EndPass, Finish, verdict
<1>9. CASE DeadlinePasses \/ UNCHANGED vars
  BY <1>0, <1>9 DEF DeadlinePasses, vars, verdict
<1> QED
  BY <1>1, <1>2, <1>3, <1>4, <1>5, <1>6, <1>7, <1>8, <1>9 DEF Next, Search

LEMMA TypingStep ==
  ASSUME TypeOK, [Next]_vars PROVE TypeOK'
<1>1. /\ executions' \in 0..limits'.executions
      /\ evaluations' \in 0..limits'.evaluations
  BY SameRequest, CountersStep, Numbers DEF OutOfBudget
<1>2. accepted' \in Nat /\ rejected' \in Nat /\ invalid' \in Nat
  <2>1. accepted \in Nat /\ rejected \in Nat /\ invalid \in Nat
    BY DEF TypeOK
  <2> QED
    BY <2>1, CountersStep DEF tally, Accept, Refuse, Invalidate
<1>3. /\ position' \in 1..(Len(Order) + 1)
      /\ phase' = "rerun" => position' <= Len(Order)
  BY PositionStep, Numbers
<1>4. observed' \in Seq(Outcomes) /\ Len(observed') <= Repetitions
  <2>1. observed \in Seq(Outcomes) /\ Len(observed) <= Repetitions
    BY DEF TypeOK
  <2>2. ASSUME NEW y \in Outcomes, Len(observed) < Repetitions,
               observed' = Append(observed, y)
        PROVE  observed' \in Seq(Outcomes) /\ Len(observed') <= Repetitions
    <3>1. Len(observed') = Len(observed) + 1 /\ observed' \in Seq(Outcomes)
      BY <2>1, <2>2
    <3> QED
      BY <2>1, <2>2, <3>1, Numbers
  <2>3. CASE UNCHANGED observed
    BY <2>1, <2>3
  <2>4. CASE observed' = <<>>
    BY <2>4, LimitsAssumption
  <2> QED
    BY <2>2, <2>3, <2>4, ObservedStep
<1>5. removed' \in Seq(Eligible)
  <2>1. removed \in Seq(Eligible)
    BY DEF TypeOK
  <2>2. position <= Len(Order) => Order[position] \in Eligible
    BY Candidates, Numbers
  <2> QED
    BY <2>1, <2>2, PositionStep DEF Accept
<1>6. oracle' \in Oracles /\ limits' \in LimitChoices
  BY SameRequest DEF TypeOK
<1> QED
  BY <1>1, <1>2, <1>3, <1>4, <1>5, <1>6, VerdictStep DEF TypeOK

-----------------------------------------------------------------------------
(* Nothing was deleted before the search, and the candidate under          *)
(* evaluation has the outcomes observed so far.                            *)
LEMMA UnderwayStep ==
  ASSUME TypeOK, Underway, [Next]_vars PROVE Underway'
<1>0. UNCHANGED oracle
  BY SameRequest
<1>1. CASE ReplayBaseline
  BY <1>1 DEF ReplayBaseline, Reject, Underway
<1>2. CASE RerunBaseline
  BY <1>2 DEF RerunBaseline, Reject, Underway
<1>3. CASE Evaluate
  BY <1>0, <1>3 DEF Evaluate, Invalidate, Finish, Removed, Underway
<1>4. CASE Rerun /\ phase' = "rerun"
  <2>1. PICK y \in oracle[Candidate] : observed' = Append(observed, y)
    BY <1>4 DEF Rerun, Refuse, Finish
  <2>2. observed \in Seq(Outcomes) /\ y \in Outcomes
    BY <1>4, <2>1, Candidates DEF Rerun, TypeOK
  <2>3. \A i \in 1..Len(observed) : observed[i] \in oracle[Candidate]
    BY <1>4 DEF Rerun, Underway
  <2>4. \A i \in 1..Len(observed') : observed'[i] \in oracle[Candidate]
    BY <2>1, <2>2, <2>3
  <2>5. UNCHANGED removed /\ UNCHANGED position
    BY <1>4 DEF Rerun, Refuse, Finish
  <2>6. Order[position] \notin Removed
    BY <1>4 DEF Rerun, Underway
  <2> QED
    BY <1>0, <1>4, <2>4, <2>5, <2>6 DEF Removed, Candidate, Underway
<1>5. CASE phase' \in {"search", "ended"}
  BY <1>5 DEF Underway
<1>6. CASE DeadlinePasses \/ UNCHANGED vars
  BY <1>0, <1>6 DEF DeadlinePasses, vars, Underway, Removed, Candidate
<1>7. StartSearch \/ Skip \/ Judge \/ EndPass => phase' \in {"search", "ended"}
  BY DEF StartSearch, Skip, Judge, EndPass, Finish, Refuse, Accept
<1>8. Rerun => phase' \in {"rerun", "search", "ended"}
  BY DEF Rerun, Refuse, Finish
<1> QED
  BY <1>1, <1>2, <1>3, <1>4, <1>5, <1>6, <1>7, <1>8 DEF Next, Search

(* The pass goes on behind a candidate only when it is a deleted actor or  *)
(* was seen, or can be, to change the failure.                             *)
LEMMA Advance ==
  ASSUME TypeOK, Underway, [Next]_vars
  PROVE  \/ phase' = "ended"
         \/ position' = 1
         \/ UNCHANGED position /\ UNCHANGED removed /\ phase # "ended"
         \/ /\ position' = position + 1 /\ UNCHANGED removed /\ phase # "ended"
            /\ Order[position] \in Removed \/ oracle[Candidate] # {"same"}
<1>1. CASE ReplayBaseline
  BY <1>1 DEF ReplayBaseline
<1>2. CASE RerunBaseline
  BY <1>2 DEF RerunBaseline
<1>3. CASE StartSearch
  BY <1>3 DEF StartSearch
<1>4. CASE Skip
  BY <1>4 DEF Skip
<1>5. CASE Evaluate
  BY <1>5 DEF Evaluate, Finish, Invalidate
<1>6. CASE Rerun
  BY <1>6 DEF Rerun, Finish, Refuse
<1>7. CASE Judge
  <2>1. ~Preserved => oracle[Candidate] # {"same"}
    BY <1>7 DEF Judge, Preserved, Underway
  <2> QED
    BY <1>7, <2>1 DEF Judge, Finish, Refuse, Accept
<1>8. CASE EndPass
  BY <1>8 DEF EndPass, Finish
<1>9. CASE DeadlinePasses \/ UNCHANGED vars
  BY <1>9 DEF DeadlinePasses, vars
<1> QED
  BY <1>1, <1>2, <1>3, <1>4, <1>5, <1>6, <1>7, <1>8, <1>9 DEF Next, Search

LEMMA SettledStep ==
  ASSUME TypeOK, Underway, Settled, [Next]_vars PROVE Settled'
<1>0. UNCHANGED oracle /\ position \in Nat
  BY SameRequest, Numbers
<1>1. CASE phase' = "ended" \/ position' = 1
  BY <1>1 DEF Settled
<1>2. CASE UNCHANGED position /\ UNCHANGED removed /\ phase # "ended"
  <2>1. Removed' = Removed
    BY <1>2 DEF Removed
  <2>2. 1..(position' - 1) = 1..(position - 1)
    BY <1>2
  <2> QED
    BY <1>0, <1>2, <2>1, <2>2 DEF Settled
<1>3. CASE /\ position' = position + 1 /\ UNCHANGED removed /\ phase # "ended"
           /\ Order[position] \in Removed \/ oracle[Candidate] # {"same"}
  <2>1. Removed' = Removed
    BY <1>3 DEF Removed
  <2>2. \A j \in 1..position :
          Order[j] \notin Removed => oracle[Removed \cup {Order[j]}] # {"same"}
    <3> SUFFICES ASSUME NEW j \in 1..position, Order[j] \notin Removed
                 PROVE  oracle[Removed \cup {Order[j]}] # {"same"}
      OBVIOUS
    <3>1. CASE j = position
      BY <1>3, <3>1 DEF Candidate
    <3>2. CASE j # position
      <4>1. j \in 1..(position - 1)
        BY <1>0, <3>2
      <4> QED
        BY <1>3, <4>1 DEF Settled
    <3> QED
      BY <3>1, <3>2
  <2>3. 1..(position' - 1) = 1..position
    BY <1>0, <1>3
  <2> QED
    BY <1>0, <2>1, <2>2, <2>3 DEF Settled
<1> QED
  BY <1>1, <1>2, <1>3, Advance

(* The accounts before the end of the search.                              *)
LEMMA AccountedStep ==
  ASSUME TypeOK, Accounted, [Next]_vars PROVE Accounted'
<1>0. /\ accepted \in Nat /\ rejected \in Nat /\ invalid \in Nat
      /\ evaluations \in Nat
  BY Numbers DEF TypeOK
<1>1. CASE ReplayBaseline
  BY <1>1 DEF ReplayBaseline, Reject, verdict, tally, Accounted
<1>2. CASE RerunBaseline
  BY <1>2 DEF RerunBaseline, Reject, verdict, tally, Accounted
<1>3. CASE StartSearch
  BY <1>3 DEF StartSearch, verdict, tally, Accounted
<1>4. CASE Skip
  BY <1>4 DEF Skip, verdict, tally, Accounted
<1>5. CASE Evaluate
  BY <1>0, <1>5 DEF Evaluate, Finish, Invalidate, verdict, tally, Accounted
<1>6. CASE Rerun
  BY <1>0, <1>6 DEF Rerun, Finish, Refuse, verdict, tally, Accounted
<1>7. CASE Judge
  BY <1>0, <1>7 DEF Judge, Finish, Refuse, Accept, verdict, tally, Accounted
<1>8. CASE EndPass
  BY <1>8 DEF EndPass, Finish, Accounted
<1>9. CASE DeadlinePasses \/ UNCHANGED vars
  BY <1>9 DEF DeadlinePasses, vars, verdict, tally, Accounted
<1> QED
  BY <1>1, <1>2, <1>3, <1>4, <1>5, <1>6, <1>7, <1>8, <1>9 DEF Next, Search

-----------------------------------------------------------------------------
(* A search that has ended does nothing any more.                          *)
LEMMA EndedStep ==
  ASSUME [Next]_vars, phase = "ended" PROVE UNCHANGED vars
BY DEF Next, Search, ReplayBaseline, RerunBaseline, StartSearch, Skip,
   Evaluate, Rerun, Judge, EndPass, DeadlinePasses

(* The step that ends the search: a rejection, the end of a pass, or a     *)
(* limit met in front of or during the evaluation of a candidate.          *)
LEMMA StepIntoEnd ==
  ASSUME TypeOK, Underway, Accounted, [Next]_vars,
         phase # "ended", phase' = "ended"
  PROVE  /\ UNCHANGED tally /\ UNCHANGED evaluations
         /\ UNCHANGED position /\ UNCHANGED removed
         /\ phase = "rerun" =>
              reason' \in {"DEADLINE_REACHED",
                          "TOTAL_EXECUTION_BUDGET_EXHAUSTED"}
         /\ \/ /\ phase \in {"baseline_replay", "baseline_rerun"}
               /\ status' = "REJECTED"
            \/ /\ phase = "search" /\ position > Len(Order)
               /\ complete' /\ status' # "REJECTED"
            \/ /\ position <= Len(Order) /\ Order[position] \notin Removed
               /\ ~complete' /\ status' # "REJECTED"
<1>0. /\ phase = "rerun" =>
           position <= Len(Order) /\ Order[position] \notin Removed
      /\ BudgetStop \in {"DEADLINE_REACHED",
                         "TOTAL_EXECUTION_BUDGET_EXHAUSTED"}
  BY DEF TypeOK, Underway, BudgetStop
<1>1. CASE ReplayBaseline
  BY <1>1 DEF ReplayBaseline, Reject
<1>2. CASE RerunBaseline
  BY <1>2 DEF RerunBaseline, Reject
<1>3. CASE StartSearch
  BY <1>3 DEF StartSearch
<1>4. CASE Skip
  BY <1>4 DEF Skip
<1>5. CASE Evaluate
  BY <1>5 DEF Evaluate, Finish, Invalidate
<1>6. CASE Rerun
  BY <1>0, <1>6 DEF Rerun, Finish, Refuse
<1>7. CASE Judge
  BY <1>0, <1>7 DEF Judge, Finish, Refuse, Accept
<1>8. CASE EndPass
  BY <1>8 DEF EndPass, Finish
<1>9. CASE DeadlinePasses \/ UNCHANGED vars
  BY <1>9 DEF DeadlinePasses, vars
<1> QED
  BY <1>1, <1>2, <1>3, <1>4, <1>5, <1>6, <1>7, <1>8, <1>9 DEF Next, Search

(* Every deletion is counted, and of another actor than those before.      *)
LEMMA DeletionsStep ==
  ASSUME TypeOK, Underway, EveryEvaluationCounted, [Next]_vars
  PROVE  /\ accepted' = Len(removed')
         /\ \A i, j \in 1..Len(removed') : removed'[i] = removed'[j] => i = j
<1>0. /\ accepted = Len(removed) /\ removed \in Seq(Eligible)
      /\ \A i, j \in 1..Len(removed) : removed[i] = removed[j] => i = j
  BY DEF EveryEvaluationCounted, TypeOK
<1>1. \/ UNCHANGED removed /\ UNCHANGED accepted
      \/ /\ Accept /\ position <= Len(Order)
         /\ Order[position] \notin Removed
  <2>1. Judge => Order[position] \notin Removed /\ position <= Len(Order)
    BY DEF Judge, Underway, TypeOK
  <2>2. CASE ReplayBaseline
    BY <2>2 DEF ReplayBaseline, tally
  <2>3. CASE RerunBaseline
    BY <2>3 DEF RerunBaseline, tally
  <2>4. CASE StartSearch \/ Skip \/ EndPass
    BY <2>4 DEF StartSearch, Skip, EndPass, tally
  <2>5. CASE Evaluate
    BY <2>5 DEF Evaluate, Invalidate, tally
  <2>6. CASE Rerun
    BY <2>6 DEF Rerun, Refuse, tally
  <2>7. CASE Judge
    BY <2>1, <2>7 DEF Judge, Refuse, tally
  <2>8. CASE DeadlinePasses \/ UNCHANGED vars
    BY <2>8 DEF DeadlinePasses, vars, tally
  <2> QED
    BY <2>2, <2>3, <2>4, <2>5, <2>6, <2>7, <2>8 DEF Next, Search
<1>2. CASE UNCHANGED removed /\ UNCHANGED accepted
  BY <1>0, <1>2
<1>3. CASE Accept /\ position <= Len(Order) /\ Order[position] \notin Removed
  <2>1. Order[position] \in Eligible
    BY <1>3, Candidates, Numbers
  <2>2. removed' = Append(removed, Order[position]) /\ accepted' = accepted + 1
    BY <1>3 DEF Accept
  <2>3. \A i \in 1..Len(removed) : removed[i] # Order[position]
    BY <1>3 DEF Removed
  <2>4. /\ Len(removed') = Len(removed) + 1
        /\ \A i \in 1..Len(removed) : removed'[i] = removed[i]
        /\ removed'[Len(removed) + 1] = Order[position]
    BY <1>0, <2>1, <2>2
  <2> QED
    BY <1>0, <2>2, <2>3, <2>4
<1> QED
  BY <1>1, <1>2, <1>3

(* Every step keeps the accounts of the evaluations and of the deletions.  *)
LEMMA CountedStep ==
  ASSUME TypeOK, Underway, Accounted, EveryEvaluationCounted, [Next]_vars
  PROVE  EveryEvaluationCounted'
<1>0. /\ accepted \in Nat /\ rejected \in Nat /\ invalid \in Nat
      /\ evaluations \in Nat
  BY Numbers DEF TypeOK
<1>1. CASE phase' # "ended"
  <2>1. \/ evaluations' = accepted' + rejected' + invalid'
        \/ /\ phase' = "rerun"
           /\ evaluations' = accepted' + rejected' + invalid' + 1
    <3>1. accepted' \in Nat /\ rejected' \in Nat /\ invalid' \in Nat
      BY TypingStep DEF TypeOK
    <3> QED
      BY <1>1, <3>1, AccountedStep DEF Accounted
  <2> QED
    BY <2>1, DeletionsStep DEF EveryEvaluationCounted
<1>2. CASE phase # "ended" /\ phase' = "ended"
  <2>1. UNCHANGED tally /\ UNCHANGED evaluations
    BY <1>2, StepIntoEnd
  <2>2. phase = "rerun" =>
          reason' \in {"DEADLINE_REACHED", "TOTAL_EXECUTION_BUDGET_EXHAUSTED"}
    BY <1>2, StepIntoEnd
  <2>3. \/ evaluations = accepted + rejected + invalid
        \/ phase = "rerun" /\ evaluations = accepted + rejected + invalid + 1
    BY <1>0, <1>2 DEF Accounted
  <2> QED
    BY <2>1, <2>2, <2>3, DeletionsStep DEF EveryEvaluationCounted, tally
<1>3. CASE phase = "ended" /\ phase' = "ended"
  <2>1. UNCHANGED <<tally, evaluations, reason, phase>>
    BY <1>3, EndedStep DEF vars, verdict
  <2> QED
    BY <1>3, <2>1, DeletionsStep DEF EveryEvaluationCounted, tally
<1> QED
  BY <1>1, <1>2, <1>3, EndedStep

(* A search that is stopped leaves the actor it stopped at.                *)
LEMMA WithheldStep ==
  ASSUME TypeOK, Underway, Accounted, WithheldForAReason, [Next]_vars
  PROVE  WithheldForAReason'
<1>1. CASE phase' # "ended"
  BY <1>1, AccountedStep DEF Accounted, WithheldForAReason
<1>2. CASE phase # "ended" /\ phase' = "ended"
  <2>1. \/ status' = "REJECTED" \/ complete'
        \/ /\ UNCHANGED <<position, removed>>
           /\ position <= Len(Order) /\ Order[position] \notin Removed
    BY <1>2, StepIntoEnd
  <2>2. UNCHANGED <<position, removed>> => position' \in position'..Len(Order)
                             \/ ~(position <= Len(Order))
    BY Numbers
  <2> QED
    BY <2>1, <2>2 DEF WithheldForAReason, Removed
<1>3. CASE phase = "ended" /\ UNCHANGED vars
  BY <1>3 DEF vars, verdict, WithheldForAReason, Removed
<1> QED
  BY <1>1, <1>2, <1>3, EndedStep

-----------------------------------------------------------------------------
LEMMA InitIInv == Init => IInv
<1> SUFFICES ASSUME Init PROVE IInv
  OBVIOUS
<1>0. Len(Order) \in Nat
  BY OrderAssumption
<1>1. TypeOK
  <2>1. observed \in Seq(Outcomes) /\ Len(observed) <= Repetitions
    BY LimitsAssumption DEF Init
  <2>2. position \in 1..(Len(Order) + 1)
    BY <1>0 DEF Init
  <2>3. /\ executions \in 0..limits.executions
        /\ evaluations \in 0..limits.evaluations
    BY LimitsAssumption DEF Init
  <2>4. removed \in Seq(Eligible)
    BY DEF Init
  <2> QED
    BY <2>1, <2>2, <2>3, <2>4 DEF Init, TypeOK
<1>2. Underway /\ Settled /\ Accounted /\ WithheldForAReason
  BY DEF Init, Underway, Settled, Accounted, WithheldForAReason
<1>3. EveryEvaluationCounted
  BY DEF Init, EveryEvaluationCounted
<1> QED
  BY <1>1, <1>2, <1>3 DEF IInv

LEMMA NextIInv == IInv /\ [Next]_vars => IInv'
BY TypingStep, UnderwayStep, SettledStep, AccountedStep, CountedStep,
   WithheldStep DEF IInv

THEOREM Invariance == Spec => []IInv
BY InitIInv, NextIInv, PTL DEF Spec

(* The search stays within its budgets whatever they are.                  *)
THEOREM TypeCorrect == Spec => []TypeOK
BY Invariance, PTL DEF IInv

(* Evaluations and deletions are accounted for (EveryEvaluationCounted).   *)
THEOREM EvaluationsAccounted == Spec => []EveryEvaluationCounted
BY Invariance, PTL DEF IInv

(* Minimality is withheld only when the search was stopped at an actor     *)
(* that the pass had not settled (WithheldForAReason).                     *)
THEOREM MinimalityWithheld == Spec => []WithheldForAReason
BY Invariance, PTL DEF IInv

-----------------------------------------------------------------------------
(* A deletion is accepted of the actor under evaluation, in a run of which *)
(* the failure was preserved.                                              *)
LEMMA StepOfDeletion ==
  ASSUME TypeOK, Underway, [Next]_vars
  PROVE  \/ UNCHANGED removed
         \/ /\ Accept /\ phase = "rerun" /\ phase' = "search"
            /\ position <= Len(Order) /\ Order[position] \notin Removed
            /\ "same" \in oracle[Candidate]
<1>1. CASE Judge
  BY <1>1 DEF Judge, Accept, Underway, TypeOK
<1>2. CASE ReplayBaseline \/ RerunBaseline \/ StartSearch
  BY <1>2 DEF ReplayBaseline, RerunBaseline, StartSearch
<1>3. CASE Skip \/ Evaluate \/ Rerun \/ EndPass
  BY <1>3 DEF Skip, Evaluate, Rerun, EndPass
<1>4. CASE DeadlinePasses \/ UNCHANGED vars
  BY <1>4 DEF DeadlinePasses, vars
<1> QED
  BY <1>1, <1>2, <1>3, <1>4 DEF Next, Search

(* Positions of Order, in the terms of the greedy deletion.                *)
LEMMA PassSettled ==
  ASSUME TypeOK, Settled, phase # "ended",
         NEW j \in Reduction!Left, j < position
  PROVE  ~Reduction!MustDelete(j)
<1>1. j \in 1..Len(Order) /\ Order[j] \notin Removed
  BY DEF Reduction!Left, Reduction!Removed, Removed
<1>2. j \in 1..(position - 1)
  BY <1>1, Numbers
<1>3. oracle[Removed \cup {Order[j]}] # {"same"}
  BY <1>1, <1>2 DEF Settled
<1> QED
  BY <1>3 DEF Reduction!MustDelete, Reduction!Removed, Removed

LEMMA ReductionStep ==
  ASSUME IInv, [Next]_vars PROVE [Reduction!Next]_Reduction!vars
<1> USE DEF IInv
<1>0. UNCHANGED oracle
  BY SameRequest
<1>1. CASE phase = "ended"
  <2>1. UNCHANGED phase /\ UNCHANGED status /\ UNCHANGED complete
    BY <1>1, EndedStep DEF vars, verdict
  <2>2. UNCHANGED removed
    BY <1>1, EndedStep DEF vars
  <2> QED
    BY <1>0, <2>1, <2>2 DEF Claim, Reduction!vars
<1>2. CASE phase # "ended" /\ phase' # "ended"
  <2>1. Claim = "open" /\ Claim' = "open"
    BY <1>2 DEF Claim
  <2>2. CASE UNCHANGED removed
    BY <1>0, <2>1, <2>2 DEF Reduction!vars
  <2>3. CASE /\ Accept
             /\ position <= Len(Order) /\ Order[position] \notin Removed
             /\ "same" \in oracle[Candidate]
    <3>1. position \in 1..Len(Order)
      BY <2>3, Numbers
    <3>2. position \in Reduction!Left
      BY <2>3, <3>1 DEF Reduction!Left, Reduction!Removed, Removed
    <3>3. Reduction!MayDelete(position)
      BY <2>3 DEF Reduction!MayDelete, Reduction!Removed, Removed, Candidate
    <3>4. \A j \in Reduction!Left : j < position => ~Reduction!MustDelete(j)
      BY <1>2, PassSettled
    <3>5. removed' = Append(removed, Order[position])
      BY <2>3 DEF Accept
    <3>6. Reduction!Delete(position)
      BY <1>0, <2>1, <3>2, <3>3, <3>4, <3>5 DEF Reduction!Delete
    <3> QED
      BY <3>1, <3>6 DEF Reduction!Next
  <2> QED
    BY <2>2, <2>3, StepOfDeletion
<1>3. CASE phase # "ended" /\ phase' = "ended"
  <2>1. Claim = "open" /\ UNCHANGED removed
    BY <1>3, StepIntoEnd DEF Claim
  <2>2. CASE /\ phase \in {"baseline_replay", "baseline_rerun"}
             /\ status' = "REJECTED"
    <3>1. Claim' = "rejected" /\ removed = <<>>
      BY <1>3, <2>2 DEF Claim, Underway
    <3> QED
      BY <1>0, <2>1, <3>1 DEF Reduction!Reject, Reduction!Next
  <2>3. CASE position > Len(Order) /\ complete' /\ status' # "REJECTED"
    <3>1. Claim' = "minimal"
      BY <1>3, <2>3 DEF Claim
    <3>2. \A i \in Reduction!Left : i < position
      BY <2>3, Numbers DEF Reduction!Left
    <3>3. \A i \in Reduction!Left : ~Reduction!MustDelete(i)
      BY <1>3, <3>2, PassSettled
    <3> QED
      BY <1>0, <2>1, <3>1, <3>3 DEF Reduction!ClaimMinimal, Reduction!Next
  <2>4. CASE ~complete' /\ status' # "REJECTED"
    <3>1. Claim' = "not_established"
      BY <1>3, <2>4 DEF Claim
    <3> QED
      BY <1>0, <2>1, <3>1 DEF Reduction!GiveUp, Reduction!Next
  <2> QED
    BY <1>3, <2>2, <2>3, <2>4, StepIntoEnd
<1> QED
  BY <1>1, <1>2, <1>3

LEMMA ReductionInit == Init => Reduction!Init
BY DEF Init, Claim, Reduction!Init

(* The search implements the greedy deletion (ReductionSpec): each accepted *)
(* deletion is the first in canonical order that is certain to preserve the *)
(* failure or one in front of it, and minimality is claimed of a result no  *)
(* single deletion of which is certain to preserve it.                      *)
THEOREM ImplementsGreedyDeletion == Spec => ReductionSpec
<1>1. Init => Reduction!Init
  BY ReductionInit
<1>2. IInv /\ [Next]_vars => [Reduction!Next]_Reduction!vars
  BY ReductionStep
<1> QED
  BY <1>1, <1>2, Invariance, PTL DEF Spec, ReductionSpec, Reduction!Spec
=============================================================================
