------------------------- MODULE BatchStream_proofs -------------------------
(***************************************************************************)
(* Batches of every plan, worker count and window: the items delivered are *)
(* those of a serial execution, and nothing is left behind by a batch that *)
(* has ended.  IInv relates what was delivered to the plan, the position   *)
(* of the generator to its options, and the futures to what was submitted. *)
(***************************************************************************)
EXTENDS BatchStream, SequenceTheorems, FiniteSetTheorems, TLAPS

(* What was delivered is what a serial execution delivers.                 *)
DeliveredSerially ==
  /\ \A j \in 1..Len(delivered) : delivered[j] = Serial!Item(j)
  /\ failFast =>
       (Failed <=> \E j \in 1..Len(delivered) : plan[j].outcome = "failure")

(* The generator runs only for a caller that was not refused, along the    *)
(* path its plan selects.                                                  *)
PhaseMatchesPlan ==
  /\ phase \in {"serial", "submitting", "waiting"} => raised = "none"
  /\ phase \in {"closing", "ended"} => raised # "none"
  /\ phase \in {"submitting", "waiting"} => ~failFast
  /\ phase = "serial" => failFast \/ plan = <<>>
  /\ phase = "waiting" => NextItem <= Len(plan)

(* Exactly the submitted requests have a future.                           *)
FuturesSubmitted ==
  \A i \in Requests : future[i] = "none" <=> i > submitted

IInv ==
  TypeOK /\ DeliveredSerially /\ PhaseMatchesPlan /\ FuturesSubmitted
    /\ QuietAfterEnd

-----------------------------------------------------------------------------
(* Requests and the items they give.                                       *)
LEMMA PlanTypes ==
  ASSUME TypeOK
  PROVE  /\ Len(plan) \in Nat /\ Len(delivered) \in Nat
         /\ \A i \in Requests : plan[i].outcome \in ItemOutcomes /\ plan[i].size \in Nat
<1>1. plan \in Seq([outcome : ItemOutcomes, size : Nat])
  BY PlansAssumption DEF TypeOK
<1>2. \A i \in Requests : plan[i] \in [outcome : ItemOutcomes, size : Nat]
  BY <1>1, ElementOfSeq DEF Requests
<1> QED
  BY <1>1, <1>2, LenProperties DEF TypeOK

Items ==
  [request : Nat, size : Nat, status : {"success", "failure", "not_run"}]

(* Appending one item to what was delivered.                               *)
LEMMA YieldAppends ==
  ASSUME TypeOK, NextItem <= Len(plan), NEW item, Yield(item),
         item \in Items
  PROVE  /\ delivered' \in Seq(Items)
         /\ Len(delivered') = NextItem /\ delivered'[NextItem] = item
         /\ \A j \in 1..Len(delivered) : delivered'[j] = delivered[j]
         /\ retained' \in Nat /\ phase' = "suspended"
         /\ raised' \in {raised, "aggregate"}
         /\ raised' \in {"none", "stop"} => retained' <= Limit
BY PlanTypes, LimitsAssumption DEF TypeOK, Yield, NextItem, Items

(* Both loops of the generator deliver what a serial execution would: the  *)
(* one the fail_fast plan selects and the one over the futures.            *)
LEMMA ItemIsSerial ==
  ASSUME IInv, NextItem <= Len(plan)
  PROVE  /\ failFast /\ Failed => NotRun(NextItem) = Serial!Item(NextItem)
         /\ ~(failFast /\ Failed) => ItemOf(NextItem) = Serial!Item(NextItem)
<1>1. Len(delivered) \in Nat /\ NextItem - 1 = Len(delivered)
  BY PlanTypes DEF IInv, NextItem
<1>2. failFast => (Failed <=> Serial!Skipped(NextItem))
  BY <1>1 DEF IInv, DeliveredSerially, Serial!Skipped
<1>3. ~failFast => ~Serial!Skipped(NextItem)
  BY DEF Serial!Skipped
<1> QED
  BY <1>2, <1>3 DEF NotRun, ItemOf, Serial!Item

(* An item of the plan that is not refused is one that can be delivered.   *)
LEMMA ItemTypes ==
  ASSUME IInv, NextItem <= Len(plan)
  PROVE  /\ NotRun(NextItem) \in Items
         /\ ItemOf(NextItem).status # "escape" => ItemOf(NextItem) \in Items
         /\ ItemOf(NextItem).size \in Nat
         /\ NotRun(NextItem).status # "escape" /\ NotRun(NextItem).size <= Limit
<1>1. NextItem \in Requests
  BY PlanTypes DEF IInv, NextItem, Requests
<1>2. /\ plan[NextItem].outcome \in {"success", "failure", "escape"}
      /\ plan[NextItem].size \in Nat
  BY <1>1, PlanTypes DEF IInv, ItemOutcomes
<1>3. NextItem \in Nat
  BY PlanTypes DEF IInv, NextItem
<1> QED
  BY <1>2, <1>3, LimitsAssumption DEF NotRun, ItemOf, Items

(* Delivering the next item keeps the correspondence with the plan.        *)
LEMMA YieldSerially ==
  ASSUME IInv, NextItem <= Len(plan), UNCHANGED <<plan, failFast>>,
         NEW item, Yield(item), item = Serial!Item(NextItem),
         item \in Items,
         failFast /\ ~Failed => item = ItemOf(NextItem)
  PROVE  DeliveredSerially'
<1>1. PICK n \in Nat : n = Len(delivered)
  BY PlanTypes DEF IInv
<1>2. /\ NextItem = n + 1 /\ Len(delivered') = n + 1
      /\ delivered'[n + 1] = item
      /\ \A j \in 1..n : delivered'[j] = delivered[j]
  BY <1>1, YieldAppends DEF IInv, NextItem
<1>3. \A j \in 1..(n + 1) : Serial!Item(j)' = Serial!Item(j)
  BY DEF Serial!Item, Serial!Skipped
<1>4. \A j \in 1..(n + 1) : delivered'[j] = Serial!Item(j)
  BY <1>1, <1>2 DEF IInv, DeliveredSerially
<1>5. ASSUME failFast
      PROVE  Failed' <=> \E j \in 1..(n + 1) : plan[j].outcome = "failure"
  <2>1. Failed' <=> Failed \/ item.status = "failure"
    BY <1>1, <1>2 DEF Failed
  <2>2. Failed <=> \E j \in 1..n : plan[j].outcome = "failure"
    BY <1>1, <1>5 DEF IInv, DeliveredSerially
  <2>3. CASE Failed
    BY <2>1, <2>2, <2>3
  <2>4. CASE ~Failed
    <3>1. item.status = plan[n + 1].outcome
      BY <1>2, <1>5, <2>4 DEF ItemOf
    <3> QED
      BY <2>1, <2>2, <2>4, <3>1
  <2> QED
    BY <2>3, <2>4
<1> QED
  BY <1>2, <1>3, <1>4, <1>5 DEF DeliveredSerially

(* What SerialItem and Take do: the next item of the serial execution is   *)
(* yielded, or it is refused.                                              *)
LEMMA GeneratorReceives ==
  ASSUME IInv, SerialItem \/ Take
  PROVE  /\ raised = "none" /\ NextItem <= Len(plan)
         /\ UNCHANGED <<options, future, submitted, envelope>>
         /\ \/ \E item \in Items :
                 /\ Yield(item) /\ item = Serial!Item(NextItem)
                 /\ item.status # "escape" /\ item.size <= Limit
                 /\ failFast /\ ~Failed => item = ItemOf(NextItem)
            \/ /\ UNCHANGED <<delivered, retained>>
               /\ \/ Exit("escape") /\ Serial!Item(NextItem).status = "escape"
                  \/ Exit("bound") /\ Serial!Item(NextItem).size > Limit
                       /\ Serial!Item(NextItem).status # "escape"
<1>1. /\ raised = "none" /\ NextItem <= Len(plan)
      /\ UNCHANGED <<options, future, submitted, envelope>>
  BY DEF SerialItem, Take, IInv, PhaseMatchesPlan
<1>2. CASE failFast /\ Failed
  <2>1. Yield(NotRun(NextItem))
    BY <1>2 DEF SerialItem, Take, IInv, PhaseMatchesPlan
  <2> QED
    BY <1>1, <1>2, <2>1, ItemIsSerial, ItemTypes
<1>3. CASE ~(failFast /\ Failed)
  <2>1. Receive(ItemOf(NextItem))
    <3>1. CASE Take
      BY <3>1 DEF Take
    <3>2. CASE SerialItem /\ failFast
      BY <1>3, <3>2 DEF SerialItem
    <3>3. CASE SerialItem /\ plan = <<>>
      BY <1>1, <3>3, PlanTypes DEF NextItem, IInv
    <3> QED
      BY <3>1, <3>2, <3>3 DEF SerialItem, IInv, PhaseMatchesPlan
  <2>2. ItemOf(NextItem) = Serial!Item(NextItem)
    BY <1>1, <1>3, ItemIsSerial
  <2> QED
    BY <1>1, <1>3, <2>1, <2>2, ItemTypes, LimitsAssumption DEF Receive
<1> QED
  BY <1>2, <1>3

-----------------------------------------------------------------------------
LEMMA InitEstablishesIInv ==
  ASSUME Init PROVE IInv
<1>1. plan \in Seq([outcome : ItemOutcomes, size : Nat])
  BY PlansAssumption DEF Init
<1>2. Len(plan) \in Nat /\ Len(<<>>) = 0
  BY <1>1, LenProperties
<1>3. TypeOK
  BY <1>2, LimitsAssumption, EmptySeq DEF Init, TypeOK
<1>4. DeliveredSerially
  BY <1>2 DEF Init, DeliveredSerially, Failed
<1> QED
  BY <1>2, <1>3, <1>4
     DEF Init, IInv, PhaseMatchesPlan, FuturesSubmitted, QuietAfterEnd, Requests

LEMMA TypingStep ==
  ASSUME IInv, [Next]_vars PROVE TypeOK'
<1> USE DEF IInv
<1>0. /\ Len(plan) \in Nat /\ Len(delivered) \in Nat
      /\ delivered \in Seq(Items)
  BY PlanTypes DEF TypeOK, Items
<1>1. CASE Pull
  BY <1>1 DEF Pull, TypeOK, options
<1>2. CASE SerialItem \/ Take
  <2>1. CASE UNCHANGED <<delivered, retained>>
    BY <1>2, <2>1, GeneratorReceives DEF TypeOK, options, Exit, Yield
  <2>2. CASE \E item \in Items : Yield(item)
    <3>1. PICK item \in Items : Yield(item)
      BY <2>2
    <3>2. /\ delivered' \in Seq(Items) /\ Len(delivered') = NextItem
          /\ retained' \in Nat /\ phase' = "suspended"
          /\ raised' \in {raised, "aggregate"}
          /\ raised' \in {"none", "stop"} => retained' <= Limit
      BY <1>2, <3>1, GeneratorReceives, YieldAppends
    <3> QED
      BY <1>2, <3>2, GeneratorReceives DEF TypeOK, options, Items
  <2> QED
    BY <1>2, <2>1, <2>2, GeneratorReceives
<1>3. CASE SerialEnd
  BY <1>3 DEF SerialEnd, Exit, TypeOK, options, PhaseMatchesPlan
<1>4. CASE Submit
  <2>1. submitted + 1 \in 0..Len(plan)
    BY <1>0, <1>4 DEF Submit, Due, TypeOK
  <2> QED
    BY <1>0, <1>4, <2>1 DEF Submit, TypeOK, options
<1>5. CASE Proceed
  BY <1>5 DEF Proceed, Exit, TypeOK, options, PhaseMatchesPlan
<1>6. CASE Interrupt
  BY <1>6 DEF Interrupt, Exit, TypeOK, options
<1>7. CASE Drop
  BY <1>7 DEF Drop, Exit, TypeOK, options
<1>8. CASE Cancel
  BY <1>8 DEF Cancel, TypeOK, options
<1>9. CASE Quiesce
  BY <1>9 DEF Quiesce, TypeOK, options
<1>10. CASE PullAgain
  BY <1>10 DEF PullAgain, TypeOK, options
<1>11. CASE Workers
  BY <1>11 DEF Workers, Start, FinishRun, TypeOK, options
<1>12. CASE UNCHANGED vars
  BY <1>12 DEF vars, options, TypeOK
<1> QED
  BY <1>1, <1>2, <1>3, <1>4, <1>5, <1>6, <1>7, <1>8, <1>9, <1>10, <1>11,
     <1>12 DEF Next, Generator, Caller

(* Only the two loops deliver anything.                                    *)
LEMMA OthersDeliverNothing ==
  ASSUME [Next]_vars
  PROVE  /\ UNCHANGED <<plan, failFast, complete, workers, window>>
         /\ SerialItem \/ Take \/ UNCHANGED <<delivered, retained>>
BY DEF Next, Generator, Workers, Caller, Pull, SerialItem, SerialEnd, Submit,
   Proceed, Take, Interrupt, Drop, Cancel, Quiesce, PullAgain, Start,
   FinishRun, vars, options

LEMMA DeliveredStep ==
  ASSUME IInv, [Next]_vars PROVE DeliveredSerially'
<1>1. UNCHANGED <<plan, failFast>>
  BY OthersDeliverNothing
<1>2. CASE UNCHANGED delivered
  BY <1>1, <1>2
     DEF IInv, DeliveredSerially, Failed, Serial!Item, Serial!Skipped
<1>3. CASE (SerialItem \/ Take) /\ \E item \in Items : Yield(item)
  BY <1>1, <1>3, GeneratorReceives, YieldSerially DEF Yield
<1> QED
  BY <1>2, <1>3, OthersDeliverNothing, GeneratorReceives

LEMMA PhaseStep ==
  ASSUME IInv, [Next]_vars PROVE PhaseMatchesPlan'
<1> USE DEF IInv, PhaseMatchesPlan
<1>0. UNCHANGED <<plan, failFast>>
  BY OthersDeliverNothing
<1>1. CASE Pull
  BY <1>0, <1>1 DEF Pull
<1>2. CASE SerialItem \/ Take
  <2>1. CASE \E item \in Items : Yield(item)
    BY <2>1 DEF Yield
  <2>2. CASE Exit("escape") \/ Exit("bound")
    BY <2>2 DEF Exit
  <2> QED
    BY <1>2, <2>1, <2>2, GeneratorReceives
<1>3. CASE SerialEnd \/ Proceed \/ Interrupt
  BY <1>0, <1>3 DEF SerialEnd, Proceed, Interrupt, Exit, NextItem
<1>4. CASE Drop
  BY <1>4 DEF Drop, Exit
<1>5. CASE Submit \/ Cancel \/ Quiesce \/ PullAgain \/ Workers \/ UNCHANGED vars
  BY <1>0, <1>5 DEF Submit, Cancel, Quiesce, PullAgain, Workers, Start,
     FinishRun, vars, NextItem
<1> QED
  BY <1>1, <1>2, <1>3, <1>4, <1>5 DEF Next, Generator, Caller

LEMMA FuturesStep ==
  ASSUME IInv, [Next]_vars PROVE FuturesSubmitted' /\ QuietAfterEnd'
<1> USE DEF IInv, FuturesSubmitted, QuietAfterEnd, InFuture, Requests
<1>0. UNCHANGED plan /\ Len(plan) \in Nat
  BY OthersDeliverNothing, PlanTypes
<1>1. CASE Submit
  <2>1. submitted \in Nat /\ submitted' = submitted + 1 /\ phase' # "ended"
    BY <1>0, <1>1 DEF Submit, TypeOK
  <2> QED
    BY <1>0, <1>1, <2>1 DEF Submit, TypeOK
<1>2. ASSUME UNCHANGED <<future, submitted>>,
             phase' = "ended" => phase = "ended" \/ submitted = 0
                                  \/ InFuture("queued") \cup InFuture("running") = {}
      PROVE  FuturesSubmitted' /\ QuietAfterEnd'
  BY <1>0, <1>2
<1>3. CASE Pull \/ SerialEnd \/ Proceed \/ Interrupt \/ Drop
  BY <1>2, <1>3 DEF Pull, SerialEnd, Proceed, Interrupt, Drop, Exit
<1>4. CASE SerialItem \/ Take
  <2>1. UNCHANGED <<future, submitted>>
    BY <1>4, GeneratorReceives
  <2>2. phase' = "ended" => submitted = 0
    BY <1>4, GeneratorReceives DEF Yield, Exit
  <2> QED
    BY <1>2, <2>1, <2>2
<1>5. CASE Quiesce \/ PullAgain \/ UNCHANGED vars
  BY <1>2, <1>5 DEF Quiesce, PullAgain, vars
<1>6. CASE Cancel \/ Workers
  BY <1>0, <1>6 DEF Cancel, Workers, Start, FinishRun, TypeOK
<1> QED
  BY <1>1, <1>3, <1>4, <1>5, <1>6 DEF Next, Generator, Caller

(* IInv holds of every reachable state.                                    *)
THEOREM Invariance == Spec => []IInv
<1>1. Init => IInv
  BY InitEstablishesIInv
<1>2. IInv /\ [Next]_vars => IInv'
  BY TypingStep, DeliveredStep, PhaseStep, FuturesStep DEF IInv
<1> QED
  BY <1>1, <1>2, PTL DEF Spec

(* However a batch of any plan ends, no request is running or waiting to   *)
(* run behind its caller.                                                  *)
THEOREM NothingLeftBehind == Spec => []QuietAfterEnd
<1>1. IInv => QuietAfterEnd
  BY DEF IInv
<1> QED
  BY <1>1, Invariance, PTL

(* Types, and the bound on what execute_batch keeps.                       *)
THEOREM TypeCorrect == Spec => []TypeOK
<1>1. IInv => TypeOK
  BY DEF IInv
<1> QED
  BY <1>1, Invariance, PTL

-----------------------------------------------------------------------------
(* A step of the two loops is a step of the serial execution.              *)
LEMMA ReceiveIsSerial ==
  ASSUME IInv, SerialItem \/ Take PROVE Serial!Deliver \/ Serial!Refuse
<1>0. /\ raised = "none" /\ NextItem <= Len(plan)
      /\ UNCHANGED <<plan, failFast, complete>>
      /\ Serial!NextItem = NextItem
  BY GeneratorReceives DEF options, NextItem, Serial!NextItem
<1>1. ASSUME NEW item \in Items, Yield(item), item = Serial!Item(NextItem),
             item.status # "escape", item.size <= Limit
      PROVE  Serial!Deliver
  BY <1>0, <1>1 DEF Yield, Serial!Deliver
<1>2. ASSUME UNCHANGED <<delivered, retained>>,
             \/ Exit("escape") /\ Serial!Item(NextItem).status = "escape"
             \/ /\ Exit("bound") /\ Serial!Item(NextItem).size > Limit
                /\ Serial!Item(NextItem).status # "escape"
      PROVE  Serial!Refuse
  BY <1>0, <1>2 DEF Exit, Serial!Refuse
<1> QED
  BY <1>1, <1>2, GeneratorReceives

(* Every execution of a batch, with any number of workers, any window and  *)
(* any order of completion, delivers and ends as a serial execution.       *)
THEOREM WorkersAreInvisible == Spec => SerialBatchSpec
<1>1. Init => Serial!Init
  BY DEF Init, Serial!Init
<1>2. IInv /\ [Next]_vars => [Serial!Next]_(Serial!vars)
  <2> SUFFICES ASSUME IInv, [Next]_vars
               PROVE  Serial!Next \/ UNCHANGED Serial!vars
    OBVIOUS
  <2>1. CASE SerialItem \/ Take
    BY <2>1, ReceiveIsSerial DEF Serial!Next
  <2>2. CASE SerialEnd \/ Proceed
    <3>1. CASE UNCHANGED raised
      BY <2>2, <3>1 DEF SerialEnd, Proceed, options, Serial!vars
    <3>2. CASE raised = "none" /\ NextItem > Len(plan) /\ Exit("stop")
      BY <2>2, <3>2 DEF SerialEnd, Proceed, options, Exit, NextItem,
         Serial!Next, Serial!Finish, Serial!NextItem
    <3>3. NextItem <= Len(plan) \/ NextItem > Len(plan)
      BY PlanTypes DEF IInv, NextItem
    <3> QED
      BY <2>2, <3>1, <3>2, <3>3
         DEF SerialEnd, Proceed, IInv, PhaseMatchesPlan
  <2>3. CASE Interrupt \/ Drop
    BY <2>3 DEF Interrupt, Drop, Exit, options, IInv, PhaseMatchesPlan,
       Serial!Next, Serial!GiveUp, Serial!vars
  <2>4. CASE Pull \/ Submit \/ Cancel \/ Quiesce \/ PullAgain \/ Workers
               \/ UNCHANGED vars
    BY <2>4 DEF Pull, Submit, Cancel, Quiesce, PullAgain, Workers, Start,
       FinishRun, vars, options, Serial!vars
  <2> QED
    BY <2>1, <2>2, <2>3, <2>4 DEF Next, Generator, Caller
<1> QED
  BY <1>1, <1>2, Invariance, PTL DEF Spec, SerialBatchSpec, Serial!Spec

-----------------------------------------------------------------------------
(* The window of submissions, which bounds the futures there are.          *)
WindowIsBounded == submitted <= Len(delivered) + window

LEMMA WindowStep ==
  ASSUME IInv, WindowIsBounded, [Next]_vars PROVE WindowIsBounded'
<1> USE DEF IInv, WindowIsBounded
<1>0. /\ UNCHANGED window /\ Len(delivered) \in Nat
      /\ submitted \in Nat /\ window \in Nat
  BY OthersDeliverNothing, PlanTypes DEF TypeOK
<1>1. CASE Submit
  BY <1>0, <1>1 DEF Submit, Due
<1>2. CASE SerialItem \/ Take
  <2>1. submitted' = submitted
    BY <1>2, GeneratorReceives
  <2>2. Len(delivered') = Len(delivered) \/ Len(delivered') = Len(delivered) + 1
    BY <1>2, GeneratorReceives, YieldAppends DEF NextItem
  <2> QED
    BY <1>0, <2>1, <2>2
<1>3. CASE UNCHANGED <<submitted, delivered>>
  BY <1>0, <1>3
<1> QED
  BY <1>1, <1>2, <1>3 DEF Next, Generator, Workers, Caller, Pull, SerialEnd,
     Proceed, Interrupt, Drop, Cancel, Quiesce, PullAgain, Start, FinishRun,
     vars

(* A worker that starts is one of at most workers, and takes the first of  *)
(* the queued requests, all before it having started or been cancelled.    *)
LEMMA AheadStep ==
  ASSUME IInv, WindowIsBounded, AheadWithinWindow, [Next]_vars
  PROVE  AheadWithinWindow'
<1> USE DEF IInv
<1> DEFINE Running == InFuture("running")
<1>0. /\ UNCHANGED <<plan, window, workers>> /\ Requests' = Requests
      /\ submitted \in Nat /\ window \in Nat /\ workers \in Nat
      /\ Len(plan) \in Nat /\ Len(delivered) \in Nat
  BY OthersDeliverNothing, PlanTypes DEF TypeOK, Requests
<1>1. \A i \in Requests' : future[i]' # "none" => i <= (Len(delivered) + window)'
  <2>1. WindowIsBounded' /\ FuturesSubmitted' /\ TypeOK'
    BY WindowStep, FuturesStep, TypingStep
  <2> QED
    BY <1>0, <2>1, PlanTypes
       DEF WindowIsBounded, FuturesSubmitted, TypeOK, Requests
<1>2. IsFiniteSet(Running) /\ Cardinality(Running) \in Nat
  <2>1. IsFiniteSet(1..Len(plan)) /\ Running \subseteq 1..Len(plan)
    BY <1>0, FS_Interval DEF InFuture, Requests
  <2> QED
    BY <2>1, FS_Subset, FS_CardinalityType
<1>3. CASE \E i \in Requests : Start(i)
  <2> PICK i \in Requests : Start(i)
    BY <1>3
  <2>1. Running' = Running \cup {i} /\ Cardinality(Running) < workers
    BY <1>0 DEF Start, TypeOK, InFuture, Requests
  <2>2. Cardinality(Running') <= workers
    <3> HIDE DEF Running
    <3>1. Cardinality(Running \cup {i}) \in {Cardinality(Running), Cardinality(Running) + 1}
      BY <1>2, FS_AddElement
    <3> QED
      BY <1>0, <1>2, <2>1, <3>1
  <2>3. \A j \in Requests : j < i => future[j] \notin {"none", "queued"}
    BY <1>0 DEF Start, FuturesSubmitted, InFuture, Requests
  <2>4. \A j, k \in Requests' :
           j < k /\ future[k]' \in {"running", "done"} => future[j]' \notin {"none", "queued"}
    BY <1>0, <2>3 DEF Start, AheadWithinWindow, TypeOK, Requests
  <2> QED
    BY <1>0, <1>1, <2>2, <2>4 DEF AheadWithinWindow
<1>4. ASSUME Running' \subseteq Running,
             \A j, k \in Requests' :
               j < k /\ future[k]' \in {"running", "done"} => future[j]' \notin {"none", "queued"}
      PROVE  AheadWithinWindow'
  <2>1. Cardinality(Running)' <= workers
    <3>1. Cardinality(Running) <= workers
      BY DEF AheadWithinWindow
    <3> HIDE DEF Running
    <3>2. Cardinality(Running') <= Cardinality(Running) /\ Cardinality(Running') \in Nat
      BY <1>2, <1>4, FS_Subset, FS_CardinalityType
    <3> QED
      BY <1>0, <1>2, <3>1, <3>2
  <2> QED
    BY <1>0, <1>1, <1>4, <2>1 DEF AheadWithinWindow
<1>5. CASE \E i \in Requests : FinishRun(i)
  BY <1>0, <1>4, <1>5 DEF FinishRun, AheadWithinWindow, TypeOK, InFuture, Requests
<1>6. CASE Cancel
  BY <1>0, <1>4, <1>6 DEF Cancel, AheadWithinWindow, TypeOK, InFuture, Requests
<1>7. CASE Submit
  BY <1>0, <1>4, <1>7
     DEF Submit, Due, AheadWithinWindow, FuturesSubmitted, TypeOK, InFuture, Requests
<1>8. CASE UNCHANGED future
  BY <1>0, <1>4, <1>8 DEF AheadWithinWindow, InFuture
<1> QED
  BY <1>3, <1>5, <1>6, <1>7, <1>8, GeneratorReceives
     DEF Next, Generator, Workers, Caller, Pull, SerialEnd, Proceed,
     Interrupt, Drop, Quiesce, PullAgain, vars

(* No batch runs more than its window ahead of its caller or on more than  *)
(* its workers, and requests start in plan order.                          *)
THEOREM CallerIsNotOverrun == Spec => []AheadWithinWindow
<1>1. Init => WindowIsBounded /\ AheadWithinWindow
  <2> SUFFICES ASSUME Init PROVE WindowIsBounded /\ AheadWithinWindow
    OBVIOUS
  <2>1. /\ window \in Nat /\ workers \in Nat
        /\ delivered = <<>> /\ submitted = 0
        /\ InFuture("running") = {}
        /\ \A i \in Requests : future[i] = "none"
    BY LimitsAssumption DEF Init, InFuture, Requests
  <2>2. Len(delivered) = 0
    BY <2>1
  <2>3. Cardinality(InFuture("running")) = 0
    BY <2>1, FS_EmptySet
  <2>4. WindowIsBounded
    BY <2>1, <2>2 DEF WindowIsBounded
  <2> QED
    BY <2>1, <2>3, <2>4 DEF AheadWithinWindow
<1>2. IInv /\ (WindowIsBounded /\ AheadWithinWindow) /\ [Next]_vars
        => (WindowIsBounded /\ AheadWithinWindow)'
  BY WindowStep, AheadStep
<1> QED
  BY <1>1, <1>2, Invariance, PTL DEF Spec
=============================================================================
