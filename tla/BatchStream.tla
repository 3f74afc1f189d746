---------------------------- MODULE BatchStream ----------------------------
(***************************************************************************)
(* Batch execution (batch/runtime.py): the generator behind                *)
(* OrderedBatchStream, the worker threads of its executor and the caller   *)
(* that pulls items, either execute_batch, which pulls them all, or a      *)
(* consumer of the stream at its own pace.                                 *)
(*                                                                         *)
(* The generator runs in the caller's thread: it keeps a window of futures *)
(* submitted, waits for the one at its position, and cancels what is left  *)
(* when it is exited in any way.                                           *)
(***************************************************************************)
EXTENDS Integers, Sequences, FiniteSets

CONSTANTS
  Plans,      \* sequences of [outcome, size]: what executing a request gives
  Limit,      \* retained_result_bytes of the plans
  MaxWorkers, \* MAX_WORKERS
  MaxWindow,  \* MAX_IN_FLIGHT
  NoEnvelope

(* An execution succeeds, fails, or is left by an exception that _execute  *)
(* does not catch (SystemExit): it escapes.                                *)
ItemOutcomes == {"success", "failure", "escape"}

ASSUME PlansAssumption == Plans \subseteq Seq([outcome : ItemOutcomes, size : Nat])

ASSUME LimitsAssumption ==
  Limit \in Nat \ {0} /\ MaxWorkers \in Nat \ {0} /\ MaxWindow \in Nat \ {0}

VARIABLES
  plan, failFast,   \* the BatchPlan
  complete,         \* the caller is execute_batch
  workers, window,  \* the options of stream_batch
  phase,            \* where the generator is
  future,           \* future[i]: the future of request i
  submitted,        \* submit_position
  delivered,        \* the items yielded so far (their records)
  retained,         \* bytes added up by execute_batch
  raised,           \* how the caller left or was left by the generator
  envelope

options == <<plan, failFast, complete, workers, window>>
vars == <<options, phase, future, submitted, delivered, retained, raised,
          envelope>>

Requests == 1..Len(plan)
NextItem == Len(delivered) + 1
InFuture(s) == {i \in Requests : future[i] = s}

(* _not_run items follow a failed one when the plan says fail_fast.        *)
Failed == \E j \in 1..Len(delivered) : delivered[j].status = "failure"

ItemOf(i) == [request |-> i, status |-> plan[i].outcome, size |-> plan[i].size]
NotRun(i) == [request |-> i, status |-> "not_run", size |-> 0]

-----------------------------------------------------------------------------
(* The generator is left: the executor, if there is one, is closed first.  *)
Exit(why) ==
  /\ raised' = why
  /\ phase' = IF submitted = 0 THEN "ended" ELSE "closing"

(* Mutant: execute_batch does not add up what it retains.                  *)
YieldUnbounded(item) ==
  /\ delivered' = Append(delivered, item)
  /\ retained' = IF complete THEN retained + item.size ELSE retained
  /\ raised' = raised
  /\ phase' = "suspended"

(* yield: the item is recorded; execute_batch raises when the items it     *)
(* keeps exceed the bound, which leaves the generator suspended.           *)
Yield(item) ==
  /\ delivered' = Append(delivered, item)
  /\ retained' = IF complete THEN retained + item.size ELSE retained
  /\ raised' = IF retained' > Limit THEN "aggregate" ELSE raised
  /\ phase' = "suspended"

(* The outcome of an execution reaches the generator: an escaped exception *)
(* is raised again, and _checked refuses an item that is too large.        *)
Receive(item) ==
  IF item.status = "escape" \/ item.size > Limit
  THEN /\ Exit(IF item.status = "escape" THEN "escape" ELSE "bound")
       /\ UNCHANGED <<delivered, retained>>
  ELSE Yield(item)

-----------------------------------------------------------------------------
(* __next__ of a stream that is not exhausted.                             *)
Pull ==
  /\ phase = "suspended" /\ raised = "none"
  /\ phase' = IF failFast \/ plan = <<>> THEN "serial" ELSE "submitting"
  /\ UNCHANGED <<options, future, submitted, delivered, retained, raised,
                 envelope>>

(* The serial loop of a fail_fast plan (and the empty plan).               *)
SerialItem ==
  /\ phase = "serial" /\ NextItem <= Len(plan)
  /\ IF Failed THEN Yield(NotRun(NextItem)) ELSE Receive(ItemOf(NextItem))
  /\ UNCHANGED <<options, future, submitted, envelope>>

SerialEnd ==
  /\ phase = "serial" /\ NextItem > Len(plan)
  /\ Exit("stop") /\ envelope' = delivered
  /\ UNCHANGED <<options, future, submitted, delivered, retained>>

(* Mutants: the window does not bound the submissions; the last request is *)
(* never submitted.                                                        *)
DueUnbounded == submitted < Len(plan)
DueButLast == submitted < Len(plan) - 1 /\ submitted < Len(delivered) + window

(* A window of futures on the first pull, one more for every item pulled.  *)
Due == submitted < Len(plan) /\ submitted < Len(delivered) + window

Submit ==
  /\ phase = "submitting" /\ Due
  /\ submitted' = submitted + 1
  /\ future' = [future EXCEPT ![submitted + 1] = "queued"]
  /\ UNCHANGED <<options, phase, delivered, retained, raised, envelope>>

(* The next position of the loop, or its end.                              *)
Proceed ==
  /\ phase = "submitting" /\ ~Due
  /\ IF NextItem <= Len(plan) THEN phase' = "waiting" /\ UNCHANGED raised
     ELSE Exit("stop")
  /\ UNCHANGED <<options, future, submitted, delivered, retained, envelope>>

(* Mutant: the item of any finished future is taken.                       *)
TakeAnyFinished ==
  /\ phase = "waiting"
  /\ \E i \in InFuture("done") :
       /\ \A j \in 1..Len(delivered) : delivered[j].request # i
       /\ Receive(ItemOf(i))
  /\ UNCHANGED <<options, future, submitted, envelope>>

(* result() of the future at the position of the loop.                     *)
Take ==
  /\ phase = "waiting" /\ future[NextItem] = "done"
  /\ Receive(ItemOf(NextItem))
  /\ UNCHANGED <<options, future, submitted, envelope>>

(* KeyboardInterrupt in the caller's thread while it waits.                *)
Interrupt ==
  /\ phase = "waiting"
  /\ Exit("interrupt")
  /\ UNCHANGED <<options, future, submitted, delivered, retained, envelope>>

(* The caller drops the stream: at any item, or after its own error.       *)
Drop ==
  /\ phase = "suspended" /\ (complete => raised # "none")
  /\ Exit(IF raised = "none" THEN "abandoned" ELSE raised)
  /\ UNCHANGED <<options, future, submitted, delivered, retained, envelope>>

(* The finally block: futures not yet running are cancelled, first those   *)
(* of the window, then what is left in the queue of the executor ...       *)
Cancel ==
  /\ phase = "closing"
  /\ \E i \in InFuture("queued") : future' = [future EXCEPT ![i] = "cancelled"]
  /\ UNCHANGED <<options, phase, submitted, delivered, retained, raised,
                 envelope>>

(* Mutant: the executor is not waited for.                                 *)
QuiesceWithoutWaiting ==
  /\ phase = "closing" /\ InFuture("queued") = {}
  /\ phase' = "ended"
  /\ envelope' = IF raised = "stop" THEN delivered ELSE envelope
  /\ UNCHANGED <<options, future, submitted, delivered, retained, raised>>

(* ... and the running ones are waited for; StopIteration makes __next__   *)
(* build the envelope.                                                     *)
Quiesce ==
  /\ phase = "closing" /\ InFuture("queued") \cup InFuture("running") = {}
  /\ phase' = "ended"
  /\ envelope' = IF raised = "stop" THEN delivered ELSE envelope
  /\ UNCHANGED <<options, future, submitted, delivered, retained, raised>>

(* __next__ again after the generator raised: it is finished, so this is   *)
(* StopIteration, and the envelope is built from the records there are.    *)
PullAgain ==
  /\ phase = "ended" /\ ~complete /\ envelope = NoEnvelope
  /\ raised \in {"bound", "escape", "interrupt"}
  /\ envelope' = delivered
  /\ UNCHANGED <<options, phase, future, submitted, delivered, retained,
                 raised>>

-----------------------------------------------------------------------------
(* Worker threads take the queued requests in the order of submission.     *)
Start(i) ==
  /\ i \in InFuture("queued") /\ \A j \in InFuture("queued") : i <= j
  /\ Cardinality(InFuture("running")) < workers
  /\ future' = [future EXCEPT ![i] = "running"]
  /\ UNCHANGED <<options, phase, submitted, delivered, retained, raised,
                 envelope>>

FinishRun(i) ==
  /\ future[i] = "running"
  /\ future' = [future EXCEPT ![i] = "done"]
  /\ UNCHANGED <<options, phase, submitted, delivered, retained, raised,
                 envelope>>

-----------------------------------------------------------------------------
(* Options that _validate_options accepts, over the plans considered.      *)
Init ==
  /\ plan \in Plans /\ failFast \in BOOLEAN /\ complete \in BOOLEAN
  /\ workers \in 1..MaxWorkers /\ window \in workers..MaxWindow
  /\ failFast => workers = 1
  /\ phase = "suspended" /\ future = [i \in 1..Len(plan) |-> "none"]
  /\ submitted = 0 /\ delivered = <<>> /\ retained = 0
  /\ raised = "none" /\ envelope = NoEnvelope

Generator ==
  SerialItem \/ SerialEnd \/ Submit \/ Proceed \/ Take \/ Cancel \/ Quiesce

Workers == \E i \in Requests : Start(i) \/ FinishRun(i)

(* execute_batch pulls until it ends; any other caller may pull or not.    *)
Caller == Pull \/ Drop

Next == Generator \/ Workers \/ Caller \/ Interrupt \/ PullAgain

Spec == Init /\ [][Next]_vars

FairSpec ==
  /\ Spec
  /\ WF_vars(Generator)
  /\ WF_vars(Workers)
  /\ WF_vars(complete /\ Caller)

-----------------------------------------------------------------------------
(* Type invariant.  What execute_batch still keeps is within the bound.    *)
TypeOK ==
  /\ plan \in Plans /\ failFast \in BOOLEAN /\ complete \in BOOLEAN
  /\ workers \in 1..MaxWorkers /\ window \in 1..MaxWindow
  /\ phase \in {"suspended", "serial", "submitting", "waiting", "closing",
                "ended"}
  /\ future \in [1..Len(plan) ->
                   {"none", "queued", "running", "done", "cancelled"}]
  /\ submitted \in 0..Len(plan)
  /\ delivered \in Seq([request : Nat, size : Nat,
                        status : {"success", "failure", "not_run"}])
  /\ Len(delivered) <= Len(plan)
  /\ raised \in {"none", "stop", "bound", "escape", "aggregate", "interrupt",
                 "abandoned"}
  /\ retained \in Nat
  /\ raised \in {"none", "stop"} => retained <= Limit

(* Worker count, window and completion order are invisible: the items and  *)
(* the way a batch ends are those of a serial execution of its plan.       *)
Serial == INSTANCE SerialBatch
SerialBatchSpec == Serial!Spec

(* At most a window of requests is ahead of the caller, at most workers of *)
(* them run, and a request runs only after all requests before it started: *)
(* a slow caller is never overrun with results it has not asked for.       *)
AheadWithinWindow ==
  /\ \A i \in Requests : future[i] # "none" => i <= Len(delivered) + window
  /\ Cardinality(InFuture("running")) <= workers
  /\ \A i, j \in Requests :
       i < j /\ future[j] \in {"running", "done"} => future[i] \notin {"none", "queued"}

(* However the generator is left, nothing is running or waiting to run     *)
(* behind the caller's back when it is.                                    *)
QuietAfterEnd ==
  phase = "ended" => InFuture("queued") \cup InFuture("running") = {}

(* execute_batch ends, and a pull of any caller is answered: the position  *)
(* that is waited for is always one that was submitted.                    *)
Answered ==
  /\ complete ~> (phase = "ended")
  /\ (phase # "suspended") ~> (phase \in {"suspended", "ended"})
=============================================================================
