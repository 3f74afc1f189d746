------------------------- MODULE AdapterPublication -------------------------
(***************************************************************************)
(* publish_evidence_bundles (evidence/adapter.py): bundles of an iterable  *)
(* are handed to one trusted adapter by the threads of an executor, a      *)
(* window ahead of the receipts, which are collected in caller order.      *)
(*                                                                         *)
(* An adapter or the iterable may misbehave at any bundle; a publication   *)
(* that has started outside is never undone.                               *)
(***************************************************************************)
EXTENDS Integers, Sequences, FiniteSets, FiniteSetsExt

CONSTANTS
  Plans,       \* what the iterable and the adapter do, bundle by bundle
  MaxWorkers,
  MaxWindow,   \* max_in_flight
  Limits,      \* max_receipts_bytes
  Size         \* Size[k]: bytes of the canonical receipt of a publication

(* publish_bundle returns a publication ("published"), raises ("refused"), *)
(* returns one whose receipt is too large, returns something else, or is   *)
(* left by an exception that is not an Exception (SystemExit).             *)
Receipted == {"published", "refused"}
Unreceipted == {"oversized", "wrongtype", "escapes"}

(* The iterable yields something that is not a bundle, or raises.          *)
SourceFaults == {"notbundle", "broken"}

VARIABLES
  plan, workers, window, limit,
  phase,      \* where the caller's thread is
  exhausted,  \* the iterable raised StopIteration
  taken,      \* next_ordinal: the bundles submitted
  call,       \* call[i]: the call of the adapter for bundle i
  held,       \* the keys of futures
  receipts, aggregate,
  error       \* how the operation is left

options == <<plan, workers, window, limit>>
vars == <<options, phase, exhausted, taken, call, held, receipts, aggregate, error>>

Bundles == 1..Len(plan)
In(s) == {i \in Bundles : call[i] = s}
Awaited == Len(receipts) + 1

ErrorOf(kind) ==
  CASE kind \in {"wrongtype", "notbundle"} -> "contract"
    [] kind = "oversized" -> "bound"
    [] kind = "broken" -> "orchestration"
    [] OTHER -> kind

Raise(why) == error' = why /\ phase' = "cancelling"

-----------------------------------------------------------------------------
(* Mutant: an iterable that raises is taken for one that has ended.        *)
SubmitOneSilently(then) ==
  IF exhausted \/ taken = Len(plan) \/ plan[taken + 1] = "broken"
  THEN /\ exhausted' = TRUE /\ phase' = "collecting"
       /\ UNCHANGED <<taken, call, held, error>>
  ELSE IF plan[taken + 1] \in SourceFaults
  THEN /\ Raise(ErrorOf(plan[taken + 1]))
       /\ UNCHANGED <<exhausted, taken, call, held>>
  ELSE /\ taken' = taken + 1 /\ phase' = then
       /\ call' = [call EXCEPT ![taken + 1] = "queued"]
       /\ held' = held \cup {taken + 1}
       /\ UNCHANGED <<exhausted, error>>

(* submit_one, after which the caller goes on with what follows it.        *)
SubmitOne(then) ==
  IF exhausted \/ taken = Len(plan)
  THEN /\ exhausted' = TRUE /\ phase' = "collecting"
       /\ UNCHANGED <<taken, call, held, error>>
  ELSE IF plan[taken + 1] \in SourceFaults
  THEN /\ Raise(ErrorOf(plan[taken + 1]))
       /\ UNCHANGED <<exhausted, taken, call, held>>
  ELSE /\ taken' = taken + 1 /\ phase' = then
       /\ call' = [call EXCEPT ![taken + 1] = "queued"]
       /\ held' = held \cup {taken + 1}
       /\ UNCHANGED <<exhausted, error>>

(* Mutant: the window may be overrun by one.                               *)
FillBeyond ==
  /\ phase = "filling"
  /\ IF Cardinality(held) <= window THEN SubmitOne("filling")
     ELSE phase' = "collecting" /\ UNCHANGED <<exhausted, taken, call, held, error>>
  /\ UNCHANGED <<options, receipts, aggregate>>

(* The first window of futures.                                            *)
Fill ==
  /\ phase = "filling"
  /\ IF Cardinality(held) < window THEN SubmitOne("filling")
     ELSE phase' = "collecting" /\ UNCHANGED <<exhausted, taken, call, held, error>>
  /\ UNCHANGED <<options, receipts, aggregate>>

(* while futures: the one at the output position is taken out.             *)
Collect ==
  /\ phase = "collecting"
  /\ IF held = {} THEN phase' = "cancelling" /\ UNCHANGED <<held, error>>
     ELSE IF Awaited \in held
     THEN held' = held \ {Awaited} /\ phase' = "waiting" /\ UNCHANGED error
     ELSE Raise("orchestration") /\ UNCHANGED held
  /\ UNCHANGED <<options, exhausted, taken, call, receipts, aggregate>>

(* Mutant: the bound is compared with one receipt, not with all of them.   *)
ReceiveUnbounded ==
  /\ phase = "waiting" /\ call[Awaited] = "done"
  /\ LET kind == plan[Awaited] IN
       IF kind \in Unreceipted
       THEN Raise(ErrorOf(kind)) /\ UNCHANGED <<receipts, aggregate>>
       ELSE IF Size[kind] > limit
       THEN Raise("bound") /\ UNCHANGED <<receipts, aggregate>>
       ELSE /\ receipts' = Append(receipts, kind)
            /\ aggregate' = aggregate + Size[kind]
            /\ phase' = "refilling" /\ UNCHANGED error
  /\ UNCHANGED <<options, exhausted, taken, call, held>>

(* result(): the receipt that _invoke made, or the error it raised.        *)
Receive ==
  /\ phase = "waiting" /\ call[Awaited] = "done"
  /\ LET kind == plan[Awaited] IN
       IF kind \in Unreceipted
       THEN Raise(ErrorOf(kind)) /\ UNCHANGED <<receipts, aggregate>>
       ELSE IF aggregate + Size[kind] > limit
       THEN Raise("bound") /\ UNCHANGED <<receipts, aggregate>>
       ELSE /\ receipts' = Append(receipts, kind)
            /\ aggregate' = aggregate + Size[kind]
            /\ phase' = "refilling" /\ UNCHANGED error
  /\ UNCHANGED <<options, exhausted, taken, call, held>>

Refill ==
  /\ phase = "refilling" /\ SubmitOne("collecting")
  /\ UNCHANGED <<options, receipts, aggregate>>

(* KeyboardInterrupt while the caller waits for a result.                  *)
Interrupt ==
  /\ phase = "waiting" /\ Raise("interrupt")
  /\ UNCHANGED <<options, exhausted, taken, call, held, receipts, aggregate>>

(* finally: the futures held are cancelled one by one, unless they run ... *)
Cancel ==
  /\ phase = "cancelling" /\ held # {}
  /\ LET i == CHOOSE i \in held : \A j \in held : i <= j IN
       /\ held' = held \ {i}
       /\ call' = IF call[i] = "queued" THEN [call EXCEPT ![i] = "cancelled"] ELSE call
  /\ UNCHANGED <<options, phase, exhausted, taken, receipts, aggregate, error>>

(* Mutant: shutdown cancels nothing and waits for nothing.                 *)
ShutdownAtOnce ==
  /\ phase = "cancelling" /\ held = {} /\ phase' = "ended"
  /\ UNCHANGED <<options, exhausted, taken, call, held, receipts, aggregate, error>>

(* ... shutdown cancels what is left in the queue ...                      *)
Shutdown ==
  /\ phase = "cancelling" /\ held = {} /\ phase' = "joining"
  /\ call' = [i \in Bundles |-> IF call[i] = "queued" THEN "cancelled" ELSE call[i]]
  /\ UNCHANGED <<options, exhausted, taken, held, receipts, aggregate, error>>

(* ... and waits for what runs.                                            *)
Join ==
  /\ phase = "joining" /\ In("running") = {} /\ phase' = "ended"
  /\ UNCHANGED <<options, exhausted, taken, call, held, receipts, aggregate, error>>

-----------------------------------------------------------------------------
(* Mutant: the executor has one thread less.                               *)
StartFewer(i) ==
  /\ i \in In("queued") /\ \A j \in In("queued") : i <= j
  /\ Cardinality(In("running")) < workers - 1
  /\ call' = [call EXCEPT ![i] = "running"]
  /\ UNCHANGED <<options, phase, exhausted, taken, held, receipts, aggregate, error>>

(* The threads of the executor, oldest call first.                         *)
Start(i) ==
  /\ i \in In("queued") /\ \A j \in In("queued") : i <= j
  /\ Cardinality(In("running")) < workers
  /\ call' = [call EXCEPT ![i] = "running"]
  /\ UNCHANGED <<options, phase, exhausted, taken, held, receipts, aggregate, error>>

Finish(i) ==
  /\ call[i] = "running" /\ call' = [call EXCEPT ![i] = "done"]
  /\ UNCHANGED <<options, phase, exhausted, taken, held, receipts, aggregate, error>>

-----------------------------------------------------------------------------
(* What the constants are: plans of such bundles, bounds, sizes.           *)
OptionsAreWellFormed ==
  /\ Plans \subseteq Seq(Receipted \cup Unreceipted \cup SourceFaults)
  /\ MaxWorkers \in Nat /\ MaxWindow \in Nat /\ Limits \subseteq Nat
  /\ Size \in [Receipted -> Nat]

(* _validate_options: no more threads than the window has places.          *)
AcceptedOptions == workers \in 1..MaxWorkers /\ window \in workers..MaxWindow

Init ==
  /\ plan \in Plans /\ limit \in Limits
  /\ AcceptedOptions
  /\ phase = "filling" /\ exhausted = FALSE /\ taken = 0
  /\ call = [i \in 1..Len(plan) |-> "none"] /\ held = {}
  /\ receipts = <<>> /\ aggregate = 0 /\ error = "none"

Caller == Fill \/ Collect \/ Receive \/ Refill \/ Cancel \/ Shutdown \/ Join
Threads == \E i \in Bundles : Start(i) \/ Finish(i)

Next == Caller \/ Interrupt \/ Threads

(* A call of the adapter returns; the threads and the caller go on.        *)
Spec == Init /\ [][Next]_vars /\ WF_vars(Caller) /\ WF_vars(Threads)

-----------------------------------------------------------------------------
(* Type invariant.  The receipts kept never exceed their bound.            *)
TypeOK ==
  /\ plan \in Plans /\ workers \in 1..MaxWorkers /\ window \in 1..MaxWindow
  /\ limit \in Limits /\ exhausted \in BOOLEAN /\ taken \in 0..Len(plan)
  /\ phase \in {"filling", "collecting", "waiting", "refilling", "cancelling",
                "joining", "ended"}
  /\ call \in [1..Len(plan) -> {"none", "queued", "running", "done", "cancelled"}]
  /\ held \subseteq 1..taken
  /\ receipts \in Seq(Receipted) /\ Len(receipts) <= taken
  /\ aggregate \in Nat /\ aggregate <= limit
  /\ error \in {"none", "contract", "bound", "orchestration", "escapes", "interrupt"}

(* The outcome that the plan, the window and the bound decide.  Receipt i  *)
(* cannot be given, or it can and the iterable fails a window further on.  *)
BytesOf(p) ==
  LET bytes[k \in 0..Len(p)] ==
        IF k = 0 THEN 0
        ELSE bytes[k - 1] + (IF p[k] \in Receipted THEN Size[p[k]] ELSE 0)
  IN  bytes

ReceiptBytes(n) == BytesOf(plan)[n]

Refused(i) == plan[i] \in Unreceipted \/ ReceiptBytes(i) > limit
Faulty(i) == i \in Bundles /\ plan[i] \in SourceFaults

(* Position 0 stands for the filling of the first window.                  *)
Stops ==
  {i \in 0..Len(plan) :
     \/ i > 0 /\ Refused(i)
     \/ IF i = 0 THEN \E j \in 1..window : Faulty(j) ELSE Faulty(i + window)}

Expected ==
  IF Stops = {} THEN [receipts |-> Len(plan), error |-> "none"]
  ELSE LET i == Min(Stops) IN
    IF i = 0
    THEN [receipts |-> 0,
          error |-> ErrorOf(plan[Min({j \in 1..window : Faulty(j)})])]
    ELSE IF Refused(i)
    THEN [receipts |-> i - 1,
          error |-> IF plan[i] \in Unreceipted THEN ErrorOf(plan[i]) ELSE "bound"]
    ELSE [receipts |-> i, error |-> ErrorOf(plan[i + window])]

(* docs/phase3-architecture.md, 23: worker concurrency changes neither     *)
(* receipts nor errors.  Both are a function of the plan, the window and   *)
(* the bound, though the calls end in any order and some are cancelled.    *)
OutcomeIsDeterministic ==
  phase = "ended" /\ error # "interrupt" =>
    /\ error = Expected.error
    /\ receipts = SubSeq(plan, 1, Expected.receipts)

(* Publications without a receipt, which a failure leaves behind outside,  *)
(* are never more than a window; whatever has a receipt was published.     *)
UnacknowledgedWithinWindow ==
  /\ \A i \in Bundles : call[i] # "none" => i <= Len(receipts) + window
  /\ \A i \in 1..Len(receipts) : call[i] = "done"
  /\ Cardinality(In("running")) <= workers

(* However the operation is left, the adapter is not called afterwards.    *)
QuietAfterEnd == phase = "ended" => In("queued") \cup In("running") = {}

(* It ends, and the receipt that is waited for was always asked for.       *)
Ends == <>(phase = "ended")

(* A publication goes no further than it can account for.                  *)
PublicationIsOrdered ==
  TypeOK /\ OutcomeIsDeterministic /\ UnacknowledgedWithinWindow /\ QuietAfterEnd
=============================================================================
