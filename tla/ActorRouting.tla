---------------------------- MODULE ActorRouting ----------------------------
(***************************************************************************)
(* Control routing of one actor (dsl/actor_runtime.py, _route): from its   *)
(* stack of sequence and repeat frames, in one snapshot of the shared      *)
(* state, to its next executable step or to the end of its flow.  Routing  *)
(* is pure: it returns the advanced stack, which the coordinator keeps     *)
(* only for the actor it selects.                                          *)
(*                                                                         *)
(* A flow table maps "main" and the subflow names to sequences of nodes:   *)
(*   [kind |-> "step",   id]                                               *)
(*   [kind |-> "call",   id, sub, with]                                    *)
(*   [kind |-> "branch", id, cases, with, default]                         *)
(*   [kind |-> "repeat", id, sub, with, count, max, indexed]               *)
(* where cases is a sequence of [when, sub] and default a subflow name or  *)
(* NoFlow.  Expressions are evaluated by the constant operators.           *)
(***************************************************************************)
EXTENDS Integers, SequencesExt

CONSTANTS
  RoutingLimit,      \* MAX_CONTROL_ROUTING_OPERATIONS_PER_SELECTION
  NoFlow,            \* a branch without else
  NoScope,           \* the scope of an actor's own steps (None)
  Undefined,         \* an expression that raises
  Truth(_, _, _),    \* (condition, state, scope): TRUE, FALSE, Undefined
  CountOf(_, _, _),  \* (expression, state, scope): an integer; any
                     \* negative number stands for a value of another type
  Binding(_, _, _)   \* (bindings, state, scope): a scope or Undefined

SequenceFrame(flow, scope, invocations, repetitions) ==
  [kind |-> "sequence", flow |-> flow, next |-> 1, scope |-> scope,
   invocations |-> invocations, repetitions |-> repetitions]

RepeatFrame(node, count, parent) ==
  [kind |-> "repeat", node |-> node, next |-> 0, count |-> count,
   scope |-> parent.scope, invocations |-> parent.invocations,
   repetitions |-> parent.repetitions]

(* The control stack of an actor that has not started.                     *)
StartFrames == <<SequenceFrame("main", NoScope, <<>>, <<>>)>>

(* invocation_component: the identity of a call site.                      *)
Invocation(node, sub) == <<node.id, sub>>

(* A routing in progress: the stack, the operations charged so far and a   *)
(* result.                                                                 *)
Routing(frames) ==
  [frames |-> frames, operations |-> 0, result |-> "routing",
   step |-> Undefined]

Broken(r, why) == [r EXCEPT !.result = why]

(* n calls of _tick: the operation that would exceed the limit raises.     *)
Charge(r, n, next) ==
  IF r.operations + n > RoutingLimit
  THEN Broken(r, "limit")
  ELSE [next EXCEPT !.operations = r.operations + n]

(* Enter a subflow with evaluated bindings: push its frame on the advanced *)
(* stack.                                                                  *)
Enter(r, frames, top, sub, node, scope, repetitions) ==
  IF scope = Undefined
  THEN Broken(r, "error")
  ELSE [r EXCEPT !.frames = Append(frames,
          SequenceFrame(sub, scope,
            Append(top.invocations, Invocation(node, sub)), repetitions))]

(* The cases of a branch are evaluated in order up to the first that is    *)
(* not FALSE.                                                              *)
DecidingCases(node, s, scope) ==
  {i \in 1..Len(node.cases) : Truth(node.cases[i].when, s, scope) # FALSE}

(* Mutants: the index given to the subflow counts from one; the iteration  *)
(* is left out of the address.                                             *)
IterateRepeatFromOne(r, s, top, below) ==
  LET node == top.node
      bound == Binding(node.with, s, top.scope)
      scope == IF node.indexed THEN top.next + 1 ELSE bound
      advanced == [top EXCEPT !.next = @ + 1]
  IN  IF bound = Undefined THEN Charge(r, 1, Broken(r, "error"))
      ELSE Charge(r, 2, Enter(r, Append(below, advanced), top, node.sub, node,
                              scope, Append(top.repetitions, top.next)))

IterateRepeatUnaddressed(r, s, top, below) ==
  LET node == top.node
      bound == Binding(node.with, s, top.scope)
      scope == IF node.indexed THEN top.next ELSE bound
      advanced == [top EXCEPT !.next = @ + 1]
  IN  IF bound = Undefined THEN Charge(r, 1, Broken(r, "error"))
      ELSE Charge(r, 2, Enter(r, Append(below, advanced), top, node.sub, node,
                              scope, top.repetitions))

IterateRepeat(r, s, top, below) ==
  LET node == top.node
      bound == Binding(node.with, s, top.scope)
      scope == IF node.indexed THEN top.next ELSE bound
      advanced == [top EXCEPT !.next = @ + 1]
  IN  IF bound = Undefined THEN Charge(r, 1, Broken(r, "error"))
      ELSE Charge(r, 2, Enter(r, Append(below, advanced), top, node.sub, node,
                              scope, Append(top.repetitions, top.next)))

EnterBranch(r, s, top, advanced, node) ==
  LET deciding == DecidingCases(node, s, top.scope)
      first == CHOOSE i \in deciding : \A j \in deciding : i <= j
      target == IF deciding = {} THEN node.default ELSE node.cases[first].sub
      evaluated == IF deciding = {} THEN Len(node.cases) ELSE first
  IN  IF deciding # {} /\ Truth(node.cases[first].when, s, top.scope) = Undefined
      THEN Charge(r, 1 + evaluated, Broken(r, "error"))
      ELSE IF target = NoFlow
      THEN Charge(r, 1 + evaluated, [r EXCEPT !.frames = advanced])
      ELSE Charge(r, 2 + evaluated,
             Enter(r, advanced, top, target, node,
                   Binding(node.with, s, top.scope), top.repetitions))

(* Mutant: the declared maximum is not enforced.                           *)
BeginRepeatUnbounded(r, s, top, advanced, node) ==
  LET count == CountOf(node.count, s, top.scope)
  IN  IF count < 0
      THEN Charge(r, 1, Broken(r, "error"))
      ELSE Charge(r, 2, [r EXCEPT !.frames =
                           Append(advanced, RepeatFrame(node, count, top))])

BeginRepeat(r, s, top, advanced, node) ==
  LET count == CountOf(node.count, s, top.scope)
  IN  IF count < 0 \/ count > node.max
      THEN Charge(r, 1, Broken(r, "error"))
      ELSE Charge(r, 2, [r EXCEPT !.frames =
                           Append(advanced, RepeatFrame(node, count, top))])

(* Inspect the next node of the flow on top of the stack.                  *)
Inspect(flows, r, s, top, below) ==
  LET node == flows[top.flow][top.next]
      advanced == Append(below, [top EXCEPT !.next = @ + 1])
  IN  CASE node.kind = "step" ->
             Charge(r, 1, [r EXCEPT !.frames = advanced, !.result = "step",
               !.step = [id |-> node.id, invocations |-> top.invocations,
                         repetitions |-> top.repetitions,
                         scope |-> top.scope]])
        [] node.kind = "call" ->
             Charge(r, 2, Enter(r, advanced, top, node.sub, node,
               Binding(node.with, s, top.scope), top.repetitions))
        [] node.kind = "branch" -> EnterBranch(r, s, top, advanced, node)
        [] node.kind = "repeat" -> BeginRepeat(r, s, top, advanced, node)

(* A repeat frame without iterations left, a sequence frame without nodes. *)
Exhausted(flows, top) ==
  IF top.kind = "repeat" THEN top.next >= top.count
                         ELSE top.next > Len(flows[top.flow])

(* One iteration of the loop of _route.                                    *)
Advanced(flows, r, s) ==
  IF r.frames = <<>> THEN [r EXCEPT !.result = "done"]
  ELSE LET top == Last(r.frames)
           below == Front(r.frames)
       IN  IF Exhausted(flows, top) THEN [r EXCEPT !.frames = below]
           ELSE IF top.kind = "repeat" THEN IterateRepeat(r, s, top, below)
           ELSE Inspect(flows, r, s, top, below)

(* Every iteration charges an operation or pops a frame, and pushes only   *)
(* after a charge.                                                         *)
IterationBound(frames) == 2 * RoutingLimit + Len(frames) + 1

(* The loop stops at the first result.                                     *)
Continued(flows, r, s) ==
  IF r.result = "routing" THEN Advanced(flows, r, s) ELSE r

(* after[n] holds the one routing reached by n iterations (as a set, which *)
(* TLC evaluates once per iteration).                                      *)
RouteOf(flows, frames, s) ==
  LET after[n \in 0..IterationBound(frames)] ==
        IF n = 0 THEN {Routing(frames)}
        ELSE {Continued(flows, r, s) : r \in after[n - 1]}
  IN  CHOOSE r \in after[IterationBound(frames)] : TRUE
=============================================================================
