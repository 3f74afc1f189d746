--------------------------- MODULE EngineOneFlow ---------------------------
(***************************************************************************)
(* The control flow of Engine 1 (dsl/runtime.py, execute_sequence and      *)
(* execute_invocation): one flow run to its end by structural recursion.   *)
(* It is the reference meaning of a flow; Engine 2 reaches the same steps  *)
(* through an explicit stack that it routes again before every selection.  *)
(***************************************************************************)
EXTENDS ActorRouting

CONSTANT Effect(_, _)   \* (step, state) -> committed post-state

(* What a run has done so far: the state, the addressed steps executed and *)
(* whether an evaluation raised.                                           *)
Run(s) == [state |-> s, trace |-> <<>>, failed |-> FALSE]

Failed(run) == [run EXCEPT !.failed = TRUE]

RECURSIVE ExecuteSequence(_, _, _, _, _, _, _)
RECURSIVE ExecuteIterations(_, _, _, _, _, _, _, _)

(* execute_invocation: bind, extend the address, run the subflow.          *)
ExecuteInvocation(flows, node, sub, scope, invocations, repetitions, run) ==
  LET child == Binding(node.with, run.state, scope)
  IN  IF child = Undefined THEN Failed(run)
      ELSE ExecuteSequence(flows, sub, 1, child,
             Append(invocations, Invocation(node, sub)), repetitions, run)

ExecuteBranch(flows, node, scope, invocations, repetitions, run) ==
  LET deciding == DecidingCases(node, run.state, scope)
      first == CHOOSE i \in deciding : \A j \in deciding : i <= j
      target == IF deciding = {} THEN node.default ELSE node.cases[first].sub
  IN  IF deciding # {}
         /\ Truth(node.cases[first].when, run.state, scope) = Undefined
      THEN Failed(run)
      ELSE IF target = NoFlow THEN run
      ELSE ExecuteInvocation(flows, node, target, scope, invocations,
                             repetitions, run)

ExecuteRepeat(flows, node, scope, invocations, repetitions, run) ==
  LET count == CountOf(node.count, run.state, scope)
  IN  IF count < 0 \/ count > node.max THEN Failed(run)
      ELSE ExecuteIterations(flows, node, 0, count, scope, invocations,
                             repetitions, run)

ExecuteIterations(flows, node, index, count, scope, invs, repetitions, run) ==
  IF run.failed \/ index >= count THEN run
  ELSE LET bound == Binding(node.with, run.state, scope)
           child == IF bound # Undefined /\ node.indexed THEN index ELSE bound
           after == IF child = Undefined THEN Failed(run)
                    ELSE ExecuteSequence(flows, node.sub, 1, child,
                           Append(invs, Invocation(node, node.sub)),
                           Append(repetitions, index), run)
       IN  ExecuteIterations(flows, node, index + 1, count, scope,
                             invs, repetitions, after)

ExecuteStep(node, scope, invocations, repetitions, run) ==
  LET step == [id |-> node.id, invocations |-> invocations,
               repetitions |-> repetitions, scope |-> scope]
  IN  [run EXCEPT !.state = Effect(step, run.state),
                  !.trace = Append(run.trace, step)]

ExecuteSequence(flows, flow, i, scope, invocations, repetitions, run) ==
  IF run.failed \/ i > Len(flows[flow]) THEN run
  ELSE LET node == flows[flow][i]
           after ==
             CASE node.kind = "step" ->
                    ExecuteStep(node, scope, invocations, repetitions, run)
               [] node.kind = "call" ->
                    ExecuteInvocation(flows, node, node.sub, scope,
                                      invocations, repetitions, run)
               [] node.kind = "branch" ->
                    ExecuteBranch(flows, node, scope, invocations,
                                  repetitions, run)
               [] node.kind = "repeat" ->
                    ExecuteRepeat(flows, node, scope, invocations,
                                  repetitions, run)
       IN  ExecuteSequence(flows, flow, i + 1, scope, invocations,
                           repetitions, after)

EngineOne(flows, s) ==
  ExecuteSequence(flows, "main", 1, NoScope, <<>>, <<>>, Run(s))
=============================================================================
