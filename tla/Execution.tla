----------------------------- MODULE Execution -----------------------------
(***************************************************************************)
(* The execute_actions node (core/orchestration/nodes.py) over the MCP     *)
(* client (core/execution/client.py), one call of the client per step: the *)
(* calls reach the infrastructure one by one, and the node's result is     *)
(* merged into the state only when it returns.                             *)
(*                                                                         *)
(* Every mutating action type is on the client's allowlist, so a call      *)
(* always reaches the driver, which answers success or failure.            *)
(***************************************************************************)
EXTENDS Guardrails

VARIABLES
    normalized_actions,   \* the plan, as the guardrails approved it
    direction,            \* the loop that runs: "forward" or "back"
    cursor,               \* the action the loop looks at
    results,              \* the node's results so far
    compensations,        \* and its compensation_results
    performed,            \* ghost: calls the infrastructure has received
    restarted             \* ghost: pods restarted by successful calls

executeVars ==
    <<normalized_actions, direction, cursor, results, compensations,
      performed, restarted>>

ExecuteTypeOK ==
    /\ normalized_actions \in Seq(NormalizedAction)
    /\ direction \in {"forward", "back"}
    /\ cursor \in Nat
    /\ results \in Seq(HistoryEntry)
    /\ compensations \in Seq(HistoryEntry)
    /\ performed \in Nat
    /\ restarted \in Int

\* The node's locals before it runs.
ExecuteLocalsFresh ==
    /\ direction = "forward"
    /\ cursor = 1
    /\ results = <<>>
    /\ compensations = <<>>

Looking == normalized_actions[cursor]

Going == direction = "forward" /\ cursor <= Len(normalized_actions)

SkipReadOnly ==
    /\ Going
    /\ Looking.type \in ReadOnly
    /\ cursor' = cursor + 1
    /\ UNCHANGED <<normalized_actions, direction, results, compensations,
                   performed, restarted>>

\* A driver that is given a negative count restarts nothing.
RestartedBy(a) ==
    IF a.type = "restart_pods" /\ a.count > 0 THEN a.count ELSE 0

\* Mutant: the loop goes on after a failed action.
PerformOnFailure(ok) ==
    /\ Going
    /\ Looking.type \notin ReadOnly
    /\ results' = Append(results, [action |-> Looking.type, success |-> ok])
    /\ performed' = performed + 1
    /\ restarted' = restarted + (IF ok THEN RestartedBy(Looking) ELSE 0)
    /\ direction' = "forward"
    /\ cursor' = cursor + 1
    /\ UNCHANGED <<normalized_actions, compensations>>

\* The first failure ends the loop; the walk back starts at the action
\* before it.
PerformAction(ok) ==
    /\ Going
    /\ Looking.type \notin ReadOnly
    /\ results' = Append(results, [action |-> Looking.type, success |-> ok])
    /\ performed' = performed + 1
    /\ IF ok
       THEN /\ cursor' = cursor + 1
            /\ restarted' = restarted + RestartedBy(Looking)
            /\ UNCHANGED direction
       ELSE /\ cursor' = cursor - 1
            /\ direction' = "back"
            /\ UNCHANGED restarted
    /\ UNCHANGED <<normalized_actions, compensations>>

\* Mutant: a compensation that fails is not recorded.
CompensateForgetful(ok) ==
    /\ direction = "back"
    /\ cursor > 0
    /\ IF Looking.type \notin ReadOnly /\ Looking.compensation
       THEN /\ compensations' =
                   IF ok THEN Append(compensations,
                                     [action |-> Looking.type, success |-> ok])
                   ELSE compensations
            /\ performed' = performed + 1
       ELSE UNCHANGED <<compensations, performed>>
    /\ cursor' = cursor - 1
    /\ UNCHANGED <<normalized_actions, direction, results, restarted>>

\* The successful actions, newest first; a compensation that fails is
\* recorded and the walk continues.
Compensate(ok) ==
    /\ direction = "back"
    /\ cursor > 0
    /\ IF Looking.type \notin ReadOnly /\ Looking.compensation
       THEN /\ compensations' = Append(compensations,
                                    [action |-> Looking.type, success |-> ok])
            /\ performed' = performed + 1
       ELSE UNCHANGED <<compensations, performed>>
    /\ cursor' = cursor - 1
    /\ UNCHANGED <<normalized_actions, direction, results, restarted>>

\* The node has nothing left to do.
Executed ==
    \/ direction = "forward" /\ cursor > Len(normalized_actions)
    \/ direction = "back" /\ cursor = 0

ExecuteStep ==
    \/ SkipReadOnly
    \/ \E ok \in BOOLEAN : PerformAction(ok) \/ Compensate(ok)

\* How much of the plan the loops may still look at: on the way forward the
\* rest of it, and all of it again on the way back.
Remaining ==
    IF direction = "forward" THEN 2 * Len(normalized_actions) + 1 - cursor
    ELSE cursor
=============================================================================
