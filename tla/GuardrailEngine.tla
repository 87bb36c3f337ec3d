-------------------------- MODULE GuardrailEngine --------------------------
(***************************************************************************)
(* GuardrailEngine.evaluate (core/guardrails/engine.py) as the code runs   *)
(* it: the two pre-checks, then the loop over the normalized actions, one  *)
(* action per step.  The nodes call it without an accountant or a policy   *)
(* evaluator; the engine is modelled with both.                            *)
(***************************************************************************)
EXTENDS Guardrails

CONSTANT Requests   \* the calls of evaluate that are examined

\* tool_calls is what the accountant has left (Unset: no accountant or no
\* tool-call budget), banned the actions the active policy packs forbid
\* (none: no evaluator, or packs without rules).  A rule that forbids the
\* target service bans every action: the actions of a plan share a target.
Request ==
    [actions: Seq(NormalizedAction), contract: Contract,
     history: Seq(HistoryEntry), metrics: Metrics,
     tool_calls: Int \cup {Unset}, banned: SUBSET ActionTypes]

ASSUME RequestsAssumption ==
    /\ Unset \notin Int
    /\ Requests \subseteq Request

VARIABLES
    request,            \* the arguments
    phase,              \* "budget", "compliance", "loop", "raised", "done"
    cursor,             \* the action the loop looks at
    violations,         \* all_violations
    approval_required

vars == <<request, phase, cursor, violations, approval_required>>

TypeOK ==
    /\ request \in Requests
    /\ phase \in {"budget", "compliance", "loop", "raised", "done"}
    /\ cursor \in 1..(Len(request.actions) + 1)
    /\ violations \subseteq Checks \cup {"budget", "compliance"}
    /\ approval_required \in BOOLEAN

Init ==
    /\ request \in Requests
    /\ phase = "budget"
    /\ cursor = 1
    /\ violations = {}
    /\ approval_required = FALSE

OverBudget(r) == r.tool_calls # Unset /\ r.tool_calls < Len(r.actions)

NonCompliant(r) == \E i \in DOMAIN r.actions : r.actions[i].type \in r.banned

\* Mutant: a plan over budget is noted but examined further.
CheckBudgetGoesOn ==
    /\ phase = "budget"
    /\ phase' = "compliance"
    /\ violations' = IF OverBudget(request) THEN {"budget"} ELSE {}
    /\ UNCHANGED <<request, cursor, approval_required>>

CheckBudget ==
    /\ phase = "budget"
    /\ IF OverBudget(request)
       THEN phase' = "done" /\ violations' = {"budget"}
       ELSE phase' = "compliance" /\ UNCHANGED violations
    /\ UNCHANGED <<request, cursor, approval_required>>

CheckCompliance ==
    /\ phase = "compliance"
    /\ IF NonCompliant(request)
       THEN phase' = "done" /\ violations' = {"compliance"}
       ELSE phase' = "loop" /\ UNCHANGED violations
    /\ UNCHANGED <<request, cursor, approval_required>>

Current == request.actions[cursor]

RaiseOnParameter ==
    /\ phase = "loop"
    /\ cursor <= Len(request.actions)
    /\ Raises(Current, request.contract)
    /\ phase' = "raised"
    /\ UNCHANGED <<request, cursor, violations, approval_required>>

\* Mutant: the violations of the previous action are overwritten.
EvaluateLastOnly ==
    /\ phase = "loop"
    /\ cursor <= Len(request.actions)
    /\ ~Raises(Current, request.contract)
    /\ violations' = ActionViolations(Current, request.contract,
                                      request.history, request.metrics)
    /\ approval_required' = (approval_required
                                \/ NeedsApproval(Current, request.contract))
    /\ cursor' = cursor + 1
    /\ UNCHANGED <<request, phase>>

EvaluateAction ==
    /\ phase = "loop"
    /\ cursor <= Len(request.actions)
    /\ ~Raises(Current, request.contract)
    /\ violations' = violations
           \cup ActionViolations(Current, request.contract,
                                 request.history, request.metrics)
    /\ approval_required' = (approval_required
                                \/ NeedsApproval(Current, request.contract))
    /\ cursor' = cursor + 1
    /\ UNCHANGED <<request, phase>>

Return ==
    /\ phase = "loop"
    /\ cursor > Len(request.actions)
    /\ phase' = "done"
    /\ UNCHANGED <<request, cursor, violations, approval_required>>

Next ==
    \/ CheckBudget \/ CheckCompliance
    \/ RaiseOnParameter \/ EvaluateAction \/ Return

Spec == Init /\ [][Next]_vars

Status == Verdict(violations)

-----------------------------------------------------------------------------
\* What the workflow uses as one operator is what the loop computes: once
\* the loop has returned, the violations and the approval flag are those of
\* the whole plan, whatever the order of its actions, and the loop does not
\* return normally when some action's parameter makes it raise.
LoopComputesVerdict ==
    /\ phase = "done" /\ cursor > Len(request.actions)
                      /\ ~OverBudget(request) /\ ~NonCompliant(request) =>
           /\ violations = PlanViolations(request.actions, request.contract,
                                          request.history, request.metrics)
           /\ approval_required = PlanNeedsApproval(request.actions,
                                                    request.contract)
           /\ ~EvaluationRaises(request.actions, request.contract)
    /\ phase = "raised" =>
           EvaluationRaises(request.actions, request.contract)

\* "Forbidden always wins" (docs/ADOPTION.md, section 4a): a plan holding a
\* forbidden mutating action is never approved, wherever the action stands
\* in the plan, even if the allow list has it and nothing else objects.
ForbiddenAlwaysWins ==
    phase = "done" /\ Status = "APPROVED" =>
        \A i \in DOMAIN request.actions :
            request.actions[i].type \in ReadOnly
            \/ ~IsForbidden(request.contract.scope, request.actions[i].type)

\* "If budget is breached, we can instantly reject" and the compliance
\* pre-check likewise: a plan a pre-check rejects is never examined, so the
\* loop's violations are not mixed with the pre-check's and the result
\* never asks for a human approval of a plan that is rejected outright.
PreChecksAreFinal ==
    /\ OverBudget(request) \/ NonCompliant(request) =>
           cursor = 1 /\ phase \notin {"loop", "raised"} /\ ~approval_required
    /\ phase = "done" /\ Status = "APPROVED" =>
           ~OverBudget(request) /\ ~NonCompliant(request)
=============================================================================
