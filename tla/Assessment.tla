----------------------------- MODULE Assessment -----------------------------
(***************************************************************************)
(* What may happen to a risk assessment between two calls of the evaluator *)
(* (core/guardrails/risk.py, core/trust): the plan gets a further action,  *)
(* the severity is raised, connections open, and the planner's scorecard   *)
(* records outcomes and rejections.  The contract is the same throughout.  *)
(***************************************************************************)
EXTENDS Risk

CONSTANTS
    Actions,         \* the actions a plan may have
    TheContract,     \* the contract the plans are assessed under
    MaxActions,      \* bound: actions of a plan
    MaxAttempts,     \* bound: outcomes on the scorecard
    MaxRejections    \* bound: rejections on the scorecard

ASSUME AssessmentAssumption ==
    /\ Actions \subseteq PlannedAction
    /\ MaxActions \in Nat /\ MaxAttempts \in Nat /\ MaxRejections \in Nat

VARIABLES plan, severity, checkout, card

assessment == <<plan, severity, checkout, card>>

AssessmentTypeOK ==
    /\ plan \in Seq(Actions) /\ plan # <<>>
    /\ severity \in Severities
    /\ checkout \in BOOLEAN
    /\ card \in Card

Rank == [s \in Severities |-> CASE s = "LOW" -> 1 [] s = "MEDIUM" -> 2
                                [] s = "HIGH" -> 3 [] s = "CRITICAL" -> 4]

AssessmentInit ==
    /\ plan \in { <<a>> : a \in Actions }
    /\ severity \in Severities
    /\ checkout = FALSE
    /\ card = NewCard

AddAction ==
    /\ Len(plan) < MaxActions
    /\ \E a \in Actions : plan' = Append(plan, a)
    /\ UNCHANGED <<severity, checkout, card>>

RaiseSeverity ==
    /\ severity' \in { s \in Severities : Rank[s] = Rank[severity] + 1 }
    /\ UNCHANGED <<plan, checkout, card>>

OpenCheckout ==
    /\ ~checkout
    /\ checkout' = TRUE
    /\ UNCHANGED <<plan, severity, card>>

\* An earlier incident of the service is finalized, or its plan rejected.
RecordOutcome ==
    /\ Attempted(card) < MaxAttempts
    /\ \E final \in {"SUCCESS", "FAILED", "ESCALATED", "DENIED"} :
           card' = OutcomeRecorded(card, final)
    /\ UNCHANGED <<plan, severity, checkout>>

RecordRejection ==
    /\ card.guardrail_rejections < MaxRejections
    /\ card' = RejectionRecorded(card)
    /\ UNCHANGED <<plan, severity, checkout>>

AssessmentNext ==
    \/ AddAction \/ RaiseSeverity \/ OpenCheckout
    \/ RecordOutcome \/ RecordRejection

AssessmentSpec == AssessmentInit /\ [][AssessmentNext]_assessment

TheScore ==
    Score(plan, severity, checkout, TheContract, TrustScore(card))

\* Making an assessment worse - a further action, a higher severity, open
\* connections, a failure, an escalation or a rejection on the planner's
\* scorecard - never lowers the score and never drops the request for a
\* human; and a success, whatever is on the card, never raises the score.
RiskGrows ==
    [][ IF card'.success_count > card.success_count
        THEN TheScore' <= TheScore
        ELSE /\ TheScore' >= TheScore
             /\ RiskNeedsApproval(plan, TheContract, TheScore)
                    => RiskNeedsApproval(plan, TheContract, TheScore)' ]_assessment

\* A plan for a CRITICAL incident is never executed without a human, even
\* with full trust, one harmless action and no approval requirement; and
\* a score stays on the scale of 0 to 100.
CriticalNeedsHuman ==
    /\ severity = "CRITICAL" => RiskNeedsApproval(plan, TheContract, TheScore)
    /\ TheScore \in 0..100
=============================================================================
