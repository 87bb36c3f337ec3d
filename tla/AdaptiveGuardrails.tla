------------------------- MODULE AdaptiveGuardrails -------------------------
(***************************************************************************)
(* The guardrails under an adapted contract, compared with the guardrails  *)
(* under the contract as the organization wrote it.                        *)
(***************************************************************************)
EXTENDS AdaptiveContract, Guardrails

CONSTANTS Actions, Histories, Measurements   \* what the guardrails are given

ASSUME GivenAssumption ==
    /\ Actions \subseteq NormalizedAction
    /\ Histories \subseteq Seq(HistoryEntry)
    /\ Measurements \subseteq Metrics

Adapted == [base EXCEPT !.scope = scope]

\* Adaptation only restricts: an action the guardrails let through under
\* the contract adapted so far, they let through under the contract file,
\* with any history and any metrics, and if the file wants a human for it,
\* the adapted contract does.
AdaptationOnlyRestricts ==
    \A a \in Actions, history \in Histories, metrics \in Measurements :
        ActionViolations(a, Adapted, history, metrics) = {} =>
            /\ ActionViolations(a, base, history, metrics) = {}
            /\ NeedsApproval(a, base) => NeedsApproval(a, Adapted)
=============================================================================
