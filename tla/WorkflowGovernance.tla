------------------------- MODULE WorkflowGovernance -------------------------
(***************************************************************************)
(* The workflow implements the abstract specification of governance.       *)
(***************************************************************************)
EXTENDS Workflow

CONSTANT AttemptLimit   \* no contract file allows more attempts

ASSUME AttemptLimitBounds ==
    /\ AttemptLimit \in Nat
    /\ \A c \in ContractFiles : c.max_plan_retries <= AttemptLimit

Stage ==
    IF pc \in Idle THEN "closed"
    ELSE IF pc = "execute_actions" THEN "acting"
    ELSE IF pc = "validate_postconditions" THEN "assessing"
    ELSE "deliberating"

\* A plan is at hand, and it needs a human.
Sensitive ==
    /\ pc \in {"request_human_approval", "execute_actions",
               "validate_postconditions"}
    /\ NeedsHuman \/ incident.severity = "CRITICAL"

\* A human mandate is an approval given for the plan at hand: nothing was
\* recorded since.
Mandate ==
    IF pc # "execute_actions" THEN "none"
    ELSE IF Recent(0) = Event("human_decision", "APPROVED") THEN "human"
    ELSE "automatic"

Abstract ==
    INSTANCE Governance WITH
        stage <- Stage, sensitive <- Sensitive, mandate <- Mandate,
        attempts <- batches, effects <- performed

\* An execution is a mandate given for one attempt, and the infrastructure
\* receives calls only under it: every behaviour of the workflow, with its
\* retries, failures and resubmissions, is one of Governance.
ImplementsGovernance == Abstract!Spec
=============================================================================
