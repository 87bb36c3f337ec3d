------------------------------ MODULE Workflow ------------------------------
(***************************************************************************)
(* The remediation workflow of one incident: the LangGraph state           *)
(* (core/orchestration/state.py), its nodes (nodes.py), the routers        *)
(* (routing.py) and the topology (builder.py).  One action per node, but   *)
(* for execute_actions, whose calls of the driver are steps of their own   *)
(* (module Execution).                                                     *)
(*                                                                         *)
(* The graph is run by one job at a time.  A submission under the same     *)
(* incident id restarts the graph at its first node on the state the       *)
(* checkpointer has: no channel is reset.                                  *)
(***************************************************************************)
EXTENDS Execution, Risk

CONSTANTS
    ContractFiles,   \* what the contracts directory may hold for the service
    NoContract,      \* the empty contract of a failed resolution
    Incidents,       \* the incidents that may be submitted
    Plans,           \* the plans the planner may propose
    MaxRuns          \* bound: submissions under the incident's id

\* What the resolver makes of the files.
EffectiveContracts ==
    { Effective(base, severity) : base \in ContractFiles,
                                  severity \in Severities }

Incident == [severity: Severities, checkout: BOOLEAN, metrics: Metrics]

ASSUME WorkflowAssumption ==
    /\ Unset \notin Int /\ Unset \notin Severities
    /\ ContractFiles \subseteq Contract
    /\ \A c \in ContractFiles : ValidLimits(c.scope)
    /\ NoContract \notin EffectiveContracts
    /\ Incidents \subseteq Incident /\ Incidents # {}
    /\ Plans \subseteq Seq(PlannedAction) /\ <<>> \notin Plans
    /\ MaxRuns \in Nat

VARIABLES
    pc,                      \* the node that runs next, or where the run is
    runs,                    \* submissions so far
    incident,
    retrieved_contract,
    proposed_plan,           \* <<>>: none
    guardrail_status,        \* "none": the channel has no value yet
    violations,
    approval_required,
    risk_level,
    human_decision,
    retry_count,
    execution_history,
    compensation_history,
    postcondition_results,
    final_status,
    audit_trail,             \* the newest events
    batches                  \* ghost: executions in this run

vars ==
    <<executeVars, pc, runs, incident, retrieved_contract, proposed_plan,
      guardrail_status, violations, approval_required, risk_level,
      human_decision, retry_count, execution_history, compensation_history,
      postcondition_results, final_status, audit_trail, batches>>

intake     == <<runs, incident, retrieved_contract>>
planning   == <<proposed_plan, normalized_actions>>
verdict    == <<guardrail_status, violations, approval_required, risk_level>>
histories  == <<execution_history, compensation_history>>
outcome    == <<postcondition_results, final_status>>
locals     == <<direction, cursor, results, compensations>>
ghosts     == <<performed, restarted>>

Nodes ==
    {"ingest_incident", "identify_service", "retrieve_knowledge",
     "resolve_contract", "plan_remediation", "evaluate_guardrails",
     "evaluate_semantics", "increment_retry", "evaluate_risk",
     "request_human_approval", "execute_actions",
     "validate_postconditions", "handle_escalation", "finalize"}

Idle == {"idle", "END", "raised"}

Statuses == {"SUCCESS", "FAILED", "ESCALATED", "DENIED"}

AuditEvent ==
    [event: {"incident_ingested", "knowledge_retrieved",
             "contract_resolved", "contract_resolution_failed",
             "plan_proposed", "plan_failed", "guardrail_evaluated",
             "semantic_validation_passed", "semantic_validation_failed",
             "risk_evaluated", "human_decision", "actions_executed",
             "postconditions_validated", "escalated", "finalized"},
     outcome: {"accepted", "success", "fallback_no_context", "loaded",
               "escalated", "proposed", "error", "APPROVED", "REJECTED",
               "passed", "rejected", "executed", "compensated", "failed"}
              \cup RiskLevels \cup Statuses]

Event(event, result) == [event |-> event, outcome |-> result]

\* Bound: how many of the trail's newest events are kept, the longest chain
\* that an execution is shown to rest on.
TrailKept == 5

Audit(event, result) ==
    LET trail == Append(audit_trail, Event(event, result))
    IN  audit_trail' = IF Len(trail) > TrailKept THEN Tail(trail) ELSE trail

Init ==
    /\ pc = "idle"
    /\ runs = 0
    /\ incident \in Incidents
    /\ retrieved_contract = NoContract
    /\ proposed_plan = <<>> /\ normalized_actions = <<>>
    /\ guardrail_status = "none"
    /\ violations = {}
    /\ approval_required = FALSE
    /\ risk_level = "LOW"
    /\ human_decision = "none"
    /\ retry_count = 0
    /\ execution_history = <<>> /\ compensation_history = <<>>
    /\ postcondition_results = <<>>
    /\ final_status = "none"
    /\ audit_trail = <<>>
    /\ ExecuteLocalsFresh
    /\ performed = 0 /\ restarted = 0 /\ batches = 0

-----------------------------------------------------------------------------
(* The routers (routing.py).                                               *)

MaxPlanRetries(contract) ==
    IF contract = NoContract THEN 3 ELSE contract.max_plan_retries

RouteAfterContract(contract) ==
    IF contract # NoContract THEN "plan_remediation" ELSE "handle_escalation"

RouteAfterGuardrail(status, approved) ==
    IF status = "APPROVED" THEN approved ELSE "increment_retry"

\* Mutant: one retry too many.
RouteOneMore(retries, contract) ==
    IF retries <= MaxPlanRetries(contract)
    THEN "plan_remediation" ELSE "handle_escalation"

RouteAfterRejection(retries, contract) ==
    IF retries < MaxPlanRetries(contract)
    THEN "plan_remediation" ELSE "handle_escalation"

RouteAfterRisk(approval, level) ==
    IF approval \/ level \in {"HIGH", "CRITICAL"}
    THEN "request_human_approval" ELSE "execute_actions"

\* Mutant: only an explicit rejection of an unsafe plan stops it.
RouteUnlessUnsafe(decision) ==
    IF decision = "REJECTED" /\ risk_level \in {"HIGH", "CRITICAL"}
    THEN "finalize" ELSE "execute_actions"

RouteAfterHuman(decision) ==
    IF decision = "APPROVED" THEN "execute_actions" ELSE "finalize"

RouteAfterPostcondition(passed, retries, contract) ==
    IF passed # <<>> /\ \A i \in DOMAIN passed : passed[i] THEN "finalize"
    ELSE IF retries < MaxPlanRetries(contract) THEN "increment_retry"
    ELSE "handle_escalation"

\* An execution starts when the graph moves to execute_actions.
CountBatch ==
    batches' = batches + (IF pc' = "execute_actions" THEN 1 ELSE 0)

-----------------------------------------------------------------------------
(* Intake (nodes.py, nodes 1 to 4).                                        *)

\* A job with a new input: the graph starts over on the channels it has.
SubmitIncident ==
    /\ pc \in Idle \cup {"request_human_approval"}
    /\ runs < MaxRuns
    /\ runs' = runs + 1
    /\ incident' \in Incidents
    /\ batches' = 0
    /\ pc' = "ingest_incident"
    /\ UNCHANGED <<retrieved_contract, planning, verdict, human_decision,
                   retry_count, histories, outcome, audit_trail, locals,
                   ghosts>>

IngestIncident ==
    /\ pc = "ingest_incident"
    /\ retry_count' = 0
    /\ Audit("incident_ingested", "accepted")
    /\ pc' = "identify_service"
    /\ UNCHANGED <<intake, planning, verdict, human_decision, histories,
                   outcome, locals, ghosts, batches>>

IdentifyService ==
    /\ pc = "identify_service"
    /\ pc' = "retrieve_knowledge"
    /\ UNCHANGED <<intake, planning, verdict, human_decision, retry_count,
                   histories, outcome, audit_trail, locals, ghosts, batches>>

RetrieveKnowledge ==
    /\ pc = "retrieve_knowledge"
    /\ \E result \in {"success", "fallback_no_context"} :
           Audit("knowledge_retrieved", result)
    /\ pc' = "resolve_contract"
    /\ UNCHANGED <<intake, planning, verdict, human_decision, retry_count,
                   histories, outcome, locals, ghosts, batches>>

\* No file for the service and environment, or an invalid one.
ContractMissing ==
    /\ pc = "resolve_contract"
    /\ retrieved_contract' = NoContract
    /\ guardrail_status' = "REJECTED"
    /\ violations' = {"no_contract"}
    /\ final_status' = "ESCALATED"
    /\ Audit("contract_resolution_failed", "escalated")
    /\ pc' = RouteAfterContract(NoContract)
    /\ UNCHANGED <<runs, incident, planning, approval_required, risk_level,
                   human_decision, retry_count, histories,
                   postcondition_results, locals, ghosts, batches>>

ContractLoaded(base) ==
    /\ pc = "resolve_contract"
    /\ retrieved_contract' = Effective(base, incident.severity)
    /\ Audit("contract_resolved", "loaded")
    /\ pc' = RouteAfterContract(retrieved_contract')
    /\ UNCHANGED <<runs, incident, planning, verdict, human_decision,
                   retry_count, histories, outcome, locals, ghosts, batches>>

ResolveContract ==
    ContractMissing \/ \E base \in ContractFiles : ContractLoaded(base)

-----------------------------------------------------------------------------
(* Planning and governance (nodes.py, nodes 5 to 9).                       *)

\* The node builds the contract again before its try block: limits that an
\* adaptive rule left out of range raise, and the job ends.
RaiseOnContract ==
    /\ pc = "plan_remediation"
    /\ ~ValidLimits(retrieved_contract.scope)
    /\ pc' = "raised"
    /\ UNCHANGED <<intake, planning, verdict, human_decision, retry_count,
                   histories, outcome, audit_trail, locals, ghosts, batches>>

PlanProposed(plan) ==
    /\ pc = "plan_remediation"
    /\ ValidLimits(retrieved_contract.scope)
    /\ proposed_plan' = plan
    /\ normalized_actions' = NormalizePlan(plan)
    /\ Audit("plan_proposed", "proposed")
    /\ pc' = "evaluate_guardrails"
    /\ UNCHANGED <<intake, verdict, human_decision, retry_count, histories,
                   outcome, locals, ghosts, batches>>

\* The model call fails, its answer does not parse, or an action is unknown.
PlanFailed ==
    /\ pc = "plan_remediation"
    /\ ValidLimits(retrieved_contract.scope)
    /\ proposed_plan' = <<>> /\ normalized_actions' = <<>>
    /\ guardrail_status' = "REJECTED"
    /\ violations' = {"planning"}
    /\ Audit("plan_failed", "error")
    /\ pc' = "evaluate_guardrails"
    /\ UNCHANGED <<intake, approval_required, risk_level, human_decision,
                   retry_count, histories, outcome, locals, ghosts, batches>>

PlanRemediation ==
    \/ RaiseOnContract
    \/ \E plan \in Plans : PlanProposed(plan)
    \/ PlanFailed

NoPlan == retrieved_contract = NoContract \/ normalized_actions = <<>>

\* No contract, or a planner that failed: the status is set once more.
RejectWithoutPlan ==
    /\ pc = "evaluate_guardrails"
    /\ NoPlan
    /\ guardrail_status' = "REJECTED"
    /\ violations' = {"no_plan"}
    /\ approval_required' = FALSE
    /\ pc' = RouteAfterGuardrail("REJECTED", "evaluate_semantics")
    /\ UNCHANGED <<intake, planning, risk_level, human_decision, retry_count,
                   histories, outcome, audit_trail, locals, ghosts, batches>>

RaiseInValidator ==
    /\ pc = "evaluate_guardrails"
    /\ ~NoPlan
    /\ EvaluationRaises(normalized_actions, retrieved_contract)
    /\ pc' = "raised"
    /\ UNCHANGED <<intake, planning, verdict, human_decision, retry_count,
                   histories, outcome, audit_trail, locals, ghosts, batches>>

\* Mutant: the plan is evaluated without what was executed before.
EvaluateWithoutHistory ==
    /\ pc = "evaluate_guardrails"
    /\ ~NoPlan
    /\ ~EvaluationRaises(normalized_actions, retrieved_contract)
    /\ violations' = PlanViolations(normalized_actions, retrieved_contract,
                                    <<>>, incident.metrics)
    /\ guardrail_status' = Verdict(violations')
    /\ approval_required' = PlanNeedsApproval(normalized_actions,
                                              retrieved_contract)
    /\ Audit("guardrail_evaluated", guardrail_status')
    /\ pc' = RouteAfterGuardrail(guardrail_status', "evaluate_semantics")
    /\ UNCHANGED <<intake, planning, risk_level, human_decision, retry_count,
                   histories, outcome, locals, ghosts, batches>>

\* Mutant: the topology of builder.py's docstring, where an approved plan
\* goes to evaluate_risk.
EvaluateSkippingSemantics ==
    /\ pc = "evaluate_guardrails"
    /\ ~NoPlan
    /\ ~EvaluationRaises(normalized_actions, retrieved_contract)
    /\ violations' = PlanViolations(normalized_actions, retrieved_contract,
                                    execution_history, incident.metrics)
    /\ guardrail_status' = Verdict(violations')
    /\ approval_required' = PlanNeedsApproval(normalized_actions,
                                              retrieved_contract)
    /\ Audit("guardrail_evaluated", guardrail_status')
    /\ pc' = RouteAfterGuardrail(guardrail_status', "evaluate_risk")
    /\ UNCHANGED <<intake, planning, risk_level, human_decision, retry_count,
                   histories, outcome, locals, ghosts, batches>>

EvaluatePlan ==
    /\ pc = "evaluate_guardrails"
    /\ ~NoPlan
    /\ ~EvaluationRaises(normalized_actions, retrieved_contract)
    /\ violations' = PlanViolations(normalized_actions, retrieved_contract,
                                    execution_history, incident.metrics)
    /\ guardrail_status' = Verdict(violations')
    /\ approval_required' = PlanNeedsApproval(normalized_actions,
                                              retrieved_contract)
    /\ Audit("guardrail_evaluated", guardrail_status')
    /\ pc' = RouteAfterGuardrail(guardrail_status', "evaluate_semantics")
    /\ UNCHANGED <<intake, planning, risk_level, human_decision, retry_count,
                   histories, outcome, locals, ghosts, batches>>

EvaluateGuardrails == RejectWithoutPlan \/ RaiseInValidator \/ EvaluatePlan

\* The policy agent's model call is in no try block.
RaiseInPolicyAgent ==
    /\ pc = "evaluate_semantics"
    /\ pc' = "raised"
    /\ UNCHANGED <<intake, planning, verdict, human_decision, retry_count,
                   histories, outcome, audit_trail, locals, ghosts, batches>>

SemanticsPassed ==
    /\ pc = "evaluate_semantics"
    /\ Audit("semantic_validation_passed", "passed")
    /\ pc' = RouteAfterGuardrail(guardrail_status, "evaluate_risk")
    /\ UNCHANGED <<intake, planning, verdict, human_decision, retry_count,
                   histories, outcome, locals, ghosts, batches>>

SemanticsFailed ==
    /\ pc = "evaluate_semantics"
    /\ guardrail_status' = "REJECTED"
    /\ violations' = violations \cup {"semantic"}
    /\ Audit("semantic_validation_failed", "rejected")
    /\ pc' = RouteAfterGuardrail("REJECTED", "evaluate_risk")
    /\ UNCHANGED <<intake, planning, approval_required, risk_level,
                   human_decision, retry_count, histories, outcome, locals,
                   ghosts, batches>>

EvaluateSemantics == RaiseInPolicyAgent \/ SemanticsPassed \/ SemanticsFailed

\* Mutant: the counter is not incremented.
RetryUncounted ==
    /\ pc = "increment_retry"
    /\ pc' = RouteAfterRejection(retry_count, retrieved_contract)
    /\ UNCHANGED <<intake, planning, verdict, human_decision, retry_count,
                   histories, outcome, audit_trail, locals, ghosts, batches>>

IncrementRetry ==
    /\ pc = "increment_retry"
    /\ retry_count' = retry_count + 1
    /\ pc' = RouteAfterRejection(retry_count', retrieved_contract)
    /\ UNCHANGED <<intake, planning, verdict, human_decision, histories,
                   outcome, audit_trail, locals, ghosts, batches>>

CurrentScore ==
    Score(proposed_plan, incident.severity, incident.checkout,
          retrieved_contract, NeutralTrust)

\* Mutant: the guardrails' approval flag is overwritten, not merged.
EvaluateRiskAlone ==
    /\ pc = "evaluate_risk"
    /\ risk_level' = RiskLevel(CurrentScore)
    /\ approval_required' =
           RiskNeedsApproval(proposed_plan, retrieved_contract, CurrentScore)
    /\ Audit("risk_evaluated", risk_level')
    /\ pc' = RouteAfterRisk(approval_required', risk_level')
    /\ CountBatch
    /\ UNCHANGED <<intake, planning, guardrail_status, violations,
                   human_decision, retry_count, histories, outcome, locals,
                   ghosts>>

EvaluateRisk ==
    /\ pc = "evaluate_risk"
    /\ risk_level' = RiskLevel(CurrentScore)
    /\ approval_required' =
           (RiskNeedsApproval(proposed_plan, retrieved_contract, CurrentScore)
                \/ approval_required)
    /\ Audit("risk_evaluated", risk_level')
    /\ pc' = RouteAfterRisk(approval_required', risk_level')
    /\ CountBatch
    /\ UNCHANGED <<intake, planning, guardrail_status, violations,
                   human_decision, retry_count, histories, outcome, locals,
                   ghosts>>

\* Mutant: the answer is not checked.
RequestRawAnswer(answer) ==
    /\ pc = "request_human_approval"
    /\ human_decision' = answer
    /\ Audit("human_decision", human_decision')
    /\ pc' = RouteAfterHuman(human_decision')
    /\ CountBatch
    /\ UNCHANGED <<intake, planning, verdict, retry_count, histories,
                   outcome, locals, ghosts>>

\* The job that paused here resumes with the answer of an approver; any
\* answer but the two it knows counts as a rejection.
RequestHumanApproval(answer) ==
    /\ pc = "request_human_approval"
    /\ human_decision' = IF answer \in {"APPROVED", "REJECTED"}
                         THEN answer ELSE "REJECTED"
    /\ Audit("human_decision", human_decision')
    /\ pc' = RouteAfterHuman(human_decision')
    /\ CountBatch
    /\ UNCHANGED <<intake, planning, verdict, retry_count, histories,
                   outcome, locals, ghosts>>

-----------------------------------------------------------------------------
(* Execution and its outcome (nodes.py, nodes 10 to 13).                   *)

\* The client for the incident is created first, and with it the driver: one
\* that cannot be made (a backend without a driver, a cluster without a
\* configuration) raises before any call.
RaiseWithoutDriver ==
    /\ pc = "execute_actions"
    /\ ExecuteLocalsFresh
    /\ pc' = "raised"
    /\ UNCHANGED <<intake, planning, verdict, human_decision, retry_count,
                   histories, outcome, audit_trail, locals, ghosts, batches>>

ExecuteAction ==
    /\ pc = "execute_actions"
    /\ ExecuteStep
    /\ UNCHANGED <<pc, intake, proposed_plan, verdict, human_decision,
                   retry_count, histories, outcome, audit_trail, batches>>

\* Mutant: the results replace the history, as in a channel without a
\* reducer.
OverwriteHistory ==
    /\ pc = "execute_actions"
    /\ Executed
    /\ execution_history' = results
    /\ compensation_history' = compensation_history \o compensations
    /\ Audit("actions_executed",
             IF direction = "back" THEN "compensated" ELSE "executed")
    /\ direction' = "forward" /\ cursor' = 1
    /\ results' = <<>> /\ compensations' = <<>>
    /\ pc' = "validate_postconditions"
    /\ UNCHANGED <<intake, planning, verdict, human_decision, retry_count,
                   outcome, ghosts, batches>>

\* The results are appended to the histories by the channels' reducers.
\* The plan is never empty here: the guardrails reject an empty one.
ReturnResults ==
    /\ pc = "execute_actions"
    /\ Executed
    /\ execution_history' = execution_history \o results
    /\ compensation_history' = compensation_history \o compensations
    /\ Audit("actions_executed",
             IF direction = "back" THEN "compensated" ELSE "executed")
    /\ direction' = "forward" /\ cursor' = 1
    /\ results' = <<>> /\ compensations' = <<>>
    /\ pc' = "validate_postconditions"
    /\ UNCHANGED <<intake, planning, verdict, human_decision, retry_count,
                   outcome, ghosts, batches>>

ExecuteActions == RaiseWithoutDriver \/ ExecuteAction \/ ReturnResults

\* No rule is left to check: SUCCESS is recorded, but the empty result list
\* does not count as passed when the graph moves on.
NothingToValidate ==
    /\ pc = "validate_postconditions"
    /\ retrieved_contract.postconditions = 0
    /\ postcondition_results' = <<>>
    /\ final_status' = "SUCCESS"
    /\ pc' = RouteAfterPostcondition(<<>>, retry_count, retrieved_contract)
    /\ UNCHANGED <<intake, planning, verdict, human_decision, retry_count,
                   histories, audit_trail, locals, ghosts, batches>>

\* The client, which another process creates anew, or the backend that is
\* asked for the metrics raises: this is in no try block.
RaiseInMetrics ==
    /\ pc = "validate_postconditions"
    /\ retrieved_contract.postconditions > 0
    /\ pc' = "raised"
    /\ UNCHANGED <<intake, planning, verdict, human_decision, retry_count,
                   histories, outcome, audit_trail, locals, ghosts, batches>>

CheckPostconditions ==
    /\ pc = "validate_postconditions"
    /\ retrieved_contract.postconditions > 0
    /\ \E passed \in [1..retrieved_contract.postconditions -> BOOLEAN] :
           /\ postcondition_results' = passed
           /\ Audit("postconditions_validated",
                    IF \A i \in DOMAIN passed : passed[i]
                    THEN "passed" ELSE "failed")
           /\ pc' = RouteAfterPostcondition(passed, retry_count,
                                            retrieved_contract)
    /\ UNCHANGED <<intake, planning, verdict, human_decision, retry_count,
                   histories, final_status, locals, ghosts, batches>>

ValidatePostconditions ==
    NothingToValidate \/ RaiseInMetrics \/ CheckPostconditions

HandleEscalation ==
    /\ pc = "handle_escalation"
    /\ approval_required' = TRUE
    /\ Audit("escalated", "escalated")
    /\ pc' = "finalize"
    /\ UNCHANGED <<intake, planning, guardrail_status, violations, risk_level,
                   human_decision, retry_count, histories, outcome, locals,
                   ghosts, batches>>

AllPassed == \A i \in DOMAIN postcondition_results : postcondition_results[i]

AllExecuted ==
    /\ execution_history # <<>>
    /\ \A i \in DOMAIN execution_history : execution_history[i].success

\* Mutant: an execution without results counts as executed.
StatusOfNothing ==
    IF human_decision = "REJECTED" THEN "DENIED"
    ELSE IF final_status # "none" THEN final_status
    ELSE IF AllPassed /\ (execution_history = <<>> \/ AllExecuted)
    THEN "SUCCESS"
    ELSE IF retry_count >= 3 THEN "ESCALATED"
    ELSE "FAILED"

FinalStatus ==
    IF human_decision = "REJECTED" THEN "DENIED"
    ELSE IF final_status # "none" THEN final_status
    ELSE IF AllPassed /\ AllExecuted THEN "SUCCESS"
    ELSE IF retry_count >= 3 THEN "ESCALATED"
    ELSE "FAILED"

Finalize ==
    /\ pc = "finalize"
    /\ final_status' = FinalStatus
    /\ Audit("finalized", final_status')
    /\ pc' = "END"
    /\ UNCHANGED <<intake, planning, verdict, human_decision, retry_count,
                   histories, postcondition_results, locals, ghosts, batches>>

-----------------------------------------------------------------------------
\* What a running job does by itself.
NodeStep ==
    \/ IngestIncident \/ IdentifyService \/ RetrieveKnowledge
    \/ ResolveContract \/ PlanRemediation \/ EvaluateGuardrails
    \/ EvaluateSemantics \/ IncrementRetry \/ EvaluateRisk
    \/ ExecuteActions \/ ValidatePostconditions \/ HandleEscalation
    \/ Finalize

Next ==
    \/ SubmitIncident
    \/ NodeStep
    \/ \E answer \in {"APPROVED", "REJECTED", "other"} :
           RequestHumanApproval(answer)

Spec == Init /\ [][Next]_vars

\* A job runs until the graph stops; nobody has to submit or to answer.
FairSpec == Spec /\ WF_vars(NodeStep)

-----------------------------------------------------------------------------
(* Properties.                                                             *)

TypeOK ==
    /\ ExecuteTypeOK
    /\ pc \in Nodes \cup Idle
    /\ runs \in 0..MaxRuns
    /\ incident \in Incidents
    /\ retrieved_contract \in EffectiveContracts \cup {NoContract}
    /\ proposed_plan \in Plans \cup {<<>>}
    /\ guardrail_status \in {"none", "APPROVED", "REJECTED"}
    /\ violations \subseteq
           Checks \cup {"no_contract", "planning", "no_plan", "semantic"}
    /\ approval_required \in BOOLEAN
    /\ risk_level \in RiskLevels
    /\ human_decision \in {"none", "APPROVED", "REJECTED"}
    /\ retry_count \in Nat
    /\ execution_history \in Seq(HistoryEntry)
    /\ compensation_history \in Seq(HistoryEntry)
    /\ postcondition_results \in Seq(BOOLEAN)
    /\ final_status \in Statuses \cup {"none"}
    /\ audit_trail \in Seq(AuditEvent)
    /\ batches \in Nat

\* The event k entries before the newest.
Recent(k) == audit_trail[Len(audit_trail) - k]

\* "Deterministic rules ALWAYS win": the infrastructure is touched only
\* while a contract is in hand, and the plan in hand passes every check of
\* that contract on the history and the metrics as they are at that moment,
\* whatever plans, failures and submissions came before.
ExecutionGoverned ==
    pc = "execute_actions" =>
        /\ retrieved_contract \in EffectiveContracts
        /\ guardrail_status = "APPROVED"
        /\ normalized_actions # <<>>
        /\ Passes(normalized_actions, retrieved_contract,
                  execution_history, incident.metrics)

\* The audit trail proves each execution: its newest events are the
\* proposal, the guardrails' approval, the policy agent's, the risk and,
\* where a human was asked, the approval, of this plan and of no other.
AuditEvidence ==
    pc = "execute_actions" =>
        LET asked == IF Recent(0) = Event("human_decision", "APPROVED")
                     THEN 1 ELSE 0
        IN  /\ Len(audit_trail) >= asked + 4
            /\ Recent(asked) = Event("risk_evaluated", risk_level)
            /\ Recent(asked + 1) = Event("semantic_validation_passed",
                                         "passed")
            /\ Recent(asked + 2) = Event("guardrail_evaluated", "APPROVED")
            /\ Recent(asked + 3) = Event("plan_proposed", "proposed")

\* The plan in hand needs a human: the contract asks for one for an action
\* of it, or it is risky.
NeedsHuman ==
    \/ PlanNeedsApproval(normalized_actions, retrieved_contract)
    \/ RiskNeedsApproval(proposed_plan, retrieved_contract, CurrentScore)

\* approval_requirements "*always* require a human" (docs/ADOPTION.md), and
\* so does a plan that scores above 30, and every plan for a CRITICAL
\* incident: it is executed only on an approval given after this very plan
\* was evaluated, whatever blanks the planner put around its action names.
HumanGate ==
    /\ pc = "execute_actions"
    /\ NeedsHuman \/ incident.severity = "CRITICAL"
    => Recent(0) = Event("human_decision", "APPROVED")

\* Every pod an execution restarts, when the planner restarts one pod per
\* plan, stays within the limit of the contract it is executed under: the
\* history carries the restarts over from the attempts and the submissions
\* before (plans that restart more are not counted so, see
\* RestartsWithinLimit of MCGuardrailEngine).
OnePodPerPlan ==
    \A plan \in Plans :
        \A i, j \in DOMAIN plan :
            plan[i].type = "restart_pods" /\ plan[j].type = "restart_pods" =>
                i = j /\ plan[i].count \in 0..1

RestartBudget ==
    [][OnePodPerPlan /\ restarted' > restarted =>
           restarted' <= retrieved_contract.scope.max_pod_restarts]_vars

\* "retry_count < max_retries": between one submission and the next a
\* contract gets at most max_plan_retries plans rejected, and at most that
\* many executions, however rejections and failed executions alternate.
AttemptsBounded ==
    retrieved_contract # NoContract =>
        /\ retry_count <= retrieved_contract.max_plan_retries
        /\ batches <= retrieved_contract.max_plan_retries

\* A rejection is final: from the answer on the infrastructure receives
\* nothing until the incident is submitted again, and the run ends DENIED,
\* also when earlier attempts of it were approved and executed.  (The trail
\* is asked, and not the channel: the decision outlives its submission.)
HumanVeto ==
    [][ audit_trail # <<>> /\ Recent(0) = Event("human_decision", "REJECTED")
            => /\ performed' = performed
               /\ pc' = "END" => final_status' = "DENIED" ]_vars

\* A failed postcondition means "the incident is not marked resolved"
\* (docs/USE-CASE.md): under a contract with postconditions an incident that
\* ends in SUCCESS executed something, every action it ever executed
\* succeeded, and the postconditions of the last execution all passed; and
\* only one that a human rejected ends DENIED.  (This is so for the first
\* submission: a later one can inherit an outcome, see PostconditionsDecide
\* of MCWorkflow.)
OutcomeSound ==
    pc = "END" /\ runs = 1 =>
        /\ final_status = "SUCCESS" /\ retrieved_contract.postconditions > 0 =>
               /\ batches > 0
               /\ AllExecuted
               /\ postcondition_results # <<>> /\ AllPassed
        /\ final_status = "DENIED" => human_decision = "REJECTED"

\* Every submitted incident comes to rest: the run ends, fails, or waits
\* for a human; no sequence of rejected plans and failed executions goes on
\* for ever.
Settles ==
    pc = "ingest_incident" ~> pc \in Idle \cup {"request_human_approval"}
=============================================================================
