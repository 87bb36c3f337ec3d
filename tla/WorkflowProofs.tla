--------------------------- MODULE WorkflowProofs ---------------------------
(***************************************************************************)
(* The workflow for every set of contracts, incidents and plans and every  *)
(* number of submissions.                                                  *)
(***************************************************************************)
EXTENDS WorkflowGovernance, PolicyProofs

-----------------------------------------------------------------------------
(* Type correctness.                                                       *)

\* Strengthening of TypeOK: the locals of execute_actions are fresh unless
\* it runs, and its cursor stays on the plan.
LocalsOK ==
    /\ pc # "execute_actions" => ExecuteLocalsFresh
    /\ direction = "forward" => cursor \in 1..(Len(normalized_actions) + 1)
    /\ direction = "back" => cursor \in 0..Len(normalized_actions)

TypeInv == TypeOK /\ LocalsOK

\* Facts about the constants: what the resolver returns has the retry limit
\* and the rules of its file.
LEMMA EffectiveTyped ==
    ASSUME NEW c \in EffectiveContracts
    PROVE  /\ c # NoContract
           /\ c.max_plan_retries \in Nat \ {0}
           /\ c.postconditions \in Nat
<1>1. PICK b \in ContractFiles, s \in Severities : c = Effective(b, s)
  BY DEF EffectiveContracts
<1>2. b \in Contract
  BY WorkflowAssumption
<1>3. /\ c.max_plan_retries = b.max_plan_retries
      /\ c.postconditions = b.postconditions
  BY <1>1, <1>2 DEF Effective, Contract
<1> QED
  BY <1>2, <1>3, WorkflowAssumption DEF Contract

\* Normalization keeps the length of a plan and yields well formed actions.
LEMMA NormalizeTyped ==
    ASSUME NEW plan \in Seq(PlannedAction)
    PROVE  /\ NormalizePlan(plan) \in Seq(NormalizedAction)
           /\ Len(NormalizePlan(plan)) = Len(plan)
<1>1. DOMAIN plan = 1..Len(plan) /\ Len(plan) \in Nat
  OBVIOUS
<1>2. \A i \in 1..Len(plan) : Normalize(plan[i]) \in NormalizedAction
  <2> SUFFICES ASSUME NEW i \in 1..Len(plan)
               PROVE  Normalize(plan[i]) \in NormalizedAction
    OBVIOUS
  <2>1. plan[i] \in PlannedAction
    OBVIOUS
  <2> QED
    BY <2>1 DEF PlannedAction, Normalize, NormalizedAction
<1> HIDE DEF Normalize
<1>3. NormalizePlan(plan) \in [1..Len(plan) -> NormalizedAction]
  BY <1>1, <1>2 DEF NormalizePlan
<1> QED
  BY <1>1, <1>3, SeqDef

\* Recording an event keeps the audit trail well formed.
LEMMA AuditTyped ==
    ASSUME NEW e, NEW o, audit_trail \in Seq(AuditEvent),
           Event(e, o) \in AuditEvent, Audit(e, o)
    PROVE  audit_trail' \in Seq(AuditEvent)
<1> DEFINE trail == Append(audit_trail, Event(e, o))
<1>1. trail \in Seq(AuditEvent) /\ trail # <<>>
  BY AppendProperties
<1>2. audit_trail' = trail \/ audit_trail' = Tail(trail)
  BY DEF Audit
<1> HIDE DEF trail
<1> QED
  BY <1>1, <1>2, HeadTailProperties

\* The verdict's parts are of their types.
LEMMA VerdictTyped ==
    ASSUME NEW actions, NEW c, NEW h, NEW m
    PROVE  /\ PlanViolations(actions, c, h, m) \subseteq Checks
           /\ Verdict(PlanViolations(actions, c, h, m))
                  \in {"APPROVED", "REJECTED"}
           /\ PlanNeedsApproval(actions, c) \in BOOLEAN
<1>1. ASSUME NEW a
      PROVE  ActionViolations(a, c, h, m) \subseteq Checks
  BY DEF ActionViolations, LimitViolations, AvailabilityViolations, Checks
<1>2. PlanViolations(actions, c, h, m) \subseteq Checks
  <2> HIDE DEF ActionViolations, Checks
  <2> QED
    BY <1>1 DEF PlanViolations
<1> QED
  BY <1>2 DEF Verdict, PlanNeedsApproval

LEMMA TypeInit == Init => TypeInv
<1> SUFFICES ASSUME Init
             PROVE  TypeInv
  OBVIOUS
<1>1. /\ normalized_actions \in Seq(NormalizedAction)
      /\ Len(normalized_actions) = 0
      /\ results \in Seq(HistoryEntry) /\ compensations \in Seq(HistoryEntry)
      /\ execution_history \in Seq(HistoryEntry)
      /\ compensation_history \in Seq(HistoryEntry)
      /\ postcondition_results \in Seq(BOOLEAN)
      /\ audit_trail \in Seq(AuditEvent)
  BY DEF Init, ExecuteLocalsFresh
<1>2. approval_required \in BOOLEAN
  BY DEF Init
<1>3. runs \in 0..MaxRuns
  BY WorkflowAssumption DEF Init
<1>4. ExecuteTypeOK
  BY <1>1 DEF Init, ExecuteTypeOK, ExecuteLocalsFresh
<1>5. TypeOK
  BY <1>1, <1>2, <1>3, <1>4 DEF Init, TypeOK, Idle, RiskLevels
<1> QED
  BY <1>1, <1>5 DEF Init, TypeInv, LocalsOK, ExecuteLocalsFresh

\* A node other than execute_actions leaves the locals as they were: fresh.
LEMMA LocalsKept ==
    ASSUME TypeInv, pc # "execute_actions",
           normalized_actions' \in Seq(NormalizedAction),
           UNCHANGED <<locals, ghosts>>
    PROVE  ExecuteTypeOK' /\ LocalsOK'
<1>1. ExecuteLocalsFresh /\ ExecuteLocalsFresh'
  BY DEF TypeInv, LocalsOK, locals, ExecuteLocalsFresh
<1>2. Len(normalized_actions') \in Nat
  OBVIOUS
<1>3. ExecuteTypeOK'
  BY DEF TypeInv, TypeOK, ExecuteTypeOK, locals, ghosts
<1> QED
  BY <1>1, <1>2, <1>3 DEF LocalsOK, ExecuteLocalsFresh

\* Every event the nodes record is one the audit trail may hold.
LEMMA EventTyped ==
    /\ \A r \in {"success", "fallback_no_context"} :
           Event("knowledge_retrieved", r) \in AuditEvent
    /\ \A r \in {"APPROVED", "REJECTED"} :
           /\ Event("guardrail_evaluated", r) \in AuditEvent
           /\ Event("human_decision", r) \in AuditEvent
    /\ \A r \in {"executed", "compensated"} :
           Event("actions_executed", r) \in AuditEvent
    /\ \A r \in {"passed", "failed"} :
           Event("postconditions_validated", r) \in AuditEvent
    /\ \A r \in RiskLevels : Event("risk_evaluated", r) \in AuditEvent
    /\ \A r \in Statuses : Event("finalized", r) \in AuditEvent
    /\ Event("incident_ingested", "accepted") \in AuditEvent
    /\ Event("contract_resolution_failed", "escalated") \in AuditEvent
    /\ Event("contract_resolved", "loaded") \in AuditEvent
    /\ Event("plan_proposed", "proposed") \in AuditEvent
    /\ Event("plan_failed", "error") \in AuditEvent
    /\ Event("semantic_validation_passed", "passed") \in AuditEvent
    /\ Event("semantic_validation_failed", "rejected") \in AuditEvent
    /\ Event("escalated", "escalated") \in AuditEvent
BY DEF Event, AuditEvent

LEMMA IntakeTyped ==
    ASSUME TypeInv,
           \/ SubmitIncident \/ IngestIncident \/ IdentifyService
           \/ RetrieveKnowledge \/ ResolveContract
    PROVE  TypeInv'
<1> USE DEF intake, planning, verdict, histories, outcome
<1>1. TypeOK /\ ExecuteTypeOK
  BY DEF TypeInv, TypeOK
<1>2. pc # "execute_actions" /\ UNCHANGED <<normalized_actions, locals, ghosts>>
  BY DEF SubmitIncident, IngestIncident, IdentifyService, RetrieveKnowledge,
         ResolveContract, ContractMissing, ContractLoaded, Idle
<1>3. ExecuteTypeOK' /\ LocalsOK'
  BY <1>1, <1>2, LocalsKept DEF ExecuteTypeOK
<1>4. CASE SubmitIncident
  BY <1>1, <1>3, <1>4, WorkflowAssumption
     DEF SubmitIncident, TypeInv, TypeOK, Nodes
<1>5. CASE IngestIncident
  <2>1. audit_trail' \in Seq(AuditEvent)
    BY <1>1, <1>5, AuditTyped, EventTyped DEF IngestIncident, TypeOK
  <2> QED
    BY <1>1, <1>3, <1>5, <2>1 DEF IngestIncident, TypeInv, TypeOK, Nodes
<1>6. CASE IdentifyService
  BY <1>1, <1>3, <1>6 DEF IdentifyService, TypeInv, TypeOK, Nodes
<1>7. CASE RetrieveKnowledge
  <2>1. audit_trail' \in Seq(AuditEvent)
    BY <1>1, <1>7, AuditTyped, EventTyped DEF RetrieveKnowledge, TypeOK
  <2> QED
    BY <1>1, <1>3, <1>7, <2>1 DEF RetrieveKnowledge, TypeInv, TypeOK, Nodes
<1>8. CASE ContractMissing
  <2>1. audit_trail' \in Seq(AuditEvent)
    BY <1>1, <1>8, AuditTyped, EventTyped DEF ContractMissing, TypeOK
  <2> QED
    BY <1>1, <1>3, <1>8, <2>1
       DEF ContractMissing, RouteAfterContract, TypeInv, TypeOK, Nodes,
           Statuses
<1>9. ASSUME NEW base \in ContractFiles, ContractLoaded(base)
      PROVE  TypeInv'
  <2>1. audit_trail' \in Seq(AuditEvent)
    BY <1>1, <1>9, AuditTyped, EventTyped DEF ContractLoaded, TypeOK
  <2>2. retrieved_contract' \in EffectiveContracts
    BY <1>1, <1>9, WorkflowAssumption
       DEF ContractLoaded, EffectiveContracts, TypeOK, Incident
  <2> HIDE DEF EffectiveContracts
  <2> QED
    BY <1>1, <1>3, <1>9, <2>1, <2>2
       DEF ContractLoaded, RouteAfterContract, TypeInv, TypeOK, Nodes
<1> QED
  BY <1>4, <1>5, <1>6, <1>7, <1>8, <1>9 DEF ResolveContract

LEMMA PlanningTyped ==
    ASSUME TypeInv, PlanRemediation
    PROVE  TypeInv'
<1> USE DEF intake, planning, verdict, histories, outcome
<1>1. TypeOK /\ ExecuteTypeOK
  BY DEF TypeInv, TypeOK
<1>2. CASE RaiseOnContract
  <2>1. ExecuteTypeOK' /\ LocalsOK'
    BY <1>1, <1>2, LocalsKept DEF RaiseOnContract, ExecuteTypeOK
  <2> QED
    BY <1>1, <1>2, <2>1 DEF RaiseOnContract, TypeInv, TypeOK, Idle
<1>3. ASSUME NEW plan \in Plans, PlanProposed(plan)
      PROVE  TypeInv'
  <2>1. normalized_actions' \in Seq(NormalizedAction)
    BY <1>3, NormalizeTyped, WorkflowAssumption DEF PlanProposed
  <2>2. ExecuteTypeOK' /\ LocalsOK'
    BY <1>3, <2>1, LocalsKept DEF PlanProposed
  <2>3. audit_trail' \in Seq(AuditEvent)
    BY <1>1, <1>3, AuditTyped, EventTyped DEF PlanProposed, TypeOK
  <2> QED
    BY <1>1, <1>3, <2>2, <2>3 DEF PlanProposed, TypeInv, TypeOK, Nodes
<1>4. CASE PlanFailed
  <2>1. normalized_actions' \in Seq(NormalizedAction)
    BY <1>4 DEF PlanFailed
  <2>2. ExecuteTypeOK' /\ LocalsOK'
    BY <1>4, <2>1, LocalsKept DEF PlanFailed
  <2>3. audit_trail' \in Seq(AuditEvent)
    BY <1>1, <1>4, AuditTyped, EventTyped DEF PlanFailed, TypeOK
  <2> QED
    BY <1>1, <1>4, <2>2, <2>3 DEF PlanFailed, TypeInv, TypeOK, Nodes
<1> QED
  BY <1>2, <1>3, <1>4 DEF PlanRemediation

LEMMA GuardrailsTyped ==
    ASSUME TypeInv, EvaluateGuardrails \/ EvaluateSemantics \/ IncrementRetry
    PROVE  TypeInv'
<1> USE DEF intake, planning, verdict, histories, outcome
<1>1. TypeOK /\ ExecuteTypeOK
  BY DEF TypeInv, TypeOK
<1>2. pc # "execute_actions" /\ UNCHANGED <<normalized_actions, locals, ghosts>>
  BY DEF EvaluateGuardrails, RejectWithoutPlan, RaiseInValidator,
         EvaluatePlan, EvaluateSemantics, RaiseInPolicyAgent,
         SemanticsPassed, SemanticsFailed, IncrementRetry
<1>3. ExecuteTypeOK' /\ LocalsOK'
  BY <1>1, <1>2, LocalsKept DEF ExecuteTypeOK
<1>4. CASE RejectWithoutPlan
  <2>1. approval_required' \in BOOLEAN
    BY <1>4 DEF RejectWithoutPlan
  <2> QED
    BY <1>1, <1>3, <1>4, <2>1
       DEF RejectWithoutPlan, RouteAfterGuardrail, TypeInv, TypeOK, Nodes
<1>5. CASE RaiseInValidator
  BY <1>1, <1>3, <1>5 DEF RaiseInValidator, TypeInv, TypeOK, Idle
<1>6. CASE EvaluatePlan
  <2>1. /\ violations' \subseteq Checks
        /\ guardrail_status' \in {"APPROVED", "REJECTED"}
        /\ approval_required' \in BOOLEAN
    BY <1>6, VerdictTyped DEF EvaluatePlan
  <2>2. audit_trail' \in Seq(AuditEvent)
    BY <1>1, <1>6, <2>1, AuditTyped, EventTyped DEF EvaluatePlan, TypeOK
  <2>3. /\ pc' \in Nodes
        /\ UNCHANGED <<intake, planning, risk_level, human_decision,
                       retry_count, histories, outcome, batches>>
    BY <1>6 DEF EvaluatePlan, RouteAfterGuardrail, Nodes
  <2> QED
    BY <1>1, <1>3, <2>1, <2>2, <2>3 DEF TypeInv, TypeOK
<1>7. CASE RaiseInPolicyAgent
  BY <1>1, <1>3, <1>7 DEF RaiseInPolicyAgent, TypeInv, TypeOK, Idle
<1>8. CASE SemanticsPassed
  <2>1. audit_trail' \in Seq(AuditEvent)
    BY <1>1, <1>8, AuditTyped, EventTyped DEF SemanticsPassed, TypeOK
  <2> QED
    BY <1>1, <1>3, <1>8, <2>1
       DEF SemanticsPassed, RouteAfterGuardrail, TypeInv, TypeOK, Nodes
<1>9. CASE SemanticsFailed
  <2>1. audit_trail' \in Seq(AuditEvent)
    BY <1>1, <1>9, AuditTyped, EventTyped DEF SemanticsFailed, TypeOK
  <2> QED
    BY <1>1, <1>3, <1>9, <2>1
       DEF SemanticsFailed, RouteAfterGuardrail, TypeInv, TypeOK, Nodes
<1>10. CASE IncrementRetry
  BY <1>1, <1>3, <1>10
     DEF IncrementRetry, RouteAfterRejection, TypeInv, TypeOK, Nodes
<1> QED
  BY <1>4, <1>5, <1>6, <1>7, <1>8, <1>9, <1>10
     DEF EvaluateGuardrails, EvaluateSemantics

LEMMA RiskTyped ==
    ASSUME TypeInv, EvaluateRisk
    PROVE  TypeInv'
<1> USE DEF intake, planning, verdict, histories, outcome
<1>1. TypeOK /\ ExecuteTypeOK
  BY DEF TypeInv, TypeOK
<1>2. ExecuteTypeOK' /\ LocalsOK'
  BY <1>1, LocalsKept DEF ExecuteTypeOK, EvaluateRisk
<1>3. risk_level' \in RiskLevels
  <2> HIDE DEF CurrentScore
  <2> QED
    BY DEF EvaluateRisk, RiskLevel, RiskLevels
<1>4. approval_required' \in BOOLEAN
  BY DEF EvaluateRisk
<1>5. audit_trail' \in Seq(AuditEvent)
  BY <1>1, <1>3, AuditTyped, EventTyped DEF EvaluateRisk, TypeOK
<1>6. /\ pc' \in Nodes
      /\ batches' \in Nat
      /\ UNCHANGED <<intake, planning, guardrail_status, violations,
                     human_decision, retry_count, histories, outcome>>
  BY <1>1 DEF EvaluateRisk, RouteAfterRisk, CountBatch, TypeOK, Nodes
<1> QED
  BY <1>1, <1>2, <1>3, <1>4, <1>5, <1>6 DEF TypeInv, TypeOK

LEMMA ApprovalTyped ==
    ASSUME TypeInv, NEW answer, RequestHumanApproval(answer)
    PROVE  TypeInv'
<1> USE DEF intake, planning, verdict, histories, outcome
<1>1. TypeOK /\ ExecuteTypeOK
  BY DEF TypeInv, TypeOK
<1>2. ExecuteTypeOK' /\ LocalsOK'
  BY <1>1, LocalsKept DEF ExecuteTypeOK, RequestHumanApproval
<1>3. human_decision' \in {"APPROVED", "REJECTED"}
  BY DEF RequestHumanApproval
<1>4. audit_trail' \in Seq(AuditEvent)
  BY <1>1, <1>3, AuditTyped, EventTyped DEF RequestHumanApproval, TypeOK
<1>5. /\ pc' \in Nodes
      /\ batches' \in Nat
      /\ UNCHANGED <<intake, planning, verdict, retry_count, histories,
                     outcome>>
  BY <1>1 DEF RequestHumanApproval, RouteAfterHuman, CountBatch, TypeOK, Nodes
<1> QED
  BY <1>1, <1>2, <1>3, <1>4, <1>5 DEF TypeInv, TypeOK

\* The calls of the driver.
LEMMA ExecuteTyped ==
    ASSUME TypeInv, ExecuteAction
    PROVE  TypeInv'
<1> USE DEF intake, planning, verdict, histories, outcome
<1>1. /\ normalized_actions \in Seq(NormalizedAction)
      /\ Len(normalized_actions) \in Nat
      /\ cursor \in Nat /\ performed \in Nat /\ restarted \in Int
      /\ results \in Seq(HistoryEntry) /\ compensations \in Seq(HistoryEntry)
  BY DEF TypeInv, TypeOK, ExecuteTypeOK
<1>2. ASSUME cursor \in 1..Len(normalized_actions)
      PROVE  /\ Looking.type \in ActionTypes
             /\ RestartedBy(Looking) \in Int
  <2>1. Looking \in NormalizedAction
    BY <1>1, <1>2 DEF Looking
  <2> QED
    BY <2>1 DEF NormalizedAction, RestartedBy
<1>3. ASSUME NEW ok \in BOOLEAN, cursor \in 1..Len(normalized_actions)
      PROVE  [action |-> Looking.type, success |-> ok] \in HistoryEntry
  BY <1>2, <1>3 DEF HistoryEntry
<1>4. pc' = "execute_actions" /\ normalized_actions' = normalized_actions
  BY DEF ExecuteAction, ExecuteStep, SkipReadOnly, PerformAction, Compensate
<1>5. ExecuteTypeOK' /\ LocalsOK'
  <2>1. CASE SkipReadOnly
    BY <1>1, <1>4, <2>1
       DEF SkipReadOnly, Going, ExecuteTypeOK, LocalsOK, TypeInv, TypeOK
  <2>2. ASSUME NEW ok \in BOOLEAN, PerformAction(ok)
        PROVE  ExecuteTypeOK' /\ LocalsOK'
    <3>1. cursor \in 1..Len(normalized_actions)
      BY <1>1, <2>2 DEF PerformAction, Going, TypeInv, LocalsOK
    <3>2. results' \in Seq(HistoryEntry) /\ performed' \in Nat
      BY <1>1, <1>3, <2>2, <3>1 DEF PerformAction
    <3>3. restarted' \in Int
      BY <1>1, <1>2, <2>2, <3>1 DEF PerformAction
    <3>4. \/ direction' = "forward" /\ cursor' = cursor + 1
          \/ direction' = "back" /\ cursor' = cursor - 1
      <4>1. CASE ok
        BY <2>2, <4>1 DEF PerformAction, Going
      <4>2. CASE ~ok
        BY <2>2, <4>2 DEF PerformAction
      <4> QED
        BY <4>1, <4>2
    <3>5. compensations' = compensations
      BY <2>2 DEF PerformAction
    <3>6. ExecuteTypeOK'
      BY <1>1, <1>4, <3>1, <3>2, <3>3, <3>4, <3>5 DEF ExecuteTypeOK
    <3>7. LocalsOK'
      BY <1>1, <1>4, <3>1, <3>4 DEF LocalsOK
    <3> QED
      BY <3>6, <3>7
  <2>3. ASSUME NEW ok \in BOOLEAN, Compensate(ok)
        PROVE  ExecuteTypeOK' /\ LocalsOK'
    <3>1. cursor \in 1..Len(normalized_actions)
      BY <1>1, <2>3 DEF Compensate, TypeInv, LocalsOK
    <3>2. compensations' \in Seq(HistoryEntry) /\ performed' \in Nat
      <4>1. \/ /\ compensations' = Append(compensations,
                       [action |-> Looking.type, success |-> ok])
               /\ performed' = performed + 1
            \/ UNCHANGED <<compensations, performed>>
        BY <2>3, Zenon DEF Compensate
      <4> DEFINE entry == [action |-> Looking.type, success |-> ok]
      <4>2. entry \in HistoryEntry
        BY <1>3, <3>1
      <4> HIDE DEF entry
      <4>3. \/ /\ compensations' = Append(compensations, entry)
               /\ performed' = performed + 1
            \/ compensations' = compensations /\ performed' = performed
        BY <4>1 DEF entry
      <4>4. Append(compensations, entry) \in Seq(HistoryEntry)
        BY <1>1, <4>2, AppendProperties
      <4>5. compensations' \in Seq(HistoryEntry)
        BY <1>1, <4>3, <4>4
      <4>6. performed' \in Nat
        BY <1>1, <4>3
      <4> QED
        BY <4>5, <4>6
    <3>3. /\ direction' = "back" /\ cursor' = cursor - 1
          /\ UNCHANGED <<results, restarted>>
      BY <2>3 DEF Compensate
    <3>4. ExecuteTypeOK'
      BY <1>1, <1>4, <3>1, <3>2, <3>3 DEF ExecuteTypeOK
    <3>5. LocalsOK'
      BY <1>1, <1>4, <3>1, <3>3 DEF LocalsOK
    <3> QED
      BY <3>4, <3>5
  <2> QED
    BY <2>1, <2>2, <2>3 DEF ExecuteAction, ExecuteStep
<1> QED
  BY <1>5 DEF ExecuteAction, TypeInv, TypeOK

\* A contract is in hand from planning to the validation of its
\* postconditions: resolve_contract is the only way in.
ContractStages ==
    {"plan_remediation", "evaluate_guardrails", "evaluate_semantics",
     "increment_retry", "evaluate_risk", "request_human_approval",
     "execute_actions", "validate_postconditions"}

ContractInHand ==
    pc \in ContractStages => retrieved_contract \in EffectiveContracts

LEMMA RaiseTyped ==
    ASSUME TypeInv, RaiseWithoutDriver
    PROVE  TypeInv'
<1> USE DEF intake, planning, verdict, histories, outcome
<1>1. TypeOK /\ ExecuteTypeOK
  BY DEF TypeInv, TypeOK
<1>2. UNCHANGED <<normalized_actions, locals, ghosts>> /\ ExecuteLocalsFresh
  BY DEF RaiseWithoutDriver
<1>3. ExecuteTypeOK' /\ ExecuteLocalsFresh'
  BY <1>1, <1>2 DEF ExecuteTypeOK, ExecuteLocalsFresh, locals, ghosts
<1>4. LocalsOK'
  <2>1. Len(normalized_actions') \in Nat
    BY <1>3 DEF ExecuteTypeOK
  <2> QED
    BY <1>3, <2>1 DEF LocalsOK, ExecuteLocalsFresh
<1> QED
  BY <1>1, <1>3, <1>4 DEF RaiseWithoutDriver, TypeInv, TypeOK, Idle

LEMMA ReturnTyped ==
    ASSUME TypeInv, ReturnResults
    PROVE  TypeInv'
<1> USE DEF intake, planning, verdict, histories, outcome
<1>1. TypeOK /\ ExecuteTypeOK
  BY DEF TypeInv, TypeOK
<1>2. /\ execution_history' \in Seq(HistoryEntry)
      /\ compensation_history' \in Seq(HistoryEntry)
  BY <1>1, ConcatProperties DEF ReturnResults, TypeOK, ExecuteTypeOK
<1>3. results' \in Seq(HistoryEntry) /\ compensations' \in Seq(HistoryEntry)
  BY DEF ReturnResults
<1>4. audit_trail' \in Seq(AuditEvent)
  <2>1. PICK r \in {"executed", "compensated"} : Audit("actions_executed", r)
    BY Zenon DEF ReturnResults
  <2> QED
    BY <1>1, <2>1, AuditTyped, EventTyped DEF TypeOK
<1>5. /\ pc' = "validate_postconditions"
      /\ direction' = "forward" /\ cursor' = 1
      /\ results' = <<>> /\ compensations' = <<>>
      /\ UNCHANGED <<intake, planning, verdict, human_decision, retry_count,
                     outcome, ghosts, batches>>
  BY DEF ReturnResults
<1>6. ExecuteTypeOK'
  BY <1>1, <1>3, <1>5 DEF ExecuteTypeOK, ghosts
<1>7. LocalsOK'
  <2>1. Len(normalized_actions') \in Nat
    BY <1>1, <1>5 DEF ExecuteTypeOK
  <2> QED
    BY <1>5, <2>1 DEF LocalsOK, ExecuteLocalsFresh
<1> QED
  BY <1>1, <1>2, <1>4, <1>5, <1>6, <1>7 DEF TypeInv, TypeOK, Nodes

LEMMA ValidateTyped ==
    ASSUME TypeInv, ContractInHand, ValidatePostconditions
    PROVE  TypeInv'
<1> USE DEF intake, planning, verdict, histories, outcome
<1>1. TypeOK /\ ExecuteTypeOK
  BY DEF TypeInv, TypeOK
<1>2. /\ pc = "validate_postconditions"
      /\ UNCHANGED <<normalized_actions, locals, ghosts>>
  BY DEF ValidatePostconditions, NothingToValidate, RaiseInMetrics,
         CheckPostconditions
<1>3. ExecuteTypeOK' /\ LocalsOK'
  BY <1>1, <1>2, LocalsKept DEF ExecuteTypeOK
<1>4. \A passed : RouteAfterPostcondition(passed, retry_count,
                                          retrieved_contract) \in Nodes
  BY DEF RouteAfterPostcondition, Nodes
<1>5. CASE NothingToValidate
  <2>1. postcondition_results' \in Seq(BOOLEAN)
    BY <1>5 DEF NothingToValidate
  <2> QED
    BY <1>1, <1>3, <1>4, <1>5, <2>1
       DEF NothingToValidate, TypeInv, TypeOK, Statuses
<1>6. CASE CheckPostconditions
  <2>1. retrieved_contract.postconditions \in Nat
    BY <1>2, EffectiveTyped DEF ContractInHand, ContractStages
  <2>2. PICK passed \in [1..retrieved_contract.postconditions -> BOOLEAN] :
            /\ postcondition_results' = passed
            /\ Audit("postconditions_validated",
                     IF \A i \in DOMAIN passed : passed[i]
                     THEN "passed" ELSE "failed")
            /\ pc' = RouteAfterPostcondition(passed, retry_count,
                                             retrieved_contract)
    BY <1>6 DEF CheckPostconditions
  <2>3. postcondition_results' \in Seq(BOOLEAN)
    BY <2>1, <2>2, SeqDef
  <2>4. audit_trail' \in Seq(AuditEvent)
    <3>1. PICK r \in {"passed", "failed"} :
              Audit("postconditions_validated", r)
      BY <2>2, Zenon
    <3> QED
      BY <1>1, <3>1, AuditTyped, EventTyped DEF TypeOK
  <2>5. /\ pc' \in Nodes
        /\ UNCHANGED <<intake, planning, verdict, human_decision, retry_count,
                       histories, final_status, batches>>
    BY <1>4, <1>6, <2>2 DEF CheckPostconditions
  <2> QED
    BY <1>1, <1>3, <2>3, <2>4, <2>5 DEF TypeInv, TypeOK
<1>7. CASE RaiseInMetrics
  BY <1>1, <1>3, <1>7 DEF RaiseInMetrics, TypeInv, TypeOK, Idle
<1> QED
  BY <1>5, <1>6, <1>7 DEF ValidatePostconditions

LEMMA EndingTyped ==
    ASSUME TypeInv, HandleEscalation \/ Finalize
    PROVE  TypeInv'
<1> USE DEF intake, planning, verdict, histories, outcome
<1>1. TypeOK /\ ExecuteTypeOK
  BY DEF TypeInv, TypeOK
<1>2. /\ pc # "execute_actions"
      /\ UNCHANGED <<normalized_actions, locals, ghosts>>
  BY DEF HandleEscalation, Finalize
<1>3. ExecuteTypeOK' /\ LocalsOK'
  BY <1>1, <1>2, LocalsKept DEF ExecuteTypeOK
<1>4. CASE HandleEscalation
  <2>1. audit_trail' \in Seq(AuditEvent)
    BY <1>1, <1>4, AuditTyped, EventTyped DEF HandleEscalation, TypeOK
  <2>2. approval_required' \in BOOLEAN
    BY <1>4 DEF HandleEscalation
  <2> QED
    BY <1>1, <1>3, <1>4, <2>1, <2>2
       DEF HandleEscalation, TypeInv, TypeOK, Nodes
<1>5. CASE Finalize
  <2>1. final_status' \in Statuses
    <3>1. FinalStatus \in Statuses
      <4> HIDE DEF AllPassed, AllExecuted
      <4> QED
        BY <1>1 DEF FinalStatus, TypeOK, Statuses
    <3> QED
      BY <1>5, <3>1 DEF Finalize
  <2>2. audit_trail' \in Seq(AuditEvent)
    BY <1>1, <1>5, <2>1, AuditTyped, EventTyped DEF Finalize, TypeOK
  <2> QED
    BY <1>1, <1>3, <1>5, <2>1, <2>2 DEF Finalize, TypeInv, TypeOK, Idle
<1> QED
  BY <1>4, <1>5

LEMMA StutterTyped ==
    ASSUME TypeInv, UNCHANGED vars
    PROVE  TypeInv'
BY DEF TypeInv, TypeOK, LocalsOK, ExecuteTypeOK, ExecuteLocalsFresh, vars,
       executeVars

LEMMA TypeStep ==
    ASSUME TypeInv, ContractInHand, [Next]_vars
    PROVE  TypeInv'
<1>1. CASE Next
  BY <1>1, IntakeTyped, PlanningTyped, GuardrailsTyped, RiskTyped,
     ApprovalTyped, RaiseTyped, ExecuteTyped, ReturnTyped, ValidateTyped,
     EndingTyped
     DEF Next, NodeStep, ExecuteActions
<1> QED
  BY <1>1, StutterTyped

\* Every step but the resolver's keeps the contract, and no step but the
\* resolver's enters planning from outside the stages that have one.
LEMMA ContractStep ==
    ASSUME TypeInv, ContractInHand, [Next]_vars
    PROVE  ContractInHand'
<1> USE DEF intake, ContractInHand, ContractStages
<1>1. retrieved_contract' = retrieved_contract \/ ResolveContract
  BY DEF Next, NodeStep, vars, SubmitIncident, IngestIncident,
         IdentifyService, RetrieveKnowledge, PlanRemediation, RaiseOnContract,
         PlanProposed, PlanFailed, EvaluateGuardrails, RejectWithoutPlan,
         RaiseInValidator, EvaluatePlan, EvaluateSemantics,
         RaiseInPolicyAgent, SemanticsPassed, SemanticsFailed, IncrementRetry,
         EvaluateRisk, RequestHumanApproval, ExecuteActions, ExecuteAction,
         RaiseWithoutDriver, ReturnResults, ValidatePostconditions,
         NothingToValidate, RaiseInMetrics, CheckPostconditions,
         HandleEscalation, Finalize
<1>2. CASE ResolveContract
  <2>1. CASE ContractMissing
    BY <2>1 DEF ContractMissing, RouteAfterContract
  <2>2. ASSUME NEW base \in ContractFiles, ContractLoaded(base)
        PROVE  retrieved_contract' \in EffectiveContracts
    <3>1. incident.severity \in Severities
      BY WorkflowAssumption DEF TypeInv, TypeOK, Incident
    <3> QED
      BY <2>2, <3>1 DEF ContractLoaded, EffectiveContracts
  <2> QED
    BY <1>2, <2>1, <2>2 DEF ResolveContract
<1>3. CASE ~ResolveContract
  <2>1. pc' \in ContractStages => pc \in ContractStages
    BY <1>3
       DEF Next, NodeStep, vars, SubmitIncident, IngestIncident,
           IdentifyService, RetrieveKnowledge, PlanRemediation,
           RaiseOnContract, PlanProposed, PlanFailed, EvaluateGuardrails,
           RejectWithoutPlan, RaiseInValidator, EvaluatePlan,
           EvaluateSemantics, RaiseInPolicyAgent, SemanticsPassed,
           SemanticsFailed, IncrementRetry, EvaluateRisk,
           RequestHumanApproval, ExecuteActions, ExecuteAction,
           RaiseWithoutDriver, ReturnResults, ValidatePostconditions,
           NothingToValidate, RaiseInMetrics, CheckPostconditions,
           HandleEscalation, Finalize
  <2> QED
    BY <1>1, <1>3, <2>1
<1> QED
  BY <1>2, <1>3

LEMMA WorkflowInvariant == Spec => [](TypeInv /\ ContractInHand)
<1>1. Init => TypeInv /\ ContractInHand
  BY TypeInit DEF Init, ContractInHand, ContractStages
<1>2. TypeInv /\ ContractInHand /\ [Next]_vars
          => (TypeInv /\ ContractInHand)'
  BY TypeStep, ContractStep
<1> QED
  BY <1>1, <1>2, PTL DEF Spec

\* Every reachable state of the workflow is typed, whatever the contracts,
\* the incidents, the plans and the number of submissions.
THEOREM WorkflowTyped == Spec => []TypeOK
<1>1. TypeInv => TypeOK
  BY DEF TypeInv
<1> QED
  BY <1>1, WorkflowInvariant, PTL

-----------------------------------------------------------------------------
(* The deterministic rules always win.                                     *)

\* What the guardrails approved stays approved while the plan travels to
\* the execution: nobody on the way replaces the plan, the contract, the
\* metrics or the history the verdict was made of.
Governed ==
    pc \in {"evaluate_semantics", "evaluate_risk", "request_human_approval",
            "execute_actions"} =>
        /\ guardrail_status = "APPROVED"
        /\ normalized_actions # <<>>
        /\ Passes(normalized_actions, retrieved_contract,
                  execution_history, incident.metrics)

\* The guardrails' own step: approved means that no check fails.
LEMMA EvaluatePlanGoverned ==
    ASSUME EvaluatePlan
    PROVE  Governed'
<1>1. CASE guardrail_status' = "APPROVED"
  <2>1. /\ PlanViolations(normalized_actions, retrieved_contract,
                          execution_history, incident.metrics) = {}
        /\ normalized_actions # <<>>
        /\ UNCHANGED <<normalized_actions, retrieved_contract,
                       execution_history, incident>>
    BY <1>1
       DEF EvaluatePlan, Verdict, NoPlan, intake, planning, histories
  <2> QED
    BY <1>1, <2>1 DEF Governed, Passes
<1>2. CASE guardrail_status' # "APPROVED"
  BY <1>2 DEF EvaluatePlan, RouteAfterGuardrail, Governed
<1> QED
  BY <1>1, <1>2

LEMMA GovernedStep ==
    ASSUME Governed, [Next]_vars
    PROVE  Governed'
<1> USE DEF intake, planning, verdict, histories
<1>1. CASE EvaluatePlan
  BY <1>1, EvaluatePlanGoverned
<1>2. CASE SubmitIncident \/ IngestIncident \/ IdentifyService
           \/ RetrieveKnowledge \/ ResolveContract \/ PlanRemediation
  BY <1>2
     DEF SubmitIncident, IngestIncident, IdentifyService, RetrieveKnowledge,
         ResolveContract, ContractMissing, ContractLoaded,
         RouteAfterContract, PlanRemediation, RaiseOnContract, PlanProposed,
         PlanFailed, Governed
<1>3. CASE RejectWithoutPlan \/ RaiseInValidator
  BY <1>3 DEF RejectWithoutPlan, RaiseInValidator, RouteAfterGuardrail,
              Governed
<1>4. CASE EvaluateSemantics \/ IncrementRetry
  BY <1>4 DEF EvaluateSemantics, RaiseInPolicyAgent, SemanticsPassed,
              SemanticsFailed, IncrementRetry, RouteAfterGuardrail,
              RouteAfterRejection, Governed
<1>5. CASE EvaluateRisk
  BY <1>5 DEF EvaluateRisk, Governed
<1>6. ASSUME NEW answer, RequestHumanApproval(answer)
      PROVE  Governed'
  BY <1>6 DEF RequestHumanApproval, Governed
<1>7. CASE ExecuteAction
  <2>1. normalized_actions' = normalized_actions
    BY <1>7 DEF ExecuteAction, ExecuteStep, SkipReadOnly, PerformAction,
                Compensate
  <2> QED
    BY <1>7, <2>1 DEF ExecuteAction, Governed
<1>8. CASE RaiseWithoutDriver \/ ReturnResults \/ ValidatePostconditions
           \/ HandleEscalation \/ Finalize
  BY <1>8 DEF RaiseWithoutDriver, ReturnResults, ValidatePostconditions,
              NothingToValidate, RaiseInMetrics, CheckPostconditions,
              RouteAfterPostcondition, HandleEscalation, Finalize, Governed
<1>9. CASE UNCHANGED vars
  BY <1>9 DEF vars, executeVars, Governed
<1> QED
  BY <1>1, <1>2, <1>3, <1>4, <1>5, <1>6, <1>7, <1>8, <1>9
     DEF Next, NodeStep, EvaluateGuardrails, ExecuteActions

\* "Deterministic rules ALWAYS win", for every contract, plan and history:
\* an execution runs only under a contract whose every check its plan
\* passes.
THEOREM WorkflowGoverned == Spec => []ExecutionGoverned
<1>1. Init => Governed
  BY DEF Init, Governed
<1>2. Governed /\ [Next]_vars => Governed'
  BY GovernedStep
<1>3. ContractInHand /\ Governed => ExecutionGoverned
  BY DEF ContractInHand, ContractStages, Governed, ExecutionGoverned
<1> QED
  BY <1>1, <1>2, <1>3, WorkflowInvariant, PTL DEF Spec

-----------------------------------------------------------------------------
(* The loop of plans and executions is bounded.                            *)

Intake ==
    {"identify_service", "retrieve_knowledge", "resolve_contract"}

Planning ==
    {"plan_remediation", "evaluate_guardrails", "evaluate_semantics",
     "evaluate_risk", "request_human_approval"}

Executing ==
    {"execute_actions", "validate_postconditions", "increment_retry"}

\* AttemptsBounded is not inductive: a rejected plan and a failed execution
\* use up one attempt each, and an execution that runs has not used its own
\* yet.
Attempts ==
    /\ AttemptsBounded
    /\ pc = "ingest_incident" => batches = 0
    /\ pc \in Intake => retry_count = 0 /\ batches = 0
    /\ pc \in Planning =>
           /\ retry_count < retrieved_contract.max_plan_retries
           /\ batches <= retry_count
    /\ pc \in Executing =>
           /\ retry_count < retrieved_contract.max_plan_retries
           /\ batches <= retry_count + 1

LEMMA AttemptsStep ==
    ASSUME TypeInv, ContractInHand, Attempts, [Next]_vars
    PROVE  Attempts'
<1> USE DEF intake, planning, verdict, histories, Attempts, AttemptsBounded,
            Intake, Planning, Executing
<1>1. /\ retry_count \in Nat /\ batches \in Nat
      /\ retrieved_contract # NoContract =>
             retrieved_contract.max_plan_retries \in Nat \ {0}
  BY EffectiveTyped DEF TypeInv, TypeOK
<1>2. pc \in ContractStages =>
          /\ retrieved_contract # NoContract
          /\ MaxPlanRetries(retrieved_contract)
                 = retrieved_contract.max_plan_retries
  BY EffectiveTyped DEF ContractInHand, MaxPlanRetries
<1>3. CASE SubmitIncident
  BY <1>1, <1>3 DEF SubmitIncident
<1>4. CASE IngestIncident
  BY <1>1, <1>4 DEF IngestIncident
<1>5. CASE IdentifyService \/ RetrieveKnowledge
  BY <1>1, <1>5 DEF IdentifyService, RetrieveKnowledge
<1>6. CASE ContractMissing
  BY <1>1, <1>6 DEF ContractMissing, RouteAfterContract
<1>7. ASSUME NEW base \in ContractFiles, ContractLoaded(base)
      PROVE  Attempts'
  <2>1. retrieved_contract' \in EffectiveContracts
    <3>1. incident.severity \in Severities
      BY WorkflowAssumption DEF TypeInv, TypeOK, Incident
    <3> QED
      BY <1>7, <3>1 DEF ContractLoaded, EffectiveContracts
  <2>2. /\ retrieved_contract' # NoContract
        /\ retrieved_contract'.max_plan_retries \in Nat \ {0}
    BY <2>1, EffectiveTyped
  <2>3. /\ retry_count' = 0 /\ batches' = 0
        /\ pc' = "plan_remediation"
    BY <1>7, <2>2 DEF ContractLoaded, RouteAfterContract
  <2> QED
    BY <2>2, <2>3
<1>8. CASE PlanRemediation
  BY <1>1, <1>8 DEF PlanRemediation, RaiseOnContract, PlanProposed, PlanFailed
<1>9. CASE EvaluateGuardrails \/ EvaluateSemantics
  BY <1>1, <1>9
     DEF EvaluateGuardrails, RejectWithoutPlan, RaiseInValidator,
         EvaluatePlan, EvaluateSemantics, RaiseInPolicyAgent,
         SemanticsPassed, SemanticsFailed, RouteAfterGuardrail
<1>10. CASE IncrementRetry
  BY <1>1, <1>2, <1>10
     DEF IncrementRetry, RouteAfterRejection, ContractStages
<1>11. CASE EvaluateRisk
  BY <1>1, <1>11 DEF EvaluateRisk, RouteAfterRisk, CountBatch
<1>12. ASSUME NEW answer, RequestHumanApproval(answer)
       PROVE  Attempts'
  BY <1>1, <1>12 DEF RequestHumanApproval, RouteAfterHuman, CountBatch
<1>13. CASE ExecuteActions
  BY <1>1, <1>13 DEF ExecuteActions, ExecuteAction, RaiseWithoutDriver,
                     ReturnResults
<1>14. CASE ValidatePostconditions
  BY <1>1, <1>2, <1>14
     DEF ValidatePostconditions, NothingToValidate, RaiseInMetrics,
         CheckPostconditions, RouteAfterPostcondition, ContractStages
<1>15. CASE HandleEscalation \/ Finalize
  BY <1>1, <1>15 DEF HandleEscalation, Finalize
<1>16. CASE UNCHANGED vars
  BY <1>16 DEF vars
<1> QED
  BY <1>3, <1>4, <1>5, <1>6, <1>7, <1>8, <1>9, <1>10, <1>11, <1>12, <1>13,
     <1>14, <1>15, <1>16 DEF Next, NodeStep, ResolveContract

\* "retry_count < max_retries", for every contract: a run never rejects more
\* than max_plan_retries plans of a contract, nor executes more often.
THEOREM WorkflowAttempts == Spec => []AttemptsBounded
<1>1. Init => Attempts
  BY DEF Init, Attempts, AttemptsBounded, Intake, Planning, Executing
<1>2. TypeInv /\ ContractInHand /\ Attempts /\ [Next]_vars => Attempts'
  BY AttemptsStep
<1>3. Attempts => AttemptsBounded
  BY DEF Attempts
<1> QED
  BY <1>1, <1>2, <1>3, WorkflowInvariant, PTL DEF Spec

-----------------------------------------------------------------------------
(* A run gets nearer to its end with every step.                           *)

IntakeAhead ==
    CASE pc = "ingest_incident"    -> 4
      [] pc = "identify_service"   -> 3
      [] pc = "retrieve_knowledge" -> 2
      [] pc = "resolve_contract"   -> 1
      [] OTHER -> 0

RetriesAhead == MaxPlanRetries(retrieved_contract) - retry_count

\* Of one attempt, or after the last.
StagesAhead ==
    CASE pc = "plan_remediation"        -> 9
      [] pc = "evaluate_guardrails"     -> 8
      [] pc = "evaluate_semantics"      -> 7
      [] pc = "evaluate_risk"           -> 6
      [] pc = "request_human_approval"  -> 5
      [] pc = "execute_actions"         -> 4
      [] pc = "validate_postconditions" -> 3
      [] pc = "increment_retry"         -> 2
      [] pc = "handle_escalation"       -> 2
      [] pc = "finalize"                -> 1
      [] OTHER -> 0

\* What lies ahead of a run, what goes down last first.
Ahead == <<IntakeAhead, RetriesAhead, StagesAhead, Remaining>>

\* The lexicographic order.
LessAhead == LexProductOrdering(OpToRel(<, Nat), Nat, 4)

LEMMA LessAheadWellFounded == IsWellFoundedOn(LessAhead, [1..4 -> Nat])
BY NatLessThanWellFounded, WFLexProductOrdering DEF LessAhead

LEMMA LessAt ==
    ASSUME NEW u \in [1..4 -> Nat], NEW v \in [1..4 -> Nat],
           NEW i \in 1..4, u[i] < v[i], \A j \in 1..(i - 1) : u[j] = v[j]
    PROVE  <<u, v>> \in LessAhead
BY DEF LessAhead, LexProductOrdering, OpToRel

\* Without a contract no plan was made.
NoRetryWithoutContract == retrieved_contract = NoContract => retry_count = 0

LEMMA NoRetryStep ==
    ASSUME TypeInv, ContractInHand, Attempts, NoRetryWithoutContract, [Next]_vars
    PROVE  NoRetryWithoutContract'
<1> USE DEF NoRetryWithoutContract, intake
<1>1. CASE IncrementRetry
  <2>1. retrieved_contract' # NoContract
    BY <1>1, EffectiveTyped
       DEF IncrementRetry, ContractInHand, ContractStages
  <2> QED
    BY <2>1
<1>2. CASE ResolveContract
  BY <1>2
     DEF ResolveContract, ContractMissing, ContractLoaded, Attempts, Intake
<1>3. CASE IngestIncident
  BY <1>3 DEF IngestIncident
<1>4. CASE UNCHANGED <<retrieved_contract, retry_count>>
  BY <1>4
<1> QED
  BY <1>1, <1>2, <1>3, <1>4
     DEF Next, NodeStep, vars, SubmitIncident, IdentifyService,
         RetrieveKnowledge, PlanRemediation, RaiseOnContract, PlanProposed,
         PlanFailed, EvaluateGuardrails, RejectWithoutPlan, RaiseInValidator,
         EvaluatePlan, EvaluateSemantics, RaiseInPolicyAgent, SemanticsPassed,
         SemanticsFailed, EvaluateRisk, RequestHumanApproval, ExecuteActions,
         ExecuteAction, RaiseWithoutDriver, ReturnResults,
         ValidatePostconditions, NothingToValidate, RaiseInMetrics,
         CheckPostconditions, HandleEscalation, Finalize

LEMMA AheadTyped ==
    ASSUME TypeInv, Attempts, NoRetryWithoutContract
    PROVE  Ahead \in [1..4 -> Nat]
<1>1. IntakeAhead \in Nat
  BY DEF IntakeAhead
<1>2. StagesAhead \in Nat
  BY DEF StagesAhead
<1>3. RetriesAhead \in Nat
  <2>1. retry_count \in Nat
    BY DEF TypeInv, TypeOK
  <2>2. CASE retrieved_contract = NoContract
    BY <2>2 DEF NoRetryWithoutContract, RetriesAhead, MaxPlanRetries
  <2>3. CASE retrieved_contract # NoContract
    <3>1. retrieved_contract.max_plan_retries \in Nat
      BY <2>3, EffectiveTyped DEF TypeInv, TypeOK
    <3> QED
      BY <2>1, <2>3, <3>1
         DEF Attempts, AttemptsBounded, RetriesAhead, MaxPlanRetries
  <2> QED
    BY <2>2, <2>3
<1>4. Remaining \in Nat
  BY LenProperties
     DEF TypeInv, TypeOK, ExecuteTypeOK, LocalsOK, Remaining
<1> QED
  BY <1>1, <1>2, <1>3, <1>4 DEF Ahead

\* A call, or an action that needs none.
LEMMA ExecuteAhead ==
    ASSUME TypeInv, ExecuteStep
    PROVE  Remaining' < Remaining
<1>1. Len(normalized_actions) \in Nat /\ cursor \in Nat
  BY LenProperties DEF TypeInv, TypeOK, ExecuteTypeOK
<1>2. normalized_actions' = normalized_actions
  BY DEF ExecuteStep, SkipReadOnly, PerformAction, Compensate
<1>3. CASE SkipReadOnly
  BY <1>1, <1>2, <1>3 DEF SkipReadOnly, Going, Remaining
<1>4. CASE \E ok \in BOOLEAN : PerformAction(ok)
  <2>1. /\ direction = "forward" /\ cursor <= Len(normalized_actions)
        /\ \/ direction' = "forward" /\ cursor' = cursor + 1
           \/ direction' = "back" /\ cursor' = cursor - 1
    BY <1>4 DEF PerformAction, Going
  <2> QED
    BY <1>1, <1>2, <2>1 DEF Remaining
<1>5. CASE \E ok \in BOOLEAN : Compensate(ok)
  <2>1. direction = "back" /\ direction' = "back" /\ cursor' = cursor - 1
    BY <1>5 DEF Compensate
  <2> QED
    BY <1>1, <2>1 DEF Remaining
<1> QED
  BY <1>3, <1>4, <1>5 DEF ExecuteStep

\* Every step but a submission.
LEMMA AheadStep ==
    ASSUME TypeInv, ContractInHand, Ahead \in [1..4 -> Nat],
           Ahead' \in [1..4 -> Nat], Next, runs' = runs
    PROVE  <<Ahead', Ahead>> \in LessAhead
<1> USE DEF intake
<1> DEFINE Down(i) == /\ Ahead'[i] < Ahead[i]
                      /\ \A j \in 1..(i - 1) : Ahead'[j] = Ahead[j]
<1>1. \A i \in 1..4 : Down(i) => <<Ahead', Ahead>> \in LessAhead
  BY LessAt
<1>2. /\ Ahead[1] = IntakeAhead /\ Ahead'[1] = IntakeAhead'
      /\ Ahead[2] = RetriesAhead /\ Ahead'[2] = RetriesAhead'
      /\ Ahead[3] = StagesAhead /\ Ahead'[3] = StagesAhead'
      /\ Ahead[4] = Remaining /\ Ahead'[4] = Remaining'
  BY DEF Ahead
<1>3. ~SubmitIncident
  <2>1. runs \in Nat
    BY WorkflowAssumption DEF TypeInv, TypeOK
  <2> QED
    BY <2>1 DEF SubmitIncident
<1>4. CASE IngestIncident \/ IdentifyService \/ RetrieveKnowledge
           \/ ResolveContract
  <2>1. IntakeAhead' < IntakeAhead
    BY <1>4
       DEF IntakeAhead, IngestIncident, IdentifyService, RetrieveKnowledge,
           ResolveContract, ContractMissing, ContractLoaded,
           RouteAfterContract
  <2> HIDE DEF Ahead
  <2>2. Down(1)
    BY <1>2, <2>1
  <2> QED
    BY <1>1, <2>2
<1>5. CASE IncrementRetry
  <2>1. IntakeAhead = 0 /\ IntakeAhead' = 0
    BY <1>5 DEF IntakeAhead, IncrementRetry, RouteAfterRejection
  <2>2. RetriesAhead' < RetriesAhead
    <3>1. retry_count \in Nat /\ MaxPlanRetries(retrieved_contract) \in Nat
      BY <1>5, EffectiveTyped
         DEF TypeInv, TypeOK, IncrementRetry, ContractInHand,
             ContractStages, MaxPlanRetries
    <3>2. /\ retry_count' = retry_count + 1
          /\ retrieved_contract' = retrieved_contract
      BY <1>5 DEF IncrementRetry
    <3> QED
      BY <3>1, <3>2 DEF RetriesAhead
  <2>3. Down(2)
    BY <1>2, <2>1, <2>2
  <2> QED
    BY <1>1, <2>3
<1>6. CASE ExecuteAction
  <2>1. /\ IntakeAhead' = IntakeAhead /\ RetriesAhead' = RetriesAhead
        /\ StagesAhead' = StagesAhead /\ ExecuteStep
    BY <1>6 DEF ExecuteAction, IntakeAhead, RetriesAhead, StagesAhead
  <2>2. Remaining' < Remaining
    BY <2>1, ExecuteAhead
  <2>3. Down(4)
    BY <1>2, <2>1, <2>2
  <2> QED
    BY <1>1, <2>3
<1>7. ASSUME StagesAhead' < StagesAhead, IntakeAhead = 0, IntakeAhead' = 0,
             UNCHANGED <<retrieved_contract, retry_count>>
      PROVE  <<Ahead', Ahead>> \in LessAhead
  <2>1. RetriesAhead' = RetriesAhead
    BY <1>7 DEF RetriesAhead
  <2>2. Down(3)
    BY <1>2, <1>7, <2>1
  <2> QED
    BY <1>1, <2>2
<1> HIDE DEF Down
<1>8. CASE PlanRemediation \/ EvaluateGuardrails \/ EvaluateSemantics
  BY <1>7, <1>8
     DEF PlanRemediation, RaiseOnContract, PlanProposed, PlanFailed,
         EvaluateGuardrails, RejectWithoutPlan, RaiseInValidator,
         EvaluatePlan, EvaluateSemantics, RaiseInPolicyAgent,
         SemanticsPassed, SemanticsFailed, RouteAfterGuardrail,
         StagesAhead, IntakeAhead
<1>9. CASE EvaluateRisk
  BY <1>7, <1>9 DEF EvaluateRisk, RouteAfterRisk, StagesAhead, IntakeAhead
<1>10. ASSUME NEW answer, RequestHumanApproval(answer)
       PROVE  <<Ahead', Ahead>> \in LessAhead
  BY <1>7, <1>10
     DEF RequestHumanApproval, RouteAfterHuman, StagesAhead, IntakeAhead
<1>11. CASE RaiseWithoutDriver \/ ReturnResults \/ HandleEscalation \/ Finalize
  BY <1>7, <1>11
     DEF RaiseWithoutDriver, ReturnResults, HandleEscalation, Finalize,
         StagesAhead, IntakeAhead
<1>12. CASE ValidatePostconditions
  BY <1>7, <1>12
     DEF ValidatePostconditions, NothingToValidate, RaiseInMetrics,
         CheckPostconditions, RouteAfterPostcondition, StagesAhead,
         IntakeAhead
<1> QED
  BY <1>3, <1>4, <1>5, <1>6, <1>8, <1>9, <1>10, <1>11, <1>12
     DEF Next, NodeStep, ExecuteActions

\* No run goes on for ever, for any contracts, plans and answers: each step
\* of one, of a node or of the human, brings it down in a well-founded
\* order, so that only a submission can set it going again (that it does go
\* on until it rests is the fairness of Settles).
THEOREM WorkflowGetsNearer ==
    /\ IsWellFoundedOn(LessAhead, [1..4 -> Nat])
    /\ Spec => /\ [](Ahead \in [1..4 -> Nat])
               /\ [][runs' = runs => <<Ahead', Ahead>> \in LessAhead]_vars
<1> DEFINE Inv == TypeInv /\ ContractInHand /\ Attempts
                  /\ NoRetryWithoutContract
<1>1. Init => Attempts /\ NoRetryWithoutContract
  BY DEF Init, Attempts, AttemptsBounded, Intake, Planning, Executing,
         NoRetryWithoutContract
<1>2. TypeInv /\ ContractInHand /\ Attempts /\ NoRetryWithoutContract
          /\ [Next]_vars => (Attempts /\ NoRetryWithoutContract)'
  BY AttemptsStep, NoRetryStep
<1>3. Spec => []Inv
  BY <1>1, <1>2, WorkflowInvariant, PTL DEF Spec
<1>4. Inv => Ahead \in [1..4 -> Nat]
  BY AheadTyped
<1>5. Inv /\ Ahead \in [1..4 -> Nat] /\ (Ahead \in [1..4 -> Nat])' /\ [Next]_vars
          => [runs' = runs => <<Ahead', Ahead>> \in LessAhead]_vars
  <2> SUFFICES ASSUME Inv, Ahead \in [1..4 -> Nat],
                      (Ahead \in [1..4 -> Nat])', Next, runs' = runs
               PROVE  <<Ahead', Ahead>> \in LessAhead
    OBVIOUS
  <2> HIDE DEF Ahead, LessAhead
  <2> QED
    BY AheadStep
<1> HIDE DEF Inv
<1>6. Spec => /\ [](Ahead \in [1..4 -> Nat])
              /\ [][runs' = runs => <<Ahead', Ahead>> \in LessAhead]_vars
  BY <1>3, <1>4, <1>5, PTL DEF Spec
<1> QED
  BY <1>6, LessAheadWellFounded

-----------------------------------------------------------------------------
(* The trail of an execution, and the human's part in it.                  *)

\* The length of the trail after another event.
Longer(n) == IF n < TrailKept THEN n + 1 ELSE n

\* Recording an event moves the older ones by one, as far as they are kept.
LEMMA RecentAppended ==
    ASSUME NEW e, NEW o, audit_trail \in Seq(AuditEvent),
           Event(e, o) \in AuditEvent, Audit(e, o)
    PROVE  /\ Len(audit_trail') = Longer(Len(audit_trail))
           /\ Recent(0)' = Event(e, o)
           /\ \A k \in 0..3 :
                  k < Len(audit_trail) => Recent(k + 1)' = Recent(k)
<1> DEFINE event == Event(e, o)
           trail == Append(audit_trail, event)
           n == Len(audit_trail)
<1>1. event \in AuditEvent
  OBVIOUS
<1>2. audit_trail' = IF Len(trail) > 5 THEN Tail(trail) ELSE trail
  BY DEF Audit, TrailKept
<1> HIDE DEF event
<1>3. /\ trail \in Seq(AuditEvent) /\ Len(trail) = n + 1 /\ n \in Nat
      /\ trail[n + 1] = event
      /\ \A i \in 1..n : trail[i] = audit_trail[i]
  BY <1>1, AppendProperties
<1> HIDE DEF trail, n
<1>4. CASE n < 5
  <2>1. audit_trail' = trail /\ Len(audit_trail') = n + 1
    BY <1>2, <1>3, <1>4
  <2>2. Recent(0)' = event
    BY <1>3, <2>1 DEF Recent
  <2>3. ASSUME NEW k \in 0..3, k < n
        PROVE  Recent(k + 1)' = Recent(k)
    <3>1. /\ Len(audit_trail') - (k + 1) = n - k
          /\ n - k \in 1..n
      BY <1>3, <2>1, <2>3
    <3> QED
      BY <1>3, <2>1, <3>1 DEF Recent, n
  <2> QED
    BY <1>3, <1>4, <2>1, <2>2, <2>3 DEF event, n, Longer, TrailKept
<1>5. CASE ~(n < 5)
  <2>1. audit_trail' = Tail(trail)
    BY <1>2, <1>3, <1>5
  <2>2. trail # <<>>
    BY <1>3
  <2>3. /\ Len(audit_trail') = n
        /\ \A i \in 1..n : audit_trail'[i] = trail[i + 1]
    BY <1>3, <2>1, <2>2, HeadTailProperties
  <2>4. Recent(0)' = event
    BY <1>3, <1>5, <2>3 DEF Recent
  <2>5. ASSUME NEW k \in 0..3, k < n
        PROVE  Recent(k + 1)' = Recent(k)
    <3>1. /\ Len(audit_trail') - (k + 1) = n - (k + 1)
          /\ n - (k + 1) \in 1..n /\ n - k \in 1..n
          /\ n - (k + 1) + 1 = n - k
      BY <1>3, <1>5, <2>3
    <3> QED
      BY <1>3, <2>3, <3>1 DEF Recent, n
  <2> QED
    BY <1>3, <1>5, <2>3, <2>4, <2>5 DEF event, n, Longer, TrailKept
<1> QED
  BY <1>4, <1>5

\* The events a plan leaves behind on its way to the execution.
Proposed == Event("plan_proposed", "proposed")
Approved == Event("guardrail_evaluated", "APPROVED")
Passed   == Event("semantic_validation_passed", "passed")

Evidence ==
    /\ pc = "evaluate_guardrails" /\ normalized_actions # <<>> =>
           Len(audit_trail) >= 1 /\ Recent(0) = Proposed
    /\ pc = "evaluate_semantics" =>
           /\ Len(audit_trail) >= 2
           /\ Recent(0) = Approved /\ Recent(1) = Proposed
    /\ pc = "evaluate_risk" =>
           /\ Len(audit_trail) >= 3
           /\ Recent(0) = Passed /\ Recent(1) = Approved
           /\ Recent(2) = Proposed
    /\ pc = "request_human_approval" =>
           /\ Len(audit_trail) >= 4
           /\ Recent(0) = Event("risk_evaluated", risk_level)
           /\ Recent(1) = Passed /\ Recent(2) = Approved
           /\ Recent(3) = Proposed
    /\ AuditEvidence

LEMMA EvidenceStep ==
    ASSUME TypeInv, Governed, Evidence, [Next]_vars
    PROVE  Evidence'
<1> USE DEF intake, planning, verdict, histories
<1>1. audit_trail \in Seq(AuditEvent) /\ Len(audit_trail) \in Nat
  BY DEF TypeInv, TypeOK
<1>2. \A a, b, o, q : Event(a, o) = Event(b, q) => a = b /\ o = q
  BY DEF Event
<1> HIDE DEF Event
<1>3. CASE SubmitIncident \/ IngestIncident \/ IdentifyService
           \/ RetrieveKnowledge \/ ResolveContract
  BY <1>3
     DEF SubmitIncident, IngestIncident, IdentifyService, RetrieveKnowledge,
         ResolveContract, ContractMissing, ContractLoaded,
         RouteAfterContract, Evidence, AuditEvidence
<1>4. CASE RaiseOnContract \/ PlanFailed
  BY <1>4 DEF RaiseOnContract, PlanFailed, Evidence, AuditEvidence
<1>5. ASSUME NEW plan \in Plans, PlanProposed(plan)
      PROVE  Evidence'
  <2>1. Len(audit_trail') = Longer(Len(audit_trail)) /\ Recent(0)' = Proposed
    BY <1>1, <1>5, EventTyped, RecentAppended DEF PlanProposed, Proposed
  <2>2. pc' = "evaluate_guardrails"
    BY <1>5 DEF PlanProposed
  <2> QED
    BY <1>1, <2>1, <2>2
       DEF Evidence, AuditEvidence, Proposed, Longer, TrailKept
<1>6. CASE RejectWithoutPlan \/ RaiseInValidator
  BY <1>6 DEF RejectWithoutPlan, RaiseInValidator, RouteAfterGuardrail,
              Evidence, AuditEvidence
<1>7. CASE EvaluatePlan
  <2>1. CASE guardrail_status' = "APPROVED"
    <3>1. normalized_actions # <<>> /\ Audit("guardrail_evaluated", "APPROVED")
      BY <1>7, <2>1 DEF EvaluatePlan, NoPlan
    <3>2. /\ Len(audit_trail') = Longer(Len(audit_trail))
          /\ Recent(0)' = Approved
          /\ \A k \in 0..3 :
                 k < Len(audit_trail) => Recent(k + 1)' = Recent(k)
      BY <1>1, <3>1, EventTyped, RecentAppended DEF Approved
    <3>3. Len(audit_trail) >= 1 /\ Recent(0) = Proposed
      BY <1>7, <3>1 DEF EvaluatePlan, Evidence
    <3>4. Recent(1)' = Proposed
      BY <1>1, <3>2, <3>3
    <3>5. pc' = "evaluate_semantics"
      BY <1>7, <2>1 DEF EvaluatePlan, RouteAfterGuardrail
    <3> QED
      BY <1>1, <3>2, <3>3, <3>4, <3>5
         DEF Evidence, AuditEvidence, Proposed, Approved, Longer, TrailKept
  <2>2. CASE guardrail_status' # "APPROVED"
    BY <1>7, <2>2 DEF EvaluatePlan, RouteAfterGuardrail, Evidence,
                      AuditEvidence
  <2> QED
    BY <2>1, <2>2
<1>8. CASE RaiseInPolicyAgent \/ SemanticsFailed \/ IncrementRetry
  BY <1>8 DEF RaiseInPolicyAgent, SemanticsFailed, IncrementRetry,
              RouteAfterGuardrail, RouteAfterRejection, Evidence,
              AuditEvidence
<1>9. CASE SemanticsPassed
  <2>1. /\ Len(audit_trail') = Longer(Len(audit_trail))
        /\ Recent(0)' = Passed
        /\ \A k \in 0..3 :
               k < Len(audit_trail) => Recent(k + 1)' = Recent(k)
    BY <1>1, <1>9, EventTyped, RecentAppended DEF SemanticsPassed, Passed
  <2>2. /\ Len(audit_trail) >= 2
        /\ Recent(0) = Approved /\ Recent(1) = Proposed
    BY <1>9 DEF SemanticsPassed, Evidence
  <2>3. Recent(1)' = Approved /\ Recent(2)' = Proposed
    <3>1. 0 \in 0..3 /\ 0 < Len(audit_trail) /\ 1 \in 0..3 /\ 1 < Len(audit_trail)
      BY <1>1, <2>2
    <3>2. Recent(0 + 1)' = Recent(0) /\ Recent(1 + 1)' = Recent(1)
      BY <2>1, <3>1
    <3> QED
      BY <2>2, <3>2
  <2>4. pc' = "evaluate_risk"
    BY <1>9 DEF SemanticsPassed, RouteAfterGuardrail, Governed
  <2> QED
    BY <1>1, <2>1, <2>2, <2>3, <2>4
       DEF Evidence, AuditEvidence, Longer, TrailKept
<1>10. CASE EvaluateRisk
  <2>1. Audit("risk_evaluated", risk_level') /\ risk_level' \in RiskLevels
    <3> HIDE DEF CurrentScore
    <3> QED
      BY <1>10 DEF EvaluateRisk, RiskLevel, RiskLevels
  <2>2. /\ Len(audit_trail') = Longer(Len(audit_trail))
        /\ Recent(0)' = Event("risk_evaluated", risk_level')
        /\ \A k \in 0..3 :
               k < Len(audit_trail) => Recent(k + 1)' = Recent(k)
    BY <1>1, <2>1, EventTyped, RecentAppended
  <2>3. /\ Len(audit_trail) >= 3
        /\ Recent(0) = Passed /\ Recent(1) = Approved
        /\ Recent(2) = Proposed
    BY <1>10 DEF EvaluateRisk, Evidence
  <2>4. /\ Recent(1)' = Passed /\ Recent(2)' = Approved
        /\ Recent(3)' = Proposed
    <3>1. /\ 0 \in 0..3 /\ 0 < Len(audit_trail) /\ 1 \in 0..3 /\ 1 < Len(audit_trail)
          /\ 2 \in 0..3 /\ 2 < Len(audit_trail)
      BY <1>1, <2>3
    <3>2. /\ Recent(0 + 1)' = Recent(0) /\ Recent(1 + 1)' = Recent(1)
          /\ Recent(2 + 1)' = Recent(2)
      BY <2>2, <3>1
    <3> QED
      BY <2>3, <3>2
  <2>5. pc' \in {"request_human_approval", "execute_actions"}
    BY <1>10 DEF EvaluateRisk, RouteAfterRisk
  <2>6. AuditEvidence'
    BY <1>1, <1>2, <2>2, <2>3, <2>4
       DEF AuditEvidence, Proposed, Approved, Passed, Longer, TrailKept
  <2> QED
    BY <1>1, <2>2, <2>3, <2>4, <2>5, <2>6 DEF Evidence, Longer, TrailKept
<1>11. ASSUME NEW answer, RequestHumanApproval(answer)
       PROVE  Evidence'
  <2>1. CASE human_decision' = "APPROVED"
    <3>1. Audit("human_decision", "APPROVED")
      BY <1>11, <2>1 DEF RequestHumanApproval
    <3>2. /\ Len(audit_trail') = Longer(Len(audit_trail))
          /\ Recent(0)' = Event("human_decision", "APPROVED")
          /\ \A k \in 0..3 :
                 k < Len(audit_trail) => Recent(k + 1)' = Recent(k)
      BY <1>1, <3>1, EventTyped, RecentAppended
    <3>3. /\ Len(audit_trail) >= 4
          /\ Recent(0) = Event("risk_evaluated", risk_level)
          /\ Recent(1) = Passed /\ Recent(2) = Approved
          /\ Recent(3) = Proposed
      BY <1>11 DEF RequestHumanApproval, Evidence
    <3>4. /\ Recent(1)' = Event("risk_evaluated", risk_level)
          /\ Recent(2)' = Passed /\ Recent(3)' = Approved
          /\ Recent(4)' = Proposed
      <4>1. /\ 0 \in 0..3 /\ 0 < Len(audit_trail)
            /\ 1 \in 0..3 /\ 1 < Len(audit_trail)
            /\ 2 \in 0..3 /\ 2 < Len(audit_trail)
            /\ 3 \in 0..3 /\ 3 < Len(audit_trail)
        BY <1>1, <3>3
      <4>2. /\ Recent(0 + 1)' = Recent(0) /\ Recent(1 + 1)' = Recent(1)
            /\ Recent(2 + 1)' = Recent(2) /\ Recent(3 + 1)' = Recent(3)
        BY <3>2, <4>1
      <4> QED
        BY <3>3, <4>2
    <3>5. pc' = "execute_actions" /\ risk_level' = risk_level
      BY <1>11, <2>1 DEF RequestHumanApproval, RouteAfterHuman
    <3>6. AuditEvidence'
      BY <1>1, <3>2, <3>3, <3>4, <3>5
         DEF AuditEvidence, Proposed, Approved, Passed, Longer, TrailKept
    <3> QED
      BY <3>5, <3>6 DEF Evidence
  <2>2. CASE human_decision' # "APPROVED"
    BY <1>11, <2>2 DEF RequestHumanApproval, RouteAfterHuman, Evidence,
                       AuditEvidence
  <2> QED
    BY <2>1, <2>2
<1>12. CASE ExecuteAction
  <2>1. /\ pc = "execute_actions" /\ pc' = pc
        /\ UNCHANGED <<audit_trail, risk_level>>
    BY <1>12 DEF ExecuteAction
  <2> QED
    BY <2>1 DEF Evidence, AuditEvidence, Recent
<1>13. CASE RaiseWithoutDriver \/ ReturnResults \/ ValidatePostconditions
            \/ HandleEscalation \/ Finalize
  BY <1>13 DEF RaiseWithoutDriver, ReturnResults, ValidatePostconditions,
               NothingToValidate, RaiseInMetrics, CheckPostconditions,
               RouteAfterPostcondition, HandleEscalation, Finalize, Evidence,
               AuditEvidence
<1>14. CASE UNCHANGED vars
  BY <1>14 DEF vars, executeVars, Evidence, AuditEvidence, Recent
<1> QED
  BY <1>3, <1>4, <1>5, <1>6, <1>7, <1>8, <1>9, <1>10, <1>11, <1>12, <1>13,
     <1>14
     DEF Next, NodeStep, PlanRemediation, EvaluateGuardrails,
         EvaluateSemantics, ExecuteActions

\* The audit trail of every execution ends in the whole chain of decisions
\* about the plan that is executed, however often the incident was submitted
\* and its plans rejected before.
THEOREM WorkflowLeavesEvidence == Spec => []AuditEvidence
<1>1. Init => Governed /\ Evidence
  BY DEF Init, Governed, Evidence, AuditEvidence
<1>2. TypeInv /\ Governed /\ Evidence /\ [Next]_vars => (Governed /\ Evidence)'
  BY GovernedStep, EvidenceStep
<1>3. Evidence => AuditEvidence
  BY DEF Evidence
<1> QED
  BY <1>1, <1>2, <1>3, WorkflowInvariant, PTL DEF Spec

\* The guardrails' wish for a human survives until the risk is evaluated,
\* and the plan that is scored is as long as the plan that is executed.
Gated ==
    /\ Len(normalized_actions) = Len(proposed_plan)
    /\ /\ pc \in {"evaluate_semantics", "evaluate_risk"}
       /\ PlanNeedsApproval(normalized_actions, retrieved_contract)
       => approval_required
    /\ HumanGate

\* The part of Gated that tells where the run is, when it is in neither of
\* the places that Gated speaks of.
LEMMA GatedElsewhere ==
    ASSUME Len(normalized_actions') = Len(proposed_plan'),
           pc' \notin {"evaluate_semantics", "evaluate_risk",
                       "execute_actions"}
    PROVE  Gated'
BY DEF Gated, HumanGate

\* The scored plan of a CRITICAL incident always needs a human.
LEMMA CriticalPlanNeedsHuman ==
    ASSUME TypeInv, proposed_plan # <<>>, incident.severity = "CRITICAL"
    PROVE  RiskNeedsApproval(proposed_plan, retrieved_contract, CurrentScore)
<1>1. proposed_plan \in Seq(PlannedAction)
  BY WorkflowAssumption DEF TypeInv, TypeOK
<1>2. incident.checkout \in BOOLEAN
  BY WorkflowAssumption DEF TypeInv, TypeOK, Incident
<1>3. NeutralTrust \in 0..60
  BY DEF NeutralTrust
<1> QED
  BY <1>1, <1>2, <1>3, CriticalIncidentNeedsHuman DEF CurrentScore

LEMMA GatedStep ==
    ASSUME TypeInv, Governed, Gated, [Next]_vars
    PROVE  Gated'
<1> USE DEF intake, planning, verdict, histories
<1>1. audit_trail \in Seq(AuditEvent)
  BY DEF TypeInv, TypeOK
<1>2. CASE SubmitIncident \/ IngestIncident \/ IdentifyService
           \/ RetrieveKnowledge \/ ResolveContract
  BY <1>2, GatedElsewhere
     DEF SubmitIncident, IngestIncident, IdentifyService, RetrieveKnowledge,
         ResolveContract, ContractMissing, ContractLoaded,
         RouteAfterContract, Gated
<1>3. CASE PlanRemediation
  <2>1. CASE RaiseOnContract
    BY <2>1, GatedElsewhere DEF RaiseOnContract, Gated
  <2>2. ASSUME NEW plan \in Plans, PlanProposed(plan)
        PROVE  Gated'
    BY <2>2, GatedElsewhere, NormalizeTyped, WorkflowAssumption
       DEF PlanProposed
  <2>3. CASE PlanFailed
    BY <2>3, GatedElsewhere DEF PlanFailed
  <2> QED
    BY <1>3, <2>1, <2>2, <2>3 DEF PlanRemediation
<1>4. CASE RejectWithoutPlan \/ RaiseInValidator \/ RaiseInPolicyAgent
           \/ SemanticsFailed \/ IncrementRetry
  BY <1>4, GatedElsewhere
     DEF RejectWithoutPlan, RaiseInValidator, RaiseInPolicyAgent,
         SemanticsFailed, IncrementRetry, RouteAfterGuardrail,
         RouteAfterRejection, Gated
<1>5. CASE EvaluatePlan
  <2>1. /\ UNCHANGED <<proposed_plan, normalized_actions, retrieved_contract>>
        /\ approval_required' = PlanNeedsApproval(normalized_actions,
                                                  retrieved_contract)
    BY <1>5 DEF EvaluatePlan
  <2>2. pc' \in {"evaluate_semantics", "increment_retry"}
    BY <1>5 DEF EvaluatePlan, RouteAfterGuardrail
  <2>3. PlanNeedsApproval(normalized_actions, retrieved_contract)'
            = PlanNeedsApproval(normalized_actions, retrieved_contract)
    BY <2>1 DEF PlanNeedsApproval
  <2> HIDE DEF PlanNeedsApproval
  <2> QED
    BY <2>1, <2>2, <2>3, Zenon DEF Gated, HumanGate
<1>6. CASE SemanticsPassed
  BY <1>6 DEF SemanticsPassed, RouteAfterGuardrail, Gated, HumanGate
<1>7. CASE EvaluateRisk
  <2>1. UNCHANGED <<incident, proposed_plan, normalized_actions,
                    retrieved_contract>>
    BY <1>7 DEF EvaluateRisk
  <2>2. pc' \in {"request_human_approval", "execute_actions"}
    BY <1>7 DEF EvaluateRisk, RouteAfterRisk
  <2>3. CASE pc' = "execute_actions"
    <3>1. ~approval_required'
      BY <1>7, <2>3 DEF EvaluateRisk, RouteAfterRisk
    <3>2. /\ ~RiskNeedsApproval(proposed_plan, retrieved_contract,
                                CurrentScore)
          /\ ~approval_required
      BY <1>7, <3>1 DEF EvaluateRisk
    <3>3. ~PlanNeedsApproval(normalized_actions, retrieved_contract)
      BY <1>7, <3>2 DEF EvaluateRisk, Gated
    <3>4. ~NeedsHuman'
      BY <2>1, <3>2, <3>3 DEF NeedsHuman, CurrentScore
    <3>5. proposed_plan # <<>>
      <4>1. normalized_actions # <<>>
        BY <1>7 DEF EvaluateRisk, Governed
      <4>2. normalized_actions \in Seq(NormalizedAction)
        BY DEF TypeInv, TypeOK, ExecuteTypeOK
      <4>3. Len(normalized_actions) # 0
        BY <4>1, <4>2, EmptySeq
      <4> QED
        BY <4>3 DEF Gated
    <3>6. incident'.severity # "CRITICAL"
      BY <2>1, <3>2, <3>5, CriticalPlanNeedsHuman
    <3> QED
      BY <2>1, <2>3, <3>4, <3>6 DEF Gated, HumanGate
  <2>4. CASE pc' = "request_human_approval"
    BY <2>1, <2>4, GatedElsewhere DEF Gated
  <2> QED
    BY <2>2, <2>3, <2>4
<1>8. ASSUME NEW answer, RequestHumanApproval(answer)
      PROVE  Gated'
  <2>1. UNCHANGED <<proposed_plan, normalized_actions>>
    BY <1>8 DEF RequestHumanApproval
  <2>2. CASE human_decision' = "APPROVED"
    <3>1. Audit("human_decision", "APPROVED") /\ pc' = "execute_actions"
      BY <1>8, <2>2 DEF RequestHumanApproval, RouteAfterHuman
    <3>2. Recent(0)' = Event("human_decision", "APPROVED")
      BY <1>1, <3>1, EventTyped, RecentAppended
    <3> QED
      BY <2>1, <3>1, <3>2 DEF Gated, HumanGate
  <2>3. CASE human_decision' # "APPROVED"
    BY <1>8, <2>1, <2>3, GatedElsewhere
       DEF RequestHumanApproval, RouteAfterHuman, Gated
  <2> QED
    BY <2>2, <2>3
<1>9. CASE ExecuteAction
  <2>1. /\ pc = "execute_actions" /\ pc' = pc
        /\ UNCHANGED <<audit_trail, proposed_plan, retrieved_contract,
                       incident>>
    BY <1>9 DEF ExecuteAction
  <2>2. normalized_actions' = normalized_actions
    BY <1>9 DEF ExecuteAction, ExecuteStep, SkipReadOnly, PerformAction,
                Compensate
  <2> QED
    BY <2>1, <2>2 DEF Gated, HumanGate, NeedsHuman, CurrentScore, Recent
<1>10. CASE RaiseWithoutDriver \/ ReturnResults \/ ValidatePostconditions
            \/ HandleEscalation \/ Finalize
  BY <1>10, GatedElsewhere
     DEF RaiseWithoutDriver, ReturnResults, ValidatePostconditions,
         NothingToValidate, RaiseInMetrics, CheckPostconditions,
         RouteAfterPostcondition, HandleEscalation, Finalize, Gated
<1>11. CASE UNCHANGED vars
  <2>1. UNCHANGED <<pc, audit_trail, proposed_plan, normalized_actions,
                    retrieved_contract, incident, approval_required>>
    BY <1>11 DEF vars, executeVars
  <2> QED
    BY <2>1 DEF Gated, HumanGate, NeedsHuman, CurrentScore, Recent
<1> QED
  BY <1>2, <1>3, <1>4, <1>5, <1>6, <1>7, <1>8, <1>9, <1>10, <1>11
     DEF Next, NodeStep, EvaluateGuardrails, EvaluateSemantics,
         ExecuteActions

\* "Approval requirements always require a human", for every contract and
\* plan, and so do a score above 30 and a CRITICAL incident: the plan is
\* executed only on an approval recorded after it was evaluated.
THEOREM WorkflowAsksHuman == Spec => []HumanGate
<1>1. Init => Governed /\ Gated
  BY DEF Init, Governed, Gated, HumanGate
<1>2. TypeInv /\ Governed /\ Gated /\ [Next]_vars => (Governed /\ Gated)'
  BY GovernedStep, GatedStep
<1>3. Gated => HumanGate
  BY DEF Gated
<1> QED
  BY <1>1, <1>2, <1>3, WorkflowInvariant, PTL DEF Spec

-----------------------------------------------------------------------------
(* The outcome of the first submission.                                    *)

Early == {"ingest_incident"} \cup Intake

Untouched ==
    /\ retrieved_contract = NoContract
    /\ execution_history = <<>>
    /\ final_status = "none" /\ human_decision = "none"

\* Where the resolver found no contract.
WithoutContract ==
    /\ pc \in {"handle_escalation", "finalize", "END"}
    /\ human_decision = "none" /\ final_status = "ESCALATED"

\* Once an execution has returned and been validated, its postconditions are
\* at hand; SUCCESS is recorded ahead of the end only where there are none.
WithContract ==
    /\ pc # "END" =>
           \/ final_status = "none"
           \/ final_status = "SUCCESS" /\ retrieved_contract.postconditions = 0
    /\ execution_history # <<>>
           \/ pc \in {"execute_actions", "validate_postconditions"}
           => batches > 0
    /\ retrieved_contract.postconditions > 0 /\ execution_history # <<>>
           /\ pc \notin {"execute_actions", "validate_postconditions", "raised"}
           => postcondition_results # <<>>

\* OutcomeSound speaks of the end only: the strengthening says what each
\* stage of the first submission has left in the channels.
FirstRun ==
    /\ OutcomeSound
    /\ runs = 0 => pc = "idle" /\ Untouched
    /\ runs = 1 /\ pc \in Early => Untouched
    /\ runs = 1 /\ pc \notin Early =>
           IF retrieved_contract = NoContract
           THEN WithoutContract ELSE WithContract

\* The nodes between the resolver and the execution write nothing that the
\* outcome is made of.
LEMMA DeliberationKeepsOutcome ==
    ASSUME TypeInv, ContractInHand, FirstRun,
           PlanRemediation \/ EvaluateGuardrails \/ EvaluateSemantics
               \/ IncrementRetry \/ HandleEscalation
    PROVE  FirstRun'
<1> USE DEF FirstRun, OutcomeSound, Early, Intake, WithoutContract,
            WithContract, ContractInHand, ContractStages
<1>1. UNCHANGED <<runs, retrieved_contract, human_decision,
                  execution_history, postcondition_results, final_status,
                  batches>>
  BY DEF PlanRemediation, RaiseOnContract, PlanProposed, PlanFailed,
         EvaluateGuardrails, RejectWithoutPlan, RaiseInValidator,
         EvaluatePlan, EvaluateSemantics, RaiseInPolicyAgent,
         SemanticsPassed, SemanticsFailed, IncrementRetry, HandleEscalation,
         intake, histories, outcome
<1>2. /\ pc \notin Early \cup {"idle", "END", "execute_actions",
                               "validate_postconditions"}
      /\ pc' \notin Early \cup {"idle", "END", "execute_actions",
                                "validate_postconditions"}
  BY DEF PlanRemediation, RaiseOnContract, PlanProposed, PlanFailed,
         EvaluateGuardrails, RejectWithoutPlan, RaiseInValidator,
         EvaluatePlan, EvaluateSemantics, RaiseInPolicyAgent,
         SemanticsPassed, SemanticsFailed, IncrementRetry, HandleEscalation,
         RouteAfterGuardrail, RouteAfterRejection
<1>3. pc = "handle_escalation" => pc' = "finalize"
  BY DEF PlanRemediation, RaiseOnContract, PlanProposed, PlanFailed,
         EvaluateGuardrails, RejectWithoutPlan, RaiseInValidator,
         EvaluatePlan, EvaluateSemantics, RaiseInPolicyAgent,
         SemanticsPassed, SemanticsFailed, IncrementRetry, HandleEscalation
<1>4. pc \in ContractStages \cup {"handle_escalation"}
  BY DEF PlanRemediation, RaiseOnContract, PlanProposed, PlanFailed,
         EvaluateGuardrails, RejectWithoutPlan, RaiseInValidator,
         EvaluatePlan, EvaluateSemantics, RaiseInPolicyAgent,
         SemanticsPassed, SemanticsFailed, IncrementRetry, HandleEscalation
<1>5. pc \in ContractStages => retrieved_contract # NoContract
  BY WorkflowAssumption
<1> QED
  BY <1>1, <1>2, <1>3, <1>4, <1>5

LEMMA FinalizeOutcome ==
    ASSUME TypeInv, FirstRun, Finalize
    PROVE  FirstRun'
<1> USE DEF FirstRun, Early, Intake
<1>1. /\ pc = "finalize" /\ pc' = "END" /\ final_status' = FinalStatus
      /\ UNCHANGED <<runs, retrieved_contract, human_decision,
                     execution_history, postcondition_results, batches>>
  BY DEF Finalize, intake, histories
<1>2. CASE runs = 1 /\ retrieved_contract = NoContract
  <2>1. final_status' = "ESCALATED"
    BY <1>1, <1>2 DEF WithoutContract, FinalStatus
  <2> QED
    BY <1>1, <1>2, <2>1 DEF WithoutContract, OutcomeSound
<1>3. CASE runs = 1 /\ retrieved_contract # NoContract
  <2>1. WithContract
    BY <1>1, <1>3
  <2>2. OutcomeSound'
    <3>1. ASSUME final_status' = "SUCCESS",
                 retrieved_contract.postconditions > 0
          PROVE  /\ batches > 0
                 /\ AllExecuted /\ AllPassed
                 /\ postcondition_results # <<>>
      <4>1. retrieved_contract.postconditions # 0
        BY <3>1, EffectiveTyped, <1>3 DEF TypeInv, TypeOK
      <4>2. final_status = "none" /\ AllPassed /\ AllExecuted
        BY <1>1, <2>1, <3>1, <4>1 DEF WithContract, FinalStatus
      <4> QED
        BY <1>1, <2>1, <3>1, <4>2 DEF WithContract, AllExecuted
    <3>2. final_status' = "DENIED" => human_decision = "REJECTED"
      BY <1>1, <2>1 DEF WithContract, FinalStatus
    <3>3. AllExecuted' = AllExecuted /\ AllPassed' = AllPassed
      BY <1>1 DEF AllExecuted, AllPassed
    <3> QED
      BY <1>1, <3>1, <3>2, <3>3 DEF OutcomeSound
  <2>3. WithContract'
    BY <1>1, <2>1 DEF WithContract
  <2> QED
    BY <1>1, <1>3, <2>2, <2>3
<1>4. CASE runs # 1
  BY <1>1, <1>4 DEF OutcomeSound, Untouched
<1> QED
  BY <1>2, <1>3, <1>4

LEMMA FirstRunStep ==
    ASSUME TypeInv, ContractInHand, FirstRun, [Next]_vars
    PROVE  FirstRun'
<1> USE DEF FirstRun, OutcomeSound, Early, Intake, WithoutContract,
            WithContract, ContractInHand, ContractStages, intake, planning,
            verdict, histories, outcome
<1>1. /\ runs \in Nat /\ batches \in Nat
      /\ execution_history \in Seq(HistoryEntry)
      /\ retrieved_contract # NoContract =>
             retrieved_contract.postconditions \in Nat
  BY EffectiveTyped, WorkflowAssumption DEF TypeInv, TypeOK
<1>2. CASE SubmitIncident
  <2>1. runs' = runs + 1 /\ pc' = "ingest_incident"
    BY <1>2 DEF SubmitIncident
  <2>2. runs' = 1 => runs = 0
    BY <1>1, <2>1
  <2>3. Untouched => Untouched'
    BY <1>2 DEF SubmitIncident, Untouched
  <2> QED
    BY <1>1, <2>1, <2>2, <2>3
<1>3. CASE IngestIncident \/ IdentifyService \/ RetrieveKnowledge
  <2>1. pc \in Early /\ pc' \in Early /\ runs' = runs
    BY <1>3 DEF IngestIncident, IdentifyService, RetrieveKnowledge
  <2>2. Untouched => Untouched'
    BY <1>3 DEF IngestIncident, IdentifyService, RetrieveKnowledge, Untouched
  <2> QED
    BY <2>1, <2>2
<1>4. CASE ContractMissing
  <2>1. /\ pc = "resolve_contract" /\ pc' = "handle_escalation"
        /\ retrieved_contract' = NoContract /\ final_status' = "ESCALATED"
        /\ UNCHANGED <<runs, human_decision>>
    BY <1>4 DEF ContractMissing, RouteAfterContract
  <2> QED
    BY <2>1 DEF Untouched
<1>5. ASSUME NEW base \in ContractFiles, ContractLoaded(base)
      PROVE  FirstRun'
  <2>1. incident.severity \in Severities
    BY WorkflowAssumption DEF TypeInv, TypeOK, Incident
  <2>2. retrieved_contract' # NoContract
    BY <1>5, <2>1, WorkflowAssumption DEF ContractLoaded, EffectiveContracts
  <2>3. /\ pc = "resolve_contract" /\ pc' = "plan_remediation"
        /\ UNCHANGED <<runs, human_decision, execution_history, final_status>>
    BY <1>5, <2>2 DEF ContractLoaded, RouteAfterContract
  <2> QED
    BY <2>2, <2>3 DEF Untouched
<1>6. CASE PlanRemediation \/ EvaluateGuardrails \/ EvaluateSemantics
               \/ IncrementRetry \/ HandleEscalation
  BY <1>6, DeliberationKeepsOutcome
<1>7. ASSUME EvaluateRisk
                 \/ \E answer \in {"APPROVED", "REJECTED", "other"} :
                        RequestHumanApproval(answer)
      PROVE  FirstRun'
  <2>1. /\ pc \in {"evaluate_risk", "request_human_approval"}
        /\ pc' \in {"request_human_approval", "execute_actions", "finalize"}
        /\ UNCHANGED <<runs, retrieved_contract, execution_history,
                       postcondition_results, final_status>>
        /\ CountBatch
    BY <1>7 DEF EvaluateRisk, RequestHumanApproval, RouteAfterRisk,
                RouteAfterHuman
  <2>2. /\ batches' \in Nat /\ batches' >= batches
        /\ pc' = "execute_actions" => batches' > 0
    BY <1>1, <2>1 DEF CountBatch
  <2>3. retrieved_contract # NoContract
    BY <2>1, WorkflowAssumption
  <2> QED
    BY <1>1, <2>1, <2>2, <2>3
<1>8. CASE ExecuteActions
  <2>1. /\ pc = "execute_actions"
        /\ pc' \in {"execute_actions", "validate_postconditions", "raised"}
        /\ UNCHANGED <<runs, retrieved_contract, human_decision,
                       postcondition_results, final_status, batches>>
        /\ pc' = "execute_actions" \/ pc' = "raised"
               => execution_history' = execution_history
    BY <1>8 DEF ExecuteActions, ExecuteAction, RaiseWithoutDriver,
                ReturnResults
  <2>2. retrieved_contract # NoContract
    BY <2>1, WorkflowAssumption
  <2> QED
    BY <2>1, <2>2
<1>9. CASE NothingToValidate \/ CheckPostconditions
  <2>1. /\ pc = "validate_postconditions"
        /\ pc' \in {"finalize", "increment_retry", "handle_escalation"}
        /\ UNCHANGED <<runs, retrieved_contract, human_decision,
                       execution_history, batches>>
    BY <1>9 DEF NothingToValidate, CheckPostconditions,
                RouteAfterPostcondition
  <2>2. retrieved_contract # NoContract
    BY <2>1, WorkflowAssumption
  <2>3. \/ retrieved_contract.postconditions = 0 /\ final_status' = "SUCCESS"
        \/ /\ retrieved_contract.postconditions > 0
           /\ final_status' = final_status
           /\ postcondition_results' # <<>>
    <3>1. CASE NothingToValidate
      BY <3>1 DEF NothingToValidate
    <3>2. CASE CheckPostconditions
      <4>1. PICK passed \in [1..retrieved_contract.postconditions -> BOOLEAN] :
                postcondition_results' = passed
        BY <3>2 DEF CheckPostconditions
      <4>2. /\ retrieved_contract.postconditions > 0
            /\ final_status' = final_status
        BY <3>2 DEF CheckPostconditions
      <4>3. 1 \in DOMAIN passed
        BY <1>1, <2>2, <4>2
      <4>4. passed # <<>>
        <5>1. DOMAIN <<>> = {}
          OBVIOUS
        <5> QED
          BY <4>3, <5>1
      <4> QED
        BY <4>1, <4>2, <4>4
    <3> QED
      BY <1>9, <3>1, <3>2
  <2> QED
    BY <1>1, <2>1, <2>2, <2>3
<1>10. CASE Finalize
  BY <1>10, FinalizeOutcome
<1>11. CASE RaiseInMetrics
  BY <1>1, <1>11, WorkflowAssumption DEF RaiseInMetrics
<1>12. CASE UNCHANGED vars
  BY <1>12 DEF vars, Untouched, AllExecuted, AllPassed
<1> QED
  BY <1>2, <1>3, <1>4, <1>5, <1>6, <1>7, <1>8, <1>9, <1>10, <1>11, <1>12
     DEF Next, NodeStep, ResolveContract, ValidatePostconditions

\* For every contract and every series of plans, the first submission ends
\* in SUCCESS under a contract with postconditions only when something was
\* executed, all of it succeeded, and the last postconditions passed; and
\* only a rejection ends it DENIED.
THEOREM WorkflowOutcome == Spec => []OutcomeSound
<1>1. Init => FirstRun
  BY DEF Init, FirstRun, OutcomeSound, Untouched
<1>2. TypeInv /\ ContractInHand /\ FirstRun /\ [Next]_vars => FirstRun'
  BY FirstRunStep
<1>3. FirstRun => OutcomeSound
  BY DEF FirstRun
<1> QED
  BY <1>1, <1>2, <1>3, WorkflowInvariant, PTL DEF Spec

-----------------------------------------------------------------------------
(* The contract file's rules.                                              *)

\* The contract in hand is a contract, and typed in all its limits.
LEMMA EffectiveIsContract ==
    ASSUME NEW c \in EffectiveContracts
    PROVE  c \in Contract
<1>1. PICK b \in ContractFiles, s \in Severities : c = Effective(b, s)
  BY DEF EffectiveContracts
<1>2. b \in Contract
  BY WorkflowAssumption
<1> QED
  BY <1>1, <1>2, EffectiveWithinFile

\* What the adaptive rules cannot take away: an execution runs a plan that
\* passes every check of a contract file as the organization wrote it.
ExecutionWithinFile ==
    pc = "execute_actions" =>
        \E b \in ContractFiles :
            Passes(normalized_actions, b, execution_history,
                   incident.metrics)

\* The deterministic rules win from the file to the infrastructure: through
\* any number of adaptive rules, plans, attempts and submissions.
THEOREM WorkflowWithinFile == Spec => []ExecutionWithinFile
<1>1. TypeInv /\ ExecutionGoverned => ExecutionWithinFile
  <2> SUFFICES ASSUME TypeInv, ExecutionGoverned, pc = "execute_actions"
               PROVE  \E b \in ContractFiles :
                          Passes(normalized_actions, b, execution_history,
                                 incident.metrics)
    BY DEF ExecutionWithinFile
  <2>1. PICK b \in ContractFiles, s \in Severities :
            retrieved_contract = Effective(b, s)
    BY DEF ExecutionGoverned, EffectiveContracts
  <2>2. /\ b \in Contract
        /\ incident.metrics \in Metrics
    BY WorkflowAssumption DEF TypeInv, TypeOK, Incident
  <2>3. /\ normalized_actions \in Seq(NormalizedAction)
        /\ execution_history \in Seq(HistoryEntry)
    BY DEF TypeInv, TypeOK, ExecuteTypeOK
  <2>4. Passes(normalized_actions, Effective(b, s), execution_history,
               incident.metrics)
    BY <2>1 DEF ExecutionGoverned
  <2>5. Passes(normalized_actions, b, execution_history, incident.metrics)
    BY <2>2, <2>3, <2>4, PassesUnderFile
  <2> QED
    BY <2>5
<1>2. TypeInv /\ ContractInHand => TypeInv
  OBVIOUS
<1> QED
  BY <1>1, <1>2, WorkflowInvariant, WorkflowGoverned, PTL

-----------------------------------------------------------------------------
(* The restart budget.                                                     *)

\* Some entry of the history is a restart.
HasRestart(history) ==
    \E i \in DOMAIN history : history[i].action = "restart_pods"

\* What the guardrails will count of the restarts once the node returns.
Counted == PriorRestarts(execution_history \o results)

\* RestartBudget needs that no restart escapes the history that the
\* guardrails count: the calls of a running node are in its results, and
\* they are of actions that the loop has left behind.
Budget ==
    /\ normalized_actions = NormalizePlan(proposed_plan)
    /\ OnePodPerPlan =>
        /\ restarted <= Counted
        /\ direction = "forward" /\ HasRestart(results) =>
               \E i \in 1..(cursor - 1) :
                   /\ i <= Len(normalized_actions)
                   /\ normalized_actions[i].type = "restart_pods"

\* The plan in hand, under OnePodPerPlan: its only restart is of one pod, or
\* of none.
LEMMA OneRestart ==
    ASSUME TypeInv, Budget, OnePodPerPlan,
           NEW i \in 1..Len(normalized_actions),
           normalized_actions[i].type = "restart_pods"
    PROVE  /\ normalized_actions[i].count \in 0..1
           /\ \A j \in 1..Len(normalized_actions) :
                  normalized_actions[j].type = "restart_pods" => j = i
<1>1. /\ proposed_plan \in Seq(PlannedAction)
      /\ normalized_actions = NormalizePlan(proposed_plan)
  <2>1. proposed_plan \in Plans \cup {<<>>}
    BY DEF TypeInv, TypeOK
  <2>2. <<>> \in Seq(PlannedAction) /\ Plans \subseteq Seq(PlannedAction)
    BY EmptySeq, WorkflowAssumption
  <2> QED
    BY <2>1, <2>2 DEF Budget
<1>2. Len(normalized_actions) = Len(proposed_plan)
  BY <1>1, NormalizeTyped
<1>3. DOMAIN proposed_plan = 1..Len(proposed_plan) /\ Len(proposed_plan) \in Nat
  BY <1>1
<1>4. \A j \in 1..Len(normalized_actions) :
          /\ normalized_actions[j].type = proposed_plan[j].type
          /\ normalized_actions[j].count = proposed_plan[j].count
  BY <1>1, <1>2, <1>3 DEF NormalizePlan, Normalize
<1>5. proposed_plan \in Plans
  <2>1. i \in DOMAIN proposed_plan
    BY <1>2, <1>3
  <2>2. proposed_plan # <<>>
    BY <2>1, <1>1, EmptySeq
  <2> QED
    BY <2>2 DEF TypeInv, TypeOK
<1> QED
  BY <1>2, <1>3, <1>4, <1>5 DEF OnePodPerPlan

\* A call adds to what is counted at least what it restarts.
LEMMA PerformCounted ==
    ASSUME TypeInv, Budget, OnePodPerPlan, pc = "execute_actions",
           execution_history' = execution_history,
           NEW ok \in BOOLEAN, PerformAction(ok)
    PROVE  restarted' <= Counted'
<1> DEFINE entry == [action |-> Looking.type, success |-> ok]
           sofar == execution_history \o results
<1>1. /\ normalized_actions \in Seq(NormalizedAction)
      /\ Len(normalized_actions) \in Nat
      /\ execution_history \in Seq(HistoryEntry)
      /\ results \in Seq(HistoryEntry)
      /\ restarted \in Int
      /\ cursor \in 1..Len(normalized_actions)
  BY DEF TypeInv, TypeOK, ExecuteTypeOK, LocalsOK, PerformAction, Going
<1>2. Looking \in NormalizedAction
  BY <1>1 DEF Looking
<1>3. entry \in HistoryEntry
  BY <1>2 DEF NormalizedAction, HistoryEntry
<1>4. results' = Append(results, entry)
  BY DEF PerformAction
<1>5. sofar \in Seq(HistoryEntry)
  BY <1>1, ConcatProperties
<1>6. execution_history \o Append(results, entry) = Append(sofar, entry)
  <2> HIDE DEF entry
  <2> QED
    BY <1>1, <1>3, AppendIsConcat, ConcatAssociative, <1>5
<1>7. Counted' = PriorRestarts(Append(sofar, entry))
  BY <1>4, <1>6 DEF Counted
<1>8. restarted <= PriorRestarts(sofar)
  BY DEF Budget, Counted
<1>9. PriorRestarts(sofar) \in Nat
  BY <1>5, PriorRestartsTyped
<1>10. PriorRestarts(Append(sofar, entry))
           = PriorRestarts(sofar)
                 + (IF Looking.type = "restart_pods" THEN 1 ELSE 0)
  <2>1. entry.action = Looking.type
    OBVIOUS
  <2> HIDE DEF entry, sofar
  <2> QED
    BY <1>3, <1>5, <2>1, PriorRestartsAppended
<1>11. RestartedBy(Looking) \in 0..1
       /\ (Looking.type # "restart_pods" => RestartedBy(Looking) = 0)
  BY <1>1, OneRestart DEF Looking, RestartedBy
<1>12. restarted' \in {restarted, restarted + RestartedBy(Looking)}
  BY DEF PerformAction
<1> DEFINE n == PriorRestarts(sofar)
           r == RestartedBy(Looking)
<1>13. n \in Nat /\ r \in 0..1 /\ restarted \in Int /\ restarted <= n
  BY <1>1, <1>8, <1>9, <1>11
<1>14. Counted' = n + (IF Looking.type = "restart_pods" THEN 1 ELSE 0)
  BY <1>7, <1>10
<1>15. Looking.type # "restart_pods" => r = 0
  BY <1>11
<1>16. restarted' \in {restarted, restarted + r}
  BY <1>12
<1> HIDE DEF n, r, Counted
<1> QED
  BY <1>13, <1>14, <1>15, <1>16

LEMMA ExecuteBudget ==
    ASSUME TypeInv, Budget, ExecuteAction
    PROVE  Budget'
<1>1. /\ pc = "execute_actions"
      /\ UNCHANGED <<proposed_plan, normalized_actions, execution_history>>
  BY DEF ExecuteAction, ExecuteStep, SkipReadOnly, PerformAction,
         Compensate, histories
<1>2. normalized_actions' = NormalizePlan(proposed_plan')
  BY <1>1 DEF Budget
<1>3. SUFFICES ASSUME OnePodPerPlan
               PROVE  /\ restarted' <= Counted'
                      /\ direction' = "forward" /\ HasRestart(results') =>
                             \E i \in 1..(cursor' - 1) :
                                 /\ i <= Len(normalized_actions')
                                 /\ normalized_actions'[i].type
                                        = "restart_pods"
  BY <1>2 DEF Budget
<1>4. /\ cursor \in Nat /\ results \in Seq(HistoryEntry)
      /\ Len(normalized_actions) \in Nat
  BY DEF TypeInv, TypeOK, ExecuteTypeOK
<1>5. /\ restarted <= Counted
      /\ direction = "forward" /\ HasRestart(results) =>
             \E i \in 1..(cursor - 1) :
                 /\ i <= Len(normalized_actions)
                 /\ normalized_actions[i].type = "restart_pods"
  BY <1>3 DEF Budget
<1>6. CASE SkipReadOnly
  <2>1. /\ cursor' = cursor + 1
        /\ UNCHANGED <<direction, results, restarted, normalized_actions>>
    BY <1>6 DEF SkipReadOnly
  <2>2. Counted' = Counted
    BY <1>1, <2>1 DEF Counted
  <2> QED
    BY <1>4, <1>5, <2>1, <2>2
<1>7. ASSUME NEW ok \in BOOLEAN, PerformAction(ok)
      PROVE  /\ restarted' <= Counted'
             /\ direction' = "forward" /\ HasRestart(results') =>
                    \E i \in 1..(cursor' - 1) :
                        /\ i <= Len(normalized_actions')
                        /\ normalized_actions'[i].type = "restart_pods"
  <2>1. restarted' <= Counted'
    BY <1>1, <1>3, <1>7, PerformCounted
  <2>2. ASSUME direction' = "forward", HasRestart(results')
        PROVE  \E i \in 1..(cursor' - 1) :
                   /\ i <= Len(normalized_actions)
                   /\ normalized_actions[i].type = "restart_pods"
    <3>1. /\ direction = "forward" /\ cursor <= Len(normalized_actions)
          /\ cursor' = cursor + 1
          /\ results' = Append(results, [action |-> Looking.type,
                                         success |-> ok])
      BY <1>7, <2>2 DEF PerformAction, Going
    <3> DEFINE entry == [action |-> Looking.type, success |-> ok]
    <3>2. HasRestart(results) \/ Looking.type = "restart_pods"
      <4>1. PICK k \in DOMAIN results' : results'[k].action = "restart_pods"
        BY <2>2 DEF HasRestart
      <4>2. entry.action = Looking.type
        OBVIOUS
      <4> HIDE DEF entry
      <4>3. results' = Append(results, entry)
        BY <3>1 DEF entry
      <4>4. /\ DOMAIN results = 1..Len(results) /\ Len(results) \in Nat
            /\ DOMAIN results' = 1..(Len(results) + 1)
            /\ results'[Len(results) + 1] = entry
            /\ \A j \in 1..Len(results) : results'[j] = results[j]
        BY <1>4, <4>3
      <4> QED
        BY <4>1, <4>2, <4>4 DEF HasRestart
    <3>3. CASE HasRestart(results)
      BY <1>4, <1>5, <3>1, <3>3
    <3>4. CASE Looking.type = "restart_pods"
      <4>1. cursor \in 1..(cursor' - 1)
        BY <1>4, <3>1 DEF TypeInv, LocalsOK
      <4> QED
        BY <3>1, <3>4, <4>1 DEF Looking
    <3> QED
      BY <3>2, <3>3, <3>4
  <2> QED
    BY <1>1, <2>1, <2>2
<1>8. ASSUME NEW ok \in BOOLEAN, Compensate(ok)
      PROVE  restarted' <= Counted' /\ direction' = "back"
  BY <1>1, <1>5, <1>8 DEF Compensate, Counted
<1> QED
  BY <1>6, <1>7, <1>8 DEF ExecuteAction, ExecuteStep

LEMMA BudgetStep ==
    ASSUME TypeInv, TypeInv', Budget, [Next]_vars
    PROVE  Budget'
<1> USE DEF intake, planning, verdict, histories, ghosts, locals
<1>1. CASE ExecuteAction
  BY <1>1, ExecuteBudget
<1>2. CASE ReturnResults
  <2>1. /\ execution_history' = execution_history \o results
        /\ results' = <<>>
        /\ UNCHANGED <<proposed_plan, normalized_actions, restarted>>
    BY <1>2 DEF ReturnResults
  <2>2. execution_history' \in Seq(HistoryEntry)
    BY DEF TypeInv, TypeOK
  <2>3. Counted' = Counted
    <3>1. execution_history' \o <<>> = execution_history'
      BY <2>2, ConcatEmptySeq
    <3> QED
      BY <2>1, <3>1 DEF Counted
  <2>4. ~HasRestart(results')
    BY <2>1 DEF HasRestart
  <2> QED
    BY <2>1, <2>3, <2>4 DEF Budget
<1>3. CASE ~ExecuteAction /\ ~ReturnResults
  <2>1. /\ UNCHANGED <<execution_history, results, restarted, direction,
                       cursor>>
        /\ \/ UNCHANGED <<proposed_plan, normalized_actions>>
           \/ PlanRemediation
    BY <1>3
       DEF Next, NodeStep, vars, executeVars, SubmitIncident, IngestIncident,
           IdentifyService, RetrieveKnowledge, ResolveContract,
           ContractMissing, ContractLoaded, PlanRemediation, RaiseOnContract,
           PlanProposed, PlanFailed, EvaluateGuardrails, RejectWithoutPlan,
           RaiseInValidator, EvaluatePlan, EvaluateSemantics,
           RaiseInPolicyAgent, SemanticsPassed, SemanticsFailed,
           IncrementRetry, EvaluateRisk, RequestHumanApproval, ExecuteActions,
           RaiseWithoutDriver, ValidatePostconditions, NothingToValidate,
           RaiseInMetrics, CheckPostconditions, HandleEscalation, Finalize
  <2>2. Counted' = Counted
    BY <2>1 DEF Counted
  <2>3. CASE UNCHANGED <<proposed_plan, normalized_actions>>
    BY <2>1, <2>2, <2>3 DEF Budget, HasRestart
  <2>4. CASE PlanRemediation
    <3>1. normalized_actions' = NormalizePlan(proposed_plan')
      <4>1. NormalizePlan(<<>>) = <<>>
        BY NormalizeTyped, EmptySeq DEF NormalizePlan
      <4> QED
        BY <2>4, <4>1
           DEF PlanRemediation, RaiseOnContract, PlanProposed, PlanFailed,
               Budget
    <3>2. ~HasRestart(results')
      <4>1. results = <<>>
        BY <2>4 DEF PlanRemediation, RaiseOnContract, PlanProposed,
                    PlanFailed, TypeInv, LocalsOK, ExecuteLocalsFresh
      <4> QED
        BY <2>1, <4>1 DEF HasRestart
    <3> QED
      BY <2>1, <2>2, <3>1, <3>2 DEF Budget
  <2> QED
    BY <2>1, <2>3, <2>4
<1> QED
  BY <1>1, <1>2, <1>3

\* The restart limit of the contract in hand covers the history and the
\* restart that the loop looks at.
LEMMA LimitCovers ==
    ASSUME TypeInv, ContractInHand, Governed, pc = "execute_actions",
           cursor \in 1..Len(normalized_actions),
           Looking.type = "restart_pods"
    PROVE  PriorRestarts(execution_history) + Looking.count
               <= retrieved_contract.scope.max_pod_restarts
<1>1. retrieved_contract \in Contract
  BY EffectiveIsContract DEF ContractInHand, ContractStages
<1>2. retrieved_contract.scope.max_pod_restarts \in Int
  BY <1>1 DEF Contract, Scope
<1>3. /\ normalized_actions \in Seq(NormalizedAction)
      /\ Looking \in NormalizedAction
  BY DEF TypeInv, TypeOK, ExecuteTypeOK, Looking
<1>4. Looking.count \in Int
  BY <1>3 DEF NormalizedAction
<1>5. PriorRestarts(execution_history) \in Nat
  BY PriorRestartsTyped DEF TypeInv, TypeOK
<1>6. ActionViolations(Looking, retrieved_contract, execution_history,
                       incident.metrics) = {}
  <2>1. cursor \in DOMAIN normalized_actions
    BY <1>3
  <2> QED
    BY <2>1 DEF Governed, Passes, PlanViolations, Looking
<1>7. LimitViolations(Looking, retrieved_contract, execution_history) = {}
  BY <1>6 DEF ActionViolations, ReadOnly
<1>8. ~(PriorRestarts(execution_history) + Looking.count
            > retrieved_contract.scope.max_pod_restarts)
  <2> HIDE DEF Looking, PriorRestarts
  <2> QED
    BY <1>7 DEF LimitViolations
<1> DEFINE n == PriorRestarts(execution_history)
           k == Looking.count
           max == retrieved_contract.scope.max_pod_restarts
<1>9. n \in Nat /\ k \in Int /\ max \in Int /\ ~(n + k > max)
  BY <1>2, <1>4, <1>5, <1>8
<1> HIDE DEF n, k, max
<1>10. n + k <= max
  BY <1>9
<1> QED
  BY <1>10 DEF n, k, max

\* Where the planner restarts one pod per plan, no execution restarts more
\* pods than the limit of its contract, over all attempts and submissions.
THEOREM WorkflowKeepsBudget == Spec => RestartBudget
<1>1. Init => Budget /\ Governed
  <2> SUFFICES ASSUME Init
               PROVE  Budget
    BY DEF Init, Governed
  <2>1. NormalizePlan(<<>>) = <<>>
    BY NormalizeTyped, EmptySeq DEF NormalizePlan
  <2>2. /\ proposed_plan = <<>> /\ normalized_actions = <<>>
        /\ results = <<>> /\ execution_history = <<>> /\ restarted = 0
    BY DEF Init, ExecuteLocalsFresh
  <2>3. ~HasRestart(results)
    BY <2>2 DEF HasRestart
  <2>4. restarted <= Counted
    <3>1. <<>> \in Seq(HistoryEntry) /\ execution_history \o results = <<>>
      BY <2>2, EmptySeq, ConcatEmptySeq
    <3> DEFINE n == PriorRestarts(<<>>)
    <3>2. n \in Nat
      BY <3>1, PriorRestartsTyped
    <3>3. Counted = n
      BY <3>1 DEF Counted
    <3> HIDE DEF n
    <3> QED
      BY <2>2, <3>2, <3>3
  <2> QED
    BY <2>1, <2>2, <2>3, <2>4 DEF Budget
<1>2. TypeInv /\ TypeInv' /\ Budget /\ Governed /\ [Next]_vars
          => (Budget /\ Governed)'
  BY BudgetStep, GovernedStep
<1>3. TypeInv /\ ContractInHand /\ Budget /\ Governed /\ [Next]_vars =>
          [OnePodPerPlan /\ restarted' > restarted =>
               restarted' <= retrieved_contract.scope.max_pod_restarts]_vars
  <2> SUFFICES ASSUME TypeInv, ContractInHand, Budget, Governed, Next,
                      OnePodPerPlan, restarted' > restarted
               PROVE  restarted' <= retrieved_contract.scope.max_pod_restarts
    OBVIOUS
  <2>1. restarted \in Int
    BY DEF TypeInv, TypeOK, ExecuteTypeOK
  <2>2. restarted' # restarted
    BY <2>1
  <2>3. ExecuteAction
    BY <2>2
       DEF Next, NodeStep, ghosts, SubmitIncident, IngestIncident,
           IdentifyService, RetrieveKnowledge, ResolveContract,
           ContractMissing, ContractLoaded, PlanRemediation, RaiseOnContract,
           PlanProposed, PlanFailed, EvaluateGuardrails, RejectWithoutPlan,
           RaiseInValidator, EvaluatePlan, EvaluateSemantics,
           RaiseInPolicyAgent, SemanticsPassed, SemanticsFailed,
           IncrementRetry, EvaluateRisk, RequestHumanApproval, ExecuteActions,
           RaiseWithoutDriver, ReturnResults, ValidatePostconditions,
           NothingToValidate, RaiseInMetrics, CheckPostconditions,
           HandleEscalation, Finalize
  <2>4. pc = "execute_actions" /\ PerformAction(TRUE)
    BY <2>2, <2>3 DEF ExecuteAction, ExecuteStep, SkipReadOnly,
                      PerformAction, Compensate
  <2>5. /\ cursor \in 1..Len(normalized_actions) /\ direction = "forward"
        /\ Len(normalized_actions) \in Nat
    BY <2>4 DEF PerformAction, Going, TypeInv, TypeOK, ExecuteTypeOK,
                LocalsOK
  <2>6. restarted' = restarted + RestartedBy(Looking)
    BY <2>4 DEF PerformAction
  <2>7. Looking.type = "restart_pods" /\ Looking.count = 1
    <3>1. Looking.type = "restart_pods" /\ Looking.count > 0
      BY <2>1, <2>2, <2>6 DEF RestartedBy
    <3> QED
      BY <2>5, <3>1, OneRestart DEF Looking
  <2>8. ~HasRestart(results)
    <3>1. SUFFICES ASSUME HasRestart(results)
                   PROVE  FALSE
      OBVIOUS
    <3>2. PICK i \in 1..(cursor - 1) :
              /\ i <= Len(normalized_actions)
              /\ normalized_actions[i].type = "restart_pods"
      BY <2>5, <3>1 DEF Budget
    <3>3. i \in 1..Len(normalized_actions) /\ i # cursor
      BY <2>5, <3>2
    <3> QED
      BY <2>5, <2>7, <3>2, <3>3, OneRestart DEF Looking
  <2>9. Counted = PriorRestarts(execution_history)
    BY <2>8, PriorRestartsSkipped
       DEF HasRestart, Counted, TypeInv, TypeOK, ExecuteTypeOK
  <2>10. PriorRestarts(execution_history) + 1
             <= retrieved_contract.scope.max_pod_restarts
    BY <2>4, <2>5, <2>7, LimitCovers
  <2>11. restarted' = restarted + 1
    BY <2>6, <2>7 DEF RestartedBy
  <2>12. retrieved_contract.scope.max_pod_restarts \in Int
    <3>1. retrieved_contract \in Contract
      BY <2>4, EffectiveIsContract DEF ContractInHand, ContractStages
    <3> QED
      BY <3>1 DEF Contract, Scope
  <2>13. PriorRestarts(execution_history) \in Nat
    BY PriorRestartsTyped DEF TypeInv, TypeOK
  <2>14. restarted <= PriorRestarts(execution_history)
    BY <2>9 DEF Budget
  <2> DEFINE n == PriorRestarts(execution_history)
             max == retrieved_contract.scope.max_pod_restarts
  <2>15. n \in Nat /\ max \in Int /\ n + 1 <= max /\ restarted <= n
    BY <2>10, <2>12, <2>13, <2>14
  <2> HIDE DEF n, max
  <2>16. restarted' <= max
    BY <2>1, <2>11, <2>15
  <2> QED
    BY <2>16 DEF max
<1> QED
  BY <1>1, <1>2, <1>3, WorkflowInvariant, PTL DEF Spec, RestartBudget

-----------------------------------------------------------------------------
(* A rejection is final.                                                   *)

\* The newest event of the trail is a human's rejection.
Rejection == Event("human_decision", "REJECTED")

Rejected == audit_trail # <<>> /\ Recent(0) = Rejection

\* A rejection is the newest event only while the graph is on its way from
\* the approver's answer to the end.
Vetoed == Rejected => pc = "finalize" /\ human_decision = "REJECTED"

\* Every step leaves the trail as it is or records one event, and only the
\* approver's step records a human's decision.
LEMMA OnlyHumanRejects ==
    ASSUME TypeInv, [Next]_vars,
           \A answer : ~RequestHumanApproval(answer), Rejected'
    PROVE  audit_trail' = audit_trail
<1>1. audit_trail \in Seq(AuditEvent)
  BY DEF TypeInv, TypeOK
<1>2. SUFFICES ASSUME audit_trail' # audit_trail
               PROVE  FALSE
  OBVIOUS
<1>3. PICK e \in {"incident_ingested", "knowledge_retrieved",
                  "contract_resolved", "contract_resolution_failed",
                  "plan_proposed", "plan_failed", "guardrail_evaluated",
                  "semantic_validation_passed", "semantic_validation_failed",
                  "risk_evaluated", "actions_executed",
                  "postconditions_validated", "escalated", "finalized"} :
          \E o : Audit(e, o)
  <2> USE DEF histories
  <2>1. CASE IngestIncident \/ IdentifyService \/ RetrieveKnowledge
             \/ ResolveContract \/ SubmitIncident
    BY <1>2, <2>1 DEF IngestIncident, IdentifyService, RetrieveKnowledge,
       ResolveContract, ContractMissing, ContractLoaded, SubmitIncident
  <2>2. CASE PlanRemediation
    BY <1>2, <2>2 DEF PlanRemediation, RaiseOnContract, PlanProposed,
       PlanFailed
  <2>3. CASE EvaluateGuardrails
    BY <1>2, <2>3 DEF EvaluateGuardrails, RejectWithoutPlan,
       RaiseInValidator, EvaluatePlan
  <2>4. CASE EvaluateSemantics \/ IncrementRetry
    BY <1>2, <2>4 DEF EvaluateSemantics, RaiseInPolicyAgent,
       SemanticsPassed, SemanticsFailed, IncrementRetry
  <2>5. CASE EvaluateRisk
    BY <2>5 DEF EvaluateRisk
  <2>6. CASE ExecuteActions
    BY <1>2, <2>6 DEF ExecuteActions, ExecuteAction, RaiseWithoutDriver,
                      ReturnResults
  <2>7. CASE ValidatePostconditions
    BY <1>2, <2>7 DEF ValidatePostconditions, NothingToValidate,
                      RaiseInMetrics, CheckPostconditions
  <2>8. CASE HandleEscalation \/ Finalize
    BY <2>8 DEF HandleEscalation, Finalize
  <2>9. CASE UNCHANGED vars
    BY <1>2, <2>9 DEF vars
  <2> QED
    BY <2>1, <2>2, <2>3, <2>4, <2>5, <2>6, <2>7, <2>8, <2>9
       DEF Next, NodeStep
<1>4. PICK o : Audit(e, o)
  BY <1>3
<1>5. Recent(0)' = Event(e, o)
  <2> DEFINE event == Event(e, o)
             trail == Append(audit_trail, event)
             n == Len(audit_trail)
  <2>1. audit_trail' = IF Len(trail) > 5 THEN Tail(trail) ELSE trail
    BY <1>4 DEF Audit, TrailKept
  <2> HIDE DEF event
  <2>2. /\ trail \in Seq(AuditEvent \cup {event})
        /\ n \in Nat /\ Len(trail) = n + 1 /\ trail[n + 1] = event
    <3>1. audit_trail \in Seq(AuditEvent \cup {event})
      BY <1>1
    <3> QED
      BY <3>1, AppendProperties
  <2> HIDE DEF trail, n
  <2>3. CASE audit_trail' = trail
    BY <2>2, <2>3 DEF Recent, event
  <2>4. CASE audit_trail' = Tail(trail) /\ n + 1 > 5
    <3>1. /\ Len(Tail(trail)) = n
          /\ \A i \in 1..n : Tail(trail)[i] = trail[i + 1]
      BY <2>2, HeadTailProperties
    <3> QED
      BY <2>2, <2>4, <3>1 DEF Recent, event
  <2> QED
    BY <2>1, <2>2, <2>3, <2>4
<1> QED
  BY <1>3, <1>5 DEF Rejected, Rejection, Event

LEMMA VetoedStep ==
    ASSUME TypeInv, Vetoed, [Next]_vars
    PROVE  Vetoed'
<1>1. ASSUME NEW answer, RequestHumanApproval(answer)
      PROVE  Vetoed'
  <2>1. CASE human_decision' = "REJECTED"
    BY <1>1, <2>1 DEF RequestHumanApproval, RouteAfterHuman, Vetoed
  <2>2. CASE human_decision' # "REJECTED"
    <3>1. Audit("human_decision", "APPROVED")
      BY <1>1, <2>2 DEF RequestHumanApproval
    <3>2. Recent(0)' = Event("human_decision", "APPROVED")
      BY <3>1, EventTyped, RecentAppended DEF TypeInv, TypeOK
    <3> QED
      BY <3>2 DEF Vetoed, Rejected, Rejection, Event
  <2> QED
    BY <2>1, <2>2
<1>2. CASE \A answer : ~RequestHumanApproval(answer)
  <2> SUFFICES ASSUME Rejected'
               PROVE  pc' = "finalize" /\ human_decision' = "REJECTED"
    BY DEF Vetoed
  <2>1. audit_trail' = audit_trail
    BY <1>2, OnlyHumanRejects
  <2>2. pc = "finalize" /\ human_decision = "REJECTED"
    BY <2>1 DEF Vetoed, Rejected, Recent
  <2>3. ~Finalize
    <3>1. SUFFICES ASSUME Finalize
                   PROVE  FALSE
      OBVIOUS
    <3>2. Audit("finalized", "DENIED")
      BY <2>2, <3>1 DEF Finalize, FinalStatus
    <3>3. Recent(0)' = Event("finalized", "DENIED")
      BY <3>2, EventTyped, RecentAppended DEF TypeInv, TypeOK, Statuses
    <3> QED
      BY <3>3 DEF Rejected, Rejection, Event
  <2>4. UNCHANGED vars
    BY <1>2, <2>2, <2>3
       DEF Next, NodeStep, SubmitIncident, Idle, IngestIncident,
           IdentifyService, RetrieveKnowledge, ResolveContract,
           ContractMissing, ContractLoaded, PlanRemediation, RaiseOnContract,
           PlanProposed, PlanFailed, EvaluateGuardrails, RejectWithoutPlan,
           RaiseInValidator, EvaluatePlan, EvaluateSemantics,
           RaiseInPolicyAgent, SemanticsPassed, SemanticsFailed,
           IncrementRetry, EvaluateRisk, ExecuteActions, ExecuteAction,
           RaiseWithoutDriver, ReturnResults, ValidatePostconditions,
           NothingToValidate, RaiseInMetrics, CheckPostconditions,
           HandleEscalation
  <2> QED
    BY <2>2, <2>4 DEF vars
<1> QED
  BY <1>1, <1>2

\* After a rejection the infrastructure receives nothing, and the run ends
\* DENIED, for every contract and plan, and whatever attempts came before.
THEOREM WorkflowHeedsVeto == Spec => HumanVeto
<1> DEFINE Heeded ==
        audit_trail # <<>> /\ Recent(0) = Event("human_decision", "REJECTED")
            => /\ performed' = performed
               /\ pc' = "END" => final_status' = "DENIED"
<1>1. Init => Vetoed
  BY DEF Init, Vetoed, Rejected
<1>2. TypeInv /\ Vetoed /\ [Next]_vars => Vetoed'
  BY VetoedStep
<1>3. Vetoed /\ [Next]_vars => [Heeded]_vars
  <2> SUFFICES ASSUME Vetoed, Next, Rejected
               PROVE  /\ performed' = performed
                      /\ pc' = "END" => final_status' = "DENIED"
    BY DEF Rejected, Rejection
  <2>1. pc = "finalize" /\ human_decision = "REJECTED"
    BY DEF Vetoed
  <2>2. Finalize
    BY <2>1
       DEF Next, NodeStep, SubmitIncident, Idle, IngestIncident,
           IdentifyService, RetrieveKnowledge, ResolveContract,
           ContractMissing, ContractLoaded, PlanRemediation, RaiseOnContract,
           PlanProposed, PlanFailed, EvaluateGuardrails, RejectWithoutPlan,
           RaiseInValidator, EvaluatePlan, EvaluateSemantics,
           RaiseInPolicyAgent, SemanticsPassed, SemanticsFailed,
           IncrementRetry, EvaluateRisk, ExecuteActions, ExecuteAction,
           RaiseWithoutDriver, ReturnResults, ValidatePostconditions,
           NothingToValidate, RaiseInMetrics, CheckPostconditions,
           HandleEscalation, RequestHumanApproval
  <2> QED
    BY <2>1, <2>2 DEF Finalize, FinalStatus, ghosts
<1> QED
  BY <1>1, <1>2, <1>3, WorkflowInvariant, PTL DEF Spec, HumanVeto

-----------------------------------------------------------------------------
(* The workflow implements Governance.                                     *)

\* What every step of the refinement may use: the strengthened invariants.
Invariants ==
    TypeInv /\ ContractInHand /\ Governed /\ Attempts /\ Gated

LEMMA InvariantsHold == Spec => []Invariants
<1>1. Init => Governed /\ Attempts /\ Gated
  BY DEF Init, Governed, Attempts, AttemptsBounded, Intake, Planning,
         Executing, Gated, HumanGate
<1>2. TypeInv /\ ContractInHand /\ Governed /\ Attempts /\ Gated
          /\ [Next]_vars => (Governed /\ Attempts /\ Gated)'
  BY GovernedStep, AttemptsStep, GatedStep
<1> QED
  BY <1>1, <1>2, WorkflowInvariant, PTL DEF Spec, Invariants

\* Where no plan is at hand there is nothing sensitive and no mandate.
LEMMA NoPlanAtHand ==
    ASSUME pc \notin {"request_human_approval", "execute_actions",
                      "validate_postconditions"}
    PROVE  Sensitive = FALSE /\ Mandate = "none"
BY DEF Sensitive, Mandate

\* The contract in hand was made from a file, and no file allows more
\* attempts than AttemptLimit.
LEMMA RetriesWithinLimit ==
    ASSUME NEW c \in EffectiveContracts
    PROVE  c.max_plan_retries <= AttemptLimit
<1>1. PICK b \in ContractFiles, s \in Severities : c = Effective(b, s)
  BY DEF EffectiveContracts
<1>2. b \in Contract
  BY WorkflowAssumption
<1>3. c.max_plan_retries = b.max_plan_retries
  BY <1>1, <1>2 DEF Effective, Contract
<1> QED
  BY <1>3, AttemptLimitBounds

LEMMA InitImplements == Init => Abstract!Init
BY DEF Init, Abstract!Init, Stage, Sensitive, Mandate, Idle

\* A submission, from a closed incident or from one that waits for a human.
LEMMA SubmitImplements ==
    ASSUME SubmitIncident
    PROVE  Abstract!Submit
<1>1. Stage \in {"closed", "deliberating"} /\ Stage' = "deliberating"
  BY DEF SubmitIncident, Stage, Idle
<1>2. Mandate = "none" /\ Mandate' = "none"
  BY DEF SubmitIncident, Mandate, Idle
<1>3. batches' = 0 /\ performed' = performed /\ Sensitive' \in BOOLEAN
  BY DEF SubmitIncident, ghosts, Sensitive
<1> QED
  BY <1>1, <1>2, <1>3 DEF Abstract!Submit

\* Every step from one deliberating node to another.
LEMMA DeliberateImplements ==
    ASSUME pc \in Nodes \ {"execute_actions", "validate_postconditions"},
           pc' \in Nodes \ {"execute_actions", "validate_postconditions"},
           UNCHANGED <<batches, performed>>
    PROVE  Abstract!Deliberate
<1>1. Stage = "deliberating" /\ Stage' = "deliberating"
  BY DEF Stage, Nodes, Idle
<1>2. Mandate = "none" /\ Mandate' = "none"
  BY DEF Mandate
<1>3. Sensitive' \in BOOLEAN
  BY DEF Sensitive
<1> QED
  BY <1>1, <1>2, <1>3 DEF Abstract!Deliberate

\* A job that ends or fails, from a node where no plan is at hand.
LEMMA CloseImplements ==
    ASSUME pc \in Nodes \ {"request_human_approval", "execute_actions",
                           "validate_postconditions"},
           pc' \in Idle,
           UNCHANGED <<batches, performed>>
    PROVE  Abstract!Close
<1>1. Stage = "deliberating" /\ Stage' = "closed"
  BY DEF Stage, Nodes, Idle
<1>2. /\ Mandate = "none" /\ Mandate' = "none"
      /\ Sensitive = FALSE /\ Sensitive' = FALSE
  BY NoPlanAtHand DEF Mandate, Sensitive, Idle
<1> QED
  BY <1>1, <1>2 DEF Abstract!Close

\* The nodes that deliberate, or give the incident up.
LEMMA DeliberationImplements ==
    ASSUME \/ IngestIncident \/ IdentifyService \/ RetrieveKnowledge
           \/ ResolveContract \/ PlanRemediation \/ EvaluateGuardrails
           \/ EvaluateSemantics \/ IncrementRetry \/ HandleEscalation
           \/ Finalize
    PROVE  Abstract!Deliberate \/ Abstract!Close
<1>1. UNCHANGED <<batches, performed>>
  BY DEF IngestIncident, IdentifyService, RetrieveKnowledge,
         ResolveContract, ContractMissing, ContractLoaded, PlanRemediation,
         RaiseOnContract, PlanProposed, PlanFailed, EvaluateGuardrails,
         RejectWithoutPlan, RaiseInValidator, EvaluatePlan,
         EvaluateSemantics, RaiseInPolicyAgent, SemanticsPassed,
         SemanticsFailed, IncrementRetry, HandleEscalation, Finalize, ghosts
<1>2. /\ pc \in Nodes \ {"request_human_approval", "execute_actions",
                         "validate_postconditions"}
      /\ pc' \in (Nodes \ {"execute_actions", "validate_postconditions"})
                     \cup Idle
  BY DEF IngestIncident, IdentifyService, RetrieveKnowledge,
         ResolveContract, ContractMissing, ContractLoaded,
         RouteAfterContract, PlanRemediation, RaiseOnContract, PlanProposed,
         PlanFailed, EvaluateGuardrails, RejectWithoutPlan,
         RaiseInValidator, EvaluatePlan, RouteAfterGuardrail,
         EvaluateSemantics, RaiseInPolicyAgent, SemanticsPassed,
         SemanticsFailed, IncrementRetry, RouteAfterRejection,
         HandleEscalation, Finalize, Nodes, Idle
<1>3. CASE pc' \in Idle
  BY <1>1, <1>2, <1>3, CloseImplements
<1>4. CASE pc' \notin Idle
  BY <1>1, <1>2, <1>4, DeliberateImplements
<1> QED
  BY <1>3, <1>4

\* Under Attempts an attempt is left wherever a plan is considered.
LEMMA AttemptLeft ==
    ASSUME Invariants, pc \in {"evaluate_risk", "request_human_approval"}
    PROVE  batches \in Nat /\ batches < AttemptLimit
<1>1. retrieved_contract \in EffectiveContracts
  BY DEF Invariants, ContractInHand, ContractStages
<1>2. /\ batches <= retry_count
      /\ retry_count < retrieved_contract.max_plan_retries
  BY DEF Invariants, Attempts, Planning
<1>3. /\ batches \in Nat /\ retry_count \in Nat
      /\ retrieved_contract.max_plan_retries \in Nat
      /\ retrieved_contract.max_plan_retries <= AttemptLimit
      /\ AttemptLimit \in Nat
  BY <1>1, EffectiveTyped, RetriesWithinLimit, AttemptLimitBounds
     DEF Invariants, TypeInv, TypeOK
<1> QED
  BY <1>2, <1>3

\* The risk node asks a human, or gives an automatic mandate - which it may,
\* because then the gate has found nothing that needs a human.
LEMMA RiskImplements ==
    ASSUME Invariants, Gated', EvaluateRisk
    PROVE  Abstract!Deliberate \/ Abstract!Authorise
<1>1. pc = "evaluate_risk" /\ performed' = performed
  BY DEF EvaluateRisk, ghosts
<1>2. CASE pc' = "execute_actions"
  <2>1. Recent(0)' # Event("human_decision", "APPROVED")
    <3>1. audit_trail \in Seq(AuditEvent) /\ risk_level' \in RiskLevels
      <4> HIDE DEF CurrentScore
      <4> QED
        BY DEF EvaluateRisk, RiskLevel, RiskLevels, Invariants, TypeInv,
               TypeOK
    <3>2. Recent(0)' = Event("risk_evaluated", risk_level')
      BY <3>1, EventTyped, RecentAppended DEF EvaluateRisk
    <3> QED
      BY <3>2 DEF Event
  <2>2. Sensitive = FALSE /\ Sensitive' = FALSE
    BY <1>1, <1>2, <2>1 DEF Sensitive, Gated, HumanGate
  <2>3. Mandate' = "automatic"
    BY <1>2, <2>1 DEF Mandate
  <2>4. Stage = "deliberating" /\ Stage' = "acting"
    BY <1>1, <1>2 DEF Stage, Idle
  <2>5. batches' = batches + 1
    BY <1>2 DEF EvaluateRisk, CountBatch
  <2> QED
    BY <1>1, <2>2, <2>3, <2>4, <2>5, AttemptLeft DEF Abstract!Authorise
<1>3. CASE pc' # "execute_actions"
  <2>1. pc' = "request_human_approval" /\ batches' = batches
    <3>1. pc' = "request_human_approval"
      BY <1>3 DEF EvaluateRisk, RouteAfterRisk
    <3> QED
      BY <3>1 DEF EvaluateRisk, CountBatch, Invariants, TypeInv, TypeOK
  <2> QED
    BY <1>1, <2>1, DeliberateImplements DEF Nodes
<1> QED
  BY <1>2, <1>3

\* An approver gives a human mandate, or none.
LEMMA ApprovalImplements ==
    ASSUME Invariants, NEW answer, RequestHumanApproval(answer)
    PROVE  Abstract!Deliberate \/ Abstract!Authorise
<1>1. /\ pc = "request_human_approval" /\ performed' = performed
      /\ UNCHANGED <<incident, retrieved_contract, proposed_plan,
                     normalized_actions>>
  BY DEF RequestHumanApproval, ghosts, intake, planning
<1>2. CASE human_decision' = "APPROVED"
  <2>1. pc' = "execute_actions" /\ batches' = batches + 1
    BY <1>2 DEF RequestHumanApproval, RouteAfterHuman, CountBatch
  <2>2. Recent(0)' = Event("human_decision", "APPROVED")
    <3>1. audit_trail \in Seq(AuditEvent)
      BY DEF Invariants, TypeInv, TypeOK
    <3>2. Audit("human_decision", "APPROVED")
      BY <1>2 DEF RequestHumanApproval
    <3> QED
      BY <3>1, <3>2, EventTyped, RecentAppended
  <2>3. Mandate' = "human"
    BY <2>1, <2>2 DEF Mandate
  <2>4. Sensitive' = Sensitive
    BY <1>1, <2>1 DEF Sensitive, NeedsHuman, CurrentScore
  <2>5. Stage = "deliberating" /\ Stage' = "acting"
    BY <1>1, <2>1 DEF Stage, Idle
  <2> QED
    BY <1>1, <2>1, <2>3, <2>4, <2>5, AttemptLeft DEF Abstract!Authorise
<1>3. CASE human_decision' # "APPROVED"
  <2>1. pc' = "finalize" /\ batches' = batches
    <3>1. pc' = "finalize"
      BY <1>3 DEF RequestHumanApproval, RouteAfterHuman
    <3> QED
      BY <3>1 DEF RequestHumanApproval, CountBatch, Invariants, TypeInv,
                  TypeOK
  <2> QED
    BY <1>1, <2>1, DeliberateImplements DEF Nodes
<1> QED
  BY <1>2, <1>3

\* A step of the saga is a call of the infrastructure, or is not seen.
LEMMA ExecuteImplements ==
    ASSUME Invariants, ExecuteAction
    PROVE  Abstract!Act \/ UNCHANGED Abstract!vars
<1>1. /\ pc = "execute_actions" /\ pc' = pc
      /\ UNCHANGED <<incident, retrieved_contract, proposed_plan, batches,
                     audit_trail>>
  BY DEF ExecuteAction, intake
<1>2. /\ normalized_actions' = normalized_actions
      /\ performed' = performed \/ performed' = performed + 1
  BY DEF ExecuteAction, ExecuteStep, SkipReadOnly, PerformAction, Compensate
<1>3. Stage = "acting" /\ Stage' = Stage
  BY <1>1 DEF Stage, Idle
<1>4. Sensitive' = Sensitive
  BY <1>1, <1>2 DEF Sensitive, NeedsHuman, CurrentScore
<1>5. Mandate' = Mandate
  BY <1>1 DEF Mandate, Recent
<1> QED
  BY <1>1, <1>2, <1>3, <1>4, <1>5 DEF Abstract!Act, Abstract!vars

LEMMA ReturnImplements ==
    ASSUME ReturnResults
    PROVE  Abstract!Deliver
<1>1. /\ pc = "execute_actions" /\ pc' = "validate_postconditions"
      /\ UNCHANGED <<incident, retrieved_contract, proposed_plan,
                     normalized_actions, batches, performed>>
  BY DEF ReturnResults, intake, planning, ghosts
<1>2. Sensitive' = Sensitive
  BY <1>1 DEF Sensitive, NeedsHuman, CurrentScore
<1> QED
  BY <1>1, <1>2 DEF Abstract!Deliver, Stage, Idle, Mandate

LEMMA ValidateImplements ==
    ASSUME NothingToValidate \/ CheckPostconditions
    PROVE  Abstract!Reconsider
<1>1. /\ pc = "validate_postconditions"
      /\ pc' \in {"finalize", "increment_retry", "handle_escalation"}
      /\ UNCHANGED <<batches, performed>>
  BY DEF NothingToValidate, CheckPostconditions, RouteAfterPostcondition,
         ghosts
<1>2. Mandate = "none" /\ Mandate' = "none" /\ Sensitive' \in BOOLEAN
  BY <1>1 DEF Mandate, Sensitive
<1> QED
  BY <1>1, <1>2 DEF Abstract!Reconsider, Stage, Idle

\* A driver that cannot be made, or metrics that cannot be read.
LEMMA RaiseImplements ==
    ASSUME RaiseWithoutDriver \/ RaiseInMetrics
    PROVE  Abstract!Abandon
<1>1. /\ pc \in {"execute_actions", "validate_postconditions"}
      /\ pc' = "raised" /\ UNCHANGED <<batches, performed>>
  BY DEF RaiseWithoutDriver, RaiseInMetrics, ghosts
<1> QED
  BY <1>1 DEF Abstract!Abandon, Stage, Idle, Mandate, Sensitive

LEMMA StutterImplements ==
    ASSUME UNCHANGED vars
    PROVE  UNCHANGED Abstract!vars
<1>1. UNCHANGED <<pc, incident, retrieved_contract, proposed_plan,
                  normalized_actions, batches, performed, audit_trail>>
  BY DEF vars, executeVars
<1> QED
  BY <1>1 DEF Abstract!vars, Stage, Sensitive, Mandate, NeedsHuman,
              CurrentScore, Recent

\* Every behaviour of the workflow is one of Governance, for every set of
\* contracts, incidents and plans and any number of submissions: the
\* infrastructure receives calls only while a mandate is given, a mandate
\* for a sensitive plan is a human's, and a submission gets at most
\* AttemptLimit of them.
THEOREM WorkflowImplementsGovernance == Spec => ImplementsGovernance
<1>1. Init => Abstract!Init
  BY InitImplements
<1>2. Invariants /\ Gated' /\ [Next]_vars => [Abstract!Next]_(Abstract!vars)
  <2> SUFFICES ASSUME Invariants, Gated', [Next]_vars
               PROVE  Abstract!Next \/ UNCHANGED Abstract!vars
    OBVIOUS
  <2> USE DEF Abstract!Next
  <2>1. CASE SubmitIncident
    BY <2>1, SubmitImplements
  <2>2. CASE \/ IngestIncident \/ IdentifyService \/ RetrieveKnowledge
             \/ ResolveContract \/ PlanRemediation \/ EvaluateGuardrails
             \/ EvaluateSemantics \/ IncrementRetry \/ HandleEscalation
             \/ Finalize
    BY <2>2, DeliberationImplements
  <2>3. CASE EvaluateRisk
    BY <2>3, RiskImplements
  <2>4. ASSUME NEW answer, RequestHumanApproval(answer)
        PROVE  Abstract!Next
    BY <2>4, ApprovalImplements
  <2>5. CASE ExecuteAction
    BY <2>5, ExecuteImplements
  <2>6. CASE ReturnResults
    BY <2>6, ReturnImplements
  <2>7. CASE NothingToValidate \/ CheckPostconditions
    BY <2>7, ValidateImplements
  <2>8. CASE RaiseWithoutDriver \/ RaiseInMetrics
    BY <2>8, RaiseImplements
  <2>9. CASE UNCHANGED vars
    BY <2>9, StutterImplements
  <2> QED
    BY <2>1, <2>2, <2>3, <2>4, <2>5, <2>6, <2>7, <2>8, <2>9
       DEF Next, NodeStep, ExecuteActions, ValidatePostconditions
<1>3. Invariants => Gated
  BY DEF Invariants
<1> QED
  BY <1>1, <1>2, <1>3, InvariantsHold, PTL
     DEF Spec, ImplementsGovernance, Abstract!Spec
=============================================================================
