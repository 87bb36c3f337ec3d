-------------------------- MODULE GuardrailsProofs --------------------------
(***************************************************************************)
(* The guardrails package, for every plan, contract, history, metrics,     *)
(* budget and policy: the engine's loop computes the verdict of the whole  *)
(* plan, and a forbidden action never passes; a risk assessment that gets  *)
(* worse never loses the human it asked for, and a CRITICAL incident       *)
(* always asks for one.                                                    *)
(***************************************************************************)
EXTENDS GuardrailEngine, Assessment, PolicyProofs

-----------------------------------------------------------------------------
(* The guardrail engine.                                                   *)

Found(i) == ActionViolations(request.actions[i], request.contract,
                             request.history, request.metrics)

\* What the loop has made of the actions before the cursor.
Processed ==
    /\ violations = UNION { Found(i) : i \in 1..(cursor - 1) }
    /\ approval_required <=>
           \E i \in 1..(cursor - 1) :
               NeedsApproval(request.actions[i], request.contract)
    /\ \A i \in 1..(cursor - 1) :
           ~Raises(request.actions[i], request.contract)

PreChecked == ~OverBudget(request) /\ ~NonCompliant(request)

\* The inductive invariant: which phases the pre-checks allow, and the
\* loop's partial result in each of them.
EngineInv ==
    /\ TypeOK
    /\ phase \in {"budget", "compliance"} =>
           cursor = 1 /\ violations = {} /\ ~approval_required
    /\ phase = "compliance" => ~OverBudget(request)
    /\ phase \in {"loop", "raised"} => PreChecked
    /\ phase \in {"loop", "raised", "done"} /\ PreChecked => Processed
    /\ phase = "done" /\ PreChecked => cursor = Len(request.actions) + 1
    /\ phase = "done" /\ ~PreChecked =>
           cursor = 1 /\ violations # {} /\ ~approval_required
    /\ phase = "raised" =>
           /\ cursor <= Len(request.actions)
           /\ Raises(Current, request.contract)

\* A request's plan is a sequence.
LEMMA RequestTyped ==
    ASSUME NEW r \in Requests
    PROVE  /\ r.actions \in Seq(NormalizedAction)
           /\ Len(r.actions) \in Nat
           /\ DOMAIN r.actions = 1..Len(r.actions)
BY RequestsAssumption DEF Request

\* An action only fails known checks.
LEMMA ViolationsTyped ==
    ASSUME NEW a, NEW c, NEW h, NEW m
    PROVE  ActionViolations(a, c, h, m) \subseteq Checks
BY DEF ActionViolations, LimitViolations, AvailabilityViolations, Checks

LEMMA EngineInit == Init => EngineInv
<1> SUFFICES ASSUME Init
             PROVE  EngineInv
  OBVIOUS
<1>1. Len(request.actions) \in Nat
  BY RequestTyped DEF Init
<1>2. cursor \in 1..(Len(request.actions) + 1)
  BY <1>1 DEF Init
<1>3. approval_required \in BOOLEAN
  BY DEF Init
<1>4. TypeOK
  BY <1>2, <1>3 DEF Init, TypeOK
<1> QED
  BY <1>4 DEF Init, EngineInv

\* One more action processed: the partial results move one action on.
LEMMA ProcessedMoves ==
    ASSUME EngineInv, EvaluateAction
    PROVE  Processed'
<1>0. /\ Processed
      /\ cursor' = cursor + 1 /\ request' = request
  BY DEF EngineInv, EvaluateAction
<1>1. cursor \in Nat \ {0} /\ cursor' = cursor + 1
  <2>1. Len(request.actions) \in Nat
    BY RequestTyped DEF EngineInv, TypeOK
  <2> QED
    BY <1>0, <2>1 DEF EngineInv, TypeOK
<1>2. 1..(cursor' - 1) = 1..(cursor - 1) \cup {cursor}
  BY <1>1
<1>3. \A i \in 1..(cursor' - 1) : Found(i)' = Found(i)
  BY <1>0 DEF Found
<1>4. violations' = UNION { Found(i)' : i \in 1..(cursor' - 1) }
  <2>1. violations' = violations \cup Found(cursor)
    BY DEF EvaluateAction, Found, Current
  <2>2. { Found(i)' : i \in 1..(cursor' - 1) }
            = { Found(i) : i \in 1..(cursor - 1) \cup {cursor} }
    <3> HIDE DEF Found
    <3> QED
      BY <1>2, <1>3
  <2>3. violations = UNION { Found(i) : i \in 1..(cursor - 1) }
    BY <1>0 DEF Processed
  <2> HIDE DEF Found
  <2> QED
    BY <2>1, <2>2, <2>3
<1>5. approval_required' <=>
          \E i \in 1..(cursor' - 1) :
              NeedsApproval(request.actions[i], request.contract)
  <2>1. approval_required' <=>
            approval_required
            \/ NeedsApproval(request.actions[cursor], request.contract)
    BY DEF EvaluateAction, Current
  <2> QED
    BY <1>0, <1>2, <2>1 DEF Processed
<1>6. \A i \in 1..(cursor' - 1) :
          ~Raises(request.actions[i], request.contract)
  BY <1>0, <1>2 DEF Processed, EvaluateAction, Current
<1> QED
  BY <1>0, <1>4, <1>5, <1>6 DEF Processed

LEMMA EngineStep == EngineInv /\ [Next]_vars => EngineInv'
<1> SUFFICES ASSUME EngineInv, [Next]_vars
             PROVE  EngineInv'
  OBVIOUS
<1>1. /\ TypeOK
      /\ Len(request.actions) \in Nat
      /\ cursor \in 1..(Len(request.actions) + 1)
  BY RequestTyped DEF EngineInv, TypeOK
<1>2. CASE CheckBudget
  BY <1>1, <1>2 DEF EngineInv, CheckBudget, TypeOK, PreChecked
<1>3. CASE CheckCompliance
  <2>1. CASE NonCompliant(request)
    BY <1>1, <1>3, <2>1 DEF EngineInv, CheckCompliance, TypeOK, PreChecked
  <2>2. CASE ~NonCompliant(request)
    <3>1. Processed'
      BY <1>3, <2>2 DEF EngineInv, CheckCompliance, Processed
    <3> QED
      BY <1>1, <1>3, <2>2, <3>1
         DEF EngineInv, CheckCompliance, TypeOK, PreChecked
  <2> QED
    BY <2>1, <2>2
<1>4. CASE RaiseOnParameter
  <2>1. Processed'
    BY <1>4 DEF EngineInv, RaiseOnParameter, Processed, Found
  <2> QED
    BY <1>1, <1>4, <2>1
       DEF EngineInv, RaiseOnParameter, TypeOK, PreChecked, Current
<1>5. CASE EvaluateAction
  <2>1. Processed'
    BY <1>5, ProcessedMoves
  <2>2. violations' \subseteq Checks \cup {"budget", "compliance"}
    BY <1>1, <1>5, ViolationsTyped DEF EvaluateAction, TypeOK
  <2>3. approval_required' \in BOOLEAN
    BY <1>5 DEF EvaluateAction
  <2> QED
    BY <1>1, <1>5, <2>1, <2>2, <2>3
       DEF EngineInv, EvaluateAction, TypeOK, PreChecked
<1>6. CASE Return
  <2>1. Processed'
    BY <1>6 DEF EngineInv, Return, Processed, Found
  <2> QED
    BY <1>1, <1>6, <2>1 DEF EngineInv, Return, TypeOK, PreChecked
<1>7. CASE UNCHANGED vars
  <2>1. Processed' <=> Processed
    BY <1>7 DEF vars, Processed, Found
  <2> QED
    BY <1>7, <2>1 DEF EngineInv, vars, TypeOK, PreChecked, Current
<1> QED
  BY <1>2, <1>3, <1>4, <1>5, <1>6, <1>7 DEF Next

THEOREM EngineInvariant == Spec => []EngineInv
<1> QED
  BY EngineInit, EngineStep, PTL DEF Spec

\* Type correctness of the engine.
THEOREM EngineTyped == Spec => []TypeOK
<1>1. EngineInv => TypeOK
  BY DEF EngineInv
<1> QED
  BY <1>1, EngineInvariant, PTL

\* The loop computes the verdict of the whole plan.
THEOREM EngineComputesVerdict == Spec => []LoopComputesVerdict
<1>1. EngineInv => LoopComputesVerdict
  <2> SUFFICES ASSUME EngineInv
               PROVE  LoopComputesVerdict
    OBVIOUS
  <2>1. /\ DOMAIN request.actions = 1..Len(request.actions)
        /\ Len(request.actions) \in Nat
        /\ cursor \in 1..(Len(request.actions) + 1)
    BY RequestTyped DEF EngineInv, TypeOK
  <2>2. ASSUME phase = "done", PreChecked
        PROVE  /\ violations = PlanViolations(request.actions,
                      request.contract, request.history, request.metrics)
               /\ approval_required = PlanNeedsApproval(request.actions,
                                                        request.contract)
               /\ ~EvaluationRaises(request.actions, request.contract)
    <3>1. Processed /\ 1..(cursor - 1) = DOMAIN request.actions
      BY <2>1, <2>2 DEF EngineInv
    <3>2. approval_required \in BOOLEAN
      BY DEF EngineInv, TypeOK
    <3> QED
      BY <3>1, <3>2 DEF Processed, Found, PlanViolations,
                        PlanNeedsApproval, EvaluationRaises
  <2>3. ASSUME phase = "raised"
        PROVE  EvaluationRaises(request.actions, request.contract)
    BY <2>1, <2>3 DEF EngineInv, EvaluationRaises, Current
  <2> QED
    BY <2>2, <2>3 DEF LoopComputesVerdict, PreChecked
<1> QED
  BY <1>1, EngineInvariant, PTL

\* "Forbidden always wins": no forbidden action is in an approved plan.
THEOREM EngineForbids == Spec => []ForbiddenAlwaysWins
<1>1. EngineInv => ForbiddenAlwaysWins
  <2> SUFFICES ASSUME EngineInv, phase = "done", Status = "APPROVED",
                      NEW i \in DOMAIN request.actions,
                      request.actions[i].type \notin ReadOnly
               PROVE  ~IsForbidden(request.contract.scope,
                                   request.actions[i].type)
    BY DEF ForbiddenAlwaysWins
  <2>1. violations = {}
    BY DEF Status, Verdict
  <2>2. PreChecked /\ Processed /\ cursor = Len(request.actions) + 1
    BY <2>1 DEF EngineInv
  <2>3. i \in 1..(cursor - 1)
    BY <2>2, RequestTyped DEF EngineInv, TypeOK
  <2>4. Found(i) = {}
    BY <2>1, <2>2, <2>3 DEF Processed
  <2> QED
    BY <2>4 DEF Found, ActionViolations
<1> QED
  BY <1>1, EngineInvariant, PTL

\* The pre-checks are final.
THEOREM EnginePreChecks == Spec => []PreChecksAreFinal
<1>1. EngineInv => PreChecksAreFinal
  BY DEF EngineInv, TypeOK, PreChecksAreFinal, PreChecked, Status, Verdict
<1> QED
  BY <1>1, EngineInvariant, PTL

-----------------------------------------------------------------------------
(* The risk assessment.                                                    *)

\* Any action may be a plan's first one.
LEMMA FirstAction ==
    ASSUME NEW a \in Actions
    PROVE  <<a>> \in Seq(Actions) /\ <<a>> # <<>>
OBVIOUS

LEMMA NewCardTyped == NewCard \in Card
BY DEF NewCard, Card

LEMMA AssessmentStarts == AssessmentInit => AssessmentTypeOK
BY FirstAction, NewCardTyped DEF AssessmentInit, AssessmentTypeOK

\* A plan of the actions considered is a plan.
LEMMA AssessedPlan ==
    ASSUME AssessmentTypeOK
    PROVE  plan \in Seq(PlannedAction) /\ plan # <<>>
BY AssessmentAssumption, SeqMonotonic DEF AssessmentTypeOK

LEMMA AssessmentKept ==
    ASSUME AssessmentTypeOK, [AssessmentNext]_assessment
    PROVE  AssessmentTypeOK'
<1> USE DEF AssessmentTypeOK
<1>1. CASE AddAction
  <2>1. PICK a \in Actions : plan' = Append(plan, a)
    BY <1>1 DEF AddAction
  <2>2. plan' \in Seq(Actions) /\ Len(plan') = Len(plan) + 1 /\ Len(plan) \in Nat
    BY <2>1, AppendProperties, LenProperties
  <2>3. plan' # <<>>
    BY <2>2, EmptySeq
  <2> QED
    BY <1>1, <2>2, <2>3 DEF AddAction
<1>2. CASE RaiseSeverity \/ OpenCheckout
  BY <1>2 DEF RaiseSeverity, OpenCheckout
<1>3. CASE RecordOutcome
  <2>1. card' \in Card
    BY <1>3 DEF RecordOutcome, OutcomeRecorded, Card
  <2> QED
    BY <1>3, <2>1 DEF RecordOutcome
<1>4. CASE RecordRejection
  <2>1. card' \in Card
    BY <1>4 DEF RecordRejection, RejectionRecorded, Card
  <2> QED
    BY <1>4, <2>1 DEF RecordRejection
<1>5. CASE UNCHANGED assessment
  BY <1>5 DEF assessment
<1> QED
  BY <1>1, <1>2, <1>3, <1>4, <1>5 DEF AssessmentNext

LEMMA AssessmentTyped == AssessmentSpec => []AssessmentTypeOK
<1>1. AssessmentInit => AssessmentTypeOK
  BY AssessmentStarts
<1>2. AssessmentTypeOK /\ [AssessmentNext]_assessment => AssessmentTypeOK'
  BY AssessmentKept
<1> QED
  BY <1>1, <1>2, PTL DEF AssessmentSpec

\* Whatever happened before, a plan for a CRITICAL incident asks for a human,
\* and the score is on its scale.
THEOREM AssessmentAsks == AssessmentSpec => []CriticalNeedsHuman
<1>1. ASSUME AssessmentTypeOK
      PROVE  CriticalNeedsHuman
  <2>1. /\ plan \in Seq(PlannedAction) /\ plan # <<>>
        /\ severity \in Severities /\ checkout \in BOOLEAN
        /\ TrustScore(card) \in 0..60
    BY <1>1, AssessedPlan, CardTyped DEF AssessmentTypeOK
  <2>2. severity = "CRITICAL" => RiskNeedsApproval(plan, TheContract, TheScore)
    BY <2>1, CriticalIncidentNeedsHuman DEF TheScore
  <2>3. Points(plan, severity, checkout, TheContract) \in Nat
    BY <2>1, PointsBound
  <2>4. TheScore \in 0..100
    BY <2>1, <2>3, ScaledBound DEF TheScore, Score
  <2> QED
    BY <2>2, <2>4 DEF CriticalNeedsHuman
<1> QED
  BY <1>1, AssessmentTyped, PTL

\* Only a success adds to the successes on the card.
LEMMA CardCounts ==
    ASSUME NEW some \in Card
    PROVE  /\ OutcomeRecorded(some, "SUCCESS").success_count > some.success_count
           /\ \A final \in {"FAILED", "ESCALATED", "DENIED"} :
                  OutcomeRecorded(some, final).success_count = some.success_count
           /\ RejectionRecorded(some).success_count = some.success_count
           /\ some.success_count \in Nat
BY DEF Card, OutcomeRecorded, RejectionRecorded

\* Whatever happened before, what makes an assessment worse never lowers the
\* score or drops the request for a human, and a success never raises it.
THEOREM AssessmentGrows == AssessmentSpec => RiskGrows
<1> DEFINE Grows ==
        IF card'.success_count > card.success_count
        THEN TheScore' <= TheScore
        ELSE /\ TheScore' >= TheScore
             /\ RiskNeedsApproval(plan, TheContract, TheScore)
                    => RiskNeedsApproval(plan, TheContract, TheScore)'
<1>1. ASSUME AssessmentTypeOK, AssessmentTypeOK', [AssessmentNext]_assessment
      PROVE  [Grows]_assessment
  <2> SUFFICES ASSUME AssessmentNext
               PROVE  Grows
    BY <1>1
  <2>1. /\ plan \in Seq(PlannedAction) /\ plan' \in Seq(PlannedAction)
        /\ severity \in Severities /\ severity' \in Severities
        /\ checkout \in BOOLEAN /\ checkout' \in BOOLEAN
        /\ card \in Card /\ card' \in Card
        /\ TrustScore(card) \in 0..60 /\ TrustScore(card') \in 0..60
        /\ card.success_count \in Nat
        /\ Len(plan) \in Nat /\ SeverityPoints(severity) \in Nat
    <3>1. /\ plan \in Seq(PlannedAction) /\ plan' \in Seq(PlannedAction)
      BY <1>1, AssessmentAssumption, SeqMonotonic DEF AssessmentTypeOK
    <3>2. card \in Card /\ card' \in Card
      BY <1>1 DEF AssessmentTypeOK
    <3>3. card.success_count \in Nat
      BY <3>2, CardCounts
    <3>4. severity \in Severities /\ SeverityPoints(severity) \in Nat
      BY <1>1 DEF AssessmentTypeOK, SeverityPoints, Severities
    <3>5. Len(plan) \in Nat
      BY <3>1, LenProperties
    <3> QED
      BY <1>1, <3>1, <3>2, <3>3, <3>4, <3>5, CardTyped DEF AssessmentTypeOK
  <2>r. /\ TrustScore(card) <= TrustScore(card) /\ Len(plan) <= Len(plan)
        /\ SeverityPoints(severity) <= SeverityPoints(severity)
    <3>1. \A n \in Nat : n <= n
      OBVIOUS
    <3>2. Len(plan) \in Nat
      BY <2>1
    <3>3. TrustScore(card) \in Nat
      <4>1. TrustScore(card) \in 0..60
        BY <2>1
      <4> QED
        BY <4>1
    <3>4. SeverityPoints(severity) \in Nat
      BY <2>1
    <3> QED
      BY <3>1, <3>2, <3>3, <3>4
  \* A plan that is no shorter, for an incident no less severe, by a planner
  \* no more trusted.
  <2>2. ASSUME Len(plan) <= Len(plan'),
               \A type : Recognised(plan, type) => Recognised(plan', type),
               SeverityPoints(severity) <= SeverityPoints(severity'),
               checkout => checkout',
               TrustScore(card') <= TrustScore(card),
               card'.success_count = card.success_count
        PROVE  Grows
    <3> DEFINE score == Score(plan, severity, checkout, TheContract,
                              TrustScore(card))
               next == Score(plan', severity', checkout', TheContract,
                             TrustScore(card'))
    <3>0. /\ score <= next
          /\ RiskNeedsApproval(plan, TheContract, score)
                 => RiskNeedsApproval(plan', TheContract, next)
      BY <2>1, <2>2, WorseIsRiskier, ZenonT(60)
    <3>1. /\ TheScore <= TheScore'
          /\ RiskNeedsApproval(plan, TheContract, TheScore)
                 => RiskNeedsApproval(plan', TheContract, TheScore')
      BY <3>0 DEF TheScore
    <3>2. ~(card'.success_count > card.success_count)
      BY <2>1, <2>2
    <3> QED
      BY <3>1, <3>2
  <2>3. CASE AddAction
    <3> HIDE DEF Grows
    <3>1. PICK a \in PlannedAction : plan' = Append(plan, a)
      BY <2>3, AssessmentAssumption DEF AddAction
    <3>2. UNCHANGED <<severity, checkout, card>>
      BY <2>3 DEF AddAction
    <3>3. /\ Len(plan) <= Len(plan')
          /\ \A type : Recognised(plan, type) => Recognised(plan', type)
      BY <2>1, <3>1, AppendedRecognised
    <3> QED
      BY <2>2, <2>r, <3>2, <3>3
  <2>4. CASE RaiseSeverity
    <3> HIDE DEF Grows
    <3>1. SeverityPoints(severity) <= SeverityPoints(severity')
      BY <2>1, <2>4 DEF RaiseSeverity, Rank, Severities, SeverityPoints
    <3>2. UNCHANGED <<plan, checkout, card>>
      BY <2>4 DEF RaiseSeverity
    <3> QED
      BY <2>2, <2>r, <3>1, <3>2
  <2>5. CASE OpenCheckout
    <3> HIDE DEF Grows
    <3>1. UNCHANGED <<plan, severity, card>> /\ ~checkout
      BY <2>5 DEF OpenCheckout
    <3> QED
      BY <2>2, <2>r, <3>1
  <2>6. CASE RecordOutcome
    <3>1. PICK final \in {"SUCCESS", "FAILED", "ESCALATED", "DENIED"} :
              card' = OutcomeRecorded(card, final)
      BY <2>6 DEF RecordOutcome
    <3>2. UNCHANGED <<plan, severity, checkout>>
      BY <2>6 DEF RecordOutcome
    <3>3. CASE final = "SUCCESS"
      <4>1. /\ card'.success_count > card.success_count
            /\ TrustScore(card) <= TrustScore(card')
        BY <2>1, <3>1, <3>3, CardCounts, TrustFollowsOutcomes
      <4>2. Score(plan, severity, checkout, TheContract, TrustScore(card'))
                <= Score(plan, severity, checkout, TheContract, TrustScore(card))
        BY <2>1, <2>r, <4>1, WorseIsRiskier
      <4> QED
        BY <3>2, <4>1, <4>2 DEF TheScore
    <3>4. CASE final # "SUCCESS"
      <4>1. /\ card'.success_count = card.success_count
            /\ TrustScore(card') <= TrustScore(card)
        BY <2>1, <3>1, <3>4, CardCounts, TrustFollowsOutcomes
      <4> HIDE DEF Grows
      <4> QED
        BY <2>1, <2>2, <3>2, <4>1
    <3> QED
      BY <3>3, <3>4
  <2>7. CASE RecordRejection
    <3>1. card' = RejectionRecorded(card) /\ UNCHANGED <<plan, severity, checkout>>
      BY <2>7 DEF RecordRejection
    <3>2. /\ card'.success_count = card.success_count
          /\ TrustScore(card') <= TrustScore(card)
      BY <2>1, <3>1, CardCounts, TrustFollowsOutcomes
    <3> HIDE DEF Grows
    <3> QED
      BY <2>1, <2>2, <3>1, <3>2
  <2> QED
    BY <1>1, <2>3, <2>4, <2>5, <2>6, <2>7 DEF AssessmentNext
<1> QED
  BY <1>1, AssessmentTyped, PTL DEF AssessmentSpec, RiskGrows
=============================================================================
