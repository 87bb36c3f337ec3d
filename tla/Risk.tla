------------------------------- MODULE Risk -------------------------------
(***************************************************************************)
(* RiskEvaluator.evaluate (core/guardrails/risk.py).  The trust score is   *)
(* given in sixtieths, as in module Trust.  The nodes always pass the      *)
(* neutral one: each of them builds a TrustManager of its own, which knows *)
(* no history.                                                             *)
(*                                                                         *)
(* The evaluator reads the planner's raw action names, so a name with      *)
(* blanks around it is not recognised.                                     *)
(***************************************************************************)
EXTENDS Contracts, Trust

RiskLevels == {"LOW", "MEDIUM", "HIGH", "CRITICAL"}

SeverityPoints(severity) ==
    CASE severity = "CRITICAL" -> 40
      [] severity = "HIGH"     -> 25
      [] severity = "MEDIUM"   -> 10
      [] severity = "LOW"      -> 0

Recognised(plan, type) ==
    \E i \in DOMAIN plan : plan[i].type = type /\ ~plan[i].padded

\* Mutant: the scale-up is looked for first.
ScaleBeforeRollback(plan) ==
    (IF Len(plan) < 4 THEN 5 * Len(plan) ELSE 20)
    + (IF Recognised(plan, "scale_deployment") THEN 10
       ELSE IF Recognised(plan, "rollback_deployment") THEN 20
       ELSE 0)

ComplexityPoints(plan) ==
    (IF Len(plan) < 4 THEN 5 * Len(plan) ELSE 20)
    + (IF Recognised(plan, "rollback_deployment") THEN 20
       ELSE IF Recognised(plan, "scale_deployment") THEN 10
       ELSE 0)

\* Some recognised action needs a human under the contract.
ContractAsks(plan, contract) ==
    \E type \in contract.scope.approval : Recognised(plan, type)

Points(plan, severity, checkout, contract) ==
    SeverityPoints(severity)
    + (IF checkout THEN 15 ELSE 0)
    + ComplexityPoints(plan)
    + (IF ContractAsks(plan, contract) THEN 25 ELSE 0)

\* Mutant: twice the weight for trust.
OverTrusting(points, trust) ==
    LET score == (points * (160 - 2 * trust)) \div 100
    IN  IF score > 100 THEN 100 ELSE score

\* int(points * (1 + (0.5 - trust) * 0.6)), capped at 100.  The float product
\* truncates to this value or, for a few scores of up to six attempts (90
\* points at full trust: 62, not 63), to one less, always in the same band.
Scaled(points, trust) ==
    LET score == (points * (130 - trust)) \div 100
    IN  IF score > 100 THEN 100 ELSE score

Score(plan, severity, checkout, contract, trust) ==
    Scaled(Points(plan, severity, checkout, contract), trust)

RiskLevel(score) ==
    IF score <= 30 THEN "LOW"
    ELSE IF score <= 50 THEN "MEDIUM"
    ELSE IF score <= 70 THEN "HIGH"
    ELSE "CRITICAL"

RiskNeedsApproval(plan, contract, score) ==
    score > 30 \/ ContractAsks(plan, contract)
=============================================================================
