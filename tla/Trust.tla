------------------------------- MODULE Trust -------------------------------
(***************************************************************************)
(* The planner's scorecard for one service (core/trust), and what the      *)
(* nodes record on it.  The score, a number in [0, 1], is given in         *)
(* sixtieths: the score of up to six attempts is a whole number of them,   *)
(* and so is the penalty for a rejection, 0.05.                            *)
(***************************************************************************)
EXTENDS Integers

Card ==
    [success_count: Nat, failure_count: Nat, escalation_count: Nat,
     guardrail_rejections: Nat]

NewCard ==
    [success_count |-> 0, failure_count |-> 0, escalation_count |-> 0,
     guardrail_rejections |-> 0]

NeutralTrust == 30

\* A rejected plan is no attempt.
Attempted(card) ==
    card.success_count + card.failure_count + card.escalation_count

Penalty(card) ==
    IF card.guardrail_rejections < 6 THEN 3 * card.guardrail_rejections ELSE 18

\* Without an attempt the score is neutral, whatever was rejected.
TrustScore(card) ==
    IF Attempted(card) = 0 THEN NeutralTrust
    ELSE LET earned == (60 * card.success_count) \div Attempted(card)
         IN  IF earned > Penalty(card) THEN earned - Penalty(card) ELSE 0

\* finalize: a denied plan says nothing about the planner.
OutcomeRecorded(card, final) ==
    CASE final = "SUCCESS"   -> [card EXCEPT !.success_count = @ + 1]
      [] final = "FAILED"    -> [card EXCEPT !.failure_count = @ + 1]
      [] final = "ESCALATED" -> [card EXCEPT !.escalation_count = @ + 1]
      [] final = "DENIED"    -> card

\* reject_plan
RejectionRecorded(card) == [card EXCEPT !.guardrail_rejections = @ + 1]
=============================================================================
