----------------------------- MODULE Governance -----------------------------
(***************************************************************************)
(* What the control plane promises about an incident, without saying how:  *)
(* the infrastructure is touched only under a mandate, a mandate over a    *)
(* sensitive plan is given by a human, each mandate covers one attempt at  *)
(* one plan, and an incident submitted once gets a bounded number of       *)
(* attempts.                                                               *)
(***************************************************************************)
EXTENDS Naturals

CONSTANT AttemptLimit   \* attempts an incident gets per submission

VARIABLES
    stage,       \* "closed", "deliberating", "acting", "assessing"
    sensitive,   \* the plan at hand needs a human
    mandate,     \* "none", "automatic" or "human"
    attempts,    \* mandates given since the incident was submitted
    effects      \* calls the infrastructure has received

vars == <<stage, sensitive, mandate, attempts, effects>>

Init ==
    /\ stage = "closed"
    /\ sensitive = FALSE
    /\ mandate = "none"
    /\ attempts = 0
    /\ effects = 0

\* A submission, also of an incident that is closed or waits for a human.
Submit ==
    /\ stage \in {"closed", "deliberating"}
    /\ stage' = "deliberating"
    /\ sensitive' \in BOOLEAN
    /\ attempts' = 0
    /\ UNCHANGED <<mandate, effects>>

Deliberate ==
    /\ stage = "deliberating"
    /\ sensitive' \in BOOLEAN
    /\ UNCHANGED <<stage, mandate, attempts, effects>>

Authorise ==
    /\ stage = "deliberating"
    /\ attempts < AttemptLimit
    /\ stage' = "acting"
    /\ mandate' \in {"automatic", "human"}
    /\ sensitive => mandate' = "human"
    /\ attempts' = attempts + 1
    /\ UNCHANGED <<sensitive, effects>>

Act ==
    /\ stage = "acting"
    /\ effects' = effects + 1
    /\ UNCHANGED <<stage, sensitive, mandate, attempts>>

Deliver ==
    /\ stage = "acting"
    /\ stage' = "assessing"
    /\ mandate' = "none"
    /\ UNCHANGED <<sensitive, attempts, effects>>

Reconsider ==
    /\ stage = "assessing"
    /\ stage' = "deliberating"
    /\ sensitive' \in BOOLEAN
    /\ UNCHANGED <<mandate, attempts, effects>>

\* An attempt that cannot go on, or whose outcome cannot be learnt, leaves
\* nothing behind that would let another one act.
Abandon ==
    /\ stage \in {"acting", "assessing"}
    /\ stage' = "closed"
    /\ mandate' = "none"
    /\ sensitive' \in BOOLEAN
    /\ UNCHANGED <<attempts, effects>>

Close ==
    /\ stage = "deliberating"
    /\ stage' = "closed"
    /\ UNCHANGED <<sensitive, mandate, attempts, effects>>

Next ==
    \/ Submit \/ Deliberate \/ Authorise \/ Act \/ Deliver \/ Reconsider
    \/ Abandon \/ Close

Spec == Init /\ [][Next]_vars
=============================================================================
