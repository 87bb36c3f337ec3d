----------------------------- MODULE Guardrails -----------------------------
(***************************************************************************)
(* The deterministic validators of core/guardrails/validators.py and the   *)
(* verdict GuardrailEngine.evaluate (core/guardrails/engine.py) reaches    *)
(* with them.  A violation message is reduced to the check that wrote it.  *)
(***************************************************************************)
EXTENDS Contracts, FiniteSets

\* An ExecutionResult, as it is appended to execution_history: it carries
\* no `parameters' entry.
HistoryEntry == [action: ActionTypes, success: BOOLEAN]

\* incident.metrics, as validate_availability reads it.
Metrics == [total_pods: Nat, active_connections: BOOLEAN]

Checks ==
    {"forbidden", "not_allowed", "restart_limit", "max_replicas",
     "scale_percentage", "minimum_available", "unavailability",
     "connections"}

\* Every earlier restart counts as one, whatever number of pods it
\* restarted and whether or not it succeeded, because a history entry has
\* no `parameters' to read the count from.
PriorRestarts(history) ==
    Cardinality({i \in DOMAIN history : history[i].action = "restart_pods"})

LimitViolations(a, contract, history) ==
    { v \in {"restart_limit", "max_replicas", "scale_percentage"} :
        CASE v = "restart_limit" ->
               /\ a.type = "restart_pods"
               /\ PriorRestarts(history) + a.count
                      > contract.scope.max_pod_restarts
          [] v = "max_replicas" ->
               /\ a.type = "scale_deployment"
               /\ a.replicas > contract.scope.max_replicas
          [] v = "scale_percentage" ->
               /\ a.type = "scale_deployment"
               /\ a.current > 0
               /\ a.replicas * 100
                      > contract.max_scale_up_percentage * a.current }

AvailabilityViolations(a, contract, metrics) ==
    { v \in {"minimum_available", "unavailability", "connections"} :
        CASE v = "minimum_available" ->
               /\ a.type = "restart_pods"
               /\ metrics.total_pods - a.count < contract.minimum_available
          [] v = "unavailability" ->
               /\ a.type = "restart_pods"
               /\ metrics.total_pods > 0
               /\ a.count * 100
                      > contract.max_unavailability * metrics.total_pods
          [] v = "connections" ->
               /\ a.type \in {"restart_pods", "rollback_deployment"}
               /\ contract.preserve_connections
               /\ metrics.active_connections }

\* Mutant: the allow list is consulted before the block list.
AllowListFirst(a, contract, history, metrics) ==
    IF a.type \in ReadOnly THEN {}
    ELSE IF IsAllowed(contract.scope, a.type)
    THEN LimitViolations(a, contract, history)
             \cup AvailabilityViolations(a, contract, metrics)
    ELSE {"not_allowed"}

\* The checks one action fails, in the engine's priority order: a
\* forbidden or unlisted action is not examined further.
ActionViolations(a, contract, history, metrics) ==
    IF a.type \in ReadOnly THEN {}
    ELSE IF IsForbidden(contract.scope, a.type) THEN {"forbidden"}
    ELSE IF ~IsAllowed(contract.scope, a.type) THEN {"not_allowed"}
    ELSE LimitViolations(a, contract, history)
             \cup AvailabilityViolations(a, contract, metrics)

\* An action whose limits are examined.
Examined(a, contract) ==
    /\ a.type \notin ReadOnly
    /\ ~IsForbidden(contract.scope, a.type)
    /\ IsAllowed(contract.scope, a.type)

\* Comparing a limit with a parameter that is not a number raises.
Raises(a, contract) ==
    /\ Examined(a, contract)
    /\ a.type \in {"restart_pods", "scale_deployment"}
    /\ ~a.typed

NeedsApproval(a, contract) ==
    Examined(a, contract) /\ RequiresApproval(contract.scope, a.type)

-----------------------------------------------------------------------------
(* The verdict on a whole plan.                                            *)

EvaluationRaises(actions, contract) ==
    \E i \in DOMAIN actions : Raises(actions[i], contract)

PlanViolations(actions, contract, history, metrics) ==
    UNION { ActionViolations(actions[i], contract, history, metrics) :
                i \in DOMAIN actions }

PlanNeedsApproval(actions, contract) ==
    \E i \in DOMAIN actions : NeedsApproval(actions[i], contract)

Verdict(violations) == IF violations = {} THEN "APPROVED" ELSE "REJECTED"

Passes(actions, contract, history, metrics) ==
    PlanViolations(actions, contract, history, metrics) = {}
=============================================================================
