----------------------------- MODULE Contracts -----------------------------
(***************************************************************************)
(* The vocabulary of the control plane: action types, planned actions,     *)
(* operational contracts and the adaptive rules that narrow them           *)
(* (core/enums.py, core/models.py, core/contracts).                        *)
(*                                                                         *)
(* A contract is split in two.  `scope' holds the fields an adaptive rule  *)
(* may mutate; the other fields are copied from the file unchanged.  The   *)
(* list allowed_actions is kept as the number of times each action occurs  *)
(* in it, because list.remove drops a single occurrence.                   *)
(***************************************************************************)
EXTENDS Integers, Sequences

CONSTANT Unset   \* an optional field that is None

Severities == {"CRITICAL", "HIGH", "MEDIUM", "LOW"}

ReadOnly == {"get_service_status", "get_metrics"}

ActionTypes ==
    ReadOnly \cup
    {"restart_pods", "scale_deployment", "rollback_deployment",
     "block_merchant", "refund_transaction", "reroute_gateway",
     "run_command", "restart_service", "start_service", "stop_service",
     "run_batch_job", "http_request"}

\* One action of the planner's structured output, numeric parameters only:
\* an absent `count' counts as 1, an absent `replicas' as 0, an absent
\* `current_replicas' as 0.  `padded': the raw name carries blanks around
\* it.  `typed': the numeric parameters are numbers.  `undo': the planner
\* described how to undo the action.
PlannedAction ==
    [type: ActionTypes, padded: BOOLEAN, typed: BOOLEAN, undo: BOOLEAN,
     count: Int, replicas: Int, current: Int]

NormalizedAction ==
    [type: ActionTypes, typed: BOOLEAN, count: Int, replicas: Int,
     current: Int, compensation: BOOLEAN]

\* normalize_plan strips and lowers the name, keeps the parameters and
\* leaves the compensating action empty, whatever the planner described.
Normalize(a) ==
    [type |-> a.type, typed |-> a.typed, count |-> a.count,
     replicas |-> a.replicas, current |-> a.current,
     compensation |-> FALSE]

NormalizePlan(plan) == [i \in DOMAIN plan |-> Normalize(plan[i])]

Scope ==
    [allowed: [ActionTypes -> Nat], forbidden: SUBSET ActionTypes,
     approval: SUBSET ActionTypes, max_pod_restarts: Int, max_replicas: Int]

Mutation ==
    [override_max_replicas: Int \cup {Unset},
     override_max_pod_restarts: Int \cup {Unset},
     remove_allowed: [ActionTypes -> Nat],
     add_forbidden: SUBSET ActionTypes,
     require_approval: SUBSET ActionTypes]

Rule ==
    [malformed: BOOLEAN, severity: Severities \cup {Unset},
     max_trust: Nat \cup {Unset}, needs_flag: BOOLEAN, mutation: Mutation]

Contract ==
    [scope: Scope, max_scale_up_percentage: Nat, minimum_available: Nat,
     preserve_connections: BOOLEAN, max_unavailability: 0..100,
     max_plan_retries: Nat \ {0}, postconditions: Nat,
     adaptive_rules: Seq(Rule)]

\* The field constraints pydantic enforces whenever a contract is built.
ValidLimits(scope) == scope.max_pod_restarts >= 0 /\ scope.max_replicas >= 1

IsAllowed(scope, type) == scope.allowed[type] > 0
IsForbidden(scope, type) == type \in scope.forbidden
RequiresApproval(scope, type) == type \in scope.approval

-----------------------------------------------------------------------------
(* Adaptive rules (core/contracts/adaptive.py).                            *)

\* The trust score the resolver sees: AdaptiveContext's default.
ContextTrust == 50

\* No node sets additional_flags, so a rule that requires a flag is off.
Matches(rule, severity) ==
    /\ rule.severity \in {Unset, severity}
    /\ rule.max_trust # Unset => ContextTrust <= rule.max_trust
    /\ ~rule.needs_flag

\* Malformed rules are dropped before the resolver is built.
Applies(rule, severity) == ~rule.malformed /\ Matches(rule, severity)

\* Mutant: the base contract is no ceiling.
OverrideUncapped(override, ceiling, now) ==
    IF override = Unset THEN now ELSE override

\* min(override, base), or the value the scope has now.
Narrowed(override, ceiling, now) ==
    IF override = Unset THEN now
    ELSE IF override <= ceiling THEN override ELSE ceiling

\* Mutant: the rule's prohibitions and approvals replace the scope's, and
\* removing an action it does not hold leaves a debt.
MutationReplaces(scope, m, base) ==
    [allowed |-> [a \in ActionTypes |-> scope.allowed[a] - m.remove_allowed[a]],
     forbidden |-> m.add_forbidden,
     approval |-> m.require_approval,
     max_pod_restarts |-> scope.max_pod_restarts,
     max_replicas |-> scope.max_replicas]

ApplyMutation(scope, m, base) ==
    [allowed |-> [a \in ActionTypes |->
         IF scope.allowed[a] <= m.remove_allowed[a] THEN 0
         ELSE scope.allowed[a] - m.remove_allowed[a]],
     forbidden |-> scope.forbidden \cup m.add_forbidden,
     approval |-> scope.approval \cup m.require_approval,
     max_pod_restarts |-> Narrowed(m.override_max_pod_restarts,
                                   base.max_pod_restarts,
                                   scope.max_pod_restarts),
     max_replicas |-> Narrowed(m.override_max_replicas,
                               base.max_replicas, scope.max_replicas)]

\* The scope after the first i rules of the contract.
ScopeAfter(base, severity) ==
    LET rules == base.adaptive_rules
        after[i \in 0..Len(rules)] ==
            IF i = 0 THEN base.scope
            ELSE IF Applies(rules[i], severity)
                 THEN ApplyMutation(after[i - 1], rules[i].mutation, base.scope)
                 ELSE after[i - 1]
    IN  after

\* resolve_effective_contract, as one step.
Effective(base, severity) ==
    [base EXCEPT !.scope =
        ScopeAfter(base, severity)[Len(base.adaptive_rules)]]
=============================================================================
