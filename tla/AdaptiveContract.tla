-------------------------- MODULE AdaptiveContract --------------------------
(***************************************************************************)
(* AdaptiveContractResolver.resolve_effective_contract                     *)
(* (core/contracts/adaptive.py), one iteration of its loop per step, run   *)
(* by resolve_contract on the rules the contract file declares.            *)
(***************************************************************************)
EXTENDS Contracts

CONSTANT BaseContracts   \* the contracts found in the contracts directory

ASSUME UnsetAssumption == Unset \notin Int /\ Unset \notin Severities
ASSUME BaseAssumption ==
    /\ BaseContracts \subseteq Contract
    /\ \A b \in BaseContracts : ValidLimits(b.scope)

VARIABLES
    base,       \* the contract as loaded
    severity,   \* the incident's severity
    scope,      \* the mutable part of the effective contract
    next        \* the rule the loop looks at next

vars == <<base, severity, scope, next>>

Rules == base.adaptive_rules

TypeOK ==
    /\ base \in BaseContracts
    /\ severity \in Severities
    /\ scope \in Scope
    /\ next \in 1..(Len(Rules) + 1)

Init ==
    /\ base \in BaseContracts
    /\ severity \in Severities
    /\ scope = base.scope
    /\ next = 1

SkipRule ==
    /\ next <= Len(Rules)
    /\ ~Applies(Rules[next], severity)
    /\ next' = next + 1
    /\ UNCHANGED <<base, severity, scope>>

\* Mutant: every rule starts over from the contract file.
ApplyRuleToBase ==
    /\ next <= Len(Rules)
    /\ Applies(Rules[next], severity)
    /\ scope' = ApplyMutation(base.scope, Rules[next].mutation, base.scope)
    /\ next' = next + 1
    /\ UNCHANGED <<base, severity>>

ApplyRule ==
    /\ next <= Len(Rules)
    /\ Applies(Rules[next], severity)
    /\ scope' = ApplyMutation(scope, Rules[next].mutation, base.scope)
    /\ next' = next + 1
    /\ UNCHANGED <<base, severity>>

Next == SkipRule \/ ApplyRule

Spec == Init /\ [][Next]_vars

-----------------------------------------------------------------------------
Done == next = Len(Rules) + 1

\* adaptive.py promises "we never elevate above the base contract": whatever
\* the rules and their order, the effective contract permits nothing the
\* file does not, keeps every prohibition and approval requirement of the
\* file, and no limit rises above the file's.
NeverElevates ==
    /\ \A a \in ActionTypes : scope.allowed[a] <= base.scope.allowed[a]
    /\ base.scope.forbidden \subseteq scope.forbidden
    /\ base.scope.approval \subseteq scope.approval
    /\ scope.max_pod_restarts <= base.scope.max_pod_restarts
    /\ scope.max_replicas <= base.scope.max_replicas

\* What a rule prohibits, no later rule permits again: a step of the loop
\* takes permissions away and adds prohibitions and approvals, never the
\* reverse (the numeric limits are not covered: a later rule may raise them
\* back up to the base).
PermissionsOnlyShrink ==
    [][ /\ \A a \in ActionTypes : scope'.allowed[a] <= scope.allowed[a]
        /\ scope.forbidden \subseteq scope'.forbidden
        /\ scope.approval \subseteq scope'.approval ]_scope

\* The loop computes the operator the workflow uses for this node in one
\* step, and every prefix of it is the loop's state at that rule.
LoopComputesEffective ==
    /\ scope = ScopeAfter(base, severity)[next - 1]
    /\ Done => [base EXCEPT !.scope = scope] = Effective(base, severity)
=============================================================================
