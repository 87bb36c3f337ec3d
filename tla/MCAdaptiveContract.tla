------------------------- MODULE MCAdaptiveContract -------------------------
(***************************************************************************)
(* Contracts shaped like knowledge/contracts/inventory-service-contract    *)
(* .json with every sequence of at most three rules drawn from a small     *)
(* set.                                                                    *)
(***************************************************************************)
EXTENDS AdaptiveGuardrails, SequencesExt

NoActions == [a \in ActionTypes |-> 0]

NoMutation ==
    [override_max_replicas |-> Unset, override_max_pod_restarts |-> Unset,
     remove_allowed |-> NoActions, add_forbidden |-> {},
     require_approval |-> {}]

AnyContext ==
    [malformed |-> FALSE, severity |-> Unset, max_trust |-> Unset,
     needs_flag |-> FALSE, mutation |-> NoMutation]

\* The rule of the sample contract.
RestrictScaleOnCritical ==
    [AnyContext EXCEPT
        !.severity = "CRITICAL",
        !.mutation.override_max_pod_restarts = 1,
        !.mutation.remove_allowed["scale_deployment"] = 1]

HardBlock ==
    [AnyContext EXCEPT
        !.mutation.override_max_replicas = 3,
        !.mutation.add_forbidden = {"rollback_deployment"}]

LooserBlock ==
    [AnyContext EXCEPT
        !.severity = "HIGH",
        !.mutation.override_max_replicas = 5,
        !.mutation.remove_allowed["restart_pods"] = 1,
        !.mutation.require_approval = {"restart_pods"}]

AboveCeiling ==
    [AnyContext EXCEPT
        !.mutation.override_max_replicas = 50,
        !.mutation.override_max_pod_restarts = 9]

LowTrustOnly == [HardBlock EXCEPT !.max_trust = 40]
FlagOnly     == [HardBlock EXCEPT !.needs_flag = TRUE]
BadRule      == [HardBlock EXCEPT !.malformed = TRUE]

SomeRules ==
    {RestrictScaleOnCritical, HardBlock, LooserBlock, AboveCeiling,
     LowTrustOnly, FlagOnly, BadRule}

\* restart_pods is listed twice in the file's allowed_actions.
Base(rules) ==
    [scope |->
        [allowed |-> [NoActions EXCEPT !["restart_pods"] = 2,
                                       !["scale_deployment"] = 1,
                                       !["rollback_deployment"] = 1],
         forbidden |-> {"stop_service"}, approval |-> {"rollback_deployment"},
         max_pod_restarts |-> 2, max_replicas |-> 10],
     max_scale_up_percentage |-> 200, minimum_available |-> 2,
     preserve_connections |-> TRUE, max_unavailability |-> 25,
     max_plan_retries |-> 3, postconditions |-> 2,
     adaptive_rules |-> rules]

Act(type, count, replicas) ==
    [type |-> type, typed |-> TRUE, count |-> count, replicas |-> replicas,
     current |-> 0, compensation |-> FALSE]

\* Actions at and past the limits of the contract and of its rules.
MCActions ==
    { Act("restart_pods", n, 0) : n \in 1..3 } \cup
    { Act("scale_deployment", 1, n) : n \in {3, 5, 10, 11} } \cup
    { Act("rollback_deployment", 1, 0), Act("stop_service", 1, 0) }

MCHistories == { <<>>, <<[action |-> "restart_pods", success |-> TRUE]>> }

MCMeasurements == { [total_pods |-> 12, active_connections |-> FALSE] }

MCBaseContracts == { Base(r) : r \in BoundedSeq(SomeRules, 3) }
=============================================================================
