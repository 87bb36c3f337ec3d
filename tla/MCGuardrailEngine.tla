------------------------- MODULE MCGuardrailEngine -------------------------
(***************************************************************************)
(* Every plan of one or two actions drawn from a set that reaches each     *)
(* validator from both sides, against the sample contract and a looser     *)
(* one, with and without the optional pre-checks.                          *)
(***************************************************************************)
EXTENDS GuardrailEngine, FiniteSetsExt, SequencesExt

Act(type, count, replicas, current) ==
    [type |-> type, typed |-> TRUE, count |-> count, replicas |-> replicas,
     current |-> current, compensation |-> FALSE]

SomeActions ==
    { Act("restart_pods", 1, 0, 0), Act("restart_pods", 2, 0, 0),
      Act("scale_deployment", 1, 10, 5), Act("scale_deployment", 1, 11, 5),
      Act("rollback_deployment", 1, 0, 0), Act("stop_service", 1, 0, 0),
      Act("run_command", 1, 0, 0), Act("get_metrics", 1, 0, 0),
      [Act("scale_deployment", 1, 0, 0) EXCEPT !.typed = FALSE],
      [Act("rollback_deployment", 1, 0, 0) EXCEPT !.typed = FALSE] }

NoActions == [a \in ActionTypes |-> 0]

\* inventory-service-contract.json, with stop_service both allowed and
\* forbidden, as an adaptive rule can leave it.
Sample ==
    [scope |->
        [allowed |-> [NoActions EXCEPT !["restart_pods"] = 1,
                                       !["scale_deployment"] = 1,
                                       !["rollback_deployment"] = 1,
                                       !["stop_service"] = 1],
         forbidden |-> {"stop_service"}, approval |-> {"rollback_deployment"},
         max_pod_restarts |-> 2, max_replicas |-> 10],
     max_scale_up_percentage |-> 200, minimum_available |-> 2,
     preserve_connections |-> TRUE, max_unavailability |-> 25,
     max_plan_retries |-> 3, postconditions |-> 2, adaptive_rules |-> <<>>]

Lenient ==
    [Sample EXCEPT !.minimum_available = 0, !.max_unavailability = 100,
                   !.preserve_connections = FALSE]

MCRequests ==
    [actions: BoundedSeq(SomeActions, 2) \ {<<>>},
     contract: {Sample, Lenient},
     history: {<<>>, <<[action |-> "restart_pods", success |-> FALSE]>>},
     metrics: {[total_pods |-> 0, active_connections |-> FALSE],
               [total_pods |-> 5, active_connections |-> FALSE],
               [total_pods |-> 8, active_connections |-> TRUE]},
     tool_calls: {Unset, 1},
     banned: {{}, {"rollback_deployment", "get_metrics"}}]

\* The pods the plan restarts.
RequestedRestarts(actions) ==
    MapThenSumSet(LAMBDA i : IF actions[i].type = "restart_pods"
                             THEN actions[i].count ELSE 0,
                  DOMAIN actions)

\* validators.py:75, of validate_limits: "total restarts (history +
\* requested) <= max_pod_restarts_per_incident".  The pods an approved plan
\* restarts, with the earlier restarts, stay within the contract's limit.
RestartsWithinLimit ==
    phase = "done" /\ Status = "APPROVED"
                   /\ RequestedRestarts(request.actions) > 0 =>
        PriorRestarts(request.history) + RequestedRestarts(request.actions)
            <= request.contract.scope.max_pod_restarts
=============================================================================
