----------------------------- MODULE MCWorkflow -----------------------------
(***************************************************************************)
(* Instances of the workflow: contracts shaped like the sample contract    *)
(* with few retries, and plans that reach each verdict.                    *)
(***************************************************************************)
EXTENDS WorkflowGovernance

Do(type, count, replicas) ==
    [type |-> type, padded |-> FALSE, typed |-> TRUE, undo |-> TRUE,
     count |-> count, replicas |-> replicas, current |-> 5]

Restart        == <<Do("restart_pods", 1, 0)>>
LookAndRestart == <<Do("get_metrics", 1, 0), Do("restart_pods", 1, 0)>>
Untyped        == <<[Do("scale_deployment", 1, 8) EXCEPT !.typed = FALSE]>>
PaddedRollback ==
    <<[Do("rollback_deployment", 1, 0) EXCEPT !.padded = TRUE]>>

MCPlans == {LookAndRestart, PaddedRollback, Untyped}

NoActions == [a \in ActionTypes |-> 0]

\* inventory-service-contract.json without its rule.
Static(retries, rules) ==
    [scope |->
        [allowed |-> [NoActions EXCEPT !["restart_pods"] = 1,
                                       !["scale_deployment"] = 1,
                                       !["rollback_deployment"] = 1],
         forbidden |-> {"stop_service"}, approval |-> {"rollback_deployment"},
         max_pod_restarts |-> 2, max_replicas |-> 10],
     max_scale_up_percentage |-> 200, minimum_available |-> 2,
     preserve_connections |-> TRUE, max_unavailability |-> 25,
     max_plan_retries |-> retries, postconditions |-> rules,
     adaptive_rules |-> <<>>]

OnCritical(mutation) ==
    [malformed |-> FALSE, severity |-> "CRITICAL", max_trust |-> Unset,
     needs_flag |-> FALSE, mutation |-> mutation]

NoMutation ==
    [override_max_replicas |-> Unset, override_max_pod_restarts |-> Unset,
     remove_allowed |-> NoActions, add_forbidden |-> {},
     require_approval |-> {}]

\* The rule of inventory-service-contract.json.
Adaptive(retries) ==
    [Static(retries, 1) EXCEPT !.adaptive_rules =
        << OnCritical([NoMutation EXCEPT
               !.override_max_pod_restarts = 1,
               !.remove_allowed["scale_deployment"] = 1]) >>]

\* Nothing is allowed, and the rule leaves no replica at all.
Unbuildable ==
    [Static(1, 1) EXCEPT
        !.scope.allowed = NoActions,
        !.adaptive_rules =
            << OnCritical([NoMutation EXCEPT !.override_max_replicas = 0]) >>]

MCContractFiles == {Adaptive(1), Static(2, 0), Unbuildable}

NoRules == {Static(2, 0)}

Sev(severity) ==
    [severity |-> severity, checkout |-> FALSE,
     metrics |-> [total_pods |-> 8, active_connections |-> FALSE]]

MCIncidents == {Sev("CRITICAL"), Sev("LOW")}

LowIncident == {Sev("LOW")}

RestartOnly == {Restart}

OneRule == {Static(1, 1)}

-----------------------------------------------------------------------------
(* What the repository says and the code does not do.                      *)

\* nodes.py:703, "No postconditions defined - treating as success": a
\* contract without postconditions is done after one execution.
NoPostconditionsIsSuccess ==
    retrieved_contract # NoContract =>
        (retrieved_contract.postconditions = 0 => batches <= 1)

\* docs/USE-CASE.md:139, "If the postconditions fail, the incident is not
\* marked resolved": an incident whose last postconditions failed does not
\* end in SUCCESS, however often it was submitted.
PostconditionsDecide ==
    pc = "END" /\ final_status = "SUCCESS" => AllPassed
=============================================================================
