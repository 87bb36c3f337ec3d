---------------------------- MODULE MCExecution ----------------------------
(***************************************************************************)
(* One run of the node alone, on every plan of at most three actions, with *)
(* and without a compensating action each, against one deployment that is  *)
(* half healthy and one that does not exist.                               *)
(***************************************************************************)
EXTENDS ClusterExecution

Act(type, count, replicas, compensation) ==
    [type |-> type, typed |-> TRUE, count |-> count, replicas |-> replicas,
     current |-> 0, compensation |-> compensation]

SomeActions ==
    { Act("restart_pods", 1, 0, TRUE), Act("restart_pods", -1, 0, TRUE),
      Act("scale_deployment", 0, 1, TRUE), Act("scale_deployment", 0, 4, TRUE),
      Act("rollback_deployment", 0, 0, FALSE), Act("get_metrics", 0, 0, TRUE),
      Act("refund_transaction", 0, 0, FALSE) }

MCPlans == BoundedSeq(SomeActions, 3)

MCUndo ==
    { Act("scale_deployment", 0, 3, FALSE), Act("rollback_deployment", 0, 0, FALSE) }

MCFirstPods == <<TRUE, FALSE, FALSE>>
=============================================================================
