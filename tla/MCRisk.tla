------------------------------- MODULE MCRisk -------------------------------
(***************************************************************************)
(* The risk score over every plan of at most four actions of each kind the *)
(* evaluator tells apart, on every scorecard the planner can have earned   *)
(* before.                                                                 *)
(***************************************************************************)
EXTENDS Assessment

Do(type, padded) ==
    [type |-> type, padded |-> padded, typed |-> TRUE, undo |-> FALSE,
     count |-> 1, replicas |-> 1, current |-> 0]

MCActions ==
    { Do("restart_pods", FALSE), Do("scale_deployment", FALSE),
      Do("rollback_deployment", FALSE), Do("rollback_deployment", TRUE) }

\* The risk evaluator reads only the approval requirements of a contract.
MCContract == [scope |-> [approval |-> {"restart_pods"}]]
=============================================================================
