--------------------------- MODULE Infrastructure ---------------------------
(***************************************************************************)
(* The simulated cluster of core/execution/tools.py behind the mock driver *)
(* (core/execution/drivers/mock.py).  A pod is healthy or not; a           *)
(* deployment nobody has created has no pods and no metrics.  Of the       *)
(* metrics the latency and the request rate, which no operation changes,   *)
(* are left out.                                                           *)
(***************************************************************************)
EXTENDS Contracts, FiniteSets

CONSTANT NoMetrics   \* a deployment that was never measured

\* error_rate: in hundredths of a percent.
ServiceMetrics == [healthy_pods: Nat, total_pods: Nat, error_rate: Nat]

Deployment == [pods: Seq(BOOLEAN), metrics: ServiceMetrics \cup {NoMetrics}]

NoDeployment == [pods |-> <<>>, metrics |-> NoMetrics]

\* What it is at the time of the incident, where nothing was measured (12.4),
\* and what a rollback leaves (0.3).
FirstRate == 1240
LowRate == 30
LeastRate == 10

Healthy(pods) == Cardinality({i \in DOMAIN pods : pods[i]})

Measured(pods, rate) ==
    [healthy_pods |-> Healthy(pods), total_pods |-> Len(pods),
     error_rate |-> rate]

\* The share of a rate that the unhealthy pods have in them all, to the
\* nearest hundredth (a tie goes up, which of Python's floats it may not),
\* and all of it where there is no pod.
Share(rate, pods) ==
    IF pods = <<>> THEN rate
    ELSE (2 * rate * (Len(pods) - Healthy(pods)) + Len(pods))
             \div (2 * Len(pods))

RateBefore(d) ==
    IF d.metrics = NoMetrics THEN FirstRate ELSE d.metrics.error_rate

\* _recalculate_metrics: the error rate is computed from the one before, so
\* that every call lowers it again while a pod is healthy.
Recalculated(d, pods) ==
    LET share == Share(RateBefore(d), pods)
    IN  [pods |-> pods,
         metrics |-> Measured(pods, IF share > LeastRate THEN share
                                    ELSE LeastRate)]

\* restart_pods: the first count unhealthy pods.
Healed(pods, count) ==
    [i \in DOMAIN pods |->
        pods[i] \/ Cardinality({j \in 1..i : ~pods[j]}) <= count]

\* scale_deployment: healthy pods are added, or pods leave from the tail.
Resized(pods, replicas) ==
    [i \in 1..replicas |-> IF i <= Len(pods) THEN pods[i] ELSE TRUE]

GenericVerbs ==
    {"run_command", "restart_service", "start_service", "stop_service",
     "run_batch_job", "http_request"}

\* The answer of MockDriver.execute.  A parameter that is no number raises
\* before the tool is called; the client turns that into a failure.
Succeeds(d, a) ==
    \/ a.type \in {"restart_pods", "rollback_deployment"} /\ a.typed
           /\ d.pods # <<>>
    \/ a.type = "scale_deployment" /\ a.typed /\ a.replicas >= 0
    \/ a.type \in GenericVerbs

AllHealthy(pods) == [i \in DOMAIN pods |-> TRUE]

\* Mutant: a rollback sets the error rate and does not count again.
ServedUnmeasured(d, a) ==
    IF ~Succeeds(d, a) THEN d
    ELSE CASE a.type = "restart_pods" ->
                  Recalculated(d, Healed(d.pods, a.count))
           [] a.type = "scale_deployment" ->
                  Recalculated(d, Resized(d.pods, a.replicas))
           [] a.type = "rollback_deployment" ->
                  [pods |-> AllHealthy(d.pods),
                   metrics |-> [d.metrics EXCEPT !.error_rate = LowRate]]
           [] OTHER -> d

\* The deployment after the call: every check comes before any change.  A
\* rollback measures the pods and then sets the error rate.
Served(d, a) ==
    IF ~Succeeds(d, a) THEN d
    ELSE CASE a.type = "restart_pods" ->
                  Recalculated(d, Healed(d.pods, a.count))
           [] a.type = "scale_deployment" ->
                  Recalculated(d, Resized(d.pods, a.replicas))
           [] a.type = "rollback_deployment" ->
                  [pods |-> AllHealthy(d.pods),
                   metrics |-> Measured(AllHealthy(d.pods), LowRate)]
           [] OTHER -> d
=============================================================================
