-------------------------- MODULE ClusterExecution --------------------------
(***************************************************************************)
(* execute_actions on a driver: the simulated cluster, whose answer is     *)
(* decided by its state, a Kubernetes cluster, which answers late or not   *)
(* at all and has a controller of its own, or a driver of another backend, *)
(* which answers anything.  The simulated cluster is the incident's own;   *)
(* the Kubernetes cluster is watched for one incident.                     *)
(***************************************************************************)
EXTENDS Execution, Infrastructure, Kubernetes, SequencesExt

CONSTANTS
    Deployments,   \* names that a plan may target
    Existing,      \* those of them that there are
    FirstPods,     \* the pods of each at the time of the incident, not all healthy
    Plans,         \* the plans that the node may be given
    Undo           \* actions that a plan may give as compensation

ASSUME ClusterAssumption ==
    /\ FirstPods \in Seq(BOOLEAN) /\ \E i \in DOMAIN FirstPods : ~FirstPods[i]
    /\ Plans \subseteq Seq(NormalizedAction)
    /\ Undo \subseteq NormalizedAction
    /\ NoMetrics \notin ServiceMetrics
    /\ {"before", "release"} \subseteq Images

VARIABLES
    backend,   \* the driver that is configured
    targets,   \* the target of each action of the plan
    cluster,   \* the simulated deployments
    live,      \* the deployments of the Kubernetes cluster
    applied    \* ghost: the verbs that it was given for each of them

\* The registered drivers: the simulation, and those that touch a target.
Backends == {"mock", "kubernetes", "other"}

clusterVars == <<executeVars, backend, targets, cluster, live, applied>>

\* The node starts on a plan, some time after a release of everything there
\* is.
Init ==
    /\ normalized_actions \in Plans
    /\ ExecuteLocalsFresh
    /\ performed = 0 /\ restarted = 0
    /\ backend \in Backends
    /\ targets \in [DOMAIN normalized_actions -> Deployments]
    /\ cluster = [name \in Deployments |->
           IF name \in Existing
           THEN [pods |-> FirstPods, metrics |-> Measured(FirstPods, FirstRate)]
           ELSE NoDeployment]
    /\ live = [name \in Deployments |->
           [template    |-> [image |-> "release", stamp |-> 0],
            replicas    |-> Len(FirstPods),
            replicaSets |->
                IF name \in Existing
                THEN << [image |-> "before", stamp |-> 0],
                        [image |-> "release", stamp |-> 0] >>
                ELSE <<>>]]
    /\ applied = [name \in Deployments |-> <<>>]

Skip ==
    SkipReadOnly /\ UNCHANGED <<backend, targets, cluster, live, applied>>

\* The simulated cluster answers, and has changed accordingly.
PerformOnCluster ==
    /\ backend = "mock" /\ Going
    /\ LET name == targets[cursor]
           before == cluster[name]
           after == Served(before, Looking)
       IN  /\ PerformAction(Succeeds(before, Looking))
           /\ cluster' = [cluster EXCEPT ![name] = after]
    /\ UNCHANGED <<backend, targets, live, applied>>

\* The compensating action has a target of its own.
CompensateOnCluster ==
    /\ backend = "mock" /\ direction = "back"
    /\ \E name \in Deployments, undo \in Undo :
           /\ Compensate(Succeeds(cluster[name], undo))
           /\ cluster' = IF performed' # performed
                         THEN [cluster EXCEPT ![name] = Served(@, undo)]
                         ELSE cluster
    /\ UNCHANGED <<backend, targets, live, applied>>

\* The cluster is given a call, at a time that no other call has.
Apply(name, a) ==
    /\ Accepts(live[name], a)
    /\ live' = [live EXCEPT ![name] = Patched(@, a, performed + 1)]
    /\ applied' = [applied EXCEPT ![name] = Append(@, a.type)]

NotApplied == UNCHANGED <<live, applied>>

\* A call that is refused or does not get there has failed, and so has one
\* whose answer is lost.
PerformOnKubernetes ==
    /\ backend = "kubernetes" /\ Going
    /\ \/ PerformAction(TRUE) /\ Apply(targets[cursor], Looking)
       \/ PerformAction(FALSE) /\ (NotApplied \/ Apply(targets[cursor], Looking))
    /\ UNCHANGED <<backend, targets, cluster>>

CompensateOnKubernetes ==
    /\ backend = "kubernetes" /\ direction = "back"
    /\ \E name \in Deployments, undo \in Undo :
           IF cursor > 0 /\ Looking.type \notin ReadOnly /\ Looking.compensation
           THEN \/ Compensate(TRUE) /\ Apply(name, undo)
                \/ Compensate(FALSE) /\ (NotApplied \/ Apply(name, undo))
           ELSE Compensate(TRUE) /\ NotApplied
    /\ UNCHANGED <<backend, targets, cluster>>

\* The cluster's controller, at any time.
Reconcile ==
    /\ backend = "kubernetes"
    /\ \E name \in Deployments :
           /\ ~Settled(live[name])
           /\ live' = [live EXCEPT ![name] = Reconciled(@)]
    /\ UNCHANGED <<executeVars, backend, targets, cluster, applied>>

CallElsewhere ==
    /\ backend = "other"
    /\ \E ok \in BOOLEAN : PerformAction(ok) \/ Compensate(ok)
    /\ UNCHANGED <<backend, targets, cluster, live, applied>>

ClusterStep ==
    \/ Skip
    \/ PerformOnCluster \/ CompensateOnCluster
    \/ PerformOnKubernetes \/ CompensateOnKubernetes
    \/ CallElsewhere

Next == ClusterStep \/ Reconcile

Spec == Init /\ [][Next]_clusterVars

-----------------------------------------------------------------------------
(* Properties.                                                             *)

\* The types of those of the plan's first n actions whose places are in S,
\* in the plan's order.
Named(plan, S) ==
    LET named[n \in 0..Len(plan)] ==
            IF n \in S THEN Append(named[n - 1], plan[n].type)
            ELSE IF n = 0 THEN <<>> ELSE named[n - 1]
    IN  named

Mutating(plan) == { n \in DOMAIN plan : plan[n].type \notin ReadOnly }

\* Those that the walk back has something to call for.
Undoable(plan) == { n \in Mutating(plan) : plan[n].compensation }

Names(entries) == [i \in DOMAIN entries |-> entries[i].action]

\* The saga of execute_actions ("Compensate in reverse order of success"):
\* when the node returns after a failure, exactly the actions before the one
\* that failed that have a compensating action were compensated, newest
\* first, once each, and the failed action itself was not; without a failure
\* nothing is compensated.
CompensatesInReverse ==
    Executed =>
        IF direction = "forward" THEN compensations = <<>>
        ELSE \E failed \in Mutating(normalized_actions) :
                 /\ Names(results) =
                        Named(normalized_actions,
                              Mutating(normalized_actions))[failed]
                 /\ Names(compensations) =
                        Reverse(Named(normalized_actions,
                                      Undoable(normalized_actions))[failed - 1])

\* Nothing is executed after a failure: the results are those of the
\* mutating actions up to some place of the plan, in the plan's order, and
\* only the last may have failed; without a failure they are of them all.
StopsAtFirstFailure ==
    LET owed == Named(normalized_actions, Mutating(normalized_actions))
    IN  /\ \E n \in DOMAIN owed : Names(results) = owed[n]
        /\ \A i \in 1..(Len(results) - 1) : results[i].success
        /\ Executed /\ direction = "forward" =>
               /\ Names(results) = owed[Len(normalized_actions)]
               /\ \A i \in DOMAIN results : results[i].success

\* "After any mutation (restart, scale, rollback) the error rate and pod
\* counts are recomputed so postcondition checks see consistent data": after
\* any calls, also of a walk back, the counts that the postconditions are
\* checked on are those of the pods, and the error rate is low where every
\* pod is healthy and nowhere above what it was at the time of the incident.
MetricsFollowPods ==
    \A name \in Deployments :
        LET d == cluster[name]
        IN  IF d.metrics = NoMetrics THEN d.pods = <<>>
            ELSE /\ d.metrics = Measured(d.pods, d.metrics.error_rate)
                 /\ d.metrics.error_rate \in LeastRate..FirstRate
                 /\ d.pods # <<>> /\ d.pods = AllHealthy(d.pods)
                        => d.metrics.error_rate <= LowRate

\* The only rollback among the verbs comes before every restart.
RolledBackOnce(verbs) ==
    \E i \in DOMAIN verbs :
        /\ verbs[i] = "rollback_deployment"
        /\ \A j \in DOMAIN verbs \ {i} :
               /\ verbs[j] # "rollback_deployment"
               /\ verbs[j] = "restart_pods" => j > i

\* A rollback undoes the release it was meant for, whenever the controller
\* gets to it: a deployment that is rolled back once, before it is restarted,
\* runs what it ran before, whatever else the plan does to it and whichever
\* answers are lost.  (A rollback after a restart that the controller has
\* followed undoes the restart, and a second rollback undoes the first.)
RollbackUndoesRelease ==
    \A name \in Deployments :
        RolledBackOnce(applied[name]) => live[name].template.image = "before"
=============================================================================
