----------------------------- MODULE Kubernetes -----------------------------
(***************************************************************************)
(* A deployment as the Kubernetes driver sees it                           *)
(* (examples/incident_commander/drivers/kubernetes.py).  The driver only   *)
(* edits the deployment's template and replicas; a controller that is not  *)
(* part of the program follows later and keeps one ReplicaSet per template,*)
(* numbered by revision.                                                   *)
(***************************************************************************)
EXTENDS Contracts

CONSTANT Images   \* what pods may run, among it what they ran "before" the last release

\* stamp: the restart annotation, 0 where there is none.
Template == [image: Images, stamp: Nat]

\* replicaSets: the templates of the ReplicaSets, by revision.
LiveDeployment ==
    [replicaSets: Seq(Template), template: Template, replicas: Nat]

\* Deployments that do not exist have no ReplicaSet.
Exists(d) == d.replicaSets # <<>>

\* What the API server accepts; the driver's own int() refuses a parameter
\* that is no number, and it knows three verbs.
Accepts(d, a) ==
    /\ Exists(d) /\ a.typed
    /\ \/ a.type = "restart_pods"
       \/ a.type = "scale_deployment" /\ a.replicas >= 0
       \/ a.type = "rollback_deployment" /\ Len(d.replicaSets) >= 2

\* Mutant: the newest revision is applied again.
NewestRevision(d) == d.replicaSets[Len(d.replicaSets)]

\* The revision that the action names is not looked at.
PreviousRevision(d) == d.replicaSets[Len(d.replicaSets) - 1]

\* A restart is a new stamp, whatever its count; a rollback applies the
\* template of the last revision but one.  (The code sends its to_dict(), with
\* Python's names and nulls; the API server is taken to read the template.)
Patched(d, a, now) ==
    CASE a.type = "restart_pods"        -> [d EXCEPT !.template.stamp = now]
      [] a.type = "scale_deployment"    -> [d EXCEPT !.replicas = a.replicas]
      [] a.type = "rollback_deployment" -> [d EXCEPT !.template = PreviousRevision(d)]

Settled(d) == Exists(d) => d.template = NewestRevision(d)

\* The controller: a template that has a ReplicaSet gives it the newest
\* revision, and any other gets a new one.
Revised(d) ==
    Append(SelectSeq(d.replicaSets, LAMBDA t : t # d.template), d.template)

Reconciled(d) == [d EXCEPT !.replicaSets = Revised(d)]
=============================================================================
