---------------------------- MODULE PolicyProofs ----------------------------
(***************************************************************************)
(* Facts about the operators that the program's decisions are made of, for *)
(* every contract, plan and history: the effective contract, the checks of *)
(* the guardrails, the risk score and the planner's scorecard.             *)
(***************************************************************************)
EXTENDS Risk, Guardrails, SequenceTheorems, FiniteSetTheorems,
        WellFoundedInduction, TLAPS

\* Induction on the natural numbers, for a set in place of a predicate: a
\* property P is proved for all of them as membership in {n \in Nat : P(n)}.
LEMMA InductionBySet ==
    ASSUME NEW S, 0 \in S, \A n \in Nat : n \in S => n + 1 \in S
    PROVE  \A n \in Nat : n \in S
<1> DEFINE T == Nat \ S
<1>1. SUFFICES ASSUME T # {}
               PROVE  FALSE
  OBVIOUS
<1>2. T \subseteq Nat
  OBVIOUS
<1> HIDE DEF T
<1>4. PICK x \in T : \A y \in T : <<y, x>> \notin OpToRel(<, Nat)
  BY <1>1, <1>2, NatLessThanWellFounded, WFMin
<1>5. \A y \in T : ~(y < x)
  BY <1>2, <1>4 DEF OpToRel
<1>6. x \in Nat \ {0} /\ x - 1 \in Nat /\ x - 1 < x
  BY <1>2 DEF T
<1>7. x - 1 \in S
  BY <1>5, <1>6 DEF T
<1> QED
  BY <1>6, <1>7 DEF T

-----------------------------------------------------------------------------
(* Adaptive rules, one by one and all of them.                             *)

\* A mutation keeps a scope well formed, whatever the rule says.
LEMMA MutationTyped ==
    ASSUME NEW s \in Scope, NEW m \in Mutation, NEW b \in Scope
    PROVE  ApplyMutation(s, m, b) \in Scope
<1>1. /\ s.allowed \in [ActionTypes -> Nat]
      /\ s.forbidden \subseteq ActionTypes
      /\ s.approval \subseteq ActionTypes
      /\ s.max_pod_restarts \in Int /\ s.max_replicas \in Int
  BY DEF Scope
<1>2. b.max_pod_restarts \in Int /\ b.max_replicas \in Int
  BY DEF Scope
<1>3. /\ m.remove_allowed \in [ActionTypes -> Nat]
      /\ m.add_forbidden \subseteq ActionTypes
      /\ m.require_approval \subseteq ActionTypes
      /\ m.override_max_pod_restarts \in Int \cup {Unset}
      /\ m.override_max_replicas \in Int \cup {Unset}
  BY DEF Mutation
<1>4. [a \in ActionTypes |->
          IF s.allowed[a] <= m.remove_allowed[a] THEN 0
          ELSE s.allowed[a] - m.remove_allowed[a]] \in [ActionTypes -> Nat]
  BY <1>1, <1>3
<1>5. /\ Narrowed(m.override_max_pod_restarts, b.max_pod_restarts,
                  s.max_pod_restarts) \in Int
      /\ Narrowed(m.override_max_replicas, b.max_replicas,
                  s.max_replicas) \in Int
  BY <1>1, <1>2, <1>3 DEF Narrowed
<1> QED
  BY <1>1, <1>3, <1>4, <1>5 DEF ApplyMutation, Scope

\* A mutation takes permissions away and adds prohibitions and approvals,
\* and if no limit of the scope is above the base's, none becomes so.
LEMMA MutationTightens ==
    ASSUME NEW s \in Scope, NEW m \in Mutation, NEW b \in Scope
    PROVE  LET t == ApplyMutation(s, m, b) IN
           /\ \A a \in ActionTypes : t.allowed[a] <= s.allowed[a]
           /\ s.forbidden \subseteq t.forbidden
           /\ s.approval \subseteq t.approval
           /\ s.max_pod_restarts <= b.max_pod_restarts
                  => t.max_pod_restarts <= b.max_pod_restarts
           /\ s.max_replicas <= b.max_replicas
                  => t.max_replicas <= b.max_replicas
<1>1. /\ s.allowed \in [ActionTypes -> Nat]
      /\ s.max_pod_restarts \in Int /\ s.max_replicas \in Int
      /\ b.max_pod_restarts \in Int /\ b.max_replicas \in Int
  BY DEF Scope
<1>2. /\ m.remove_allowed \in [ActionTypes -> Nat]
      /\ m.override_max_pod_restarts \in Int \cup {Unset}
      /\ m.override_max_replicas \in Int \cup {Unset}
  BY DEF Mutation
<1>3. ASSUME NEW a \in ActionTypes
      PROVE  ApplyMutation(s, m, b).allowed[a] <= s.allowed[a]
  BY <1>1, <1>2 DEF ApplyMutation
<1>4. /\ Narrowed(m.override_max_pod_restarts, b.max_pod_restarts,
                  s.max_pod_restarts)
             \in {s.max_pod_restarts}
                     \cup {n \in Int : n <= b.max_pod_restarts}
      /\ Narrowed(m.override_max_replicas, b.max_replicas, s.max_replicas)
             \in {s.max_replicas} \cup {n \in Int : n <= b.max_replicas}
  BY <1>1, <1>2 DEF Narrowed
<1> QED
  BY <1>1, <1>3, <1>4 DEF ApplyMutation

\* What the i-th rule makes of the scopes before it.
RuleStep(b, severity, scopes, i) ==
    IF i = 0 THEN b.scope
    ELSE IF Applies(b.adaptive_rules[i], severity)
    THEN ApplyMutation(scopes[i - 1], b.adaptive_rules[i].mutation, b.scope)
    ELSE scopes[i - 1]

\* The recursion of ScopeAfter has a solution, so ScopeAfter is one.
LEMMA ScopeAfterUnfolds ==
    ASSUME NEW b, NEW severity, Len(b.adaptive_rules) \in Nat
    PROVE  ScopeAfter(b, severity) =
               [i \in 0..Len(b.adaptive_rules) |->
                    RuleStep(b, severity, ScopeAfter(b, severity), i)]
<1> DEFINE last == Len(b.adaptive_rules)
           Solves(f, k) == f = [i \in 0..k |-> RuleStep(b, severity, f, i)]
           S == {k \in Nat : \E f : Solves(f, k)}
<1>1. 0 \in S
  <2>1. Solves([i \in 0..0 |-> b.scope], 0)
    BY DEF RuleStep
  <2> QED
    BY <2>1
<1>2. ASSUME NEW k \in Nat, k \in S
      PROVE  k + 1 \in S
  <2>1. PICK f : Solves(f, k)
    BY <1>2
  <2> DEFINE g == [i \in 0..(k + 1) |->
                      IF i <= k THEN f[i] ELSE RuleStep(b, severity, f, i)]
  <2>2. ASSUME NEW i \in 0..(k + 1)
        PROVE  g[i] = RuleStep(b, severity, g, i)
    <3>1. i # 0 => g[i - 1] = f[i - 1]
      OBVIOUS
    <3>2. RuleStep(b, severity, g, i) = RuleStep(b, severity, f, i)
      BY <3>1 DEF RuleStep
    <3>3. i <= k => f[i] = RuleStep(b, severity, f, i)
      BY <2>1
    <3> QED
      BY <3>2, <3>3
  <2>3. Solves(g, k + 1)
    BY <2>2
  <2> HIDE DEF g, Solves
  <2> QED
    BY <2>3
<1> HIDE DEF S
<1>3. last \in S
  BY <1>1, <1>2, InductionBySet
<1>4. \E f : Solves(f, last)
  BY <1>3 DEF S
<1>5. ScopeAfter(b, severity) = CHOOSE f : Solves(f, last)
  BY DEF ScopeAfter, RuleStep
<1> HIDE DEF Solves, last
<1>6. Solves(ScopeAfter(b, severity), last)
  BY <1>4, <1>5
<1> QED
  BY <1>6 DEF Solves, last

\* The scope s gives nothing that the scope t does not.
Within(s, t) ==
    /\ \A a \in ActionTypes : s.allowed[a] <= t.allowed[a]
    /\ t.forbidden \subseteq s.forbidden
    /\ t.approval \subseteq s.approval
    /\ s.max_pod_restarts <= t.max_pod_restarts
    /\ s.max_replicas <= t.max_replicas

\* One rule keeps a scope within the contract file's.
LEMMA MutationWithin ==
    ASSUME NEW s \in Scope, NEW m \in Mutation, NEW b \in Scope, Within(s, b)
    PROVE  Within(ApplyMutation(s, m, b), b)
<1> DEFINE t == ApplyMutation(s, m, b)
<1>1. /\ \A a \in ActionTypes : t.allowed[a] <= s.allowed[a]
      /\ s.forbidden \subseteq t.forbidden
      /\ s.approval \subseteq t.approval
      /\ t.max_pod_restarts <= b.max_pod_restarts
      /\ t.max_replicas <= b.max_replicas
  BY MutationTightens DEF Within
<1>2. t \in Scope
  BY MutationTyped
<1> HIDE DEF t
<1>3. \A a \in ActionTypes :
          /\ t.allowed[a] \in Nat /\ s.allowed[a] \in Nat
          /\ b.allowed[a] \in Nat
  BY <1>2 DEF Scope
<1>4. \A a \in ActionTypes : t.allowed[a] <= b.allowed[a]
  BY <1>1, <1>3 DEF Within
<1> QED
  BY <1>1, <1>4 DEF Within, t

\* After any number of rules the scope is well formed and within the file's.
LEMMA ScopeAfterWithin ==
    ASSUME NEW b \in Contract, NEW severity
    PROVE  \A i \in 0..Len(b.adaptive_rules) :
               /\ ScopeAfter(b, severity)[i] \in Scope
               /\ Within(ScopeAfter(b, severity)[i], b.scope)
<1> DEFINE last == Len(b.adaptive_rules)
           after == ScopeAfter(b, severity)
           Holds(i) == after[i] \in Scope /\ Within(after[i], b.scope)
           S == {i \in Nat : i <= last => Holds(i)}
<1>1. /\ last \in Nat /\ b.scope \in Scope
      /\ b.adaptive_rules \in [1..last -> Rule]
  BY DEF Contract
<1>2. after = [i \in 0..last |-> RuleStep(b, severity, after, i)]
  BY <1>1, ScopeAfterUnfolds
<1> HIDE DEF after, last
<1>3. 0 \in S
  <2>1. after[0] = b.scope
    BY <1>1, <1>2 DEF RuleStep
  <2>2. Within(b.scope, b.scope)
    BY <1>1 DEF Within, Scope
  <2> QED
    BY <1>1, <2>1, <2>2
<1>4. ASSUME NEW k \in Nat, k \in S
      PROVE  k + 1 \in S
  <2> SUFFICES ASSUME k + 1 <= last
               PROVE  Holds(k + 1)
    OBVIOUS
  <2>1. Holds(k) /\ k + 1 \in 1..last /\ k + 1 \in 0..last
    BY <1>1, <1>4
  <2>2. after[k + 1] = RuleStep(b, severity, after, k + 1)
    BY <1>2, <2>1
  <2>3. after[k + 1] = after[k] \/
        after[k + 1] = ApplyMutation(after[k],
                           b.adaptive_rules[k + 1].mutation, b.scope)
    BY <2>2 DEF RuleStep
  <2>4. b.adaptive_rules[k + 1].mutation \in Mutation
    BY <1>1, <2>1 DEF Rule
  <2> QED
    BY <1>1, <2>1, <2>3, <2>4, MutationTyped, MutationWithin
<1> HIDE DEF S
<1>5. \A i \in Nat : i \in S
  BY <1>3, <1>4, InductionBySet
<1> QED
  BY <1>5 DEF S, last, after

\* "We never elevate above the base contract" (adaptive.py), for the
\* contract that the workflow works with: it is the file's but for a scope
\* within the file's.
THEOREM EffectiveWithinFile ==
    ASSUME NEW b \in Contract, NEW severity
    PROVE  /\ Effective(b, severity) \in Contract
           /\ Effective(b, severity)
                  = [b EXCEPT !.scope = Effective(b, severity).scope]
           /\ Within(Effective(b, severity).scope, b.scope)
<1> DEFINE s == ScopeAfter(b, severity)[Len(b.adaptive_rules)]
<1>1. s \in Scope /\ Within(s, b.scope)
  <2>1. Len(b.adaptive_rules) \in Nat
    BY DEF Contract
  <2>2. Len(b.adaptive_rules) \in 0..Len(b.adaptive_rules)
    BY <2>1
  <2> QED
    BY <2>2, ScopeAfterWithin
<1>2. Effective(b, severity) = [b EXCEPT !.scope = s]
  BY DEF Effective
<1> HIDE DEF s
<1>3. [b EXCEPT !.scope = s].scope = s /\ [b EXCEPT !.scope = s] \in Contract
  BY <1>1 DEF Contract
<1> QED
  BY <1>1, <1>2, <1>3

-----------------------------------------------------------------------------
(* The guardrails.                                                         *)

\* Counting the earlier restarts gives an integer.
LEMMA PriorRestartsTyped ==
    ASSUME NEW history \in Seq(HistoryEntry)
    PROVE  PriorRestarts(history) \in Nat
<1>1. DOMAIN history = 1..Len(history) /\ Len(history) \in Nat
  OBVIOUS
<1>2. IsFiniteSet(1..Len(history))
  BY <1>1, FS_Interval
<1>3. IsFiniteSet({i \in DOMAIN history :
                       history[i].action = "restart_pods"})
  BY <1>1, <1>2, FS_Subset
<1> QED
  BY <1>3, FS_CardinalityType DEF PriorRestarts

\* One entry more counts at most once.
LEMMA PriorRestartsAppended ==
    ASSUME NEW history \in Seq(HistoryEntry), NEW entry \in HistoryEntry
    PROVE  PriorRestarts(Append(history, entry))
               = PriorRestarts(history)
                     + (IF entry.action = "restart_pods" THEN 1 ELSE 0)
<1> DEFINE n == Len(history)
           longer == Append(history, entry)
           before == {i \in 1..n : history[i].action = "restart_pods"}
<1>1. n \in Nat /\ DOMAIN history = 1..n
  OBVIOUS
<1>2. /\ Len(longer) = n + 1 /\ DOMAIN longer = 1..(n + 1)
      /\ longer[n + 1] = entry
      /\ \A i \in 1..n : longer[i] = history[i]
  <2>1. longer \in Seq(HistoryEntry)
    OBVIOUS
  <2> QED
    BY <2>1, AppendProperties
<1>3. IsFiniteSet(before)
  <2>1. IsFiniteSet(1..n)
    BY <1>1, FS_Interval
  <2> QED
    BY <2>1, FS_Subset
<1>4. PriorRestarts(history) = Cardinality(before)
  BY <1>1 DEF PriorRestarts
<1> HIDE DEF longer, n
<1>5. {i \in DOMAIN longer : longer[i].action = "restart_pods"}
          = IF entry.action = "restart_pods" THEN before \cup {n + 1}
            ELSE before
  BY <1>1, <1>2
<1>6. n + 1 \notin before
  BY <1>1
<1>7. Cardinality(before \cup {n + 1}) = Cardinality(before) + 1
  BY <1>3, <1>6, FS_AddElement
<1>8. Cardinality(before) \in Nat
  BY <1>3, FS_CardinalityType
<1> HIDE DEF before
<1>9. CASE entry.action = "restart_pods"
  BY <1>4, <1>5, <1>7, <1>9 DEF PriorRestarts, longer
<1>10. CASE entry.action # "restart_pods"
  <2>1. PriorRestarts(Append(history, entry)) = Cardinality(before)
    BY <1>5, <1>10 DEF PriorRestarts, longer
  <2>2. Cardinality(before) + 0 = Cardinality(before)
    BY <1>8
  <2> QED
    BY <1>4, <1>10, <2>1, <2>2
<1> QED
  BY <1>9, <1>10

\* Entries of other actions are not counted.
LEMMA PriorRestartsSkipped ==
    ASSUME NEW history \in Seq(HistoryEntry), NEW more \in Seq(HistoryEntry),
           \A i \in DOMAIN more : more[i].action # "restart_pods"
    PROVE  PriorRestarts(history \o more) = PriorRestarts(history)
<1> DEFINE n == Len(history)
           k == Len(more)
           both == history \o more
<1>1. n \in Nat /\ k \in Nat /\ DOMAIN history = 1..n /\ DOMAIN more = 1..k
  OBVIOUS
<1>2. /\ both \in Seq(HistoryEntry) /\ Len(both) = n + k
      /\ \A i \in 1..(n + k) :
             both[i] = IF i <= n THEN history[i] ELSE more[i - n]
  BY ConcatProperties
<1>3. DOMAIN both = 1..(n + k)
  BY <1>2
<1> HIDE DEF n, k, both
<1>4. \A i \in (n + 1)..(n + k) : both[i].action # "restart_pods"
  <2> SUFFICES ASSUME NEW i \in (n + 1)..(n + k)
               PROVE  both[i].action # "restart_pods"
    OBVIOUS
  <2>1. i - n \in 1..k /\ i \in 1..(n + k) /\ ~(i <= n)
    BY <1>1
  <2> QED
    BY <1>1, <1>2, <2>1
<1>5. {i \in DOMAIN both : both[i].action = "restart_pods"}
          = {i \in DOMAIN history : history[i].action = "restart_pods"}
  <2>1. ASSUME NEW i \in 1..(n + k), both[i].action = "restart_pods"
        PROVE  i \in 1..n /\ history[i].action = "restart_pods"
    BY <1>1, <1>2, <1>4, <2>1
  <2>2. ASSUME NEW i \in 1..n, history[i].action = "restart_pods"
        PROVE  i \in 1..(n + k) /\ both[i].action = "restart_pods"
    BY <1>1, <1>2, <2>2
  <2> QED
    BY <1>1, <1>3, <2>1, <2>2
<1> QED
  BY <1>5 DEF PriorRestarts, both

\* A contract whose scope is tighter lets no other action through, and asks
\* for a human no less.
LEMMA TighterRestricts ==
    ASSUME NEW b \in Contract, NEW s \in Scope, Within(s, b.scope),
           NEW a \in NormalizedAction, NEW history \in Seq(HistoryEntry),
           NEW metrics \in Metrics,
           ActionViolations(a, [b EXCEPT !.scope = s], history,
                            metrics) = {}
    PROVE  /\ ActionViolations(a, b, history, metrics) = {}
           /\ NeedsApproval(a, b)
                  => NeedsApproval(a, [b EXCEPT !.scope = s])
<1> DEFINE Adapted == [b EXCEPT !.scope = s]
<1>1. /\ Adapted.scope = s
      /\ Adapted.max_scale_up_percentage = b.max_scale_up_percentage
      /\ Adapted.minimum_available = b.minimum_available
      /\ Adapted.preserve_connections = b.preserve_connections
      /\ Adapted.max_unavailability = b.max_unavailability
  BY DEF Contract
<1>2. /\ s.allowed \in [ActionTypes -> Nat]
      /\ b.scope.allowed \in [ActionTypes -> Nat]
      /\ s.max_pod_restarts \in Int /\ s.max_replicas \in Int
      /\ b.scope.max_pod_restarts \in Int
      /\ b.scope.max_replicas \in Int
  BY DEF Scope, Contract
<1>3. ActionViolations(a, Adapted, history, metrics) = {}
  OBVIOUS
<1> SUFFICES /\ ActionViolations(a, b, history, metrics) = {}
             /\ NeedsApproval(a, b) => NeedsApproval(a, Adapted)
  OBVIOUS
<1> HIDE DEF Adapted
<1>4. /\ a.type \in ActionTypes
      /\ a.count \in Int /\ a.replicas \in Int
  BY DEF NormalizedAction
<1>5. CASE a.type \in ReadOnly
  BY <1>5 DEF ActionViolations, NeedsApproval, Examined
<1>6. CASE a.type \notin ReadOnly
  <2>1. ~IsForbidden(s, a.type) /\ IsAllowed(s, a.type)
    BY <1>1, <1>6, <1>3 DEF ActionViolations
  <2>2. ~IsForbidden(b.scope, a.type) /\ IsAllowed(b.scope, a.type)
    BY <2>1, <1>2, <1>4 DEF Within, IsForbidden, IsAllowed
  <2>3. /\ LimitViolations(a, Adapted, history) = {}
        /\ AvailabilityViolations(a, Adapted, metrics) = {}
    BY <1>1, <1>6, <1>3, <2>1 DEF ActionViolations
  <2>4. AvailabilityViolations(a, b, metrics) = {}
    BY <1>1, <2>3 DEF AvailabilityViolations
  <2>5. LimitViolations(a, b, history) = {}
    <3> DEFINE prior == PriorRestarts(history)
    <3>1. prior \in Nat
      BY PriorRestartsTyped
    <3> HIDE DEF prior
    <3>2. a.type = "restart_pods" => ~(prior + a.count > s.max_pod_restarts)
      BY <1>1, <2>3 DEF LimitViolations, prior
    <3>3. a.type = "restart_pods"
              => ~(prior + a.count > b.scope.max_pod_restarts)
      BY <3>1, <3>2, <1>2, <1>4 DEF Within
    <3>4. a.type = "scale_deployment" => ~(a.replicas > s.max_replicas)
      BY <1>1, <2>3 DEF LimitViolations
    <3>5. a.type = "scale_deployment"
              => ~(a.replicas > b.scope.max_replicas)
      BY <3>4, <1>2, <1>4 DEF Within
    <3>6. a.type = "scale_deployment" =>
              ~(/\ a.current > 0
                /\ a.replicas * 100
                       > b.max_scale_up_percentage * a.current)
      BY <1>1, <2>3 DEF LimitViolations
    <3> QED
      BY <3>3, <3>5, <3>6 DEF LimitViolations, prior
  <2>6. NeedsApproval(a, b) => NeedsApproval(a, Adapted)
    BY <1>1, <1>6, <2>1
       DEF NeedsApproval, Examined, RequiresApproval, Within
  <2> QED
    BY <1>6, <2>2, <2>4, <2>5, <2>6 DEF ActionViolations
<1> QED
  BY <1>5, <1>6

\* What the guardrails let through under the effective contract they let
\* through under the contract file, for a whole plan.
THEOREM PassesUnderFile ==
    ASSUME NEW b \in Contract, NEW severity,
           NEW actions \in Seq(NormalizedAction),
           NEW history \in Seq(HistoryEntry), NEW metrics \in Metrics,
           Passes(actions, Effective(b, severity), history, metrics)
    PROVE  Passes(actions, b, history, metrics)
<1> DEFINE s == Effective(b, severity).scope
<1>1. /\ Effective(b, severity) = [b EXCEPT !.scope = s]
      /\ Within(s, b.scope) /\ s \in Scope
  BY EffectiveWithinFile DEF Contract
<1> HIDE DEF s
<1>2. ASSUME NEW i \in DOMAIN actions
      PROVE  ActionViolations(actions[i], b, history, metrics) = {}
  <2>1. actions[i] \in NormalizedAction
    OBVIOUS
  <2>2. ActionViolations(actions[i], Effective(b, severity), history,
                         metrics) = {}
    BY DEF Passes, PlanViolations
  <2> QED
    BY <1>1, <2>1, <2>2, TighterRestricts
<1> QED
  BY <1>2 DEF Passes, PlanViolations

-----------------------------------------------------------------------------
(* The risk score.                                                         *)

\* The points are a natural number, and at least those of the severity and
\* of one action.
LEMMA PointsBound ==
    ASSUME NEW plan \in Seq(PlannedAction), plan # <<>>,
           NEW severity \in Severities, NEW checkout \in BOOLEAN,
           NEW contract
    PROVE  /\ Points(plan, severity, checkout, contract) \in Nat
           /\ Points(plan, severity, checkout, contract)
                  >= SeverityPoints(severity) + 5
<1>1. SeverityPoints(severity) \in Nat
  BY DEF SeverityPoints, Severities
<1>2. Len(plan) \in Nat /\ Len(plan) >= 1
  OBVIOUS
<1>3. ComplexityPoints(plan) \in Nat /\ ComplexityPoints(plan) >= 5
  <2> DEFINE size == IF Len(plan) < 4 THEN 5 * Len(plan) ELSE 20
             kind == IF Recognised(plan, "rollback_deployment") THEN 20
                     ELSE IF Recognised(plan, "scale_deployment") THEN 10
                     ELSE 0
  <2>1. size \in Nat /\ size >= 5
    BY <1>2
  <2>2. kind \in Nat
    OBVIOUS
  <2>3. ComplexityPoints(plan) = size + kind
    BY DEF ComplexityPoints
  <2> HIDE DEF size, kind
  <2> QED
    BY <2>1, <2>2, <2>3
<1> HIDE DEF SeverityPoints, ComplexityPoints
<1> QED
  BY <1>1, <1>3 DEF Points

\* Scaling by trust leaves at least seven tenths.
LEMMA ScaledBound ==
    ASSUME NEW points \in Nat, NEW trust \in 0..60
    PROVE  /\ Scaled(points, trust) \in 0..100
           /\ points >= 45 => Scaled(points, trust) > 30
<1> DEFINE factor == 130 - trust
<1>1. factor \in 70..130
  OBVIOUS
<1> HIDE DEF factor
<1>2. points * factor \in Nat
  BY <1>1
<1>3. points >= 45 => points * factor >= 3150
  <2> SUFFICES ASSUME points >= 45
               PROVE  points * factor >= 3150
    OBVIOUS
  <2>1. points * factor >= 45 * factor
    BY <1>1
  <2>2. 45 * factor >= 3150
    BY <1>1
  <2> QED
    BY <1>1, <2>1, <2>2
<1> DEFINE scaled == points * factor
<1>4. scaled \in Nat /\ (points >= 45 => scaled >= 3150)
  BY <1>2, <1>3
<1>5. Scaled(points, trust)
          = IF scaled \div 100 > 100 THEN 100 ELSE scaled \div 100
  BY DEF Scaled, factor
<1> HIDE DEF scaled
<1>6. scaled \div 100 \in Nat /\ (scaled >= 3150 => scaled \div 100 > 30)
  BY <1>4
<1> QED
  BY <1>4, <1>5, <1>6

\* Every plan for a CRITICAL incident needs a human, whatever the contract
\* and the trust in the planner: no configuration lets it run by itself.
THEOREM CriticalIncidentNeedsHuman ==
    ASSUME NEW plan \in Seq(PlannedAction), plan # <<>>,
           NEW checkout \in BOOLEAN, NEW contract, NEW trust \in 0..60
    PROVE  RiskNeedsApproval(plan, contract,
               Score(plan, "CRITICAL", checkout, contract, trust))
<1>1. SeverityPoints("CRITICAL") = 40
  BY DEF SeverityPoints
<1>2. /\ Points(plan, "CRITICAL", checkout, contract) \in Nat
      /\ Points(plan, "CRITICAL", checkout, contract) >= 45
  BY <1>1, PointsBound DEF Severities
<1>3. Score(plan, "CRITICAL", checkout, contract, trust) > 30
  BY <1>2, ScaledBound DEF Score
<1> QED
  BY <1>3 DEF RiskNeedsApproval

\* Of two sums the one whose parts are no less is no less.
LEMMA SumGrows ==
    ASSUME NEW a \in Nat, NEW b \in Nat, NEW a2 \in Nat, NEW b2 \in Nat,
           a <= a2, b <= b2
    PROVE  a + b \in Nat /\ a2 + b2 \in Nat /\ a + b <= a2 + b2
  OBVIOUS

\* A longer plan that is recognised to do no less has no fewer points, and
\* neither has one for a higher severity or with open connections.
LEMMA PointsGrow ==
    ASSUME NEW plan \in Seq(PlannedAction), NEW longer \in Seq(PlannedAction),
           Len(plan) <= Len(longer),
           \A type : Recognised(plan, type) => Recognised(longer, type),
           NEW severity \in Severities, NEW higher \in Severities,
           SeverityPoints(severity) <= SeverityPoints(higher),
           NEW checkout \in BOOLEAN, NEW open \in BOOLEAN, checkout => open,
           NEW contract
    PROVE  /\ Points(plan, severity, checkout, contract) \in Nat
           /\ Points(longer, higher, open, contract) \in Nat
           /\ Points(plan, severity, checkout, contract)
                  <= Points(longer, higher, open, contract)
           /\ ContractAsks(plan, contract) => ContractAsks(longer, contract)
<1>1. SeverityPoints(severity) \in Nat /\ SeverityPoints(higher) \in Nat
  BY DEF SeverityPoints, Severities
<1>2. Len(plan) \in Nat /\ Len(longer) \in Nat
  OBVIOUS
<1>3. /\ ComplexityPoints(plan) \in Nat /\ ComplexityPoints(longer) \in Nat
      /\ ComplexityPoints(plan) <= ComplexityPoints(longer)
  <2> DEFINE Size(p) == IF Len(p) < 4 THEN 5 * Len(p) ELSE 20
             Kind(p) == IF Recognised(p, "rollback_deployment") THEN 20
                        ELSE IF Recognised(p, "scale_deployment") THEN 10
                        ELSE 0
  <2>1. Size(plan) \in Nat /\ Size(longer) \in Nat /\ Size(plan) <= Size(longer)
    BY <1>2
  <2>2. Kind(plan) \in Nat /\ Kind(longer) \in Nat /\ Kind(plan) <= Kind(longer)
    OBVIOUS
  <2>3. /\ ComplexityPoints(plan) = Size(plan) + Kind(plan)
        /\ ComplexityPoints(longer) = Size(longer) + Kind(longer)
    BY DEF ComplexityPoints
  <2> HIDE DEF Size, Kind
  <2> QED
    BY <2>1, <2>2, <2>3
<1>4. ContractAsks(plan, contract) => ContractAsks(longer, contract)
  BY DEF ContractAsks
<1> DEFINE opened   == IF checkout THEN 15 ELSE 0
           opened2  == IF open THEN 15 ELSE 0
           asked    == IF ContractAsks(plan, contract) THEN 25 ELSE 0
           asked2   == IF ContractAsks(longer, contract) THEN 25 ELSE 0
           complex  == ComplexityPoints(plan)
           complex2 == ComplexityPoints(longer)
           points   == Points(plan, severity, checkout, contract)
           points2  == Points(longer, higher, open, contract)
<1>5. /\ opened \in Nat /\ opened2 \in Nat /\ opened <= opened2
      /\ asked \in Nat /\ asked2 \in Nat /\ asked <= asked2
  BY <1>4
<1>6. /\ points = SeverityPoints(severity) + opened + complex + asked
      /\ points2 = SeverityPoints(higher) + opened2 + complex2 + asked2
  BY DEF Points
<1>7. /\ complex \in Nat /\ complex2 \in Nat /\ complex <= complex2
  BY <1>3
<1> HIDE DEF opened, opened2, asked, asked2, complex, complex2, points, points2
<1>8. points \in Nat /\ points2 \in Nat /\ points <= points2
  <2> DEFINE base  == SeverityPoints(severity) + opened
             base2 == SeverityPoints(higher) + opened2
  <2>1. base \in Nat /\ base2 \in Nat /\ base <= base2
    BY <1>1, <1>5, SumGrows
  <2> HIDE DEF base, base2
  <2>2. /\ base + complex \in Nat /\ base2 + complex2 \in Nat
        /\ base + complex <= base2 + complex2
    BY <1>7, <2>1, SumGrows
  <2>3. /\ base + complex + asked \in Nat /\ base2 + complex2 + asked2 \in Nat
        /\ base + complex + asked <= base2 + complex2 + asked2
    BY <1>5, <2>2, SumGrows
  <2> QED
    BY <1>6, <2>3 DEF base, base2
<1> QED
  BY <1>4, <1>8 DEF points, points2

\* Division rounds down to the largest number whose multiple fits.
LEMMA DivGalois ==
    ASSUME NEW a \in Nat, NEW n \in Nat \ {0}, NEW q \in Nat
    PROVE  /\ a \div n \in Nat
           /\ q * n <= a <=> q <= a \div n
<1> DEFINE d == a \div n
<1>1. d \in Int /\ n * d <= a /\ a < n * d + n
  BY Z3
<1> HIDE DEF d
<1>2. d \in Nat
  <2>1. CASE d < 0
    <3>1. n * d + n <= 0
      BY <1>1, <2>1, Z3
    <3> QED
      BY <1>1, <3>1
  <2> QED
    BY <1>1, <2>1
<1>3. q <= d => q * n <= d * n
  BY <1>2, Z3
<1>4. q > d => q * n >= (d + 1) * n
  BY <1>2, Z3
<1>5. (d + 1) * n = n * d + n /\ d * n = n * d
  BY <1>2, Z3
<1> QED
  BY <1>1, <1>2, <1>3, <1>4, <1>5 DEF d

\* More points and less trust give no lower score.
LEMMA ScaledMonotone ==
    ASSUME NEW points \in Nat, NEW more \in Nat, points <= more,
           NEW trust \in 0..60, NEW less \in 0..60, less <= trust
    PROVE  Scaled(points, trust) <= Scaled(more, less)
<1> DEFINE f == 130 - trust
           g == 130 - less
           a == points * f
           b == more * g
<1>1. f \in Nat /\ g \in Nat /\ f <= g
  OBVIOUS
<1> HIDE DEF f, g
<1>2. a \in Nat /\ b \in Nat /\ a <= b
  <2>1. points * f <= more * f /\ more * f <= more * g
    BY <1>1, Z3
  <2>2. points * f \in Nat /\ more * f \in Nat /\ more * g \in Nat
    BY <1>1, Z3
  <2> QED
    BY <2>1, <2>2
<1> HIDE DEF a, b
<1>3. a \div 100 \in Nat /\ b \div 100 \in Nat /\ a \div 100 <= b \div 100
  BY <1>2
<1>4. /\ Scaled(points, trust) = IF a \div 100 > 100 THEN 100 ELSE a \div 100
      /\ Scaled(more, less) = IF b \div 100 > 100 THEN 100 ELSE b \div 100
  BY DEF Scaled, a, b, f, g
<1> QED
  BY <1>3, <1>4

\* Making an assessment worse - a longer plan, a higher severity, open
\* connections, less trust - never lowers the score and never drops the
\* request for a human.
THEOREM WorseIsRiskier ==
    ASSUME NEW plan \in Seq(PlannedAction), NEW longer \in Seq(PlannedAction),
           Len(plan) <= Len(longer),
           \A type : Recognised(plan, type) => Recognised(longer, type),
           NEW severity \in Severities, NEW higher \in Severities,
           SeverityPoints(severity) <= SeverityPoints(higher),
           NEW checkout \in BOOLEAN, NEW open \in BOOLEAN, checkout => open,
           NEW contract,
           NEW trust \in 0..60, NEW less \in 0..60, less <= trust
    PROVE  LET before == Score(plan, severity, checkout, contract, trust)
               after  == Score(longer, higher, open, contract, less)
           IN  /\ before <= after
               /\ RiskNeedsApproval(plan, contract, before)
                      => RiskNeedsApproval(longer, contract, after)
<1> DEFINE before == Score(plan, severity, checkout, contract, trust)
           after  == Score(longer, higher, open, contract, less)
<1>1. /\ Points(plan, severity, checkout, contract) \in Nat
      /\ Points(longer, higher, open, contract) \in Nat
      /\ Points(plan, severity, checkout, contract)
             <= Points(longer, higher, open, contract)
      /\ ContractAsks(plan, contract) => ContractAsks(longer, contract)
  BY PointsGrow
<1>2. before <= after
  BY <1>1, ScaledMonotone DEF Score
<1>3. before \in 0..100 /\ after \in 0..100
  BY <1>1, ScaledBound DEF Score
<1> HIDE DEF before, after
<1>4. RiskNeedsApproval(plan, contract, before)
          => RiskNeedsApproval(longer, contract, after)
  BY <1>1, <1>2, <1>3 DEF RiskNeedsApproval
<1> QED
  BY <1>2, <1>4 DEF before, after

\* An action more is such a longer plan.
LEMMA AppendedRecognised ==
    ASSUME NEW plan \in Seq(PlannedAction), NEW action \in PlannedAction
    PROVE  /\ Append(plan, action) \in Seq(PlannedAction)
           /\ Len(plan) <= Len(Append(plan, action))
           /\ \A type : Recognised(plan, type)
                            => Recognised(Append(plan, action), type)
<1> DEFINE longer == Append(plan, action)
           n == Len(plan)
<1>1. n \in Nat /\ DOMAIN plan = 1..n
  BY LenProperties
<1>2. /\ longer \in Seq(PlannedAction) /\ Len(longer) = n + 1
      /\ \A i \in 1..n : longer[i] = plan[i]
  BY AppendProperties
<1>3. DOMAIN longer = 1..(n + 1)
  BY <1>2, LenProperties
<1> HIDE DEF longer, n
<1>4. ASSUME NEW type, Recognised(plan, type)
      PROVE  Recognised(longer, type)
  <2>1. PICK i \in 1..n : plan[i].type = type /\ ~plan[i].padded
    BY <1>1, <1>4 DEF Recognised
  <2>2. i \in DOMAIN longer /\ longer[i] = plan[i]
    BY <1>1, <1>2, <1>3
  <2> QED
    BY <2>1, <2>2 DEF Recognised
<1>5. n <= Len(longer)
  BY <1>1, <1>2
<1> QED
  BY <1>2, <1>4, <1>5 DEF longer, n

-----------------------------------------------------------------------------
(* The scorecard.                                                          *)

LEMMA CardTyped ==
    ASSUME NEW card \in Card
    PROVE  /\ card.success_count \in Nat /\ card.guardrail_rejections \in Nat
           /\ Attempted(card) \in Nat
           /\ card.success_count <= Attempted(card)
           /\ Penalty(card) \in 0..18
           /\ TrustScore(card) \in 0..60
<1>1. /\ card.success_count \in Nat /\ card.failure_count \in Nat
      /\ card.escalation_count \in Nat /\ card.guardrail_rejections \in Nat
  BY DEF Card
<1>2. Attempted(card) \in Nat /\ card.success_count <= Attempted(card)
  BY <1>1 DEF Attempted
<1>3. Penalty(card) \in 0..18
  BY <1>1 DEF Penalty
<1>4. CASE Attempted(card) = 0
  BY <1>1, <1>2, <1>3, <1>4 DEF TrustScore, NeutralTrust
<1>5. CASE Attempted(card) # 0
  <2> DEFINE n == Attempted(card)
             a == 60 * card.success_count
             earned == a \div n
  <2>1. a \in Nat /\ n \in Nat \ {0} /\ a < 61 * n
    BY <1>1, <1>2, <1>5
  <2> HIDE DEF a, n
  <2>2. earned \in Nat /\ ~(61 <= earned)
    BY <2>1, DivGalois
  <2> HIDE DEF earned
  <2>3. TrustScore(card)
            = IF earned > Penalty(card) THEN earned - Penalty(card) ELSE 0
    BY <1>5 DEF TrustScore, earned, a, n
  <2> QED
    BY <1>1, <1>2, <1>3, <2>2, <2>3
<1> QED
  BY <1>1, <1>2, <1>3, <1>4, <1>5

\* A success never lowers the planner's trust score, whatever is on the
\* card; a failure, an escalation and a rejection never raise it.
THEOREM TrustFollowsOutcomes ==
    ASSUME NEW card \in Card
    PROVE  /\ TrustScore(OutcomeRecorded(card, "SUCCESS")) >= TrustScore(card)
           /\ \A final \in {"FAILED", "ESCALATED", "DENIED"} :
                  TrustScore(OutcomeRecorded(card, final)) <= TrustScore(card)
           /\ TrustScore(RejectionRecorded(card)) <= TrustScore(card)
<1> DEFINE s == card.success_count
           n == Attempted(card)
           p == Penalty(card)
           Earned(a, m) == (60 * a) \div m
           Left(e, q) == IF e > q THEN e - q ELSE 0
<1>1. /\ s \in Nat /\ n \in Nat /\ s <= n /\ p \in 0..18
      /\ TrustScore(card) \in 0..60 /\ card.guardrail_rejections \in Nat
  BY CardTyped
<1>2. TrustScore(card) = IF n = 0 THEN 30 ELSE Left(Earned(s, n), p)
  BY DEF TrustScore, NeutralTrust
<1>3. TrustScore(OutcomeRecorded(card, "SUCCESS")) >= TrustScore(card)
  <2> DEFINE c == OutcomeRecorded(card, "SUCCESS")
  <2>1. c = [card EXCEPT !.success_count = @ + 1]
    BY DEF OutcomeRecorded
  <2>2. /\ c \in Card /\ c.success_count = s + 1 /\ Attempted(c) = n + 1
        /\ Penalty(c) = p
    <3> HIDE DEF c
    <3> QED
      BY <2>1 DEF Card, Attempted, Penalty
  <2> HIDE DEF c
  <2>3. TrustScore(c) = Left(Earned(s + 1, n + 1), p)
    <3>1. Attempted(c) # 0
      BY <1>1, <2>2
    <3> QED
      BY <2>2, <3>1 DEF TrustScore
  <2>4. CASE n = 0
    <3>1. s = 0
      BY <1>1, <2>4
    <3>2. Earned(s + 1, n + 1) = 60
      BY <2>4, <3>1
    <3> HIDE DEF Earned
    <3> QED
      BY <1>1, <1>2, <2>3, <2>4, <3>2 DEF c
  <2>5. CASE n # 0
    <3> DEFINE d == Earned(s, n)
    <3>1. 60 * s \in Nat /\ n \in Nat \ {0} /\ n + 1 \in Nat \ {0}
          /\ 60 * (s + 1) \in Nat /\ 60 * s <= 60 * n
          /\ 60 * (s + 1) = 60 * s + 60
      BY <1>1, <2>5
    <3>2. d \in Nat /\ d * n <= 60 * s
      BY <3>1, DivGalois
    <3>3. d <= 60
      <4>1. CASE d >= 61
        <5> HIDE DEF d
        <5>1. d * n >= 61 * n
          BY <1>1, <3>2, <4>1, Z3
        <5> QED
          BY <1>1, <2>5, <3>1, <3>2, <5>1
      <4> QED
        BY <3>2, <4>1
    <3>4. d * (n + 1) <= 60 * (s + 1)
      <4> HIDE DEF d
      <4>1. d * (n + 1) = d * n + d /\ d * n \in Nat
        BY <1>1, <3>2, Z3
      <4> QED
        BY <1>1, <3>1, <3>2, <3>3, <4>1
    <3>5. Earned(s + 1, n + 1) \in Nat /\ d <= Earned(s + 1, n + 1)
      <4> HIDE DEF d
      <4> QED
        BY <3>1, <3>2, <3>4, DivGalois
    <3> HIDE DEF d, Earned
    <3>6. TrustScore(card) = Left(d, p)
      BY <1>2, <2>5 DEF d
    <3> QED
      BY <1>1, <2>3, <3>2, <3>5, <3>6 DEF c
  <2> QED
    BY <2>4, <2>5
<1>4. ASSUME NEW final \in {"FAILED", "ESCALATED", "DENIED"}
      PROVE  TrustScore(OutcomeRecorded(card, final)) <= TrustScore(card)
  <2> DEFINE c == OutcomeRecorded(card, final)
  <2>1. CASE final = "DENIED"
    BY <1>1, <2>1 DEF OutcomeRecorded
  <2>2. CASE final # "DENIED"
    <3>1. \/ c = [card EXCEPT !.failure_count = @ + 1]
          \/ c = [card EXCEPT !.escalation_count = @ + 1]
      BY <1>4, <2>2 DEF OutcomeRecorded
    <3>2. /\ c.success_count = s /\ Attempted(c) = n + 1 /\ Penalty(c) = p
      <4> HIDE DEF c
      <4> QED
        BY <3>1 DEF Card, Attempted, Penalty
    <3> HIDE DEF c
    <3>3. TrustScore(c) = Left(Earned(s, n + 1), p)
      <4>1. Attempted(c) # 0
        BY <1>1, <3>2
      <4> QED
        BY <3>2, <4>1 DEF TrustScore
    <3>4. CASE n = 0
      <4>1. s = 0
        BY <1>1, <3>4
      <4>2. Earned(s, n + 1) = 0
        BY <3>4, <4>1
      <4> HIDE DEF Earned
      <4> QED
        BY <1>1, <1>2, <3>3, <3>4, <4>2 DEF c
    <3>5. CASE n # 0
      <4> DEFINE e == Earned(s, n + 1)
      <4>1. 60 * s \in Nat /\ n \in Nat \ {0} /\ n + 1 \in Nat \ {0}
        BY <1>1, <3>5
      <4>2. e \in Nat /\ e * (n + 1) <= 60 * s
        BY <4>1, DivGalois
      <4>3. e * n <= 60 * s
        <5> HIDE DEF e
        <5>1. e * (n + 1) = e * n + e /\ e * n \in Nat
          BY <1>1, <4>2, Z3
        <5> QED
          BY <4>1, <4>2, <5>1
      <4>4. Earned(s, n) \in Nat /\ e <= Earned(s, n)
        <5> HIDE DEF e
        <5> QED
          BY <4>1, <4>2, <4>3, DivGalois
      <4> HIDE DEF e, Earned
      <4>5. TrustScore(card) = Left(Earned(s, n), p) /\ TrustScore(c) = Left(e, p)
        BY <1>2, <3>3, <3>5 DEF e
      <4> QED
        BY <1>1, <4>2, <4>4, <4>5 DEF c
    <3> QED
      BY <3>4, <3>5
  <2> QED
    BY <2>1, <2>2
<1>5. TrustScore(RejectionRecorded(card)) <= TrustScore(card)
  <2> DEFINE c == RejectionRecorded(card)
  <2>1. c = [card EXCEPT !.guardrail_rejections = @ + 1]
    BY DEF RejectionRecorded
  <2> HIDE DEF c
  <2>2. /\ c.success_count = s /\ Attempted(c) = n
        /\ c.guardrail_rejections = card.guardrail_rejections + 1
    BY <2>1 DEF Card, Attempted
  <2>3. Penalty(c) \in 0..18 /\ Penalty(c) >= p
    BY <1>1, <2>2 DEF Penalty
  <2>4. TrustScore(c) = IF n = 0 THEN 30 ELSE Left(Earned(s, n), Penalty(c))
    BY <2>2 DEF TrustScore, NeutralTrust
  <2>5. n # 0 => Earned(s, n) \in Nat
    <3>1. 60 * s \in Nat /\ (n # 0 => n \in Nat \ {0})
      BY <1>1
    <3> QED
      BY <3>1, DivGalois
  <2> HIDE DEF Earned
  <2> QED
    BY <1>1, <1>2, <2>3, <2>4, <2>5 DEF c
<1> QED
  BY <1>3, <1>4, <1>5
=============================================================================
