----------------------- MODULE AdaptiveContractProofs -----------------------
(***************************************************************************)
(* For every set of contract files, rules and severities: the resolver     *)
(* never elevates, and the guardrails under the adapted contract are at    *)
(* least as strict as under the file.                                      *)
(***************************************************************************)
EXTENDS AdaptiveGuardrails, PolicyProofs

\* A base contract and its scope are well formed.
LEMMA BaseTyped ==
    ASSUME NEW b \in BaseContracts
    PROVE  /\ b \in Contract
           /\ b.scope \in Scope
           /\ b.adaptive_rules \in Seq(Rule)
           /\ Len(b.adaptive_rules) \in Nat
BY BaseAssumption DEF Contract

\* The rule the loop looks at carries a well formed mutation.
LEMMA CurrentRuleTyped ==
    ASSUME TypeOK, next <= Len(Rules)
    PROVE  Rules[next].mutation \in Mutation
<1>1. Rules \in Seq(Rule) /\ Len(Rules) \in Nat
  BY BaseTyped DEF TypeOK, Rules
<1>2. next \in 1..Len(Rules)
  BY <1>1 DEF TypeOK
<1>3. Rules[next] \in Rule
  BY <1>1, <1>2
<1> QED
  BY <1>3 DEF Rule

\* Type correctness of the resolver's loop.
THEOREM ResolverTyped == Spec => []TypeOK
<1>1. Init => TypeOK
  BY BaseTyped DEF Init, TypeOK, Rules
<1>2. TypeOK /\ [Next]_vars => TypeOK'
  <2> SUFFICES ASSUME TypeOK, [Next]_vars
               PROVE  TypeOK'
    OBVIOUS
  <2>1. /\ base.scope \in Scope
        /\ Rules \in Seq(Rule)
        /\ Len(Rules) \in Nat
    BY BaseTyped DEF TypeOK, Rules
  <2>2. CASE SkipRule
    BY <2>1, <2>2 DEF TypeOK, SkipRule, Rules
  <2>3. CASE ApplyRule
    <3>1. Rules[next].mutation \in Mutation
      BY <2>3, CurrentRuleTyped DEF ApplyRule
    <3>2. scope' \in Scope
      BY <2>1, <2>3, <3>1, MutationTyped DEF TypeOK, ApplyRule
    <3> QED
      BY <2>1, <2>3, <3>2 DEF TypeOK, ApplyRule, Rules
  <2>4. CASE UNCHANGED vars
    BY <2>4 DEF TypeOK, vars, Rules
  <2> QED
    BY <2>2, <2>3, <2>4 DEF Next
<1> QED
  BY <1>1, <1>2, PTL DEF Spec

\* What one rule does to the scope, in any state of the loop.
LEMMA RuleTightens ==
    ASSUME TypeOK, ApplyRule
    PROVE  /\ \A a \in ActionTypes : scope'.allowed[a] <= scope.allowed[a]
           /\ scope.forbidden \subseteq scope'.forbidden
           /\ scope.approval \subseteq scope'.approval
           /\ scope.max_pod_restarts <= base.scope.max_pod_restarts
                  => scope'.max_pod_restarts <= base.scope.max_pod_restarts
           /\ scope.max_replicas <= base.scope.max_replicas
                  => scope'.max_replicas <= base.scope.max_replicas
<1>1. base.scope \in Scope
  BY BaseTyped DEF TypeOK
<1>2. Rules[next].mutation \in Mutation
  BY CurrentRuleTyped DEF ApplyRule
<1> QED
  BY <1>1, <1>2, MutationTightens DEF TypeOK, ApplyRule

\* "We never elevate above the base contract" (adaptive.py), whatever the
\* rules, their number and their order.
THEOREM ResolverNeverElevates == Spec => []NeverElevates
<1>1. Init /\ TypeOK => NeverElevates
  BY BaseTyped DEF Init, TypeOK, NeverElevates, Scope
<1>2. TypeOK /\ TypeOK' /\ NeverElevates /\ [Next]_vars => NeverElevates'
  <2> SUFFICES ASSUME TypeOK, TypeOK', NeverElevates, [Next]_vars
               PROVE  NeverElevates'
    OBVIOUS
  <2>1. CASE SkipRule
    BY <2>1 DEF NeverElevates, SkipRule
  <2>2. CASE ApplyRule
    <3>1. base' = base
      BY <2>2 DEF ApplyRule
    <3>2. /\ scope.allowed \in [ActionTypes -> Nat]
          /\ scope'.allowed \in [ActionTypes -> Nat]
          /\ base.scope.allowed \in [ActionTypes -> Nat]
      BY BaseTyped DEF TypeOK, Scope
    <3>3. \A a \in ActionTypes : scope'.allowed[a] <= base.scope.allowed[a]
      BY <2>2, <3>2, RuleTightens DEF NeverElevates
    <3> QED
      BY <2>2, <3>1, <3>3, RuleTightens DEF NeverElevates
  <2>3. CASE UNCHANGED vars
    BY <2>3 DEF NeverElevates, vars
  <2> QED
    BY <2>1, <2>2, <2>3 DEF Next
<1> QED
  BY <1>1, <1>2, ResolverTyped, PTL DEF Spec

\* No later rule permits again what a rule prohibits.
THEOREM ResolverOnlyShrinks == Spec => PermissionsOnlyShrink
<1>1. TypeOK /\ [Next]_vars =>
          [ /\ \A a \in ActionTypes : scope'.allowed[a] <= scope.allowed[a]
            /\ scope.forbidden \subseteq scope'.forbidden
            /\ scope.approval \subseteq scope'.approval ]_scope
  BY RuleTightens DEF Next, SkipRule, vars
<1> QED
  BY <1>1, ResolverTyped, PTL DEF Spec, PermissionsOnlyShrink

-----------------------------------------------------------------------------
(* The loop and the operator of the workflow.                              *)

\* Where the loop stands after some rules, the recursion does: by the
\* unfolding of the recursion, one step for one rule.
LEMMA LoopStep ==
    ASSUME TypeOK, scope = ScopeAfter(base, severity)[next - 1], [Next]_vars
    PROVE  (scope = ScopeAfter(base, severity)[next - 1])'
<1> DEFINE last == Len(base.adaptive_rules)
           after == ScopeAfter(base, severity)
<1>1. last \in Nat /\ next \in 1..(last + 1)
  BY BaseTyped DEF TypeOK, Rules
<1>2. after = [i \in 0..last |-> RuleStep(base, severity, after, i)]
  BY <1>1, ScopeAfterUnfolds
<1> HIDE DEF after, last
<1>3. CASE Next
  <2>1. next \in 1..last /\ next' = next + 1 /\ UNCHANGED <<base, severity>>
    BY <1>1, <1>3 DEF Next, SkipRule, ApplyRule, Rules, last
  <2>2. after[next] = RuleStep(base, severity, after, next)
    BY <1>1, <1>2, <2>1
  <2>3. next # 0 /\ next' - 1 = next
    BY <1>1, <2>1
  <2>4. scope = after[next - 1]
    BY DEF after
  <2>5. scope' = after[next]
    BY <1>3, <2>2, <2>3, <2>4
       DEF Next, SkipRule, ApplyRule, Rules, RuleStep
  <2> QED
    BY <2>1, <2>3, <2>5 DEF after
<1>4. CASE UNCHANGED vars
  BY <1>4 DEF vars
<1> QED
  BY <1>3, <1>4

\* The loop computes Effective, which is what the workflow does in one step,
\* for contract files with any number of rules.
THEOREM ResolverComputesEffective == Spec => []LoopComputesEffective
<1> DEFINE Stands == scope = ScopeAfter(base, severity)[next - 1]
<1>1. Init /\ TypeOK => Stands
  <2> SUFFICES ASSUME Init, TypeOK
               PROVE  Stands
    OBVIOUS
  <2>1. Len(base.adaptive_rules) \in Nat
    BY BaseTyped DEF TypeOK
  <2>2. ScopeAfter(base, severity)[0] = base.scope
    BY <2>1, ScopeAfterUnfolds DEF RuleStep
  <2> QED
    BY <2>2 DEF Init
<1>2. TypeOK /\ Stands /\ [Next]_vars => Stands'
  BY LoopStep
<1>3. TypeOK /\ Stands => LoopComputesEffective
  <2> SUFFICES ASSUME TypeOK, Stands, Done
               PROVE  [base EXCEPT !.scope = scope]
                          = Effective(base, severity)
    BY DEF LoopComputesEffective
  <2>1. next - 1 = Len(base.adaptive_rules)
    BY BaseTyped DEF TypeOK, Done, Rules
  <2> QED
    BY <2>1 DEF Effective
<1> QED
  BY <1>1, <1>2, <1>3, ResolverTyped, PTL DEF Spec

-----------------------------------------------------------------------------
(* The guardrails under the adapted contract.                              *)

\* Adaptation only restricts what the guardrails let through, for every
\* contract, rule list, action, history and metrics.
THEOREM AdaptationRestricts == Spec => []AdaptationOnlyRestricts
<1>1. TypeOK /\ NeverElevates => AdaptationOnlyRestricts
  <2> SUFFICES ASSUME TypeOK, NeverElevates,
                      NEW a \in Actions, NEW history \in Histories,
                      NEW metrics \in Measurements,
                      ActionViolations(a, Adapted, history, metrics) = {}
               PROVE  /\ ActionViolations(a, base, history, metrics) = {}
                      /\ NeedsApproval(a, base) => NeedsApproval(a, Adapted)
    BY DEF AdaptationOnlyRestricts
  <2>1. /\ base \in Contract /\ scope \in Scope
        /\ Within(scope, base.scope)
    BY BaseTyped DEF TypeOK, NeverElevates, Within
  <2>2. /\ a \in NormalizedAction /\ history \in Seq(HistoryEntry)
        /\ metrics \in Metrics
    BY GivenAssumption
  <2> QED
    BY <2>1, <2>2, TighterRestricts DEF Adapted
<1> QED
  BY <1>1, ResolverTyped, ResolverNeverElevates, PTL
=============================================================================
