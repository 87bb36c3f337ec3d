--------------------------- MODULE ExecutionProofs ---------------------------
(***************************************************************************)
(* execute_actions and the backends, for every set of plans, every cluster *)
(* and every sequence of answers.                                          *)
(***************************************************************************)
EXTENDS ClusterExecution, PolicyProofs

-----------------------------------------------------------------------------
(* The names of a plan's actions.                                          *)

\* What the n-th action adds to the names of those before it.
NamedStep(plan, S, named, n) ==
    IF n \in S THEN Append(named[n - 1], plan[n].type)
    ELSE IF n = 0 THEN <<>> ELSE named[n - 1]

\* The recursion of Named has a solution, so Named is one.
LEMMA NamedUnfolds ==
    ASSUME NEW plan, NEW S, Len(plan) \in Nat, 0 \notin S
    PROVE  Named(plan, S) =
               [n \in 0..Len(plan) |-> NamedStep(plan, S, Named(plan, S), n)]
<1> DEFINE last == Len(plan)
           Solves(f, k) == f = [n \in 0..k |-> NamedStep(plan, S, f, n)]
           Solved == {k \in Nat : \E f : Solves(f, k)}
<1>1. 0 \in Solved
  <2>1. Solves([n \in 0..0 |-> <<>>], 0)
    BY DEF NamedStep
  <2> QED
    BY <2>1
<1>2. ASSUME NEW k \in Nat, k \in Solved
      PROVE  k + 1 \in Solved
  <2>1. PICK f : Solves(f, k)
    BY <1>2
  <2> DEFINE g == [n \in 0..(k + 1) |->
                      IF n <= k THEN f[n] ELSE NamedStep(plan, S, f, n)]
  <2>2. ASSUME NEW n \in 0..(k + 1)
        PROVE  g[n] = NamedStep(plan, S, g, n)
    <3>1. n # 0 => g[n - 1] = f[n - 1]
      OBVIOUS
    <3>2. NamedStep(plan, S, g, n) = NamedStep(plan, S, f, n)
      BY <3>1 DEF NamedStep
    <3>3. n <= k => f[n] = NamedStep(plan, S, f, n)
      BY <2>1
    <3> QED
      BY <3>2, <3>3
  <2>3. Solves(g, k + 1)
    BY <2>2
  <2> HIDE DEF g, Solves
  <2> QED
    BY <2>3
<1> HIDE DEF Solved
<1>3. last \in Solved
  BY <1>1, <1>2, InductionBySet
<1>4. \E f : Solves(f, last)
  BY <1>3 DEF Solved
<1>5. Named(plan, S) = CHOOSE f : Solves(f, last)
  BY DEF Named, NamedStep
<1> HIDE DEF Solves, last
<1>6. Solves(Named(plan, S), last)
  BY <1>4, <1>5
<1> QED
  BY <1>6 DEF Solves, last

\* One place further in the plan.
LEMMA NamedNext ==
    ASSUME NEW plan \in Seq(NormalizedAction),
           NEW S, S \subseteq DOMAIN plan
    PROVE  /\ DOMAIN Named(plan, S) = 0..Len(plan)
           /\ Named(plan, S)[0] = <<>>
           /\ \A n \in 1..Len(plan) :
                  Named(plan, S)[n] =
                      IF n \in S THEN Append(Named(plan, S)[n - 1], plan[n].type)
                      ELSE Named(plan, S)[n - 1]
<1>1. Len(plan) \in Nat /\ DOMAIN plan = 1..Len(plan)
  OBVIOUS
<1>2. 0 \notin S
  BY <1>1
<1> DEFINE named == Named(plan, S)
<1>3. named = [n \in 0..Len(plan) |-> NamedStep(plan, S, named, n)]
  BY <1>1, <1>2, NamedUnfolds
<1> HIDE DEF named
<1>4. \A n \in 0..Len(plan) : named[n] = NamedStep(plan, S, named, n)
  BY <1>3
<1>5. DOMAIN named = 0..Len(plan)
  BY <1>3
<1>6. named[0] = <<>>
  BY <1>1, <1>2, <1>4 DEF NamedStep
<1>7. \A n \in 1..Len(plan) :
          named[n] = IF n \in S THEN Append(named[n - 1], plan[n].type)
                     ELSE named[n - 1]
  BY <1>1, <1>4 DEF NamedStep
<1> QED
  BY <1>5, <1>6, <1>7 DEF named

LEMMA NamedTyped ==
    ASSUME NEW plan \in Seq(NormalizedAction),
           NEW S, S \subseteq DOMAIN plan,
           NEW n \in 0..Len(plan)
    PROVE  Named(plan, S)[n] \in Seq(ActionTypes)
<1> DEFINE named == Named(plan, S)
           Typed == {k \in Nat : k <= Len(plan) => named[k] \in Seq(ActionTypes)}
<1>1. /\ named[0] = <<>>
      /\ \A k \in 1..Len(plan) :
             named[k] = IF k \in S THEN Append(named[k - 1], plan[k].type)
                        ELSE named[k - 1]
  BY NamedNext
<1> HIDE DEF named
<1>2. 0 \in Typed
  BY <1>1, EmptySeq
<1>3. ASSUME NEW k \in Nat, k \in Typed
      PROVE  k + 1 \in Typed
  <2> SUFFICES ASSUME k + 1 <= Len(plan)
               PROVE  named[k + 1] \in Seq(ActionTypes)
    OBVIOUS
  <2>1. k + 1 \in 1..Len(plan) /\ (k + 1) - 1 = k /\ k <= Len(plan)
    OBVIOUS
  <2>2. named[k] \in Seq(ActionTypes)
    BY <1>3, <2>1
  <2>3. plan[k + 1].type \in ActionTypes
    <3>1. plan[k + 1] \in NormalizedAction
      BY <2>1, ElementOfSeq
    <3> QED
      BY <3>1 DEF NormalizedAction
  <2>4. named[k + 1] = IF k + 1 \in S THEN Append(named[k], plan[k + 1].type)
                       ELSE named[k]
    BY <1>1, <2>1
  <2> QED
    BY <2>2, <2>3, <2>4
<1> HIDE DEF Typed
<1>4. n \in Typed
  BY <1>2, <1>3, InductionBySet
<1> QED
  BY <1>4 DEF Typed, named

LEMMA NamesTyped ==
    ASSUME NEW s \in Seq(HistoryEntry)
    PROVE  Names(s) \in Seq(ActionTypes) /\ Len(Names(s)) = Len(s)
<1>1. DOMAIN s = 1..Len(s) /\ Len(s) \in Nat
  OBVIOUS
<1>2. ASSUME NEW i \in 1..Len(s)
      PROVE  s[i].action \in ActionTypes
  <2>1. s[i] \in HistoryEntry
    BY ElementOfSeq
  <2> QED
    BY <2>1 DEF HistoryEntry
<1>3. Names(s) \in [1..Len(s) -> ActionTypes]
  BY <1>1, <1>2 DEF Names
<1> QED
  BY <1>1, <1>3, SeqDef

LEMMA NamesAppended ==
    ASSUME NEW s \in Seq(HistoryEntry), NEW e \in HistoryEntry
    PROVE  Names(Append(s, e)) = Append(Names(s), e.action)
<1>1. Names(s) \in Seq(ActionTypes) /\ Len(Names(s)) = Len(s)
  BY NamesTyped
<1>2. Append(s, e) \in Seq(HistoryEntry) /\ Len(Append(s, e)) = Len(s) + 1
  OBVIOUS
<1>3. Names(Append(s, e)) \in Seq(ActionTypes)
      /\ Len(Names(Append(s, e))) = Len(s) + 1
  BY <1>2, NamesTyped
<1>4. e.action \in ActionTypes
  BY DEF HistoryEntry
<1>5. Append(Names(s), e.action) \in Seq(ActionTypes)
      /\ Len(Append(Names(s), e.action)) = Len(s) + 1
  BY <1>1, <1>4
<1>6. ASSUME NEW i \in 1..(Len(s) + 1)
      PROVE  Names(Append(s, e))[i] = Append(Names(s), e.action)[i]
  <2>1. Names(Append(s, e))[i] = Append(s, e)[i].action
    <3>1. i \in DOMAIN Append(s, e)
      BY <1>2
    <3> HIDE DEF HistoryEntry
    <3> QED
      BY <3>1 DEF Names
  <2>2. CASE i = Len(s) + 1
    <3>1. Append(s, e)[i] = e
      BY <2>2, AppendProperties
    <3>2. Append(Names(s), e.action)[i] = e.action
      BY <1>1, <1>4, <2>2, AppendProperties
    <3> QED
      BY <2>1, <3>1, <3>2
  <2>3. CASE i \in 1..Len(s)
    <3>1. Names(s)[i] = s[i].action
      BY <2>3 DEF Names
    <3>2. Append(s, e)[i] = s[i]
      BY <2>3, AppendProperties
    <3>3. Append(Names(s), e.action)[i] = Names(s)[i]
      BY <1>1, <1>4, <2>3, AppendProperties
    <3> QED
      BY <2>1, <3>1, <3>2, <3>3
  <2>4. i = Len(s) + 1 \/ i \in 1..Len(s)
    BY <1>1
  <2> QED
    BY <2>2, <2>3, <2>4
<1> QED
  BY <1>3, <1>5, <1>6, SeqEqual

LEMMA ReverseTyped ==
    ASSUME NEW T, NEW s \in Seq(T)
    PROVE  Reverse(s) \in Seq(T) /\ Len(Reverse(s)) = Len(s)
BY DEF Reverse

LEMMA ReverseAppended ==
    ASSUME NEW T, NEW s \in Seq(T), NEW e \in T
    PROVE  Reverse(Append(s, e)) = <<e>> \o Reverse(s)
<1>1. Reverse(s) \in Seq(T) /\ Len(Reverse(s)) = Len(s)
  BY ReverseTyped
<1>2. Append(s, e) \in Seq(T) /\ Len(Append(s, e)) = Len(s) + 1
  OBVIOUS
<1> DEFINE l == Reverse(Append(s, e))
           r == <<e>> \o Reverse(s)
<1>3. l \in Seq(T) /\ Len(l) = Len(s) + 1
  BY <1>2 DEF Reverse
<1>4. <<e>> \in Seq(T) /\ Len(<<e>>) = 1
  OBVIOUS
<1>5. /\ r \in Seq(T) /\ Len(r) = Len(s) + 1
      /\ \A i \in 1..(Len(s) + 1) :
             r[i] = IF i <= 1 THEN e ELSE Reverse(s)[i - 1]
  BY <1>1, <1>4, ConcatProperties
<1>6. ASSUME NEW i \in 1..(Len(s) + 1)
      PROVE  l[i] = r[i]
  <2>1. l[i] = Append(s, e)[(Len(s) + 1) - i + 1]
    BY <1>2 DEF Reverse
  <2>2. CASE i = 1
    BY <1>5, <2>1, <2>2
  <2>3. CASE i # 1
    <3>1. i - 1 \in 1..Len(s) /\ Len(s) - i + 2 \in 1..Len(s)
      BY <2>3
    <3>2. Reverse(s)[i - 1] = s[Len(s) - (i - 1) + 1]
      BY <3>1 DEF Reverse
    <3>3. /\ Len(s) - (i - 1) + 1 = Len(s) - i + 2
          /\ (Len(s) + 1) - i + 1 = Len(s) - i + 2
      OBVIOUS
    <3>4. Append(s, e)[Len(s) - i + 2] = s[Len(s) - i + 2]
      BY <3>1
    <3> HIDE DEF l, r
    <3> QED
      BY <1>5, <2>1, <2>3, <3>2, <3>3, <3>4
  <2> QED
    BY <2>2, <2>3
<1> HIDE DEF l, r
<1>7. l = r
  BY <1>3, <1>5, <1>6, SeqEqual
<1> QED
  BY <1>1, <1>7 DEF l, r

-----------------------------------------------------------------------------
(* The loop and the walk back.                                             *)

\* Every call of a backend is a step of the node.
LEMMA CallOfNode ==
    ASSUME ClusterStep
    PROVE  ExecuteStep
<1>1. CASE Skip
  BY <1>1 DEF Skip, ExecuteStep
<1>2. CASE PerformOnCluster
  <2>1. Succeeds(cluster[targets[cursor]], Looking) \in BOOLEAN
    BY DEF Succeeds
  <2> QED
    BY <1>2, <2>1 DEF PerformOnCluster, ExecuteStep
<1>3. CASE CompensateOnCluster
  <2>1. PICK name \in Deployments, undo \in Undo :
            Compensate(Succeeds(cluster[name], undo))
    BY <1>3 DEF CompensateOnCluster
  <2>2. Succeeds(cluster[name], undo) \in BOOLEAN
    BY DEF Succeeds
  <2> QED
    BY <2>1, <2>2 DEF ExecuteStep
<1>4. CASE PerformOnKubernetes
  BY <1>4 DEF PerformOnKubernetes, ExecuteStep
<1>5. CASE CompensateOnKubernetes
  BY <1>5 DEF CompensateOnKubernetes, ExecuteStep
<1>6. CASE CallElsewhere
  BY <1>6 DEF CallElsewhere, ExecuteStep
<1> QED
  BY <1>1, <1>2, <1>3, <1>4, <1>5, <1>6 DEF ClusterStep

\* The controller leaves the node alone.
LEMMA StepOfNode ==
    ASSUME [Next]_clusterVars
    PROVE  [ExecuteStep]_executeVars
<1>1. CASE ClusterStep
  BY <1>1, CallOfNode
<1>2. CASE Reconcile \/ UNCHANGED clusterVars
  BY <1>2 DEF Reconcile, clusterVars
<1> QED
  BY <1>1, <1>2 DEF Next

MutatingNames == Named(normalized_actions, Mutating(normalized_actions))

UndoableNames == Named(normalized_actions, Undoable(normalized_actions))

AllSucceededBut(k) == \A i \in 1..(Len(results) - k) : results[i].success

\* The loop has left behind what its results name.
Forward ==
    /\ cursor \in 1..(Len(normalized_actions) + 1)
    /\ Names(results) = MutatingNames[cursor - 1]
    /\ AllSucceededBut(0)
    /\ compensations = <<>>

\* The walk back from `failed' has compensated what lies between.
BackFrom(failed) ==
    /\ cursor \in 0..(failed - 1)
    /\ Names(results) = MutatingNames[failed]
    /\ AllSucceededBut(1)
    /\ Names(compensations) \o Reverse(UndoableNames[cursor]) =
           Reverse(UndoableNames[failed - 1])

\* Neither property of the node is inductive: they say nothing of the loop's
\* place on the plan.
Loop ==
    /\ ExecuteTypeOK
    /\ IF direction = "forward" THEN Forward
       ELSE \E failed \in Mutating(normalized_actions) : BackFrom(failed)

\* The plan at the loop's place.
LEMMA PlanFacts ==
    ASSUME ExecuteTypeOK
    PROVE  /\ Len(normalized_actions) \in Nat
           /\ Mutating(normalized_actions) \subseteq 1..Len(normalized_actions)
           /\ Undoable(normalized_actions) \subseteq 1..Len(normalized_actions)
           /\ \A n \in 0..Len(normalized_actions) :
                  /\ MutatingNames[n] \in Seq(ActionTypes)
                  /\ UndoableNames[n] \in Seq(ActionTypes)
           /\ \A n \in 1..Len(normalized_actions) :
                  /\ MutatingNames[n] =
                         IF normalized_actions[n].type \in ReadOnly
                         THEN MutatingNames[n - 1]
                         ELSE Append(MutatingNames[n - 1],
                                     normalized_actions[n].type)
                  /\ UndoableNames[n] =
                         IF /\ normalized_actions[n].type \notin ReadOnly
                            /\ normalized_actions[n].compensation
                         THEN Append(UndoableNames[n - 1],
                                     normalized_actions[n].type)
                         ELSE UndoableNames[n - 1]
           /\ MutatingNames[0] = <<>> /\ UndoableNames[0] = <<>>
           /\ DOMAIN MutatingNames = 0..Len(normalized_actions)
<1> DEFINE plan == normalized_actions
<1>1. /\ plan \in Seq(NormalizedAction) /\ Len(plan) \in Nat
      /\ DOMAIN plan = 1..Len(plan)
  BY LenProperties DEF ExecuteTypeOK
<1>2. Mutating(plan) \subseteq DOMAIN plan /\ Undoable(plan) \subseteq DOMAIN plan
  BY DEF Mutating, Undoable
<1>3. \A n \in 1..Len(plan) :
          /\ n \in Mutating(plan) <=> plan[n].type \notin ReadOnly
          /\ n \in Undoable(plan) <=>
                 plan[n].type \notin ReadOnly /\ plan[n].compensation
  BY <1>1 DEF Mutating, Undoable
<1>4. \A n \in 0..Len(plan) :
          /\ MutatingNames[n] \in Seq(ActionTypes)
          /\ UndoableNames[n] \in Seq(ActionTypes)
  BY <1>1, <1>2, NamedTyped DEF MutatingNames, UndoableNames
<1>5. /\ MutatingNames[0] = <<>>
      /\ DOMAIN MutatingNames = 0..Len(plan)
      /\ \A n \in 1..Len(plan) :
             MutatingNames[n] =
                 IF n \in Mutating(plan)
                 THEN Append(MutatingNames[n - 1], plan[n].type)
                 ELSE MutatingNames[n - 1]
  BY <1>1, <1>2, NamedNext DEF MutatingNames
<1>6. /\ UndoableNames[0] = <<>>
      /\ \A n \in 1..Len(plan) :
             UndoableNames[n] =
                 IF n \in Undoable(plan)
                 THEN Append(UndoableNames[n - 1], plan[n].type)
                 ELSE UndoableNames[n - 1]
  BY <1>1, <1>2, NamedNext DEF UndoableNames
<1>7. \A n \in 1..Len(plan) :
          MutatingNames[n] =
              IF plan[n].type \in ReadOnly THEN MutatingNames[n - 1]
              ELSE Append(MutatingNames[n - 1], plan[n].type)
  BY <1>3, <1>5
<1>8. \A n \in 1..Len(plan) :
          UndoableNames[n] =
              IF plan[n].type \notin ReadOnly /\ plan[n].compensation
              THEN Append(UndoableNames[n - 1], plan[n].type)
              ELSE UndoableNames[n - 1]
  BY <1>3, <1>6
<1> QED
  BY <1>1, <1>2, <1>4, <1>5, <1>6, <1>7, <1>8

LEMMA LoopInit == Init => Loop
<1> SUFFICES ASSUME Init
             PROVE  Loop
  OBVIOUS
<1>1. /\ normalized_actions \in Seq(NormalizedAction)
      /\ direction = "forward" /\ cursor = 1
      /\ results = <<>> /\ compensations = <<>>
      /\ performed = 0 /\ restarted = 0
  BY ClusterAssumption DEF Init, ExecuteLocalsFresh
<1>2. <<>> \in Seq(HistoryEntry)
  BY EmptySeq
<1>3. ExecuteTypeOK
  BY <1>1, <1>2 DEF ExecuteTypeOK
<1>4. Names(<<>>) = <<>>
  BY <1>2, NamesTyped, EmptySeq
<1>5. MutatingNames[0] = <<>> /\ Len(normalized_actions) \in Nat
  BY <1>3, PlanFacts
<1>6. AllSucceededBut(0)
  BY <1>1 DEF AllSucceededBut
<1>7. cursor \in 1..(Len(normalized_actions) + 1) /\ cursor - 1 = 0
  BY <1>1, <1>5
<1> QED
  BY <1>1, <1>3, <1>4, <1>5, <1>6, <1>7 DEF Loop, Forward

LEMMA SkipLoop ==
    ASSUME Loop, SkipReadOnly
    PROVE  Loop'
<1>1. /\ direction = "forward" /\ direction' = direction
      /\ cursor <= Len(normalized_actions) /\ cursor' = cursor + 1
      /\ normalized_actions[cursor].type \in ReadOnly
      /\ UNCHANGED <<normalized_actions, results, compensations, performed,
                     restarted>>
  BY DEF SkipReadOnly, Going, Looking
<1>2. ExecuteTypeOK /\ Forward
  BY <1>1 DEF Loop
<1>3. /\ cursor \in 1..Len(normalized_actions)
      /\ Len(normalized_actions) \in Nat
  BY <1>1, <1>2, PlanFacts DEF Forward
<1>4. MutatingNames[cursor] = MutatingNames[cursor - 1]
  BY <1>1, <1>2, <1>3, PlanFacts
<1>5. ExecuteTypeOK'
  BY <1>1, <1>2, <1>3 DEF ExecuteTypeOK
<1>6. MutatingNames' = MutatingNames /\ AllSucceededBut(0)'
  BY <1>1, <1>2 DEF MutatingNames, AllSucceededBut, Forward
<1>7. /\ cursor' \in 1..(Len(normalized_actions) + 1)
      /\ cursor' - 1 = cursor
  BY <1>1, <1>3
<1>8. Forward'
  <2> HIDE DEF MutatingNames
  <2> QED
    BY <1>1, <1>2, <1>4, <1>6, <1>7 DEF Forward
<1> QED
  BY <1>1, <1>5, <1>8 DEF Loop

LEMMA PerformLoop ==
    ASSUME Loop, NEW ok \in BOOLEAN, PerformAction(ok)
    PROVE  Loop'
<1> DEFINE entry == [action |-> Looking.type, success |-> ok]
<1>1. /\ direction = "forward"
      /\ cursor <= Len(normalized_actions)
      /\ Looking.type \notin ReadOnly
      /\ results' = Append(results, entry)
      /\ performed' = performed + 1
      /\ UNCHANGED <<normalized_actions, compensations>>
  BY DEF PerformAction, Going
<1>2. ExecuteTypeOK /\ Forward
  BY <1>1 DEF Loop
<1>3. /\ cursor \in 1..Len(normalized_actions)
      /\ Len(normalized_actions) \in Nat
  BY <1>1, <1>2, PlanFacts DEF Forward
<1>4. Looking \in NormalizedAction
  BY <1>2, <1>3, ElementOfSeq DEF Looking, ExecuteTypeOK
<1>5. Looking.type \in ActionTypes /\ Looking.count \in Int
  BY <1>4 DEF NormalizedAction
<1>6. /\ entry \in HistoryEntry
      /\ entry.action = Looking.type /\ entry.success = ok
  BY <1>5 DEF HistoryEntry
<1>7. results \in Seq(HistoryEntry)
  BY <1>2 DEF ExecuteTypeOK
<1> HIDE DEF entry
<1>8. /\ results' \in Seq(HistoryEntry)
      /\ Len(results') = Len(results) + 1 /\ Len(results) \in Nat
      /\ \A i \in 1..Len(results) : results'[i] = results[i]
      /\ results'[Len(results) + 1] = entry
  BY <1>1, <1>6, <1>7, AppendProperties
<1>9. RestartedBy(Looking) \in Int
  BY <1>5 DEF RestartedBy
<1>10. ExecuteTypeOK'
  <2>1. cursor' \in Nat /\ direction' \in {"forward", "back"}
    BY <1>1, <1>3 DEF PerformAction
  <2>2. restarted' \in Int
    BY <1>2, <1>9 DEF PerformAction, ExecuteTypeOK
  <2> QED
    BY <1>1, <1>2, <1>8, <2>1, <2>2 DEF ExecuteTypeOK
<1>11. Names(results') = MutatingNames[cursor]
  <2>1. Names(results') = Append(Names(results), Looking.type)
    BY <1>1, <1>6, <1>7, NamesAppended
  <2>2. MutatingNames[cursor] = Append(MutatingNames[cursor - 1], Looking.type)
    BY <1>1, <1>2, <1>3, PlanFacts DEF Looking
  <2> QED
    BY <1>2, <2>1, <2>2 DEF Forward
<1>12. /\ MutatingNames' = MutatingNames /\ UndoableNames' = UndoableNames
       /\ Mutating(normalized_actions)' = Mutating(normalized_actions)
  BY <1>1 DEF MutatingNames, UndoableNames
<1>13. \A i \in 1..Len(results) : results'[i].success
  BY <1>2, <1>8 DEF Forward, AllSucceededBut
<1>14. CASE ok
  <2>1. direction' = "forward" /\ cursor' = cursor + 1
    BY <1>1, <1>14 DEF PerformAction
  <2>2. /\ cursor' \in 1..(Len(normalized_actions) + 1)
        /\ cursor' - 1 = cursor
    BY <1>3, <2>1
  <2>3. AllSucceededBut(0)'
    <3> SUFFICES ASSUME NEW i \in 1..(Len(results') - 0)
                 PROVE  results'[i].success
      BY DEF AllSucceededBut
    <3>1. i \in 1..Len(results) \/ i = Len(results) + 1
      BY <1>8
    <3> QED
      BY <1>6, <1>8, <1>13, <1>14, <3>1
  <2>4. Forward'
    <3> HIDE DEF MutatingNames
    <3> QED
      BY <1>1, <1>2, <1>11, <1>12, <2>2, <2>3 DEF Forward
  <2> QED
    BY <1>10, <2>1, <2>4 DEF Loop
<1>15. CASE ~ok
  <2>1. direction' = "back" /\ cursor' = cursor - 1
    BY <1>1, <1>15 DEF PerformAction
  <2>2. cursor' \in 0..(cursor - 1)
    BY <1>3, <2>1
  <2>3. AllSucceededBut(1)'
    <3>1. Len(results') - 1 = Len(results)
      BY <1>8
    <3> QED
      BY <1>13, <3>1 DEF AllSucceededBut
  <2>4. Names(compensations') \o Reverse(UndoableNames[cursor - 1]) =
            Reverse(UndoableNames[cursor - 1])
    <3>1. Names(compensations') = <<>>
      BY <1>1, <1>2, EmptySeq, NamesTyped DEF Forward
    <3>2. cursor - 1 \in 0..Len(normalized_actions)
      BY <1>3
    <3>3. UndoableNames[cursor - 1] \in Seq(ActionTypes)
      BY <1>2, <3>2, PlanFacts
    <3>4. Reverse(UndoableNames[cursor - 1]) \in Seq(ActionTypes)
      BY <3>3, ReverseTyped
    <3> QED
      BY <3>1, <3>4, ConcatEmptySeq
  <2>5. cursor \in Mutating(normalized_actions)
    BY <1>1, <1>2, <1>3, LenProperties DEF Mutating, Looking, ExecuteTypeOK
  <2>6. /\ cursor' \in 0..(cursor - 1)
        /\ Names(results') = MutatingNames'[cursor]
        /\ Names(compensations') \o Reverse(UndoableNames'[cursor']) =
               Reverse(UndoableNames'[cursor - 1])
    <3> HIDE DEF MutatingNames, UndoableNames
    <3> QED
      BY <1>11, <1>12, <2>1, <2>2, <2>4
  <2>7. \E failed \in Mutating(normalized_actions)' : BackFrom(failed)'
    <3> HIDE DEF MutatingNames, UndoableNames, Mutating
    <3> QED
      BY <1>12, <2>3, <2>5, <2>6 DEF BackFrom
  <2> QED
    BY <1>10, <2>1, <2>7 DEF Loop
<1> QED
  BY <1>14, <1>15

LEMMA CompensateLoop ==
    ASSUME Loop, NEW ok \in BOOLEAN, Compensate(ok)
    PROVE  Loop'
<1> DEFINE entry == [action |-> Looking.type, success |-> ok]
           Owes == Looking.type \notin ReadOnly /\ Looking.compensation
<1>1. /\ direction = "back" /\ direction' = direction
      /\ cursor > 0 /\ cursor' = cursor - 1
      /\ UNCHANGED <<normalized_actions, results, restarted>>
      /\ IF Owes
         THEN /\ compensations' = Append(compensations, entry)
              /\ performed' = performed + 1
         ELSE UNCHANGED <<compensations, performed>>
  BY DEF Compensate
<1>2. ExecuteTypeOK
  BY DEF Loop
<1>3. PICK failed \in Mutating(normalized_actions) : BackFrom(failed)
  BY <1>1 DEF Loop
<1>4. /\ failed \in 1..Len(normalized_actions)
      /\ Len(normalized_actions) \in Nat
  BY <1>2, <1>3, PlanFacts
<1>5. cursor \in 1..Len(normalized_actions) /\ cursor \in 0..(failed - 1)
  BY <1>1, <1>3, <1>4 DEF BackFrom
<1>6. Looking \in NormalizedAction
  BY <1>2, <1>5, ElementOfSeq DEF Looking, ExecuteTypeOK
<1>7. entry \in HistoryEntry /\ entry.action = Looking.type
      /\ Looking.type \in ActionTypes
  BY <1>6 DEF HistoryEntry, NormalizedAction
<1>8. compensations \in Seq(HistoryEntry) /\ performed \in Nat
  BY <1>2 DEF ExecuteTypeOK
<1> HIDE DEF entry, Owes
<1>9. ExecuteTypeOK'
  <2>1. compensations' \in Seq(HistoryEntry) /\ performed' \in Nat
    <3>1. Append(compensations, entry) \in Seq(HistoryEntry)
      BY <1>7, <1>8
    <3>2. performed + 1 \in Nat
      BY <1>8
    <3>3. CASE Owes
      BY <1>1, <3>1, <3>2, <3>3
    <3>4. CASE ~Owes
      BY <1>1, <1>8, <3>4
    <3> QED
      BY <3>3, <3>4
  <2>2. cursor' \in Nat
    BY <1>1, <1>5
  <2> QED
    BY <1>1, <1>2, <2>1, <2>2 DEF ExecuteTypeOK
<1>10. /\ MutatingNames' = MutatingNames /\ UndoableNames' = UndoableNames
       /\ Mutating(normalized_actions)' = Mutating(normalized_actions)
       /\ AllSucceededBut(1)' = AllSucceededBut(1)
  BY <1>1 DEF MutatingNames, UndoableNames, AllSucceededBut
<1>11. Names(compensations') \o Reverse(UndoableNames[cursor - 1]) =
           Names(compensations) \o Reverse(UndoableNames[cursor])
  <2> DEFINE before == UndoableNames[cursor - 1]
             names == Names(compensations)
             type == Looking.type
  <2>1. /\ before \in Seq(ActionTypes)
        /\ UndoableNames[cursor] = IF Owes THEN Append(before, type) ELSE before
    BY <1>2, <1>5, PlanFacts DEF Owes, Looking
  <2>2. names \in Seq(ActionTypes) /\ type \in ActionTypes
    BY <1>7, <1>8, NamesTyped
  <2>3. CASE Owes
    <3>1. Names(compensations') = Append(names, type)
      BY <1>1, <1>7, <1>8, <2>3, NamesAppended
    <3>2. UndoableNames[cursor] = Append(before, type)
      BY <2>1, <2>3
    <3> HIDE DEF before, names, type
    <3>3. Append(names, type) = names \o <<type>>
      BY <2>2, AppendIsConcat
    <3>4. Reverse(Append(before, type)) = <<type>> \o Reverse(before)
      BY <2>1, <2>2, ReverseAppended
    <3>5. <<type>> \in Seq(ActionTypes) /\ Reverse(before) \in Seq(ActionTypes)
      BY <2>1, <2>2, ReverseTyped
    <3>6. (names \o <<type>>) \o Reverse(before) =
              names \o (<<type>> \o Reverse(before))
      BY <2>2, <3>5, ConcatAssociative
    <3>7. UndoableNames[cursor - 1] = before /\ Names(compensations) = names
      BY DEF before, names
    <3> QED
      BY <3>1, <3>2, <3>3, <3>4, <3>6, <3>7
  <2>4. CASE ~Owes
    <3>1. compensations' = compensations /\ UndoableNames[cursor] = before
      BY <1>1, <2>1, <2>4
    <3> QED
      BY <3>1
  <2> QED
    BY <2>3, <2>4
<1>12. BackFrom(failed)'
  <2>1. cursor' \in 0..(failed - 1)
    BY <1>1, <1>4, <1>5
  <2>2. /\ Names(results') = MutatingNames'[failed]
        /\ Names(compensations') \o Reverse(UndoableNames'[cursor']) =
               Reverse(UndoableNames'[failed - 1])
    <3> HIDE DEF MutatingNames, UndoableNames
    <3> QED
      BY <1>1, <1>3, <1>10, <1>11 DEF BackFrom
  <2> HIDE DEF MutatingNames, UndoableNames
  <2> QED
    BY <1>3, <1>10, <2>1, <2>2 DEF BackFrom
<1> QED
  BY <1>1, <1>9, <1>10, <1>12 DEF Loop

LEMMA LoopInvariant == Spec => []Loop
<1>1. ASSUME Loop, [ExecuteStep]_executeVars
      PROVE  Loop'
  <2>1. CASE UNCHANGED executeVars
    BY <1>1, <2>1
       DEF executeVars, Loop, ExecuteTypeOK, Forward, BackFrom,
           MutatingNames, UndoableNames, AllSucceededBut
  <2> QED
    BY <1>1, <2>1, SkipLoop, PerformLoop, CompensateLoop DEF ExecuteStep
<1>2. Loop /\ [Next]_clusterVars => Loop'
  BY <1>1, StepOfNode
<1> QED
  BY <1>2, LoopInit, PTL DEF Spec

\* The saga, for every plan and every sequence of answers: on its return
\* after a failure the node has compensated exactly the actions before the
\* failed one that can be, newest first.
THEOREM ExecutionCompensates == Spec => []CompensatesInReverse
<1>1. Loop => CompensatesInReverse
  <2> SUFFICES ASSUME Loop, Executed
               PROVE  IF direction = "forward" THEN compensations = <<>>
                      ELSE \E failed \in Mutating(normalized_actions) :
                               /\ Names(results) = MutatingNames[failed]
                               /\ Names(compensations) =
                                      Reverse(UndoableNames[failed - 1])
    BY DEF CompensatesInReverse, MutatingNames, UndoableNames
  <2>1. CASE direction = "forward"
    BY <2>1 DEF Loop, Forward
  <2>2. CASE direction # "forward"
    <3>1. PICK failed \in Mutating(normalized_actions) : BackFrom(failed)
      BY <2>2 DEF Loop
    <3>2. cursor = 0
      BY <2>2 DEF Executed
    <3>3. UndoableNames[0] = <<>>
      BY PlanFacts DEF Loop
    <3>4. Reverse(<<>>) = <<>>
      BY EmptySeq, ReverseTyped
    <3>5. Names(compensations) \in Seq(ActionTypes)
      BY NamesTyped DEF Loop, ExecuteTypeOK
    <3>6. Names(compensations) \o <<>> = Names(compensations)
      BY <3>5, ConcatEmptySeq
    <3>7. Names(compensations) = Reverse(UndoableNames[failed - 1])
      BY <3>1, <3>2, <3>3, <3>4, <3>6 DEF BackFrom
    <3> QED
      BY <2>2, <3>1, <3>7 DEF BackFrom
  <2> QED
    BY <2>1, <2>2
<1> QED
  BY <1>1, LoopInvariant, PTL

\* Nothing is executed after a failure, whatever the plan and the answers.
THEOREM ExecutionStops == Spec => []StopsAtFirstFailure
<1>1. Loop => StopsAtFirstFailure
  <2> SUFFICES ASSUME Loop
               PROVE  /\ \E n \in 0..Len(normalized_actions) :
                             Names(results) = MutatingNames[n]
                      /\ AllSucceededBut(1)
                      /\ Executed /\ direction = "forward" =>
                             /\ Names(results) =
                                    MutatingNames[Len(normalized_actions)]
                             /\ \A i \in DOMAIN results : results[i].success
    <3>1. Loop => DOMAIN MutatingNames = 0..Len(normalized_actions)
      BY PlanFacts DEF Loop
    <3> QED
      BY <3>1 DEF StopsAtFirstFailure, MutatingNames, AllSucceededBut
  <2>1. /\ Len(normalized_actions) \in Nat /\ Len(results) \in Nat
        /\ DOMAIN results = 1..Len(results)
        /\ Mutating(normalized_actions) \subseteq 1..Len(normalized_actions)
    BY PlanFacts, LenProperties DEF Loop, ExecuteTypeOK
  <2>2. CASE direction = "forward"
    <3>1. Forward /\ cursor - 1 \in 0..Len(normalized_actions)
      BY <2>1, <2>2 DEF Loop, Forward
    <3>2. \A i \in 1..Len(results) : results[i].success
      BY <2>1, <3>1 DEF Forward, AllSucceededBut
    <3>3. Executed => cursor - 1 = Len(normalized_actions)
      BY <2>1, <2>2, <3>1 DEF Executed, Forward
    <3>4. AllSucceededBut(1)
      BY <2>1, <3>2 DEF AllSucceededBut
    <3> HIDE DEF MutatingNames
    <3> QED
      BY <2>1, <3>1, <3>2, <3>3, <3>4 DEF Forward
  <2>3. CASE direction # "forward"
    <3>1. PICK failed \in Mutating(normalized_actions) : BackFrom(failed)
      BY <2>3 DEF Loop
    <3> HIDE DEF MutatingNames, Mutating
    <3> QED
      BY <2>1, <2>3, <3>1 DEF BackFrom
  <2> QED
    BY <2>2, <2>3
<1> QED
  BY <1>1, LoopInvariant, PTL

-----------------------------------------------------------------------------
(* The node's work is bounded.                                             *)

\* The loops' place on the plan, with what each step makes of it.
LEMMA StepAhead ==
    ASSUME Loop, ExecuteStep
    PROVE  /\ Len(normalized_actions) \in Nat /\ cursor \in Nat
           /\ direction = "forward" =>
                  /\ direction' = "forward" => cursor' = cursor + 1
                  /\ direction' # "forward" => cursor' = cursor - 1
                  /\ 1 <= cursor /\ cursor <= Len(normalized_actions)
           /\ direction # "forward" =>
                  /\ direction' # "forward" /\ cursor' = cursor - 1
                  /\ 1 <= cursor /\ cursor < Len(normalized_actions)
           /\ normalized_actions' = normalized_actions
           /\ performed' = performed \/ performed' = performed + 1
<1>1. Len(normalized_actions) \in Nat /\ cursor \in Nat
  BY PlanFacts DEF Loop, ExecuteTypeOK
<1>2. direction = "forward" => 1 <= cursor
  BY <1>1 DEF Loop, Forward
<1>3. direction # "forward" => cursor < Len(normalized_actions)
  BY <1>1, PlanFacts DEF Loop, BackFrom
<1>4. CASE SkipReadOnly
  BY <1>1, <1>2, <1>4 DEF SkipReadOnly, Going
<1>5. CASE \E ok \in BOOLEAN : PerformAction(ok)
  BY <1>1, <1>2, <1>5 DEF PerformAction, Going
<1>6. CASE \E ok \in BOOLEAN : Compensate(ok)
  <2>1. /\ direction = "back" /\ direction' = direction
        /\ cursor > 0 /\ cursor' = cursor - 1
        /\ normalized_actions' = normalized_actions
        /\ performed' = performed \/ performed' = performed + 1
    BY <1>6 DEF Compensate
  <2> QED
    BY <1>1, <1>3, <2>1
<1> QED
  BY <1>4, <1>5, <1>6 DEF ExecuteStep

\* The infrastructure is called at most once for each action of the plan and
\* once more to undo it, the last action to be tried excepted.
CallsBounded ==
    performed = 0 \/ performed < 2 * Len(normalized_actions)

\* The bound says nothing of the calls that a place on the plan leaves.
CallsBehind ==
    IF direction = "forward" THEN performed <= cursor - 1
    ELSE performed + cursor < 2 * Len(normalized_actions)

\* For every plan and whatever fails.
THEOREM ExecutionCalls == Spec => []CallsBounded
<1>1. Init => CallsBehind
  BY DEF Init, ExecuteLocalsFresh, CallsBehind
<1>2. ASSUME Loop, CallsBehind, [Next]_clusterVars
      PROVE  CallsBehind'
  <2>1. performed \in Nat
    BY <1>2 DEF Loop, ExecuteTypeOK
  <2>2. CASE ExecuteStep
    BY <1>2, <2>1, <2>2, StepAhead DEF CallsBehind
  <2>3. CASE UNCHANGED executeVars
    BY <1>2, <2>3 DEF executeVars, CallsBehind
  <2> QED
    BY <1>2, <2>2, <2>3, StepOfNode
<1>3. Loop /\ CallsBehind => CallsBounded
  <2> SUFFICES ASSUME Loop, CallsBehind
               PROVE  CallsBounded
    OBVIOUS
  <2>1. /\ Len(normalized_actions) \in Nat /\ cursor \in Nat
        /\ performed \in Nat
    BY PlanFacts DEF Loop, ExecuteTypeOK
  <2>2. direction = "forward" => cursor <= Len(normalized_actions) + 1
    BY <2>1 DEF Loop, Forward
  <2> QED
    BY <2>1, <2>2 DEF CallsBehind, CallsBounded
<1> QED
  BY <1>1, <1>2, <1>3, LoopInvariant, PTL DEF Spec

-----------------------------------------------------------------------------
(* The simulated cluster.                                                  *)

\* Only some of the pods are healthy.
LEMMA HealthyTyped ==
    ASSUME NEW pods \in Seq(BOOLEAN)
    PROVE  Healthy(pods) \in 0..Len(pods) /\ Len(pods) \in Nat
<1>1. DOMAIN pods = 1..Len(pods) /\ Len(pods) \in Nat
  BY LenProperties
<1>2. IsFiniteSet(1..Len(pods)) /\ Cardinality(1..Len(pods)) = Len(pods)
  BY <1>1, FS_Interval
<1>3. {i \in DOMAIN pods : pods[i]} \subseteq 1..Len(pods)
  BY <1>1
<1>4. IsFiniteSet({i \in DOMAIN pods : pods[i]})
  BY <1>2, <1>3, FS_Subset
<1>5. Healthy(pods) <= Len(pods)
  BY <1>2, <1>3, FS_Subset DEF Healthy
<1> QED
  BY <1>1, <1>4, <1>5, FS_CardinalityType DEF Healthy

\* Where all of them are healthy, they count as many.
LEMMA AllCounted ==
    ASSUME NEW pods \in Seq(BOOLEAN), pods = AllHealthy(pods)
    PROVE  Healthy(pods) = Len(pods)
<1>1. DOMAIN pods = 1..Len(pods) /\ Len(pods) \in Nat
  BY LenProperties
<1>2. Cardinality(1..Len(pods)) = Len(pods)
  BY <1>1, FS_Interval
<1>3. \A i \in DOMAIN pods : pods[i]
  BY DEF AllHealthy
<1>4. {i \in DOMAIN pods : pods[i]} = 1..Len(pods)
  BY <1>1, <1>3
<1> QED
  BY <1>2, <1>4 DEF Healthy

\* A pod that is not healthy does not raise the rate, and without one hardly
\* anything is left of it.
LEMMA ShareTyped ==
    ASSUME NEW rate \in Nat, NEW pods \in Seq(BOOLEAN)
    PROVE  /\ Share(rate, pods) \in Nat /\ Share(rate, pods) <= rate
           /\ pods # <<>> /\ pods = AllHealthy(pods) => Share(rate, pods) = 0
<1> DEFINE total == Len(pods)
           ill == total - Healthy(pods)
           a == 2 * rate * ill + total
           n == 2 * total
<1>1. CASE pods = <<>>
  BY <1>1 DEF Share
<1>2. CASE pods # <<>>
  <2>1. total \in Nat \ {0} /\ ill \in 0..total
    BY <1>2, HealthyTyped, EmptySeq
  <2>2. Share(rate, pods) = a \div n
    BY <1>2 DEF Share
  <2>3. pods = AllHealthy(pods) => ill = 0
    BY <2>1, AllCounted
  <2> HIDE DEF total, ill
  <2>4. rate * ill \in Nat /\ rate * ill <= rate * total
    BY <2>1, Z3
  <2>5. /\ a = 2 * (rate * ill) + total
        /\ rate * n = 2 * (rate * total) /\ (rate + 1) * n = rate * n + n
    BY <2>1, Z3
  <2>6. a \in Nat /\ n \in Nat \ {0} /\ rate * total \in Nat
    BY <2>1, <2>4, <2>5
  <2>7. a < (rate + 1) * n
    BY <2>1, <2>4, <2>5, <2>6
  <2>8. ill = 0 => a < 1 * n
    BY <2>1
  <2> HIDE DEF a, n
  <2>9. a \div n \in Nat /\ a \div n < rate + 1
    BY <2>6, <2>7, DivGalois
  <2>10. ill = 0 => a \div n < 1
    BY <2>6, <2>8, <2>9, DivGalois
  <2> QED
    BY <2>2, <2>3, <2>9, <2>10
<1> QED
  BY <1>1, <1>2

\* What the postconditions are to see of a deployment.
Sound(d) ==
    /\ d.pods \in Seq(BOOLEAN)
    /\ d.metrics = Measured(d.pods, d.metrics.error_rate)
    /\ d.metrics.error_rate \in LeastRate..FirstRate
    /\ d.pods # <<>> /\ d.pods = AllHealthy(d.pods)
           => d.metrics.error_rate <= LowRate

LEMMA RateTyped == \A rate \in LeastRate..FirstRate : rate \in Nat
BY DEF LeastRate, FirstRate

LEMMA MeasuredTyped ==
    ASSUME NEW d, Sound(d)
    PROVE  d.metrics # NoMetrics
<1>1. Healthy(d.pods) \in Nat /\ Len(d.pods) \in Nat
  BY HealthyTyped DEF Sound
<1>2. d.metrics.error_rate \in Nat
  BY RateTyped DEF Sound
<1> QED
  BY <1>1, <1>2, ClusterAssumption DEF Sound, Measured, ServiceMetrics

\* Every deployment of the simulation is as nobody has created it, or as it
\* was measured last.
Consistent(d) == d = NoDeployment \/ Sound(d)

Simulated ==
    /\ cluster = [name \in Deployments |-> cluster[name]]
    /\ \A name \in Deployments : Consistent(cluster[name])

LEMMA RecalculatedSound ==
    ASSUME NEW d, Consistent(d), NEW pods \in Seq(BOOLEAN)
    PROVE  Sound(Recalculated(d, pods))
<1> DEFINE rate == RateBefore(d)
           share == Share(rate, pods)
           lower == IF share > LeastRate THEN share ELSE LeastRate
<1>1. NoDeployment.metrics = NoMetrics
  BY DEF NoDeployment
<1>2. rate \in LeastRate..FirstRate
  <2>1. FirstRate \in LeastRate..FirstRate
    BY DEF LeastRate, FirstRate
  <2> QED
    BY <1>1, <2>1, MeasuredTyped DEF Consistent, RateBefore, Sound
<1> HIDE DEF rate
<1>3. /\ share \in Nat /\ share <= rate
      /\ pods # <<>> /\ pods = AllHealthy(pods) => share = 0
  BY <1>2, ShareTyped, RateTyped
<1>4. Recalculated(d, pods) =
          [pods |-> pods, metrics |-> Measured(pods, lower)]
  BY DEF Recalculated, rate
<1> HIDE DEF share
<1>5. /\ lower \in LeastRate..FirstRate
      /\ pods # <<>> /\ pods = AllHealthy(pods) => lower <= LowRate
  BY <1>2, <1>3 DEF LeastRate, FirstRate, LowRate
<1> HIDE DEF lower
<1> QED
  BY <1>4, <1>5 DEF Sound, Measured

LEMMA ConsistentPods ==
    ASSUME NEW d, Consistent(d)
    PROVE  d.pods \in Seq(BOOLEAN)
<1>1. NoDeployment.pods \in Seq(BOOLEAN)
  BY EmptySeq DEF NoDeployment
<1> QED
  BY <1>1 DEF Consistent, Sound

\* A call leaves a deployment as it was, or measures the pods that it leaves.
LEMMA ServedConsistent ==
    ASSUME NEW d, Consistent(d), NEW a \in NormalizedAction
    PROVE  Consistent(Served(d, a))
<1>1. /\ d.pods \in Seq(BOOLEAN)
      /\ DOMAIN d.pods = 1..Len(d.pods) /\ Len(d.pods) \in Nat
  BY ConsistentPods, LenProperties
<1>2. CASE ~Succeeds(d, a)
  BY <1>2 DEF Served
<1>3. CASE Succeeds(d, a) /\ a.type = "restart_pods"
  <2>1. Healed(d.pods, a.count) \in [1..Len(d.pods) -> BOOLEAN]
    BY <1>1 DEF Healed
  <2>2. Healed(d.pods, a.count) \in Seq(BOOLEAN)
    BY <1>1, <2>1, SeqDef
  <2> QED
    BY <1>3, <2>2, RecalculatedSound DEF Served, Consistent
<1>4. CASE Succeeds(d, a) /\ a.type = "scale_deployment"
  <2>1. a.replicas \in Nat
    BY <1>4 DEF Succeeds, NormalizedAction, GenericVerbs
  <2>2. \A i \in 1..a.replicas : i <= Len(d.pods) => d.pods[i] \in BOOLEAN
    BY <1>1, <2>1, ElementOfSeq
  <2>3. Resized(d.pods, a.replicas) \in [1..a.replicas -> BOOLEAN]
    BY <2>1, <2>2 DEF Resized
  <2>4. Resized(d.pods, a.replicas) \in Seq(BOOLEAN)
    BY <2>1, <2>3, SeqDef
  <2> QED
    BY <1>4, <2>4, RecalculatedSound DEF Served, Consistent
<1>5. CASE Succeeds(d, a) /\ a.type = "rollback_deployment"
  <2> DEFINE healed == AllHealthy(d.pods)
  <2>1. healed \in [1..Len(d.pods) -> BOOLEAN]
    BY <1>1 DEF AllHealthy
  <2>2. healed \in Seq(BOOLEAN)
    BY <1>1, <2>1, SeqDef
  <2>3. Served(d, a) = [pods |-> healed, metrics |-> Measured(healed, LowRate)]
    BY <1>5 DEF Served
  <2> HIDE DEF healed
  <2>4. LowRate \in LeastRate..FirstRate /\ LowRate <= LowRate
    BY DEF LeastRate, LowRate, FirstRate
  <2>5. /\ Served(d, a).pods = healed
        /\ Served(d, a).metrics = Measured(healed, LowRate)
    BY <2>3
  <2>6. Measured(healed, LowRate).error_rate = LowRate
    BY DEF Measured
  <2> QED
    BY <2>2, <2>4, <2>5, <2>6 DEF Consistent, Sound
<1>6. CASE /\ Succeeds(d, a)
           /\ a.type \notin {"restart_pods", "scale_deployment",
                             "rollback_deployment"}
  BY <1>6 DEF Served
<1> QED
  BY <1>2, <1>3, <1>4, <1>5, <1>6

\* The action that the loop performs.
LEMMA LookingTyped ==
    ASSUME Loop, Going
    PROVE  Looking \in NormalizedAction
<1>1. ExecuteTypeOK /\ Forward
  BY DEF Loop, Going
<1>2. cursor \in 1..Len(normalized_actions)
  BY <1>1, PlanFacts DEF Forward, Going
<1> QED
  BY <1>1, <1>2, ElementOfSeq DEF Looking, ExecuteTypeOK

LEMMA SimulatedStep ==
    ASSUME Loop, Simulated, [Next]_clusterVars
    PROVE  Simulated'
<1>1. CASE PerformOnCluster
  <2> DEFINE name == targets[cursor]
  <2>1. /\ Going
        /\ cluster' = [cluster EXCEPT ![name] = Served(cluster[name], Looking)]
    BY <1>1 DEF PerformOnCluster
  <2>2. Looking \in NormalizedAction
    BY <2>1, LookingTyped
  <2>3. name \in Deployments => Consistent(Served(cluster[name], Looking))
    BY <2>2, ServedConsistent DEF Simulated
  <2> HIDE DEF name
  <2> QED
    BY <2>1, <2>3 DEF Simulated
<1>2. CASE CompensateOnCluster
  <2>1. PICK name \in Deployments, undo \in Undo :
            cluster' = IF performed' # performed
                       THEN [cluster EXCEPT ![name] = Served(@, undo)]
                       ELSE cluster
    BY <1>2 DEF CompensateOnCluster
  <2>2. undo \in NormalizedAction
    BY ClusterAssumption
  <2>3. Consistent(Served(cluster[name], undo))
    BY <2>2, ServedConsistent DEF Simulated
  <2> QED
    BY <2>1, <2>3 DEF Simulated
<1>3. CASE UNCHANGED cluster
  BY <1>3 DEF Simulated
<1> QED
  BY <1>1, <1>2, <1>3
     DEF Next, ClusterStep, Skip, PerformOnKubernetes,
         CompensateOnKubernetes, CallElsewhere, Reconcile, clusterVars

LEMMA SimulatedInvariant == Spec => [](Loop /\ Simulated)
<1>1. Init => Simulated
  <2> SUFFICES ASSUME Init, NEW name \in Deployments
               PROVE  Consistent(cluster[name])
    BY DEF Init, Simulated
  <2> DEFINE first == [pods |-> FirstPods,
                       metrics |-> Measured(FirstPods, FirstRate)]
  <2>1. cluster[name] = first \/ cluster[name] = NoDeployment
    BY DEF Init
  <2>2. FirstPods # AllHealthy(FirstPods)
    BY ClusterAssumption DEF AllHealthy
  <2>3. Sound(first)
    BY <2>2, ClusterAssumption DEF Sound, Measured, FirstRate, LeastRate
  <2> HIDE DEF first
  <2> QED
    BY <2>1, <2>3 DEF Consistent
<1>2. Loop /\ Loop' /\ Simulated /\ [Next]_clusterVars => Simulated'
  BY SimulatedStep
<1> QED
  BY <1>1, <1>2, LoopInvariant, PTL DEF Spec

\* "recomputed so postcondition checks see consistent data", for any number
\* of deployments and pods and any calls.
THEOREM ClusterMeasured == Spec => []MetricsFollowPods
<1>1. Simulated => MetricsFollowPods
  BY MeasuredTyped DEF Simulated, Consistent, Sound, NoDeployment, MetricsFollowPods
<1> QED
  BY <1>1, SimulatedInvariant, PTL
=============================================================================
