--------------------------- MODULE StartupProofs ---------------------------
(***************************************************************************)
(* The start of any number of processes, for every knowledge base,         *)
(* topology and number of boots and faults: the types, the dependency      *)
(* graph after concurrent seedings and the blast radius read from it, the  *)
(* knowledge index, the accounts, and the races that leave somebody up.    *)
(***************************************************************************)
EXTENDS Startup, WellFoundedInduction, TLAPS

-----------------------------------------------------------------------------
(* Type correctness.                                                       *)

\* A file is added under its own number.
LEMMA AddedTyped ==
    ASSUME NEW s \in Stores, NEW file \in Files, NEW k \in SUBSET Chunks
    PROVE  Added(s, file, k) \in Stores
BY DEF Added, Stores, Absent

\* A statement leaves a graph, whichever topology is used.
LEMMA TopologyTyped == Topology \in Topologies
BY TopologyAssumption DEF Topology

LEMMA StatementTyped ==
    ASSUME NEW g \in Graphs, NEW k \in Nat, k <= LastStatement
    PROVE  AfterStatement(g, k) \in Graphs
<1> DEFINE d == Topology.dependencies
           c == Topology.criticality
<1>1. d \in Seq(Dependency) /\ c \in Seq(Services \X Levels)
  BY TopologyTyped DEF Topologies
<1>2. CASE k = 0
  BY <1>2 DEF AfterStatement, EmptyGraph, Graphs
<1>3. CASE k # 0 /\ k <= Len(d)
  <2>1. d[k] \in Dependency
    BY <1>1, <1>3
  <2>2. AfterStatement(g, k) = [g EXCEPT !.edges = @ \cup {d[k]}]
    BY <1>3 DEF AfterStatement
  <2> QED
    BY <2>1, <2>2 DEF Graphs
<1>4. CASE k > Len(d)
  <2> DEFINE j == k - Len(d)
  <2>1. j \in 1..Len(c)
    <3>1. Len(d) \in Nat /\ Len(c) \in Nat
      BY <1>1
    <3>2. k <= Len(d) + Len(c)
      BY DEF LastStatement
    <3>3. \A m, n \in Nat : k <= m + n /\ k > m => k - m \in 1..n
      OBVIOUS
    <3> QED
      BY <1>4, <3>1, <3>2, <3>3
  <2>2. c[j][1] \in Services /\ c[j][2] \in Levels
    BY <1>1, <2>1
  <2>3. AfterStatement(g, k) = [g EXCEPT !.level[c[j][1]] = c[j][2]]
    BY <1>1, <1>4 DEF AfterStatement
  <2> QED
    BY <2>2, <2>3 DEF Graphs
<1> QED
  BY <1>1, <1>2, <1>3, <1>4

\* The type invariant, with where the cursor of a process can be.
TypeInv ==
    /\ TypeOK
    /\ \A p \in Processes : phase[p] = "add" => at[p] \in Files

LEMMA TypeInit == Init => TypeInv
<1> SUFFICES ASSUME Init PROVE TypeInv
  OBVIOUS
<1>1. EmptyStore \in Stores
  BY DEF EmptyStore, Stores, Absent
<1>2. EmptyGraph \in Graphs
  BY DEF EmptyGraph, Graphs
<1>3. phase \in [Processes -> Phases] /\ \A p \in Processes : phase[p] = "down"
  BY DEF Init, Phases
<1>4. /\ at \in [Processes -> Nat] /\ known \in [Processes -> SUBSET Chunks]
      /\ email \in [Processes -> Emails] /\ users \in [Emails -> Nat]
      /\ founders \in Nat /\ boots \in 0..MaxBoots /\ asked \in 0..MaxRequests
      /\ crashes \in Nat /\ faults \in Nat /\ crashes + faults <= MaxFaults
  BY StartupAssumption DEF Init
<1>5. tables \in BOOLEAN /\ seeded \in BOOLEAN
  BY Zenon DEF Init
<1>6. serving \subseteq Processes /\ indexed \subseteq Processes
      /\ wiper \in Processes \cup {Nobody}
  BY DEF Init
<1>7. store \in Stores /\ graph \in Graphs
  BY <1>1, <1>2 DEF Init
<1> QED
  BY <1>3, <1>4, <1>5, <1>6, <1>7 DEF TypeInv, TypeOK

LEMMA TypeStep == TypeInv /\ [Next]_vars => TypeInv'
<1> SUFFICES ASSUME TypeInv, [Next]_vars PROVE TypeInv'
  OBVIOUS
<1> USE DEF TypeInv, TypeOK, Phases
<1>1. CASE UNCHANGED vars
  BY <1>1 DEF vars, process, stores, seeding, counters
<1>2. ASSUME NEW p \in Processes, Boot(p) PROVE TypeInv'
  BY <1>2, StartupAssumption DEF Boot, Goto, stores, seeding
<1>3. ASSUME NEW p \in Processes, InspectTables(p) PROVE TypeInv'
  BY <1>3 DEF InspectTables, Goto, stores, seeding, counters
<1>4. ASSUME NEW p \in Processes, CreateTables(p) PROVE TypeInv'
  BY <1>4 DEF CreateTables, Goto, seeding, counters
<1>5. ASSUME NEW p \in Processes, LookUp(p) PROVE TypeInv'
  BY <1>5 DEF LookUp, Goto, Found, Stored, stores, seeding, counters
<1>6. ASSUME NEW p \in Processes, LookUpFails(p) PROVE TypeInv'
  BY <1>6, StartupAssumption DEF LookUpFails, Goto, Fault, stores, seeding
<1>7. ASSUME NEW p \in Processes, Add(p) PROVE TypeInv'
  <2>1. store' \in Stores
    BY <1>7, AddedTyped DEF Add, NextFile
  <2> QED
    BY <1>7, <2>1 DEF Add, NextFile, Goto, Files, seeding, counters
<1>8. ASSUME NEW p \in Processes, SkipFile(p) PROVE TypeInv'
  BY <1>8, StartupAssumption DEF SkipFile, NextFile, Goto, Fault, Files, stores,
      seeding
<1>9. ASSUME NEW p \in Processes, IngestionAbandoned(p) PROVE TypeInv'
  BY <1>9, StartupAssumption DEF IngestionAbandoned, Goto, Fault, stores, seeding
<1>10. ASSUME NEW p \in Processes, IngestionDone(p) PROVE TypeInv'
  BY <1>10 DEF IngestionDone, Goto, stores, seeding, counters
<1>11. ASSUME NEW p \in Processes, SeedStatement(p) PROVE TypeInv'
  <2>1. graph' \in Graphs
    BY <1>11, StatementTyped DEF SeedStatement
  <2> QED
    BY <1>11, <2>1 DEF SeedStatement, counters
<1>12. ASSUME NEW p \in Processes, SeedFails(p) PROVE TypeInv'
  BY <1>12, StartupAssumption DEF SeedFails, AfterSeeding, Up, Goto, Fault,
      stores, seeding
<1>13. ASSUME NEW p \in Processes, SeedDone(p) PROVE TypeInv'
  BY <1>13 DEF SeedDone, AfterSeeding, Up, Goto, stores, counters
<1>14. ASSUME NEW p \in Processes, CountUsers(p) PROVE TypeInv'
  BY <1>14 DEF CountUsers, Up, Goto, stores, seeding, counters
<1>15. ASSUME NEW p \in Processes, NEW e \in Emails, RequestUser(p, e)
       PROVE TypeInv'
  BY <1>15, StartupAssumption DEF RequestUser, Goto, stores, seeding
<1>16. ASSUME NEW p \in Processes, FindUser(p) PROVE TypeInv'
  BY <1>16, StartupAssumption DEF FindUser, Refused, Goto, seeding, counters
<1>17. ASSUME NEW p \in Processes, InsertUser(p) PROVE TypeInv'
  BY <1>17, StartupAssumption DEF InsertUser, Refused, Up, Goto, seeding, counters
<1>18. ASSUME NEW p \in Processes, Crash(p) PROVE TypeInv'
  BY <1>18, StartupAssumption DEF Crash, Goto, stores, seeding
<1> QED
  BY <1>1, <1>2, <1>3, <1>4, <1>5, <1>6, <1>7, <1>8, <1>9, <1>10, <1>11, <1>12,
     <1>13, <1>14, <1>15, <1>16, <1>17, <1>18 DEF Next, Proceed, StoreFails

LEMMA TypeInvariant == Spec => []TypeInv
<1> QED
  BY TypeInit, TypeStep, PTL DEF Spec

\* The state of the processes and of the stores is well formed.
THEOREM StartupTyped == Spec => []TypeOK
<1>1. TypeInv => TypeOK
  BY DEF TypeInv
<1> QED
  BY <1>1, TypeInvariant, PTL

-----------------------------------------------------------------------------
(* The dependency graph.                                                   *)

\* What the graph holds after the statements before k.
SeededTo(g, k) ==
    /\ \A i \in 1..Len(Topology.dependencies) :
           i < k => Topology.dependencies[i] \in g.edges
    /\ \A j \in 1..Len(Topology.criticality) :
           Len(Topology.dependencies) + j < k =>
               g.level[Topology.criticality[j][1]] = Topology.criticality[j][2]

\* The strengthening of GraphWhole: the one that emptied the graph last finds
\* there what it has written since, whoever else is writing, and nobody who is
\* past its own first statement was the first to empty it.
GraphInv ==
    /\ graph.edges \subseteq Range(Topology.dependencies)
    /\ \A p \in Processes :
           wiper = p /\ phase[p] = "seed" => SeededTo(graph, at[p])
    /\ \A p \in Processes :
           phase[p] = "seed" /\ at[p] > 0 => seeded \/ wiper # Nobody
    /\ seeded /\ wiper = Nobody => SeededTo(graph, LastStatement + 1)

LEMMA TopologyShape ==
    /\ Topology.dependencies \in Seq(Dependency)
    /\ Topology.criticality \in Seq(Services \X Levels)
    /\ Len(Topology.dependencies) \in Nat /\ Len(Topology.criticality) \in Nat
    /\ LastStatement \in Nat
BY TopologyTyped DEF Topologies, LastStatement

\* A statement other than the first takes nothing away, and writes its own
\* part: two criticalities of one service would be the same.
LEMMA StatementKeeps ==
    ASSUME NEW g \in Graphs, NEW k \in Nat, k # 0, k <= LastStatement,
           NEW n \in Nat, SeededTo(g, n)
    PROVE  SeededTo(AfterStatement(g, k), n)
<1> DEFINE d == Topology.dependencies
           c == Topology.criticality
<1>1. CASE k <= Len(d)
  <2>1. AfterStatement(g, k) = [g EXCEPT !.edges = @ \cup {d[k]}]
    BY <1>1 DEF AfterStatement
  <2> QED
    BY <2>1 DEF SeededTo, Graphs
<1>2. CASE ~(k <= Len(d))
  <2>1. PICK i \in 1..Len(c) : i = k - Len(d)
    <3>1. \A m, l \in Nat : k <= m + l /\ ~(k <= m) => k - m \in 1..l
      OBVIOUS
    <3>2. k <= Len(d) + Len(c)
      BY DEF LastStatement
    <3> QED
      BY <1>2, <3>1, <3>2, TopologyShape
  <2>2. AfterStatement(g, k) = [g EXCEPT !.level[c[i][1]] = c[i][2]]
    BY <1>2, <2>1 DEF AfterStatement
  <2>3. c[i][1] \in Services
    BY TopologyShape
  <2>4. ASSUME NEW j \in 1..Len(c), g.level[c[j][1]] = c[j][2]
        PROVE  AfterStatement(g, k).level[c[j][1]] = c[j][2]
    <3>1. CASE c[j][1] = c[i][1]
      <4>1. i = j
        BY <3>1, TopologyShape, StartupAssumption
      <4> QED
        BY <4>1, <2>2, <2>3 DEF Graphs
    <3>2. CASE c[j][1] # c[i][1]
      BY <3>2, <2>2, <2>4 DEF Graphs
    <3> QED
      BY <3>1, <3>2
  <2>5. AfterStatement(g, k).edges = g.edges
    BY <2>2 DEF Graphs
  <2> QED
    BY <2>4, <2>5 DEF SeededTo
<1> QED
  BY <1>1, <1>2

LEMMA StatementWrites ==
    ASSUME NEW g \in Graphs, NEW k \in Nat, k <= LastStatement, SeededTo(g, k) \/ k = 0
    PROVE  SeededTo(AfterStatement(g, k), k + 1)
<1> DEFINE d == Topology.dependencies
           c == Topology.criticality
<1>1. CASE k = 0
  BY <1>1, TopologyShape DEF SeededTo
<1>2. CASE k # 0 /\ k <= Len(d)
  <2>1. SeededTo(AfterStatement(g, k), k)
    BY <1>2, StatementKeeps
  <2>2. AfterStatement(g, k) = [g EXCEPT !.edges = @ \cup {d[k]}]
    BY <1>2 DEF AfterStatement
  <2>3. d[k] \in AfterStatement(g, k).edges
    BY <2>2 DEF Graphs
  <2>4. \A i \in 1..Len(d) : i < k + 1 => i < k \/ i = k
    OBVIOUS
  <2>5. \A j \in 1..Len(c) : Len(d) + j < k + 1 => FALSE
    <3>1. \A m, j \in Nat : k <= m /\ j > 0 => ~(m + j < k + 1)
      OBVIOUS
    <3> QED
      BY <1>2, <3>1, TopologyShape
  <2> QED
    BY <2>1, <2>3, <2>4, <2>5 DEF SeededTo
<1>3. CASE k # 0 /\ ~(k <= Len(d))
  <2>1. SeededTo(AfterStatement(g, k), k)
    BY <1>3, StatementKeeps
  <2>2. PICK i \in 1..Len(c) : i = k - Len(d)
    <3>1. \A m, l \in Nat : k <= m + l /\ ~(k <= m) => k - m \in 1..l
      OBVIOUS
    <3>2. k <= Len(d) + Len(c)
      BY DEF LastStatement
    <3> QED
      BY <1>3, <3>1, <3>2, TopologyShape
  <2>3. AfterStatement(g, k) = [g EXCEPT !.level[c[i][1]] = c[i][2]]
    BY <1>3, <2>2 DEF AfterStatement
  <2>4. c[i][1] \in Services
    BY TopologyShape
  <2>5. AfterStatement(g, k).level[c[i][1]] = c[i][2]
    BY <2>3, <2>4 DEF Graphs
  <2>6. \A j \in 1..Len(c) : Len(d) + j < k + 1 => Len(d) + j < k \/ j = i
    <3>1. \A m, j \in Nat : m + j < k + 1 => m + j < k \/ j = k - m
      OBVIOUS
    <3>2. \A j \in 1..Len(c) : j \in Nat
      BY TopologyShape
    <3>3. \A j \in 1..Len(c) : Len(d) + j < k + 1 => Len(d) + j < k \/ j = k - Len(d)
      BY <3>1, <3>2, TopologyShape
    <3> QED
      BY <2>2, <3>3
  <2>7. \A j \in 1..Len(d) : j < k
    <3>1. \A m, j \in Nat : ~(k <= m) /\ j <= m => j < k
      OBVIOUS
    <3> QED
      BY <1>3, <3>1, TopologyShape
  <2> QED
    BY <2>1, <2>5, <2>6, <2>7 DEF SeededTo
<1> QED
  BY <1>1, <1>2, <1>3

LEMMA GraphInit == Init => GraphInv
BY DEF Init, GraphInv, EmptyGraph

\* Only a statement changes the graph, and a process reaches the phase of the
\* seeding with its cursor at the first statement.
LEMMA GraphStep == TypeInv /\ GraphInv /\ [Next]_vars => GraphInv'
<1> SUFFICES ASSUME TypeInv, GraphInv, [Next]_vars PROVE GraphInv'
  OBVIOUS
<1>1. ASSUME UNCHANGED <<graph, seeded, wiper>>,
             \A p \in Processes :
                 phase'[p] = "seed" => phase[p] = "seed" /\ at'[p] = at[p]
      PROVE  GraphInv'
  BY <1>1 DEF GraphInv
<1>2. ASSUME UNCHANGED <<graph, seeded, wiper>>, NEW p \in Processes, at'[p] = 0,
             \A q \in Processes \ {p} :
                 phase'[q] = "seed" => phase[q] = "seed" /\ at'[q] = at[q]
      PROVE  GraphInv'
  <2>1. SeededTo(graph, 0)
    BY TopologyShape DEF SeededTo
  <2>2. ASSUME NEW q \in Processes, wiper = q, phase'[q] = "seed"
        PROVE  SeededTo(graph, at'[q])
    BY <1>2, <2>1, <2>2 DEF GraphInv
  <2>3. ASSUME NEW q \in Processes, phase'[q] = "seed", at'[q] > 0
        PROVE  seeded \/ wiper # Nobody
    BY <1>2, <2>3 DEF GraphInv
  <2> QED
    BY <1>2, <2>2, <2>3 DEF GraphInv
<1> USE DEF TypeInv, TypeOK
<1>3. CASE UNCHANGED vars
  BY <1>1, <1>3 DEF vars, process, stores, seeding
<1>4. ASSUME NEW p \in Processes, Boot(p) PROVE GraphInv'
  BY <1>1, <1>4 DEF Boot, Goto, stores, seeding
<1>5. ASSUME NEW p \in Processes, InspectTables(p) PROVE GraphInv'
  BY <1>1, <1>5 DEF InspectTables, Goto, stores, seeding
<1>6. ASSUME NEW p \in Processes, CreateTables(p) PROVE GraphInv'
  BY <1>1, <1>6 DEF CreateTables, Goto, seeding
<1>7. ASSUME NEW p \in Processes, LookUp(p) \/ LookUpFails(p) PROVE GraphInv'
  BY <1>1, <1>7 DEF LookUp, LookUpFails, Goto, stores, seeding
<1>8. ASSUME NEW p \in Processes, Add(p) \/ SkipFile(p) PROVE GraphInv'
  BY <1>1, <1>8 DEF Add, SkipFile, NextFile, Goto, stores, seeding
<1>9. ASSUME NEW p \in Processes, IngestionAbandoned(p) \/ IngestionDone(p)
      PROVE  GraphInv'
  BY <1>2, <1>9 DEF IngestionAbandoned, IngestionDone, Goto, stores, seeding
<1>10. ASSUME NEW p \in Processes, SeedStatement(p) PROVE GraphInv'
  <2>1. /\ graph' = AfterStatement(graph, at[p]) /\ graph \in Graphs
        /\ at[p] \in Nat /\ at[p] <= LastStatement
        /\ at' = [at EXCEPT ![p] = @ + 1] /\ phase' = phase /\ seeded' = seeded
        /\ phase[p] = "seed"
    BY <1>10 DEF SeedStatement
  <2>2. graph'.edges \subseteq Range(Topology.dependencies)
    <3>1. CASE at[p] = 0
      BY <2>1, <3>1 DEF AfterStatement, EmptyGraph
    <3>2. CASE at[p] # 0 /\ at[p] <= Len(Topology.dependencies)
      <4>1. at[p] \in DOMAIN Topology.dependencies
        BY <2>1, <3>2, TopologyShape
      <4>2. graph'.edges = graph.edges \cup {Topology.dependencies[at[p]]}
        BY <2>1, <3>2 DEF AfterStatement, Graphs
      <4> QED
        BY <4>1, <4>2 DEF GraphInv, Range
    <3>3. CASE at[p] # 0 /\ ~(at[p] <= Len(Topology.dependencies))
      <4>1. graph'.edges = graph.edges
        BY <2>1, <3>3 DEF AfterStatement, Graphs
      <4> QED
        BY <4>1 DEF GraphInv
    <3> QED
      BY <3>1, <3>2, <3>3
  <2>3. CASE at[p] = 0
    <3>1. wiper' = p
      BY <1>10, <2>3 DEF SeedStatement
    <3>2. SeededTo(graph', at'[p])
      BY <2>1, <2>3, StatementWrites
    <3>3. p # Nobody
      BY StartupAssumption
    <3> QED
      BY <2>1, <2>2, <3>1, <3>2, <3>3 DEF GraphInv
  <2>4. CASE at[p] # 0
    <3>1. wiper' = wiper
      BY <1>10, <2>4 DEF SeedStatement
    <3>2. ASSUME NEW q \in Processes, wiper = q, phase[q] = "seed"
          PROVE  SeededTo(graph', at'[q])
      <4>1. SeededTo(graph, at[q]) /\ at[q] \in Nat
        BY <3>2 DEF GraphInv
      <4>2. CASE q = p
        BY <2>1, <4>1, <4>2, StatementWrites
      <4>3. CASE q # p
        <5>1. at'[q] = at[q]
          BY <2>1, <4>3
        <5> QED
          BY <2>1, <2>4, <4>1, <5>1, StatementKeeps
      <4> QED
        BY <4>2, <4>3
    <3>3. seeded /\ wiper = Nobody => SeededTo(graph', LastStatement + 1)
      <4>1. LastStatement + 1 \in Nat
        BY TopologyShape
      <4> QED
        BY <2>1, <2>4, <4>1, StatementKeeps DEF GraphInv
    <3>4. ASSUME NEW q \in Processes, phase[q] = "seed", at'[q] > 0
          PROVE  seeded \/ wiper # Nobody
      <4>1. at[q] > 0
        BY <2>1, <2>4, <3>4
      <4> QED
        BY <3>4, <4>1 DEF GraphInv
    <3> QED
      BY <2>1, <2>2, <3>1, <3>2, <3>3, <3>4 DEF GraphInv
  <2> QED
    BY <2>3, <2>4
<1>11. ASSUME NEW p \in Processes, SeedFails(p) PROVE GraphInv'
  <2>1. phase'[p] # "seed"
    BY <1>11 DEF SeedFails, AfterSeeding, Up, Goto
  <2> QED
    BY <1>1, <1>11, <2>1 DEF SeedFails, AfterSeeding, Up, Goto, stores, seeding
<1>12. ASSUME NEW p \in Processes, SeedDone(p) PROVE GraphInv'
  <2>1. /\ phase[p] = "seed" /\ at[p] \in Nat /\ at[p] > LastStatement
        /\ graph' = graph /\ seeded' = TRUE
        /\ wiper' = IF wiper = p THEN Nobody ELSE wiper
    BY <1>12 DEF SeedDone, stores
  <2>2. /\ phase'[p] # "seed"
        /\ \A q \in Processes \ {p} : phase'[q] = phase[q] /\ at'[q] = at[q]
    BY <1>12 DEF SeedDone, AfterSeeding, Up, Goto
  <2>3. wiper' = Nobody => SeededTo(graph, LastStatement + 1)
    <3>1. CASE wiper = p
      <4>1. SeededTo(graph, at[p])
        BY <2>1, <3>1 DEF GraphInv
      <4>2. \A n \in Nat : n < LastStatement + 1 => n < at[p]
        BY <2>1, TopologyShape
      <4>3. \A i \in 1..Len(Topology.dependencies) :
                i < LastStatement + 1 => i < at[p]
        BY <4>2, TopologyShape
      <4>4. \A j \in 1..Len(Topology.criticality) :
                Len(Topology.dependencies) + j < LastStatement + 1
                    => Len(Topology.dependencies) + j < at[p]
        <5>1. \A j \in 1..Len(Topology.criticality) :
                  Len(Topology.dependencies) + j \in Nat
          BY TopologyShape
        <5> QED
          BY <4>2, <5>1
      <4> QED
        BY <4>1, <4>3, <4>4 DEF SeededTo
    <3>2. CASE wiper # p
      <4>1. at[p] > 0
        BY <2>1, TopologyShape
      <4> QED
        BY <2>1, <3>2, <4>1 DEF GraphInv
    <3> QED
      BY <3>1, <3>2
  <2>4. ASSUME NEW q \in Processes, wiper' = q, phase'[q] = "seed"
        PROVE  SeededTo(graph, at'[q])
    <3>1. q # p /\ q # Nobody
      BY <2>2, <2>4, StartupAssumption
    <3> QED
      BY <2>1, <2>2, <2>4, <3>1 DEF GraphInv
  <2> QED
    BY <2>1, <2>3, <2>4 DEF GraphInv
<1>13. ASSUME NEW p \in Processes, CountUsers(p) PROVE GraphInv'
  <2>1. phase'[p] # "seed"
    BY <1>13 DEF CountUsers, Up, Goto
  <2> QED
    BY <1>1, <1>13, <2>1 DEF CountUsers, Up, Goto, stores, seeding
<1>14. ASSUME NEW p \in Processes, NEW e \in Emails, RequestUser(p, e)
       PROVE  GraphInv'
  BY <1>1, <1>14 DEF RequestUser, Goto, stores, seeding
<1>15. ASSUME NEW p \in Processes, FindUser(p) \/ InsertUser(p) PROVE GraphInv'
  <2>1. phase'[p] # "seed"
    BY <1>15 DEF FindUser, InsertUser, Refused, Up, Goto
  <2> QED
    BY <1>1, <1>15, <2>1 DEF FindUser, InsertUser, Refused, Up, Goto, seeding
<1>16. ASSUME NEW p \in Processes, Crash(p) PROVE GraphInv'
  BY <1>1, <1>16 DEF Crash, Goto, stores, seeding
<1> QED
  BY <1>3, <1>4, <1>5, <1>6, <1>7, <1>8, <1>9, <1>10, <1>11, <1>12, <1>13, <1>14,
     <1>15, <1>16 DEF Next, Proceed, StoreFails

LEMMA WholeFromInv == TypeInv /\ GraphInv => GraphWhole
<1> SUFFICES ASSUME TypeInv, GraphInv, seeded, wiper = Nobody PROVE WholeGraph
  BY DEF GraphWhole
<1>1. SeededTo(graph, LastStatement + 1)
  BY DEF GraphInv
<1> DEFINE m == Len(Topology.dependencies)
           l == Len(Topology.criticality)
<1>2. m \in Nat /\ l \in Nat
  BY TopologyShape
<1>3. \A i \in 1..m : i < m + l + 1
  <2>1. \A x, y \in Nat : \A i \in 1..x : i < x + y + 1
    OBVIOUS
  <2> HIDE DEF m, l
  <2> QED
    BY <1>2, <2>1
<1>4. \A j \in 1..l : m + j < m + l + 1
  <2>1. \A x, y \in Nat : \A j \in 1..y : x + j < x + y + 1
    OBVIOUS
  <2> HIDE DEF m, l
  <2> QED
    BY <1>2, <2>1
<1>5. LastStatement = m + l
  BY DEF LastStatement
<1>6. \A i \in DOMAIN Topology.dependencies : Topology.dependencies[i] \in graph.edges
  <2>1. DOMAIN Topology.dependencies = 1..m
    BY TopologyShape
  <2> QED
    BY <1>1, <1>3, <1>5, <2>1 DEF SeededTo
<1>7. \A j \in DOMAIN Topology.criticality :
          graph.level[Topology.criticality[j][1]] = Topology.criticality[j][2]
  <2>1. DOMAIN Topology.criticality = 1..l
    BY TopologyShape
  <2> QED
    BY <1>1, <1>4, <1>5, <2>1 DEF SeededTo
<1> QED
  BY <1>6, <1>7 DEF GraphInv, WholeGraph, Range

\* However many processes empty and fill the graph at the same time, and
\* whoever dies in between, the graph is whole once the one that emptied it
\* last has finished.
THEOREM GraphStaysWhole == Spec => []GraphWhole
<1> QED
  BY TypeInit, TypeStep, GraphInit, GraphStep, WholeFromInv, PTL DEF Spec

-----------------------------------------------------------------------------
(* The accounts.                                                           *)

\* The strengthening of AccountsSound: any account comes after the first
\* administrator's; a process that is not up yet creates only that one; only
\* an API whose users can log in is asked for another.
AccountsInv ==
    /\ founders <= users[Admin]
    /\ \A e \in Emails : users[e] <= 1 /\ (users[e] > 0 => users[Admin] > 0)
    /\ \A p \in serving :
           /\ phase[p] \in {"ready", "find", "insert"}
           /\ phase[p] \in {"find", "insert"} => users[Admin] > 0
    /\ \A p \in Processes \ serving : email[p] = Admin /\ phase[p] # "ready"
    /\ PasswordSet /\ serving \cap Apis # {} => users[Admin] > 0
    /\ \A p \in Workers : phase[p] \notin {"count", "find", "insert"}

LEMMA AccountsInit == Init => AccountsInv
BY StartupAssumption DEF Init, AccountsInv, Processes

\* The steps of a process that has not come to the accounts yet.
LEMMA AccountsStep == TypeInv /\ AccountsInv /\ [Next]_vars => AccountsInv'
<1> SUFFICES ASSUME TypeInv, AccountsInv, [Next]_vars PROVE AccountsInv'
  OBVIOUS
<1> USE StartupAssumption DEF TypeInv, TypeOK, Processes
<1>1. ASSUME UNCHANGED <<users, founders, serving, email>>,
             \A p \in Processes :
                 \/ phase'[p] = phase[p]
                 \/ /\ p \notin serving
                    /\ phase'[p] \notin {"count", "find", "insert", "ready"}
      PROVE  AccountsInv'
  BY <1>1 DEF AccountsInv
<1>2. CASE UNCHANGED vars
  BY <1>1, <1>2 DEF vars, process, stores
<1>3. ASSUME NEW p \in Processes,
             \/ Boot(p) \/ InspectTables(p) \/ CreateTables(p)
             \/ LookUp(p) \/ LookUpFails(p) \/ Add(p) \/ SkipFile(p)
             \/ IngestionAbandoned(p) \/ IngestionDone(p)
      PROVE  AccountsInv'
  <2>1. phase[p] \in {"down", "inspect", "create", "lookup", "add"}
    BY <1>3 DEF Boot, InspectTables, CreateTables, LookUp, LookUpFails, Add,
        SkipFile, IngestionAbandoned, IngestionDone
  <2>2. p \notin serving
    BY <2>1 DEF AccountsInv
  <2>3. UNCHANGED <<users, founders, serving, email>>
    BY <1>3 DEF Boot, InspectTables, CreateTables, LookUp, LookUpFails, Add,
        SkipFile, IngestionAbandoned, IngestionDone, stores
  <2>4. \E next \in {"down", "inspect", "create", "lookup", "add", "seed"} :
            phase' = [phase EXCEPT ![p] = next]
    BY <1>3 DEF Boot, InspectTables, CreateTables, LookUp, LookUpFails, Add,
        SkipFile, IngestionAbandoned, IngestionDone, NextFile, Goto
  <2> QED
    BY <1>1, <2>2, <2>3, <2>4
<1>4. ASSUME NEW p \in Processes, SeedStatement(p) PROVE AccountsInv'
  BY <1>1, <1>4 DEF SeedStatement
<1>5. ASSUME NEW p \in Processes, phase[p] = "seed", AfterSeeding(p),
             UNCHANGED <<users, founders, email>>
      PROVE  AccountsInv'
  <2>1. p \notin serving
    BY <1>5 DEF AccountsInv
  <2>2. CASE p \in Workers
    <3>1. serving' = serving \cup {p} /\ phase' = [phase EXCEPT ![p] = "ready"]
      BY <1>5, <2>2 DEF AfterSeeding, Up, Goto
    <3>2. serving' \cap Apis = serving \cap Apis
      BY <2>2, <3>1
    <3> QED
      BY <1>5, <2>1, <2>2, <3>1, <3>2 DEF AccountsInv
  <2>3. CASE p \notin Workers
    <3>1. serving' = serving /\ phase' = [phase EXCEPT ![p] = "count"]
      BY <1>5, <2>3 DEF AfterSeeding, Goto
    <3> QED
      BY <1>5, <2>1, <2>3, <3>1 DEF AccountsInv
  <2> QED
    BY <2>2, <2>3
<1>6. ASSUME NEW p \in Processes, SeedFails(p) \/ SeedDone(p) PROVE AccountsInv'
  BY <1>5, <1>6 DEF SeedFails, SeedDone, stores
<1>7. ASSUME NEW p \in Processes, CountUsers(p) PROVE AccountsInv'
  <2>1. /\ phase[p] = "count" /\ p \notin serving /\ p \in Apis
        /\ UNCHANGED <<users, founders, email>>
    BY <1>7 DEF CountUsers, AccountsInv, stores
  <2>2. CASE (\E e \in Emails : users[e] > 0) \/ ~PasswordSet
    <3>1. serving' = serving \cup {p} /\ phase' = [phase EXCEPT ![p] = "ready"]
      BY <1>7, <2>2 DEF CountUsers, Up, Goto
    <3> QED
      BY <2>1, <2>2, <3>1 DEF AccountsInv
  <2>3. CASE ~((\E e \in Emails : users[e] > 0) \/ ~PasswordSet)
    <3>1. serving' = serving /\ phase' = [phase EXCEPT ![p] = "find"]
      BY <1>7, <2>3 DEF CountUsers, Goto
    <3> QED
      BY <2>1, <3>1 DEF AccountsInv
  <2> QED
    BY <2>2, <2>3
<1>8. ASSUME NEW p \in Processes, NEW e \in Emails, RequestUser(p, e)
      PROVE  AccountsInv'
  <2>1. /\ phase[p] = "ready" /\ p \in Apis /\ users[Admin] > 0
        /\ phase' = [phase EXCEPT ![p] = "find"]
        /\ email' = [email EXCEPT ![p] = e]
        /\ UNCHANGED <<users, founders, serving>>
    BY <1>8 DEF RequestUser, Goto, stores
  <2>2. p \in serving
    BY <2>1 DEF AccountsInv
  <2> QED
    BY <2>1, <2>2 DEF AccountsInv
<1>9. ASSUME NEW p \in Processes, Refused(p), phase[p] \in {"find", "insert"}
      PROVE  AccountsInv'
  <2>1. /\ UNCHANGED <<users, founders, serving>>
        /\ email' = [email EXCEPT ![p] = Admin]
        /\ phase' = [phase EXCEPT ![p] = IF p \in serving THEN "ready" ELSE "down"]
    BY <1>9 DEF Refused, Goto
  <2> QED
    BY <2>1 DEF AccountsInv
<1>10. ASSUME NEW p \in Processes, FindUser(p) PROVE AccountsInv'
  <2>1. CASE users[email[p]] > 0
    BY <1>9, <1>10, <2>1 DEF FindUser
  <2>2. CASE ~(users[email[p]] > 0)
    <3>1. /\ phase[p] = "find" /\ phase' = [phase EXCEPT ![p] = "insert"]
          /\ UNCHANGED <<users, founders, serving, email>>
      BY <1>10, <2>2 DEF FindUser, Goto
    <3> QED
      BY <3>1 DEF AccountsInv
  <2> QED
    BY <2>1, <2>2
<1>11. ASSUME NEW p \in Processes, InsertUser(p) PROVE AccountsInv'
  <2>1. CASE users[email[p]] > 0
    BY <1>9, <1>11, <2>1 DEF InsertUser
  <2>2. CASE ~(users[email[p]] > 0)
    <3>1. /\ phase[p] = "insert" /\ phase' = [phase EXCEPT ![p] = "ready"]
          /\ serving' = serving \cup {p}
          /\ email' = [email EXCEPT ![p] = Admin]
          /\ users' = [users EXCEPT ![email[p]] = @ + 1]
          /\ founders' = IF p \in serving THEN founders ELSE founders + 1
          /\ email[p] \in Emails /\ users[email[p]] = 0
      BY <1>11, <2>2 DEF InsertUser, Up, Goto
    <3>2. users'[Admin] > 0 /\ founders' <= users'[Admin]
      <4>1. CASE p \in serving
        BY <3>1, <4>1 DEF AccountsInv
      <4>2. CASE p \notin serving
        BY <3>1, <4>2 DEF AccountsInv
      <4> QED
        BY <4>1, <4>2
    <3>3. \A e \in Emails : users'[e] <= 1
      BY <3>1 DEF AccountsInv
    <3>4. \A q \in serving' : phase'[q] \in {"ready", "find", "insert"}
      BY <3>1 DEF AccountsInv
    <3>5. \A q \in Processes \ serving' : email'[q] = Admin /\ phase'[q] # "ready"
      BY <3>1 DEF AccountsInv
    <3>6. \A q \in Workers : phase'[q] \notin {"count", "find", "insert"}
      BY <3>1 DEF AccountsInv
    <3> QED
      BY <3>2, <3>3, <3>4, <3>5, <3>6 DEF AccountsInv
  <2> QED
    BY <2>1, <2>2
<1>12. ASSUME NEW p \in Processes, Crash(p) PROVE AccountsInv'
  <2>1. /\ phase' = [phase EXCEPT ![p] = "down"] /\ serving' = serving \ {p}
        /\ email' = [email EXCEPT ![p] = Admin] /\ UNCHANGED <<users, founders>>
    BY <1>12 DEF Crash, Goto, stores
  <2> QED
    BY <2>1 DEF AccountsInv
<1> QED
  BY <1>2, <1>3, <1>4, <1>6, <1>7, <1>8, <1>10, <1>11, <1>12
     DEF Next, Proceed, StoreFails

LEMMA SoundFromInv == TypeInv /\ AccountsInv => AccountsSound
<1> SUFFICES ASSUME TypeInv, AccountsInv PROVE AccountsSound
  OBVIOUS
<1>1. users[Admin] \in Nat /\ users[Admin] <= 1 /\ founders \in Nat
  BY StartupAssumption DEF TypeInv, TypeOK, AccountsInv
<1> QED
  BY <1>1 DEF AccountsInv, AccountsSound

\* However many processes start on an empty table, and whatever requests race
\* with each other afterwards, one administrator is created and no email has
\* two accounts; an API that is up can be logged in to.
THEOREM AccountsStaySound == Spec => []AccountsSound
<1> QED
  BY TypeInit, TypeStep, AccountsInit, AccountsStep, SoundFromInv, PTL DEF Spec

-----------------------------------------------------------------------------
(* A process that starts gets nearer to its end.                           *)

PhasesAhead(p) ==
    CASE phase[p] = "inspect"         -> 7
      [] phase[p] = "create"          -> 6
      [] phase[p] \in {"lookup", "add"} -> 5
      [] phase[p] = "seed"            -> 4
      [] phase[p] = "count"           -> 3
      [] phase[p] = "find"            -> 2
      [] phase[p] = "insert"          -> 1
      [] OTHER -> 0

\* The files, each a look-up and an addition, or the statements.
RestAhead(p) ==
    CASE phase[p] = "lookup" -> 2 * (Len(Documents) + 1 - at[p])
      [] phase[p] = "add"    -> 2 * (Len(Documents) - at[p]) + 1
      [] phase[p] = "seed"   -> LastStatement + 1 - at[p]
      [] OTHER -> 0

StartAhead(p) == <<PhasesAhead(p), RestAhead(p)>>

\* The lexicographic order.
LessAhead == LexProductOrdering(OpToRel(<, Nat), Nat, 2)

LEMMA LessAheadWellFounded == IsWellFoundedOn(LessAhead, [1..2 -> Nat])
BY NatLessThanWellFounded, WFLexProductOrdering DEF LessAhead

LEMMA LessAt ==
    ASSUME NEW u \in [1..2 -> Nat], NEW v \in [1..2 -> Nat],
           u[1] < v[1] \/ (u[1] = v[1] /\ u[2] < v[2])
    PROVE  <<u, v>> \in LessAhead
<1>1. CASE u[1] < v[1]
  <2>1. \A j \in 1..(1 - 1) : u[j] = v[j]
    OBVIOUS
  <2> QED
    BY <1>1, <2>1 DEF LessAhead, LexProductOrdering, OpToRel
<1>2. CASE u[1] = v[1] /\ u[2] < v[2]
  <2>1. \A j \in 1..(2 - 1) : u[j] = v[j]
    BY <1>2
  <2> QED
    BY <1>2, <2>1 DEF LessAhead, LexProductOrdering, OpToRel
<1> QED
  BY <1>1, <1>2

LEMMA LengthsTyped == Len(Documents) \in Nat /\ LastStatement \in Nat
BY DocumentsAssumption, TopologyShape

\* The cursor stays on the files, and on the statements.
OnCourse(p) ==
    /\ phase[p] = "create" => at[p] = 1
    /\ phase[p] = "lookup" => at[p] \in 1..(Len(Documents) + 1)
    /\ phase[p] = "add" => at[p] \in Files
    /\ phase[p] = "seed" => at[p] \in 0..(LastStatement + 1)

LEMMA AheadTyped ==
    ASSUME NEW p \in Processes, OnCourse(p)
    PROVE  StartAhead(p) \in [1..2 -> Nat]
<1>1. PhasesAhead(p) \in Nat
  BY DEF PhasesAhead
<1>2. RestAhead(p) \in Nat
  BY LengthsTyped DEF OnCourse, RestAhead, Files
<1> QED
  BY <1>1, <1>2 DEF StartAhead

\* What a process's own steps make of its place, and where another leaves it.
Onward(p) ==
    \/ PhasesAhead(p)' < PhasesAhead(p)
    \/ /\ PhasesAhead(p)' = PhasesAhead(p)
       /\ RestAhead(p)' < RestAhead(p)

LEMMA OwnStep ==
    ASSUME TypeInv, NEW p \in Processes, OnCourse(p),
           Proceed(p) \/ StoreFails(p)
    PROVE  OnCourse(p)' /\ Onward(p)
<1> USE LengthsTyped DEF TypeInv, TypeOK, OnCourse, Onward, PhasesAhead,
        RestAhead
<1>1. CASE InspectTables(p) \/ CreateTables(p)
  <2>1. /\ phase[p] \in {"inspect", "create"} /\ phase'[p] # phase[p]
        /\ phase'[p] \in {"create", "lookup", "down"} /\ at'[p] = 1
    BY <1>1 DEF InspectTables, CreateTables, Goto
  <2> QED
    BY <2>1
<1>2. CASE LookUp(p) \/ LookUpFails(p)
  <2>1. /\ phase[p] = "lookup" /\ phase'[p] = "add"
        /\ at[p] \in Files /\ at'[p] = at[p]
    BY <1>2 DEF LookUp, LookUpFails, Goto
  <2> QED
    BY <2>1 DEF Files
<1>3. CASE Add(p) \/ SkipFile(p)
  <2>1. /\ phase[p] = "add" /\ phase'[p] = "lookup"
        /\ at[p] \in Files /\ at'[p] = at[p] + 1
    BY <1>3 DEF Add, SkipFile, NextFile, Goto
  <2>2. /\ PhasesAhead(p)' = PhasesAhead(p) /\ at[p] \in Nat
        /\ RestAhead(p) = 2 * (Len(Documents) - at[p]) + 1
        /\ RestAhead(p)' = 2 * (Len(Documents) + 1 - (at[p] + 1))
    BY <2>1 DEF Files
  <2>3. at'[p] \in 1..(Len(Documents) + 1)
    BY <2>1 DEF Files
  <2>4. RestAhead(p)' < RestAhead(p)
    BY <2>2
  <2> QED
    BY <2>1, <2>2, <2>3, <2>4
<1>4. CASE IngestionAbandoned(p) \/ IngestionDone(p)
  <2>1. phase[p] = "lookup" /\ phase'[p] = "seed" /\ at'[p] = 0
    BY <1>4 DEF IngestionAbandoned, IngestionDone, Goto
  <2> QED
    BY <2>1
<1>5. CASE SeedStatement(p)
  <2>1. /\ phase[p] = "seed" /\ phase'[p] = "seed"
        /\ at[p] \in Nat /\ at[p] <= LastStatement /\ at'[p] = at[p] + 1
    BY <1>5 DEF SeedStatement
  <2>2. /\ PhasesAhead(p)' = PhasesAhead(p)
        /\ RestAhead(p) = LastStatement + 1 - at[p]
        /\ RestAhead(p)' = LastStatement + 1 - (at[p] + 1)
    BY <2>1
  <2>3. at'[p] \in 0..(LastStatement + 1) /\ RestAhead(p)' < RestAhead(p)
    <3> HIDE DEF TypeInv, TypeOK, OnCourse, Onward, PhasesAhead, RestAhead
    <3> QED
      BY <2>1, <2>2
  <2> QED
    BY <2>1, <2>2, <2>3
<1>6. CASE SeedFails(p) \/ SeedDone(p)
  <2>1. AfterSeeding(p) /\ phase[p] = "seed"
    BY <1>6 DEF SeedFails, SeedDone
  <2>2. phase'[p] \in {"ready", "count"}
    BY <2>1 DEF AfterSeeding, Up, Goto
  <2> QED
    BY <2>1, <2>2
<1>7. CASE CountUsers(p)
  BY <1>7 DEF CountUsers, Up, Goto
<1>8. CASE FindUser(p)
  BY <1>8 DEF FindUser, Refused, Goto
<1>9. CASE InsertUser(p)
  BY <1>9 DEF InsertUser, Refused, Up, Goto
<1> QED
  BY <1>1, <1>2, <1>3, <1>4, <1>5, <1>6, <1>7, <1>8, <1>9
     DEF Proceed, StoreFails

LEMMA OthersStep ==
    ASSUME TypeInv, NEW p \in Processes, NEW q \in Processes, q # p,
           \/ Boot(q) \/ Proceed(q) \/ StoreFails(q) \/ Crash(q)
           \/ \E e \in Emails : RequestUser(q, e)
    PROVE  phase'[p] = phase[p] /\ at'[p] = at[p]
BY DEF TypeInv, TypeOK, Boot, Proceed, StoreFails, Crash, RequestUser,
       InspectTables, CreateTables, LookUp, LookUpFails, Add, SkipFile,
       NextFile, IngestionAbandoned, IngestionDone, SeedStatement, SeedFails,
       SeedDone, AfterSeeding, CountUsers, FindUser, InsertUser, Refused, Up,
       Goto

\* Whatever the other processes and the stores do.
LEMMA CourseStep ==
    ASSUME TypeInv, NEW p \in Processes, OnCourse(p), Next
    PROVE  /\ OnCourse(p)'
           /\ \/ phase[p] \in {"down", "ready"}
              \/ StartAhead(p)' = StartAhead(p)
              \/ Onward(p)
<1>1. CASE Proceed(p) \/ StoreFails(p)
  BY <1>1, OwnStep
<1>2. CASE Boot(p) \/ \E e \in Emails : RequestUser(p, e)
  BY <1>2 DEF Boot, RequestUser, Goto, TypeInv, TypeOK, OnCourse
<1>3. CASE Crash(p)
  <2>1. phase[p] # "down" /\ phase'[p] = "down"
    BY <1>3 DEF Crash, Goto, TypeInv, TypeOK
  <2>2. PhasesAhead(p)' = 0 /\ OnCourse(p)'
    BY <2>1 DEF PhasesAhead, OnCourse
  <2>3. phase[p] = "ready" \/ PhasesAhead(p) > 0
    BY <2>1 DEF PhasesAhead, TypeInv, TypeOK, Phases
  <2> QED
    BY <2>2, <2>3 DEF Onward
<1>4. ASSUME NEW q \in Processes, q # p,
             \/ Boot(q) \/ Proceed(q) \/ StoreFails(q) \/ Crash(q)
             \/ \E e \in Emails : RequestUser(q, e)
      PROVE  OnCourse(p)' /\ StartAhead(p)' = StartAhead(p)
  <2>1. phase'[p] = phase[p] /\ at'[p] = at[p]
    BY <1>4, OthersStep
  <2>2. OnCourse(p)'
    BY <2>1 DEF OnCourse
  <2>3. PhasesAhead(p)' = PhasesAhead(p) /\ RestAhead(p)' = RestAhead(p)
    BY <2>1 DEF PhasesAhead, RestAhead
  <2> QED
    BY <2>2, <2>3 DEF StartAhead
<1> QED
  BY <1>1, <1>2, <1>3, <1>4 DEF Next

LEMMA OnwardIsLess ==
    ASSUME NEW p \in Processes, OnCourse(p), OnCourse(p)', Onward(p)
    PROVE  <<StartAhead(p)', StartAhead(p)>> \in LessAhead
<1>1. StartAhead(p) \in [1..2 -> Nat]
  BY AheadTyped
<1>2. StartAhead(p)' \in [1..2 -> Nat]
  <2>1. PhasesAhead(p)' \in Nat
    BY DEF PhasesAhead
  <2>2. RestAhead(p)' \in Nat
    BY LengthsTyped DEF OnCourse, RestAhead, Files
  <2> QED
    BY <2>1, <2>2 DEF StartAhead
<1>3. /\ StartAhead(p)[1] = PhasesAhead(p) /\ StartAhead(p)[2] = RestAhead(p)
      /\ StartAhead(p)'[1] = PhasesAhead(p)'
      /\ StartAhead(p)'[2] = RestAhead(p)'
  BY DEF StartAhead
<1> HIDE DEF StartAhead
<1> QED
  BY <1>1, <1>2, <1>3, LessAt DEF Onward

\* No process starts for ever: each store call that it makes, whether the
\* store fails it or not, brings it down in a well-founded order, and what
\* the others do never sets it back, for every knowledge base and topology
\* and any number of processes (that it goes on is the fairness of
\* SomeoneStarts).
THEOREM StartGetsNearer ==
    ASSUME NEW p \in Processes
    PROVE  /\ IsWellFoundedOn(LessAhead, [1..2 -> Nat])
           /\ Spec =>
                  /\ [](StartAhead(p) \in [1..2 -> Nat])
                  /\ [][ /\ Proceed(p) \/ StoreFails(p)
                                => <<StartAhead(p)', StartAhead(p)>> \in LessAhead
                         /\ \/ phase[p] \in {"down", "ready"}
                            \/ StartAhead(p)' = StartAhead(p)
                            \/ <<StartAhead(p)', StartAhead(p)>> \in LessAhead
                       ]_vars
<1>1. Init => OnCourse(p)
  BY DEF Init, OnCourse
<1>2. TypeInv /\ OnCourse(p) /\ [Next]_vars => OnCourse(p)'
  <2>1. ASSUME OnCourse(p), UNCHANGED vars
        PROVE  OnCourse(p)'
    BY <2>1 DEF vars, process, OnCourse
  <2> QED
    BY <2>1, CourseStep
<1>3. OnCourse(p) => StartAhead(p) \in [1..2 -> Nat]
  BY AheadTyped
<1>4. TypeInv /\ OnCourse(p) /\ [Next]_vars =>
          [ /\ Proceed(p) \/ StoreFails(p)
                   => <<StartAhead(p)', StartAhead(p)>> \in LessAhead
            /\ \/ phase[p] \in {"down", "ready"}
               \/ StartAhead(p)' = StartAhead(p)
               \/ <<StartAhead(p)', StartAhead(p)>> \in LessAhead
          ]_vars
  BY CourseStep, OwnStep, OnwardIsLess
<1> QED
  BY <1>1, <1>2, <1>3, <1>4, LessAheadWellFounded, TypeInvariant, PTL DEF Spec

-----------------------------------------------------------------------------
(* A restart loses no race.                                                *)

\* The process has inspected, or will, a database that has its tables and
\* its administrator.
Assured(p) ==
    /\ tables /\ users[Admin] > 0
    /\ \/ p \in serving
       \/ phase[p] \in {"inspect", "lookup", "add", "seed", "count"}

\* A process that starts on a database that was set up before cannot fail to
\* start but by dying: in whatever state the stores are, and whatever other
\* processes do, it stays on its way up, and so comes up (StartGetsNearer,
\* and the fairness of RestartSucceeds).
THEOREM RestartStaysAssured ==
    ASSUME NEW p \in Processes
    PROVE  Spec => [][Assured(p) => Assured(p)' \/ Crash(p)]_vars
<1>1. TypeInv /\ AccountsInv /\ [Next]_vars =>
          [Assured(p) => Assured(p)' \/ Crash(p)]_vars
  <2> SUFFICES ASSUME TypeInv, AccountsInv, Next, Assured(p), ~Crash(p)
               PROVE  Assured(p)'
    OBVIOUS
  <2> USE StartupAssumption DEF TypeInv, TypeOK
  <2>1. tables' /\ users'[Admin] > 0
    <3>1. tables' /\ users \in [Emails -> Nat] /\ users[Admin] > 0
      BY DEF Assured, Next, Boot, Proceed, StoreFails, Crash, RequestUser,
             InspectTables, CreateTables, LookUp, LookUpFails, Add, SkipFile,
             IngestionAbandoned, IngestionDone, SeedStatement, SeedFails,
             SeedDone, CountUsers, FindUser, InsertUser, Refused, stores
    <3>2. \/ users' = users
          \/ \E q \in Processes : users' = [users EXCEPT ![email[q]] = @ + 1]
      BY DEF Next, Boot, Proceed, StoreFails, Crash, RequestUser,
             InspectTables, CreateTables, LookUp, LookUpFails, Add, SkipFile,
             IngestionAbandoned, IngestionDone, SeedStatement, SeedFails,
             SeedDone, CountUsers, FindUser, InsertUser, Refused, stores
    <3> QED
      BY <3>1, <3>2
  <2>2. ASSUME NEW q \in Processes, q # p,
               \/ Boot(q) \/ Proceed(q) \/ StoreFails(q) \/ Crash(q)
               \/ \E e \in Emails : RequestUser(q, e)
        PROVE  Assured(p)'
    <3>1. phase'[p] = phase[p]
      BY <2>2, OthersStep
    <3>2. p \in serving => p \in serving'
      BY <2>2
         DEF Boot, Proceed, StoreFails, Crash, RequestUser, InspectTables,
             CreateTables, LookUp, LookUpFails, Add, SkipFile,
             IngestionAbandoned, IngestionDone, SeedStatement, SeedFails,
             SeedDone, AfterSeeding, CountUsers, FindUser, InsertUser,
             Refused, Up
    <3> QED
      BY <2>1, <3>1, <3>2 DEF Assured
  <2>3. CASE p \in serving
    <3>1. phase[p] \in {"ready", "find", "insert"}
      BY <2>3 DEF AccountsInv
    <3>2. ASSUME \/ FindUser(p) \/ InsertUser(p)
                 \/ \E e \in Emails : RequestUser(p, e)
          PROVE  p \in serving'
      BY <2>3, <3>2 DEF FindUser, InsertUser, RequestUser, Refused, Up
    <3>3. \/ FindUser(p) \/ InsertUser(p)
          \/ \E e \in Emails : RequestUser(p, e)
          \/ \E q \in Processes :
                 /\ q # p
                 /\ \/ Boot(q) \/ Proceed(q) \/ StoreFails(q) \/ Crash(q)
                    \/ \E e \in Emails : RequestUser(q, e)
      BY <3>1
         DEF Next, Boot, Proceed, StoreFails, InspectTables, CreateTables,
             LookUp, LookUpFails, Add, SkipFile, IngestionAbandoned,
             IngestionDone, SeedStatement, SeedFails, SeedDone, CountUsers
    <3> QED
      BY <2>1, <2>2, <3>2, <3>3 DEF Assured
  <2>4. CASE p \notin serving
    <3>1. /\ phase[p] \in {"inspect", "lookup", "add", "seed", "count"}
          /\ tables /\ users[Admin] > 0
      BY <2>4 DEF Assured
    <3>2. ASSUME Proceed(p) \/ StoreFails(p)
          PROVE  \/ p \in serving'
                 \/ phase'[p] \in {"inspect", "lookup", "add", "seed", "count"}
      BY <3>1, <3>2
         DEF Proceed, StoreFails, InspectTables, CreateTables, LookUp,
             LookUpFails, Add, SkipFile, NextFile, IngestionAbandoned,
             IngestionDone, SeedStatement, SeedFails, SeedDone, AfterSeeding,
             CountUsers, FindUser, InsertUser, Up, Goto
    <3>3. ~Boot(p) /\ ~\E e \in Emails : RequestUser(p, e)
      BY <3>1 DEF Boot, RequestUser
    <3> QED
      BY <2>1, <2>2, <3>2, <3>3 DEF Next, Assured
  <2> QED
    BY <2>3, <2>4
<1> QED
  BY <1>1, TypeInit, TypeStep, AccountsInit, AccountsStep, PTL DEF Spec

-----------------------------------------------------------------------------
(* Of the processes that race, one is left.                                *)

\* The safety half of SomeoneStarts where no process dies, and its
\* strengthening: while somebody has started somebody is up or on the way,
\* beyond the tables once these are there, and up once there is an account.
SomeoneLeft == crashes = 0 /\ boots > 0 => \E p \in Processes : phase[p] # "down"

Beyond(p) ==
    phase[p] \in {"lookup", "add", "seed", "count", "find", "insert", "ready"}

RaceInv ==
    crashes = 0 =>
        /\ boots > 0 => \E p \in Processes : phase[p] # "down"
        /\ tables => \E p \in Processes : Beyond(p)
        /\ users[Admin] > 0 => serving # {}

LEMMA RaceInit == Init => RaceInv
BY StartupAssumption DEF Init, RaceInv

\* Whoever goes on beyond the tables is the one that is left.
LEMMA BeyondIsLeft ==
    ASSUME TypeInv, NEW p \in Processes, Beyond(p)',
           users'[Admin] > 0 => serving' # {}
    PROVE  RaceInv'
BY DEF RaceInv, Beyond

LEMMA RaceStep ==
    ASSUME TypeInv, TypeInv', AccountsInv, RaceInv, [Next]_vars
    PROVE  RaceInv'
<1> USE StartupAssumption DEF TypeInv, TypeOK
<1>1. CASE UNCHANGED vars
  BY <1>1 DEF vars, process, stores, counters, RaceInv, Beyond
<1>2. ASSUME NEW p \in Processes, Crash(p) PROVE RaceInv'
  <2>1. crashes' = crashes + 1
    BY <1>2 DEF Crash
  <2> QED
    BY <2>1 DEF RaceInv
<1>3. ASSUME NEW p \in Processes, Boot(p) PROVE RaceInv'
  <2>1. /\ phase[p] = "down" /\ phase' = [phase EXCEPT ![p] = "inspect"]
        /\ UNCHANGED <<tables, users, serving, crashes>>
    BY <1>3 DEF Boot, Goto, stores
  <2> QED
    BY <2>1 DEF RaceInv, Beyond
<1>4. ASSUME NEW p \in Processes, InspectTables(p) PROVE RaceInv'
  <2>1. /\ phase[p] = "inspect" /\ phase'[p] \in {"lookup", "create"}
        /\ \A q \in Processes \ {p} : phase'[q] = phase[q]
        /\ UNCHANGED <<tables, users, serving, crashes, boots>>
    BY <1>4 DEF InspectTables, Goto, stores, counters
  <2> QED
    BY <2>1 DEF RaceInv, Beyond
<1>5. ASSUME NEW p \in Processes, CreateTables(p) PROVE RaceInv'
  <2>1. /\ phase[p] = "create"
        /\ phase' = [phase EXCEPT ![p] = IF tables THEN "down" ELSE "lookup"]
        /\ UNCHANGED <<users, serving, crashes, boots>>
    BY <1>5 DEF CreateTables, Goto, counters
  <2>2. CASE tables
    <3> SUFFICES ASSUME crashes = 0 PROVE RaceInv'
      BY <2>1 DEF RaceInv
    <3>1. PICK q \in Processes : Beyond(q)
      BY <2>2 DEF RaceInv
    <3>2. Beyond(q)'
      BY <2>1, <3>1 DEF Beyond
    <3> QED
      BY <2>1, <3>2, BeyondIsLeft DEF RaceInv
  <2>3. CASE ~tables
    <3> SUFFICES ASSUME crashes = 0 PROVE RaceInv'
      BY <2>1 DEF RaceInv
    <3>1. Beyond(p)'
      BY <2>1, <2>3 DEF Beyond
    <3> QED
      BY <2>1, <3>1, BeyondIsLeft DEF RaceInv
  <2> QED
    BY <2>2, <2>3
<1>6. ASSUME NEW p \in Processes,
             \/ LookUp(p) \/ Add(p) \/ IngestionDone(p) \/ SeedStatement(p)
             \/ SeedDone(p) \/ CountUsers(p) \/ StoreFails(p)
             \/ \E e \in Emails : RequestUser(p, e)
      PROVE  RaceInv'
  <2>1. Beyond(p)'
    BY <1>6 DEF LookUp, Add, NextFile, IngestionDone, SeedStatement, SeedDone,
        CountUsers, StoreFails, LookUpFails, SkipFile, IngestionAbandoned,
        SeedFails, RequestUser, AfterSeeding, Up, Goto, Beyond
  <2>2. /\ UNCHANGED <<users, crashes>>
        /\ serving \subseteq serving'
    BY <1>6 DEF LookUp, Add, NextFile, IngestionDone, SeedStatement, SeedDone,
        CountUsers, StoreFails, LookUpFails, SkipFile, IngestionAbandoned,
        SeedFails, RequestUser, AfterSeeding, Up, stores, counters
  <2> QED
    BY <2>1, <2>2, BeyondIsLeft DEF RaceInv
<1>7. ASSUME NEW p \in Processes, Refused(p), users[email[p]] > 0,
             phase[p] \in {"find", "insert"}, UNCHANGED <<tables, counters>>
      PROVE  RaceInv'
  <2>1. /\ UNCHANGED <<users, serving, crashes>>
        /\ phase' = [phase EXCEPT ![p] = IF p \in serving THEN "ready" ELSE "down"]
    BY <1>7 DEF Refused, Goto, counters
  <2> SUFFICES ASSUME crashes = 0 PROVE RaceInv'
    BY <2>1 DEF RaceInv
  <2>2. PICK q \in Processes : q \in serving
    <3>1. users[Admin] > 0
      BY <1>7 DEF AccountsInv
    <3> QED
      BY <3>1 DEF RaceInv
  <2>3. Beyond(q)'
    <3>1. phase[q] \in {"ready", "find", "insert"}
      BY <2>2 DEF AccountsInv
    <3> QED
      BY <2>1, <2>2, <3>1 DEF Beyond
  <2> QED
    BY <2>1, <2>2, <2>3, BeyondIsLeft
<1>8. ASSUME NEW p \in Processes, FindUser(p) PROVE RaceInv'
  <2>1. UNCHANGED <<tables, counters>>
    BY <1>8 DEF FindUser
  <2>2. CASE users[email[p]] > 0
    BY <1>7, <1>8, <2>1, <2>2 DEF FindUser
  <2>3. CASE ~(users[email[p]] > 0)
    <3>1. /\ phase' = [phase EXCEPT ![p] = "insert"]
          /\ UNCHANGED <<users, serving, crashes>>
      BY <1>8, <2>3 DEF FindUser, Goto, counters
    <3>2. Beyond(p)'
      BY <3>1 DEF Beyond
    <3> QED
      BY <3>1, <3>2, BeyondIsLeft DEF RaceInv
  <2> QED
    BY <2>2, <2>3
<1>9. ASSUME NEW p \in Processes, InsertUser(p) PROVE RaceInv'
  <2>1. UNCHANGED <<tables, counters>>
    BY <1>9 DEF InsertUser
  <2>2. CASE users[email[p]] > 0
    BY <1>7, <1>9, <2>1, <2>2 DEF InsertUser
  <2>3. CASE ~(users[email[p]] > 0)
    <3>1. phase' = [phase EXCEPT ![p] = "ready"] /\ p \in serving'
      BY <1>9, <2>3 DEF InsertUser, Up, Goto
    <3>2. Beyond(p)'
      BY <3>1 DEF Beyond
    <3> QED
      BY <3>1, <3>2, BeyondIsLeft
  <2> QED
    BY <2>2, <2>3
<1> QED
  BY <1>1, <1>2, <1>3, <1>4, <1>5, <1>6, <1>8, <1>9 DEF Next, Proceed

\* However many processes start together on empty stores, and whichever calls
\* of the index and the graph fail: unless a process dies, the races for the
\* tables and for the administrator leave one that is up or on its way up
\* (that it gets there is StartGetsNearer, and the fairness of SomeoneStarts).
THEOREM RacesLeaveSomeone == Spec => []SomeoneLeft
<1>1. RaceInv => SomeoneLeft
  BY DEF RaceInv, SomeoneLeft
<1>2. TypeInv /\ AccountsInv /\ RaceInv /\ [Next]_vars /\ TypeInv' => RaceInv'
  BY RaceStep
<1> QED
  BY <1>1, <1>2, TypeInit, TypeStep, AccountsInit, AccountsStep, RaceInit, PTL
     DEF Spec

-----------------------------------------------------------------------------
(* The knowledge index.                                                    *)

\* The files that a process has been through.
Passed(p) ==
    CASE phase[p] \in {"down", "inspect", "create"} -> {}
      [] phase[p] \in {"lookup", "add"} -> {f \in Files : f < at[p]}
      [] OTHER -> Files

\* The strengthening of RunbooksFound: what a process found is still there
\* when it adds the rest, and it has left every chunk of a file it has been
\* through in the store, unless the file's batch is refused.
IndexOf(p) ==
    /\ phase[p] = "create" => at[p] = 1
    /\ phase[p] \in {"lookup", "add"} => at[p] >= 1
    /\ phase[p] = "add" => known[p] \subseteq Stored(store)
    /\ p \in indexed =>
           \A f \in Passed(p) :
               ~BatchRefused(f, {}) => ChunksOf(f) \subseteq Stored(store)

\* A chunk is stored under a file that it is part of.
StoreSound == \A c \in Stored(store) : c \in ChunksOf(store[c])

IndexInv == StoreSound /\ \A p \in Processes : IndexOf(p)

LEMMA DocumentsShape ==
    /\ Documents \in Seq(Document(STRING)) /\ Files = DOMAIN Documents
    /\ \A f \in Files : /\ Documents[f].chunks \in Seq(Chunks)
                        /\ ChunksOf(f) \subseteq Chunks
<1>1. Documents \in Seq(Document(STRING)) /\ Files = DOMAIN Documents
  BY DocumentsAssumption DEF Files
<1>2. ASSUME NEW f \in Files
      PROVE  /\ Documents[f].chunks \in Seq(Chunks)
             /\ ChunksOf(f) \subseteq Chunks
  <2>1. Documents[f] \in Document(STRING)
    BY <1>1, <1>2
  <2>2. Documents[f].chunks \in Seq(Chunks)
    BY <2>1 DEF Document
  <2>3. \A i \in DOMAIN Documents[f].chunks : Documents[f].chunks[i] \in Chunks
    BY <2>2
  <2> QED
    BY <2>2, <2>3 DEF ChunksOf, Range
<1> QED
  BY <1>1, <1>2

\* Adding a batch keeps what is stored, under the file it is stored under,
\* and completes the file.
LEMMA AddedCompletes ==
    ASSUME NEW s \in Stores, NEW file \in Files, NEW k, k \subseteq Stored(s)
    PROVE  /\ \A c \in Stored(s) : Added(s, file, k)[c] = s[c]
           /\ Stored(s) \cup ChunksOf(file) \subseteq Stored(Added(s, file, k))
           /\ \A c \in Stored(Added(s, file, k)) :
                  \/ c \in Stored(s)
                  \/ c \in ChunksOf(file) /\ Added(s, file, k)[c] = file
<1>1. file # Absent
  BY DEF Files, Absent
<1> QED
  BY <1>1, DocumentsShape DEF Added, Stored, Stores

\* A batch that is refused with chunks left out is refused in full.
LEMMA RefusedInFull ==
    ASSUME NEW file \in Files, NEW k, BatchRefused(file, k)
    PROVE  BatchRefused(file, {})
BY DEF BatchRefused, Missing

LEMMA IndexInit == Init => IndexInv
BY DEF Init, IndexInv, IndexOf, StoreSound, Stored, EmptyStore, Passed

LEMMA IndexStep == TypeInv /\ IndexInv /\ [Next]_vars => IndexInv'
<1> SUFFICES ASSUME TypeInv, IndexInv, [Next]_vars PROVE IndexInv'
  OBVIOUS
<1>t. /\ phase \in [Processes -> Phases] /\ at \in [Processes -> Nat]
      /\ known \in [Processes -> SUBSET Chunks] /\ store \in Stores
      /\ indexed \subseteq Processes
  BY DEF TypeInv, TypeOK
\* The other processes only see the store grow.
<1>o. ASSUME NEW p \in Processes, StoreSound',
             Stored(store) \subseteq Stored(store)', IndexOf(p)',
             \A q \in Processes \ {p} :
                 /\ phase'[q] = phase[q] /\ at'[q] = at[q]
                 /\ known'[q] = known[q] /\ (q \in indexed' => q \in indexed)
      PROVE  IndexInv'
  <2> SUFFICES ASSUME NEW q \in Processes \ {p} PROVE IndexOf(q)'
    BY <1>o DEF IndexInv
  <2>1. IndexOf(q) /\ Passed(q)' = Passed(q)
    BY <1>o DEF IndexInv, Passed
  <2> QED
    BY <1>o, <2>1 DEF IndexOf
\* A step that leaves the store alone.
<1>s. ASSUME NEW p \in Processes, UNCHANGED store, IndexOf(p)',
             \A q \in Processes \ {p} :
                 /\ phase'[q] = phase[q] /\ at'[q] = at[q]
                 /\ known'[q] = known[q] /\ (q \in indexed' => q \in indexed)
      PROVE  IndexInv'
  BY <1>o, <1>s DEF IndexInv, StoreSound
<1>1. CASE UNCHANGED vars
  BY <1>1 DEF vars, process, stores, IndexInv, IndexOf, StoreSound, Passed
<1>2. ASSUME NEW p \in Processes, Boot(p) \/ InspectTables(p) \/ CreateTables(p)
      PROVE  IndexInv'
  <2>1. /\ UNCHANGED <<store, known>>
        /\ \A q \in Processes \ {p} :
               /\ phase'[q] = phase[q] /\ at'[q] = at[q]
               /\ q \in indexed' => q \in indexed
    BY <1>t, <1>2 DEF Boot, InspectTables, CreateTables, Goto, stores
  <2>2. /\ phase'[p] \in {"down", "inspect", "create", "lookup"}
        /\ phase'[p] \in {"create", "lookup"} => at'[p] = 1
        /\ phase'[p] = "lookup" => Passed(p)' = {}
    <3>1. CASE Boot(p)
      BY <1>t, <3>1 DEF Boot, Goto
    <3>2. CASE InspectTables(p)
      <4>1. at'[p] = 1 /\ phase'[p] \in {"lookup", "create"}
        BY <1>t, <3>2 DEF InspectTables, Goto
      <4>2. {f \in Files : f < 1} = {}
        BY DEF Files
      <4> QED
        BY <4>1, <4>2 DEF Passed
    <3>3. CASE CreateTables(p)
      <4>1. /\ at'[p] = at[p] /\ at[p] = 1
            /\ phase'[p] \in {"lookup", "down"}
        BY <1>t, <3>3 DEF CreateTables, Goto, IndexInv, IndexOf
      <4>2. {f \in Files : f < 1} = {}
        BY DEF Files
      <4> QED
        BY <4>1, <4>2 DEF Passed
    <3> QED
      BY <1>2, <3>1, <3>2, <3>3
  <2>3. IndexOf(p)'
    BY <2>2 DEF IndexOf, Passed
  <2> QED
    BY <1>s, <2>1, <2>3
<1>3. ASSUME NEW p \in Processes, LookUp(p) \/ LookUpFails(p)
      PROVE  IndexInv'
  <2>1. /\ UNCHANGED <<store, at, indexed>> /\ phase'[p] = "add"
        /\ phase[p] = "lookup" /\ known'[p] \subseteq Stored(store)
        /\ \A q \in Processes \ {p} :
               phase'[q] = phase[q] /\ known'[q] = known[q]
    BY <1>t, <1>3 DEF LookUp, LookUpFails, Goto, Found, stores
  <2>2. IndexOf(p) /\ Passed(p)' = Passed(p)
    BY <2>1 DEF IndexInv, Passed
  <2>3. IndexOf(p)'
    BY <2>1, <2>2 DEF IndexOf, Stored
  <2> QED
    BY <1>s, <2>1, <2>3
<1>4. ASSUME NEW p \in Processes, Add(p)
      PROVE  IndexInv'
  <2>1. /\ phase[p] = "add" /\ phase'[p] = "lookup" /\ at'[p] = at[p] + 1
        /\ at[p] \in Files /\ at[p] \in Nat /\ UNCHANGED indexed
        /\ store' = IF BatchRefused(at[p], known[p]) THEN store
                    ELSE Added(store, at[p], known[p])
        /\ \A q \in Processes \ {p} :
               /\ phase'[q] = phase[q] /\ at'[q] = at[q]
               /\ known'[q] = known[q]
    BY <1>t, <1>4 DEF Add, NextFile, Goto, TypeInv
  <2>2. IndexOf(p) /\ known[p] \subseteq Stored(store)
    BY <2>1 DEF IndexInv, IndexOf
  <2>3. /\ StoreSound' /\ Stored(store) \subseteq Stored(store)'
        /\ ~BatchRefused(at[p], {}) => ChunksOf(at[p]) \subseteq Stored(store)'
    <3>1. CASE BatchRefused(at[p], known[p])
      <4>1. UNCHANGED store /\ BatchRefused(at[p], {})
        BY <2>1, <3>1, RefusedInFull
      <4> QED
        BY <4>1 DEF IndexInv, StoreSound, Stored
    <3>2. CASE ~BatchRefused(at[p], known[p])
      <4>1. store' = Added(store, at[p], known[p])
        BY <2>1, <3>2
      <4>2. /\ \A c \in Stored(store) : store'[c] = store[c]
            /\ Stored(store) \cup ChunksOf(at[p]) \subseteq Stored(store')
            /\ \A c \in Stored(store') :
                   \/ c \in Stored(store)
                   \/ c \in ChunksOf(at[p]) /\ store'[c] = at[p]
        BY <1>t, <2>1, <2>2, <4>1, AddedCompletes
      <4>3. Stored(store)' = Stored(store')
        BY DEF Stored
      <4> QED
        BY <4>2, <4>3 DEF IndexInv, StoreSound
    <3> QED
      BY <3>1, <3>2
  <2>4. Passed(p)' = Passed(p) \cup {at[p]}
    <3>1. Passed(p) = {f \in Files : f < at[p]}
      BY <2>1 DEF Passed
    <3>2. Passed(p)' = {f \in Files : f < at[p] + 1}
      BY <2>1 DEF Passed
    <3>3. \A f \in Files : f < at[p] + 1 <=> f < at[p] \/ f = at[p]
      BY <2>1 DEF Files
    <3> QED
      BY <2>1, <3>1, <3>2, <3>3
  <2>5. IndexOf(p)'
    BY <2>1, <2>2, <2>3, <2>4 DEF IndexOf
  <2> QED
    BY <1>o, <2>1, <2>3, <2>5
<1>5. ASSUME NEW p \in Processes, SkipFile(p) \/ IngestionAbandoned(p)
      PROVE  IndexInv'
  <2>1. /\ UNCHANGED store /\ p \notin indexed'
        /\ \/ phase'[p] = "lookup" /\ at'[p] = at[p] + 1
           \/ phase'[p] = "seed"
        /\ \A q \in Processes \ {p} :
               /\ phase'[q] = phase[q] /\ at'[q] = at[q]
               /\ known'[q] = known[q] /\ (q \in indexed' => q \in indexed)
    BY <1>t, <1>5 DEF SkipFile, IngestionAbandoned, NextFile, Goto, stores
  <2>2. IndexOf(p)'
    BY <1>t, <2>1 DEF IndexOf
  <2> QED
    BY <1>s, <2>1, <2>2
<1>6. ASSUME NEW p \in Processes, IngestionDone(p)
      PROVE  IndexInv'
  <2>1. /\ UNCHANGED <<store, indexed, known>> /\ phase[p] = "lookup"
        /\ at[p] \notin Files /\ phase'[p] = "seed"
        /\ \A q \in Processes \ {p} : phase'[q] = phase[q] /\ at'[q] = at[q]
    BY <1>t, <1>6 DEF IngestionDone, Goto, stores
  <2>2. Passed(p) = Files
    <3>1. at[p] >= 1 /\ Passed(p) = {f \in Files : f < at[p]}
      BY <2>1 DEF IndexInv, IndexOf, Passed
    <3>2. Len(Documents) \in Nat
      BY DocumentsAssumption
    <3> QED
      BY <1>t, <2>1, <3>1, <3>2 DEF Files
  <2>3. IndexOf(p)'
    BY <2>1, <2>2 DEF IndexInv, IndexOf, Passed, Stored
  <2> QED
    BY <1>s, <2>1, <2>3
\* What comes after the ingestion.
<1>7. ASSUME NEW p \in Processes, UNCHANGED <<store, indexed, known>>,
             phase[p] \in {"seed", "count", "find", "insert", "ready"},
             phase'[p] \in {"seed", "count", "find", "insert", "ready", "down"},
             \A q \in Processes \ {p} : phase'[q] = phase[q] /\ at'[q] = at[q]
      PROVE  IndexInv'
  <2>1. IndexOf(p) /\ Passed(p) = Files /\ Passed(p)' \subseteq Files
    BY <1>7 DEF IndexInv, Passed
  <2>2. IndexOf(p)'
    BY <1>7, <2>1 DEF IndexOf, Stored
  <2> QED
    BY <1>s, <1>7, <2>2
<1>8. ASSUME NEW p \in Processes,
             SeedStatement(p) \/ SeedFails(p) \/ SeedDone(p)
      PROVE  IndexInv'
  <2>1. /\ UNCHANGED <<store, indexed, known>> /\ phase[p] = "seed"
        /\ phase'[p] \in {"seed", "count", "ready"}
        /\ \A q \in Processes \ {p} : phase'[q] = phase[q] /\ at'[q] = at[q]
    BY <1>t, <1>8
    DEF SeedStatement, SeedFails, SeedDone, AfterSeeding, Up, Goto, stores
  <2> QED
    BY <1>7, <2>1
<1>9. ASSUME NEW p \in Processes,
             \/ CountUsers(p) \/ FindUser(p) \/ InsertUser(p)
             \/ \E e \in Emails : RequestUser(p, e)
      PROVE  IndexInv'
  <2>1. /\ UNCHANGED <<store, indexed, known, at>>
        /\ phase[p] \in {"count", "find", "insert", "ready"}
        /\ phase'[p] \in {"find", "insert", "ready", "down"}
        /\ \A q \in Processes \ {p} : phase'[q] = phase[q]
    BY <1>t, <1>9
    DEF CountUsers, FindUser, InsertUser, RequestUser, Refused, Up, Goto, stores
  <2> QED
    BY <1>7, <2>1
<1>10. ASSUME NEW p \in Processes, Crash(p)
       PROVE  IndexInv'
  <2>1. /\ UNCHANGED <<store, indexed>> /\ phase'[p] = "down"
        /\ \A q \in Processes \ {p} :
               /\ phase'[q] = phase[q] /\ at'[q] = at[q]
               /\ known'[q] = known[q]
    BY <1>t, <1>10 DEF Crash, Goto, stores
  <2>2. IndexOf(p)'
    BY <2>1 DEF IndexOf, Passed
  <2> QED
    BY <1>s, <2>1, <2>2
<1> QED
  BY <1>1, <1>2, <1>3, <1>4, <1>5, <1>6, <1>8, <1>9, <1>10
  DEF Next, Proceed, StoreFails

\* However many processes ingest the same files at once, and wherever some
\* were cut off, one that went through them without a fault finds each text
\* of a file that is not refused under the file's service, if only files of
\* that service have it.
THEOREM RunbooksStayFound == Spec => []RunbooksFound
<1>1. ASSUME TypeInv, IndexInv
      PROVE  RunbooksFound
  <2> SUFFICES ASSUME NEW p \in Processes, Indexed(p),
                      NEW file \in Files, ~BatchRefused(file, {}),
                      NEW c \in ChunksOf(file),
                      Owners(c) = {ServiceOf(Documents[file].name)}
               PROVE  c \in Retrievable(store,
                                        ServiceOf(Documents[file].name),
                                        "production")
    BY DEF RunbooksFound
  <2>1. Passed(p) = Files /\ p \in indexed
    BY DEF Indexed, Passed
  <2>2. c \in Stored(store)
    BY <1>1, <2>1 DEF IndexInv, IndexOf
  <2>3. c \in ChunksOf(store[c]) /\ store[c] \in Files
    BY <1>1, <2>2 DEF IndexInv, StoreSound, Stored, TypeInv, TypeOK, Stores
  <2>4. ServiceOf(Documents[store[c]].name) \in Owners(c)
    BY <2>3 DEF Owners
  <2> QED
    BY <2>2, <2>4 DEF Retrievable, EnvironmentOf
<1> QED
  BY <1>1, TypeInit, TypeStep, IndexInit, IndexStep, PTL DEF Spec

-----------------------------------------------------------------------------
(* The blast radius.                                                       *)

\* The recursion of ReachedBy has a solution, the services at each distance.
LEMMA ImpactedUnfolds ==
    ASSUME NEW g, NEW service
    PROVE  \E one, two, three :
               /\ one = DirectDependents(g, {service})
               /\ two = one \cup DirectDependents(g, one)
               /\ three = two \cup DirectDependents(g, two)
               /\ Impacted(g, service) = three \cup DirectDependents(g, three)
<1> DEFINE D(set) == DirectDependents(g, set)
           one == D({service})
           two == one \cup D(one)
           three == two \cup D(two)
           four == three \cup D(three)
           Solves(f) == f = [n \in 1..Hops |->
               IF n = 1 THEN DirectDependents(g, {service})
               ELSE f[n - 1] \cup DirectDependents(g, f[n - 1])]
           reach == [n \in 1..Hops |-> IF n = 1 THEN one
                                       ELSE IF n = 2 THEN two
                                       ELSE IF n = 3 THEN three ELSE four]
<1>1. 1..Hops = {1, 2, 3, 4}
  BY DEF Hops
<1> SUFFICES Impacted(g, service) = four
  OBVIOUS
<1>2. /\ one = D({service}) /\ two = one \cup D(one)
      /\ three = two \cup D(two) /\ four = three \cup D(three)
  OBVIOUS
<1>s. ReachedBy(g, service) = CHOOSE f : Solves(f)
  BY DEF ReachedBy
<1> HIDE DEF one, two, three, four
<1>3. ASSUME NEW n \in 1..Hops
      PROVE  reach[n] = IF n = 1 THEN D({service})
                        ELSE reach[n - 1] \cup D(reach[n - 1])
  <2>1. reach[1] = one /\ reach[2] = two /\ reach[3] = three /\ reach[4] = four
    BY <1>1
  <2> HIDE DEF reach
  <2>2. CASE n = 1
    BY <1>2, <2>1, <2>2
  <2>3. CASE n = 2
    <3>1. n # 1 /\ n - 1 = 1
      BY <2>3
    <3> QED
      BY <1>2, <2>1, <2>3, <3>1
  <2>4. CASE n = 3
    <3>1. n # 1 /\ n - 1 = 2
      BY <2>4
    <3> QED
      BY <1>2, <2>1, <2>4, <3>1
  <2>5. CASE n = 4
    <3>1. n # 1 /\ n - 1 = 3
      BY <2>5
    <3> QED
      BY <1>2, <2>1, <2>5, <3>1
  <2> QED
    BY <1>1, <2>2, <2>3, <2>4, <2>5
<1>4. Solves(reach)
  BY <1>3
<1>5. Solves(ReachedBy(g, service))
  <2> HIDE DEF Solves, reach
  <2> QED
    BY <1>4, <1>s
<1> DEFINE r == ReachedBy(g, service)
<1>6. \A n \in 1..Hops : r[n] = IF n = 1 THEN D({service})
                                ELSE r[n - 1] \cup D(r[n - 1])
  <2> HIDE DEF r, reach
  <2>1. r = [n \in 1..Hops |-> IF n = 1 THEN DirectDependents(g, {service})
                               ELSE r[n - 1] \cup DirectDependents(g, r[n - 1])]
    BY <1>5 DEF r
  <2> QED
    BY <2>1
<1> HIDE DEF r
<1>7. r[1] = one /\ r[2] = two /\ r[3] = three /\ r[4] = four
  <2>1. r[1] = one
    BY <1>1, <1>2, <1>6
  <2>2. r[2] = two
    <3>1. 2 \in 1..Hops /\ 2 # 1 /\ 2 - 1 = 1
      BY <1>1
    <3> QED
      BY <1>2, <1>6, <2>1, <3>1
  <2>3. r[3] = three
    <3>1. 3 \in 1..Hops /\ 3 # 1 /\ 3 - 1 = 2
      BY <1>1
    <3> QED
      BY <1>2, <1>6, <2>2, <3>1
  <2>4. r[4] = four
    <3>1. 4 \in 1..Hops /\ 4 # 1 /\ 4 - 1 = 3
      BY <1>1
    <3> QED
      BY <1>2, <1>6, <2>3, <3>1
  <2> QED
    BY <2>1, <2>2, <2>3, <2>4
<1> QED
  BY <1>7 DEF Impacted, Hops, r

LEMMA DirectMonotone ==
    ASSUME NEW g, NEW h, g.edges \subseteq h.edges, NEW s, NEW t, s \subseteq t
    PROVE  DirectDependents(g, s) \subseteq DirectDependents(h, t)
BY DEF DirectDependents

\* The blast radius lies in every set that has the dependents of the service
\* and of its own members, by a larger graph; the direct ones are in it.
LEMMA ImpactedLeast ==
    ASSUME NEW g, NEW h, g.edges \subseteq h.edges, NEW service, NEW set,
           DirectDependents(h, set \cup {service}) \subseteq set
    PROVE  Impacted(g, service) \subseteq set
<1>1. \A s : s \subseteq set \cup {service}
                 => DirectDependents(g, s) \subseteq set
  BY DirectMonotone
<1>2. PICK one, two, three :
          /\ one = DirectDependents(g, {service})
          /\ two = one \cup DirectDependents(g, one)
          /\ three = two \cup DirectDependents(g, two)
          /\ Impacted(g, service) = three \cup DirectDependents(g, three)
  BY ImpactedUnfolds
<1>3. one \subseteq set
  BY <1>1, <1>2
<1>4. two \subseteq set
  BY <1>1, <1>2, <1>3
<1>5. three \subseteq set
  BY <1>1, <1>2, <1>4
<1> QED
  BY <1>1, <1>2, <1>5

LEMMA ImpactedHasDirect ==
    ASSUME NEW g, NEW service
    PROVE  DirectDependents(g, {service}) \subseteq Impacted(g, service)
<1>1. PICK one, two, three :
          /\ one = DirectDependents(g, {service})
          /\ two = one \cup DirectDependents(g, one)
          /\ three = two \cup DirectDependents(g, two)
          /\ Impacted(g, service) = three \cup DirectDependents(g, three)
  BY ImpactedUnfolds
<1>2. one \subseteq two /\ two \subseteq three
  BY <1>1
<1> QED
  BY <1>1, <1>2

\* Only its edges matter.
LEMMA ImpactedByEdges ==
    ASSUME NEW g, NEW h, g.edges = h.edges, NEW service
    PROVE  Impacted(g, service) = Impacted(h, service)
<1>1. \A s : DirectDependents(g, s) = DirectDependents(h, s)
  BY DEF DirectDependents
<1>2. PICK one, two, three :
          /\ one = DirectDependents(g, {service})
          /\ two = one \cup DirectDependents(g, one)
          /\ three = two \cup DirectDependents(g, two)
          /\ Impacted(g, service) = three \cup DirectDependents(g, three)
  BY ImpactedUnfolds
<1>3. PICK first, second, third :
          /\ first = DirectDependents(h, {service})
          /\ second = first \cup DirectDependents(h, first)
          /\ third = second \cup DirectDependents(h, second)
          /\ Impacted(h, service) = third \cup DirectDependents(h, third)
  BY ImpactedUnfolds
<1>4. one = first
  <2>1. one = DirectDependents(g, {service})
    BY <1>2
  <2>2. first = DirectDependents(h, {service})
    BY <1>3
  <2> QED
    BY <1>1, <2>1, <2>2
<1>5. two = second
  <2>1. two = one \cup DirectDependents(g, one)
    BY <1>2
  <2>2. second = first \cup DirectDependents(h, first)
    BY <1>3
  <2> QED
    BY <1>1, <1>4, <2>1, <2>2
<1>6. three = third
  <2>1. three = two \cup DirectDependents(g, two)
    BY <1>2
  <2>2. third = second \cup DirectDependents(h, second)
    BY <1>3
  <2> QED
    BY <1>1, <1>5, <2>1, <2>2
<1>7. DirectDependents(g, three) = DirectDependents(h, third)
  BY <1>1, <1>6
<1> QED
  <2>1. Impacted(g, service) = three \cup DirectDependents(g, three)
    BY <1>2
  <2>2. Impacted(h, service) = third \cup DirectDependents(h, third)
    BY <1>3
  <2> QED
    BY <1>6, <1>7, <2>1, <2>2

\* No service depends on another through more dependencies only than the
\* query follows.
WithinHops ==
    \A service \in Services :
        DirectDependents(TopologyGraph, Impacted(TopologyGraph, service))
            \subseteq Impacted(TopologyGraph, service)

LEMMA TopologyEdges ==
    /\ TopologyGraph.edges = Range(Topology.dependencies)
    /\ Range(Topology.dependencies) \subseteq Services \X Services
<1>1. \A i \in DOMAIN Topology.dependencies :
          Topology.dependencies[i] \in Dependency
  BY TopologyShape
<1> QED
  BY <1>1 DEF TopologyGraph, EmptyGraph, Range, Dependency

\* Of a part of the topology, only dependents are impacted.
LEMMA ImpactedDepend ==
    ASSUME NEW g, g.edges \subseteq Range(Topology.dependencies),
           NEW service \in Services
    PROVE  Impacted(g, service) \subseteq Dependents[service]
<1>1. ASSUME NEW set \in SUBSET Services, Closed(set, service)
      PROVE  Impacted(g, service) \subseteq set
  BY <1>1, TopologyEdges, ImpactedLeast DEF Closed
<1>2. Closed(Services, service)
  BY TopologyEdges DEF Closed, DirectDependents
<1>3. Impacted(g, service) \subseteq Services
  BY <1>1, <1>2
<1> QED
  BY <1>1, <1>3 DEF Dependents

\* Of the whole topology, all dependents are, if they are within reach.
LEMMA DependentsImpacted ==
    ASSUME WithinHops, NEW g, g.edges = Range(Topology.dependencies),
           NEW service \in Services
    PROVE  Dependents[service] \subseteq Impacted(g, service)
<1> DEFINE impacted == Impacted(TopologyGraph, service)
<1>1. Impacted(g, service) = impacted
  BY TopologyEdges, ImpactedByEdges
<1>2. impacted \in SUBSET Services
  BY TopologyEdges, ImpactedDepend DEF Dependents
<1>3. /\ DirectDependents(TopologyGraph, impacted) \subseteq impacted
      /\ DirectDependents(TopologyGraph, {service}) \subseteq impacted
  BY ImpactedHasDirect DEF WithinHops
<1> HIDE DEF impacted
<1>4. DirectDependents(TopologyGraph, impacted \cup {service})
          = DirectDependents(TopologyGraph, impacted)
                \cup DirectDependents(TopologyGraph, {service})
  BY DEF DirectDependents
<1>5. Closed(impacted, service)
  BY <1>3, <1>4 DEF Closed
<1> QED
  BY <1>1, <1>2, <1>5 DEF Dependents

\* A criticality in the graph is one of the topology.
LevelInv ==
    \A s \in Services :
        graph.level[s] # Unmarked =>
            <<s, graph.level[s]>> \in Range(Topology.criticality)

LEMMA LevelInit == Init => LevelInv
BY DEF Init, LevelInv, EmptyGraph

LEMMA LevelStep == TypeInv /\ LevelInv /\ [Next]_vars => LevelInv'
<1> SUFFICES ASSUME TypeInv, LevelInv, [Next]_vars PROVE LevelInv'
  OBVIOUS
<1>1. CASE UNCHANGED graph
  BY <1>1 DEF LevelInv
<1>2. ASSUME NEW p \in Processes, SeedStatement(p)
      PROVE  LevelInv'
  <2> DEFINE d == Topology.dependencies
             c == Topology.criticality
             k == at[p]
  <2>1. /\ graph' = AfterStatement(graph, k) /\ graph \in Graphs
        /\ k \in Nat /\ k <= LastStatement
    BY <1>2 DEF SeedStatement, TypeInv, TypeOK
  <2>2. CASE k = 0
    BY <2>1, <2>2 DEF AfterStatement, EmptyGraph, LevelInv
  <2>3. CASE k # 0 /\ k <= Len(d)
    <3>1. graph'.level = graph.level
      BY <2>1, <2>3 DEF AfterStatement, Graphs
    <3> QED
      BY <3>1 DEF LevelInv
  <2>4. CASE k # 0 /\ ~(k <= Len(d))
    <3>1. PICK i \in 1..Len(c) : i = k - Len(d)
      <4>1. \A m, l \in Nat : k <= m + l /\ ~(k <= m) => k - m \in 1..l
        BY <2>1
      <4>2. k <= Len(d) + Len(c)
        BY <2>1 DEF LastStatement
      <4> QED
        BY <2>4, <4>1, <4>2, TopologyShape
    <3>2. graph'.level = [graph.level EXCEPT ![c[i][1]] = c[i][2]]
      BY <2>1, <2>4, <3>1 DEF AfterStatement, Graphs
    <3>3. c[i] \in Services \X Levels /\ i \in DOMAIN c
      BY TopologyShape
    <3>4. c[i] = <<c[i][1], c[i][2]>> /\ c[i] \in Range(c)
      BY <3>3 DEF Range
    <3>5. graph.level \in [Services -> Levels \cup {Unmarked}]
      BY <2>1 DEF Graphs
    <3> HIDE DEF c
    <3> SUFFICES ASSUME NEW s \in Services, graph'.level[s] # Unmarked
                 PROVE  <<s, graph'.level[s]>> \in Range(c)
      BY DEF LevelInv, c
    <3>6. CASE s = c[i][1]
      BY <3>2, <3>4, <3>5, <3>6
    <3>7. CASE s # c[i][1]
      <4>1. graph'.level[s] = graph.level[s]
        BY <3>2, <3>5, <3>7
      <4> QED
        BY <4>1 DEF LevelInv, c
    <3> QED
      BY <3>6, <3>7
  <2> QED
    BY <2>2, <2>3, <2>4
<1>3. ASSUME NEW p \in Processes,
             \/ Boot(p) \/ InspectTables(p) \/ CreateTables(p) \/ LookUp(p)
             \/ Add(p) \/ IngestionDone(p) \/ SeedDone(p) \/ CountUsers(p)
             \/ FindUser(p) \/ InsertUser(p) \/ StoreFails(p) \/ Crash(p)
             \/ \E e \in Emails : RequestUser(p, e)
      PROVE  UNCHANGED graph
  BY <1>3 DEF Boot, InspectTables, CreateTables, LookUp, Add, IngestionDone,
      SeedDone, CountUsers, FindUser, InsertUser, StoreFails, LookUpFails,
      SkipFile, IngestionAbandoned, SeedFails, Crash, RequestUser, stores
<1>4. CASE UNCHANGED vars
  BY <1>1, <1>4 DEF vars, stores
<1> QED
  BY <1>1, <1>2, <1>3, <1>4 DEF Next, Proceed

\* Whoever empties and fills the graph under the query, what it reports as
\* impacted does depend on the service, and once the graph is whole it
\* reports all that does, with its criticality; for any topology that the
\* bound of the query covers, as the built-in one is.
THEOREM BlastRadiusStaysHonest ==
    ASSUME WithinHops
    PROVE  Spec => []BlastRadiusHonest
<1>1. ASSUME TypeInv, GraphInv, LevelInv
      PROVE  BlastRadiusHonest
  <2> SUFFICES ASSUME NEW service \in Services
               PROVE  LET radius == BlastRadius(graph, service)
                          dependents == Dependents[service]
                      IN  /\ radius.impacted_services \subseteq dependents
                          /\ seeded /\ wiper = Nobody =>
                                 /\ radius.impacted_services = dependents
                                 /\ radius.critical_dependents =
                                        {s \in dependents :
                                             <<s, "CRITICAL">>
                                                 \in Range(Topology.criticality)}
    BY DEF BlastRadiusHonest
  <2>1. Impacted(graph, service) \subseteq Dependents[service]
    BY <1>1, ImpactedDepend DEF GraphInv
  <2>2. ASSUME seeded, wiper = Nobody
        PROVE  /\ Impacted(graph, service) = Dependents[service]
               /\ \A s \in Dependents[service] :
                      graph.level[s] = "CRITICAL" <=>
                          <<s, "CRITICAL">> \in Range(Topology.criticality)
    <3>1. WholeGraph
      BY <1>1, <2>2, WholeFromInv DEF GraphWhole
    <3>2. Impacted(graph, service) = Dependents[service]
      BY <2>1, <3>1, DependentsImpacted DEF WholeGraph
    <3>3. ASSUME NEW s \in Dependents[service]
          PROVE  graph.level[s] = "CRITICAL" <=>
                     <<s, "CRITICAL">> \in Range(Topology.criticality)
      <4>1. s \in Services
        BY DEF Dependents
      <4>2. graph.level[s] = "CRITICAL" =>
                <<s, "CRITICAL">> \in Range(Topology.criticality)
        BY <1>1, <4>1 DEF LevelInv, Unmarked
      <4>3. ASSUME <<s, "CRITICAL">> \in Range(Topology.criticality)
            PROVE  graph.level[s] = "CRITICAL"
        BY <3>1, <4>3 DEF WholeGraph
      <4> QED
        BY <4>2, <4>3
    <3> QED
      BY <3>2, <3>3
  <2>3. /\ BlastRadius(graph, service).impacted_services
               = Impacted(graph, service)
        /\ BlastRadius(graph, service).critical_dependents
               = {s \in Impacted(graph, service) : graph.level[s] = "CRITICAL"}
    BY DEF BlastRadius
  <2> QED
    BY <2>1, <2>2, <2>3
<1> QED
  BY <1>1, TypeInit, TypeStep, GraphInit, GraphStep, LevelInit, LevelStep, PTL
  DEF Spec

=============================================================================
