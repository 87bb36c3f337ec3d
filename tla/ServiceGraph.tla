---------------------------- MODULE ServiceGraph ----------------------------
(***************************************************************************)
(* The service-dependency graph (core/knowledge/graph.py): the statements  *)
(* that seed it, each a transaction of its own, and the blast radius that  *)
(* the investigation reads from it.                                        *)
(***************************************************************************)
EXTENDS Naturals, Sequences, Functions

CONSTANTS
    Services,
    TopologyFile,   \* what topology.json gives, or the empty record
    BuiltIn         \* the topology in the code

Levels == {"CRITICAL", "HIGH", "MEDIUM", "LOW"}

Dependency == Services \X Services

\* Dependencies are <<dependent, dependency>>, criticalities <<service, level>>.
Topologies == [dependencies: Seq(Dependency), criticality: Seq(Services \X Levels)]

ASSUME TopologyAssumption == TopologyFile \in Topologies /\ BuiltIn \in Topologies

\* A file without dependencies is not used, nor are its criticalities.
Topology == IF TopologyFile.dependencies = <<>> THEN BuiltIn ELSE TopologyFile

Unmarked == "none"

\* Whether a service has a node shows only in its edges and its criticality.
Graphs == [edges: SUBSET Dependency, level: [Services -> Levels \cup {Unmarked}]]

EmptyGraph == [edges |-> {}, level |-> [s \in Services |-> Unmarked]]

\* Mutant: the last criticality is left out.
LastButOne == Len(Topology.dependencies) + Len(Topology.criticality) - 1

\* Statement 0 deletes every node; then one per dependency, one per criticality.
LastStatement == Len(Topology.dependencies) + Len(Topology.criticality)

AfterStatement(graph, k) ==
    IF k = 0 THEN EmptyGraph
    ELSE IF k <= Len(Topology.dependencies)
    THEN [graph EXCEPT !.edges = @ \cup {Topology.dependencies[k]}]
    ELSE LET mark == Topology.criticality[k - Len(Topology.dependencies)]
         IN  [graph EXCEPT !.level[mark[1]] = mark[2]]

\* Mutant: the query follows one dependency less.
OneHopLess == 3

\* The longest path of dependencies that the query follows.
Hops == 4

DirectDependents(graph, targets) ==
    {e[1] : e \in {d \in graph.edges : d[2] \in targets}}

\* The services with a path of at most n dependencies to the target, for each
\* n; a cycle brings a service into its own blast radius.
ReachedBy(graph, service) ==
    LET Reach[n \in 1..Hops] ==
            IF n = 1 THEN DirectDependents(graph, {service})
            ELSE Reach[n - 1] \cup DirectDependents(graph, Reach[n - 1])
    IN  Reach

Impacted(graph, service) == ReachedBy(graph, service)[Hops]

BlastRadius(graph, service) ==
    LET impacted == Impacted(graph, service)
    IN  [impacted_services   |-> impacted,
         critical_dependents |-> {s \in impacted : graph.level[s] = "CRITICAL"},
         depends_on          |-> {e[2] : e \in {d \in graph.edges : d[1] = service}}]
=============================================================================
