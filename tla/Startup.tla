------------------------------ MODULE Startup ------------------------------
(***************************************************************************)
(* How the API and worker processes start against shared stores            *)
(* (apps/worker/context.py, apps/api/main.py): the tables                  *)
(* (core/persistence/database.py), the knowledge index, the dependency     *)
(* graph and the first administrator (core/identity/service.py), and the   *)
(* accounts that requests create afterwards (apps/api/routes_auth.py).     *)
(*                                                                         *)
(* Each call of a store is a step, so processes that start together        *)
(* interleave between them.  A process may die anywhere; it keeps nothing, *)
(* and the stores keep what was written.                                   *)
(***************************************************************************)
EXTENDS KnowledgeIndex, ServiceGraph

CONSTANTS
    Apis, Workers,
    Emails, Admin,      \* Admin: BOOTSTRAP_ADMIN_EMAIL
    PasswordSet,        \* whether BOOTSTRAP_ADMIN_PASSWORD is set
    Nobody,
    MaxBoots,           \* bound: times processes are started
    MaxFaults,          \* bound: processes that die, and store calls that fail
    MaxRequests         \* bound: requests for an account

Processes == Apis \cup Workers

ASSUME StartupAssumption ==
    /\ Apis \cap Workers = {} /\ Nobody \notin Processes
    /\ Admin \in Emails /\ PasswordSet \in BOOLEAN
    /\ MaxBoots \in Nat /\ MaxFaults \in Nat /\ MaxRequests \in Nat
    \* The criticalities are a dictionary.
    /\ \A i, j \in DOMAIN Topology.criticality :
           Topology.criticality[i][1] = Topology.criticality[j][1] => i = j

VARIABLES
    phase,      \* the store call a process makes next
    at,         \* its next file, or its next statement of the graph
    known,      \* chunks that its last look-up found
    email,      \* the account it is creating, or the administrator's
    serving,    \* processes that are up
    tables,     \* whether the database has its tables
    store,      \* the knowledge index
    graph,      \* the dependency graph
    users,      \* how many accounts have each email
    indexed,    \* ghost: processes whose last ingestion met no fault so far
    seeded,     \* ghost: whether a seeding ever finished
    wiper,      \* ghost: who emptied the graph last and has not finished
    founders,   \* ghost: accounts that bootstrap_admin created
    boots, crashes, faults, asked   \* ghosts: counters

process  == <<phase, at, known, email, serving, indexed>>
stores   == <<tables, store, graph, users>>
seeding  == <<seeded, wiper>>
counters == <<boots, crashes, faults, asked>>

vars == <<process, stores, seeding, founders, counters>>

Phases ==
    {"down", "inspect", "create", "lookup", "add", "seed", "count", "find",
     "insert", "ready"}

TypeOK ==
    /\ phase \in [Processes -> Phases]
    /\ at \in [Processes -> Nat]
    /\ known \in [Processes -> SUBSET Chunks]
    /\ email \in [Processes -> Emails]
    /\ serving \subseteq Processes /\ indexed \subseteq Processes
    /\ tables \in BOOLEAN
    /\ store \in Stores
    /\ graph \in Graphs
    /\ users \in [Emails -> Nat]
    /\ seeded \in BOOLEAN /\ wiper \in Processes \cup {Nobody}
    /\ founders \in Nat
    /\ boots \in 0..MaxBoots /\ asked \in 0..MaxRequests
    /\ crashes \in Nat /\ faults \in Nat /\ crashes + faults <= MaxFaults

Init ==
    /\ phase = [p \in Processes |-> "down"]
    /\ at = [p \in Processes |-> 0]
    /\ known = [p \in Processes |-> {}]
    /\ email = [p \in Processes |-> Admin]
    /\ serving = {} /\ indexed = {}
    /\ tables = FALSE
    /\ store = EmptyStore
    /\ graph = EmptyGraph
    /\ users = [e \in Emails |-> 0]
    /\ seeded = FALSE /\ wiper = Nobody
    /\ founders = 0
    /\ boots = 0 /\ crashes = 0 /\ faults = 0 /\ asked = 0

Goto(p, next) == phase' = [phase EXCEPT ![p] = next]

Fault == crashes + faults < MaxFaults /\ faults' = faults + 1

-----------------------------------------------------------------------------
(* The database.                                                           *)

Boot(p) ==
    /\ phase[p] = "down" /\ boots < MaxBoots
    /\ boots' = boots + 1
    /\ Goto(p, "inspect")
    /\ indexed' = indexed \cup {p}
    /\ UNCHANGED <<at, known, email, serving, stores, seeding, founders,
                   crashes, faults, asked>>

\* create_all asks which tables exist before it creates those that do not.
InspectTables(p) ==
    /\ phase[p] = "inspect"
    /\ Goto(p, IF tables THEN "lookup" ELSE "create")
    /\ at' = [at EXCEPT ![p] = 1]
    /\ UNCHANGED <<known, email, serving, indexed, stores, seeding, founders,
                   counters>>

\* Mutant: without a transaction, two that create the tables together each
\* meet those of the other.
CreateInHalves(p) ==
    /\ phase[p] = "create"
    /\ Goto(p, IF tables \/ \E q \in Processes \ {p} : phase[q] = "create"
               THEN "down" ELSE "lookup")
    /\ tables' = TRUE
    /\ UNCHANGED <<at, known, email, serving, indexed, store, graph, users,
                   seeding, founders, counters>>

\* Another process has created them since: the statement fails, and nothing
\* catches that, so the process does not start.
CreateTables(p) ==
    /\ phase[p] = "create"
    /\ Goto(p, IF tables THEN "down" ELSE "lookup")
    /\ tables' = TRUE
    /\ UNCHANGED <<at, known, email, serving, indexed, store, graph, users,
                   seeding, founders, counters>>

-----------------------------------------------------------------------------
(* The knowledge index: one file after the other.                          *)

LookUp(p) ==
    /\ phase[p] = "lookup" /\ at[p] \in Files
    /\ known' = [known EXCEPT ![p] = Found(store, at[p])]
    /\ Goto(p, "add")
    /\ UNCHANGED <<at, email, serving, indexed, stores, seeding, founders,
                   counters>>

\* A look-up that raises counts as one that found nothing.
LookUpFails(p) ==
    /\ phase[p] = "lookup" /\ at[p] \in Files
    /\ Fault
    /\ known' = [known EXCEPT ![p] = {}]
    /\ Goto(p, "add")
    /\ UNCHANGED <<at, email, serving, indexed, stores, seeding, founders,
                   boots, crashes, asked>>

NextFile(p) ==
    /\ Goto(p, "lookup")
    /\ at' = [at EXCEPT ![p] = @ + 1]
    /\ known' = [known EXCEPT ![p] = {}]

Add(p) ==
    /\ phase[p] = "add"
    /\ NextFile(p)
    /\ store' = IF BatchRefused(at[p], known[p]) THEN store
                ELSE Added(store, at[p], known[p])
    /\ UNCHANGED <<email, serving, indexed, tables, graph, users, seeding,
                   founders, counters>>

\* Ingestion is off, or the collection cannot be opened: no file is tried.
IngestionAbandoned(p) ==
    /\ phase[p] = "lookup" /\ at[p] = 1
    /\ Fault
    /\ Goto(p, "seed")
    /\ at' = [at EXCEPT ![p] = 0]
    /\ indexed' = indexed \ {p}
    /\ UNCHANGED <<known, email, serving, stores, seeding, founders, boots,
                   crashes, asked>>

\* The file cannot be read, or its batch cannot be added: the others go on.
SkipFile(p) ==
    /\ phase[p] = "add"
    /\ Fault
    /\ NextFile(p)
    /\ indexed' = indexed \ {p}
    /\ UNCHANGED <<email, serving, stores, seeding, founders, boots, crashes,
                   asked>>

IngestionDone(p) ==
    /\ phase[p] = "lookup" /\ at[p] \notin Files
    /\ Goto(p, "seed")
    /\ at' = [at EXCEPT ![p] = 0]
    /\ UNCHANGED <<known, email, serving, indexed, stores, seeding, founders,
                   counters>>

-----------------------------------------------------------------------------
(* The dependency graph.                                                   *)

Up(p) ==
    /\ Goto(p, "ready")
    /\ serving' = serving \cup {p}

\* Only the API looks for an administrator.
AfterSeeding(p) ==
    /\ IF p \in Workers THEN Up(p) ELSE Goto(p, "count") /\ UNCHANGED serving
    /\ at' = [at EXCEPT ![p] = 0]

SeedStatement(p) ==
    /\ phase[p] = "seed" /\ at[p] <= LastStatement
    /\ graph' = AfterStatement(graph, at[p])
    /\ at' = [at EXCEPT ![p] = @ + 1]
    /\ wiper' = IF at[p] = 0 THEN p ELSE wiper
    /\ UNCHANGED <<phase, known, email, serving, indexed, tables, store,
                   users, seeded, founders, counters>>

\* The graph is off or cannot be reached, or a statement fails: the rest is
\* left out, and the process starts without it.
SeedFails(p) ==
    /\ phase[p] = "seed"
    /\ Fault
    /\ AfterSeeding(p)
    /\ UNCHANGED <<known, email, indexed, stores, seeding, founders, boots,
                   crashes, asked>>

SeedDone(p) ==
    /\ phase[p] = "seed" /\ at[p] > LastStatement
    /\ AfterSeeding(p)
    /\ seeded' = TRUE
    /\ wiper' = IF wiper = p THEN Nobody ELSE wiper
    /\ UNCHANGED <<known, email, indexed, stores, founders, counters>>

-----------------------------------------------------------------------------
(* The accounts.                                                           *)

\* Mutant: the administrator is created on every boot.
CountNobody(p) ==
    /\ phase[p] = "count"
    /\ IF PasswordSet THEN Goto(p, "find") /\ UNCHANGED serving ELSE Up(p)
    /\ UNCHANGED <<at, known, email, indexed, stores, seeding, founders, counters>>

CountUsers(p) ==
    /\ phase[p] = "count"
    /\ IF (\E e \in Emails : users[e] > 0) \/ ~PasswordSet
       THEN Up(p) ELSE Goto(p, "find") /\ UNCHANGED serving
    /\ UNCHANGED <<at, known, email, indexed, stores, seeding, founders, counters>>

RequestUser(p, e) ==
    /\ p \in Apis /\ phase[p] = "ready"
    /\ users[Admin] > 0 /\ asked < MaxRequests
    /\ asked' = asked + 1
    /\ Goto(p, "find")
    /\ email' = [email EXCEPT ![p] = e]
    /\ UNCHANGED <<at, known, serving, indexed, stores, seeding, founders,
                   boots, crashes, faults>>

\* A request is answered with an error; nobody catches it in bootstrap_admin,
\* and the process does not start.
Refused(p) ==
    /\ Goto(p, IF p \in serving THEN "ready" ELSE "down")
    /\ email' = [email EXCEPT ![p] = Admin]
    /\ UNCHANGED <<serving, users, founders>>

FindUser(p) ==
    /\ phase[p] = "find"
    /\ IF users[email[p]] > 0 THEN Refused(p)
       ELSE Goto(p, "insert") /\ UNCHANGED <<email, serving, users, founders>>
    /\ UNCHANGED <<at, known, indexed, tables, store, graph, seeding,
                   counters>>

\* Mutant: the column is not unique.
InsertAnyUser(p) ==
    /\ phase[p] = "insert"
    /\ Up(p)
    /\ email' = [email EXCEPT ![p] = Admin]
    /\ users' = [users EXCEPT ![email[p]] = @ + 1]
    /\ founders' = IF p \in serving THEN founders ELSE founders + 1
    /\ UNCHANGED <<at, known, indexed, tables, store, graph, seeding, counters>>

\* The column is unique: an insert after somebody else's fails.
InsertUser(p) ==
    /\ phase[p] = "insert"
    /\ IF users[email[p]] > 0 THEN Refused(p)
       ELSE /\ Up(p)
            /\ email' = [email EXCEPT ![p] = Admin]
            /\ users' = [users EXCEPT ![email[p]] = @ + 1]
            /\ founders' = IF p \in serving THEN founders ELSE founders + 1
    /\ UNCHANGED <<at, known, indexed, tables, store, graph, seeding, counters>>

-----------------------------------------------------------------------------

\* A process dies.  A call of the database that fails while it starts leaves
\* it down as well: nothing catches that.
Crash(p) ==
    /\ phase[p] # "down" /\ crashes + faults < MaxFaults
    /\ crashes' = crashes + 1
    /\ Goto(p, "down")
    /\ at' = [at EXCEPT ![p] = 0]
    /\ known' = [known EXCEPT ![p] = {}]
    /\ email' = [email EXCEPT ![p] = Admin]
    /\ serving' = serving \ {p}
    /\ UNCHANGED <<indexed, stores, seeding, founders, boots, faults, asked>>

\* What the program does of itself once a process is started.
Proceed(p) ==
    \/ InspectTables(p) \/ CreateTables(p)
    \/ LookUp(p) \/ Add(p) \/ IngestionDone(p)
    \/ SeedStatement(p) \/ SeedDone(p)
    \/ CountUsers(p) \/ FindUser(p) \/ InsertUser(p)

StoreFails(p) ==
    LookUpFails(p) \/ SkipFile(p) \/ IngestionAbandoned(p) \/ SeedFails(p)

Next ==
    \E p \in Processes :
        \/ Boot(p) \/ Proceed(p) \/ StoreFails(p) \/ Crash(p)
        \/ \E e \in Emails : RequestUser(p, e)

Spec == Init /\ [][Next]_vars

FairSpec == Spec /\ \A p \in Processes : WF_vars(Proceed(p))

-----------------------------------------------------------------------------
(* Properties.                                                             *)

\* "re-running on every boot is cheap", and harmless: however ingestions
\* interleave and wherever they were cut off, a process that has gone through
\* the knowledge base without a fault finds each of its texts under the
\* service of its file, unless the file repeats a text in itself or shares it
\* with a file of another service.
Indexed(p) == p \in indexed /\ phase[p] \in {"seed", "count", "find", "insert", "ready"}

Owners(chunk) ==
    {ServiceOf(Documents[f].name) : f \in {g \in Files : chunk \in ChunksOf(g)}}

RunbooksFound ==
    \A p \in Processes : Indexed(p) =>
        \A file \in {f \in Files : ~BatchRefused(f, {})} :
            LET service == ServiceOf(Documents[file].name)
            IN  {c \in ChunksOf(file) : Owners(c) = {service}}
                    \subseteq Retrievable(store, service, "production")

\* Every seeding starts with an empty graph, under the eyes of processes that
\* answer from it: once a seeding has finished, the graph has every dependency
\* and criticality of the topology, or else the process that emptied it last
\* is still at it, died or failed.
WholeGraph ==
    /\ graph.edges = Range(Topology.dependencies)
    /\ \A mark \in Range(Topology.criticality) : graph.level[mark[1]] = mark[2]

GraphWhole == seeded /\ wiper = Nobody => WholeGraph

\* Who depends on a service in the topology, directly or through others: the
\* least set that has the dependents of the service and of its own members.
TopologyGraph == [EmptyGraph EXCEPT !.edges = Range(Topology.dependencies)]

Closed(set, service) ==
    DirectDependents(TopologyGraph, set \cup {service}) \subseteq set

Dependents ==
    [service \in Services |->
        {s \in Services :
            \A set \in SUBSET Services : Closed(set, service) => s \in set}]

\* "Downstream dependents are everything that (transitively) DEPENDS_ON it":
\* nothing else is ever reported, while the graph is emptied and filled under
\* the query, and nothing is left out once it is whole, if no service is more
\* than four dependencies away.
BlastRadiusHonest ==
    \A service \in Services :
        LET radius == BlastRadius(graph, service)
            dependents == Dependents[service]
        IN  /\ radius.impacted_services \subseteq dependents
            /\ seeded /\ wiper = Nobody =>
                   /\ radius.impacted_services = dependents
                   /\ radius.critical_dependents =
                          {s \in dependents :
                               <<s, "CRITICAL">> \in Range(Topology.criticality)}

\* The first administrator is created once, however many processes find the
\* table empty, no two accounts share an email, and an API that is up has an
\* account to log in with.
AccountsSound ==
    /\ founders <= 1
    /\ \A e \in Emails : users[e] <= 1
    /\ PasswordSet /\ serving \cap Apis # {} => users[Admin] = 1

\* When a process starts, some process comes up, unless one dies first, and
\* whichever stores fail but the database: of those that start together, the
\* one that loses the race for the tables or for the administrator gives way
\* to one that has won it.
SomeoneStarts ==
    \A n \in 0..MaxFaults :
        (crashes = n /\ \E p \in Processes : phase[p] = "inspect")
            ~> (crashes > n \/ \E p \in Processes : phase[p] = "ready")
=============================================================================
