--------------------------- MODULE KnowledgeIndex ---------------------------
(***************************************************************************)
(* The vector store of the knowledge base: what ingestion adds to it       *)
(* (core/knowledge/ingestion.py, metadata.py) and which of its chunks a    *)
(* filtered retrieval may return (core/knowledge/retriever.py).            *)
(*                                                                         *)
(* A chunk is identified by the hash of its text, so equal texts in two    *)
(* files are one chunk.  The store is the function that gives each chunk   *)
(* the file whose metadata it carries.  Which of the chunks that pass the  *)
(* filter are the nearest to a query is left to the embedding.             *)
(***************************************************************************)
EXTENDS Naturals, Sequences, Functions

CONSTANTS
    Chunks,      \* the texts that the splitter may cut
    Documents    \* the Markdown files, sorted by path

Files == 1..Len(Documents)

Document(tokens) == [name: Seq(tokens), chunks: Seq(Chunks)]

ASSUME DocumentsAssumption == Documents \in Seq(Document(STRING))

\* A chunk that is not in the store.
Absent == 0

Stores == [Chunks -> Files \cup {Absent}]

EmptyStore == [c \in Chunks |-> Absent]

\* The service is what the file name says up to its first "service", which
\* may not be its first word.
ServiceEnds(name) == {i \in 2..Len(name) : name[i] = "service"}

ServiceOf(name) ==
    IF ServiceEnds(name) = {} THEN <<"unknown">>
    ELSE SubSeq(name, 1, CHOOSE i \in ServiceEnds(name) :
                             \A j \in ServiceEnds(name) : i <= j)

\* No path says anything of the environment.
EnvironmentOf(file) == "production"

ChunksOf(file) == Range(Documents[file].chunks)

Stored(store) == {c \in Chunks : store[c] # Absent}

\* The positions of a file whose chunks were not found in the store.
Missing(file, known) ==
    {i \in DOMAIN Documents[file].chunks : Documents[file].chunks[i] \notin known}

\* One batch may not name a chunk twice: the store refuses it as a whole.
BatchRefused(file, known) ==
    \E i, j \in Missing(file, known) :
        i # j /\ Documents[file].chunks[i] = Documents[file].chunks[j]

\* The chunks of a file that its look-up finds.  A look-up that names a chunk
\* twice is refused like such a batch, and counts as one that found nothing.
Found(store, file) ==
    IF BatchRefused(file, {}) THEN {} ELSE ChunksOf(file) \cap Stored(store)

\* Mutant: a file with a known chunk counts as ingested.
AddedUnlessKnown(store, file, known) ==
    [c \in Chunks |->
        IF c \in ChunksOf(file) /\ known = {} /\ store[c] = Absent THEN file
        ELSE store[c]]

\* A chunk that somebody else added in the meantime keeps its metadata.
Added(store, file, known) ==
    [c \in Chunks |->
        IF c \in ChunksOf(file) \ known /\ store[c] = Absent THEN file
        ELSE store[c]]

\* The chunks that a retrieval chooses among.
Retrievable(store, service, environment) ==
    {c \in Stored(store) :
        /\ ServiceOf(Documents[store[c]].name) = service
        /\ EnvironmentOf(store[c]) = environment}
=============================================================================
