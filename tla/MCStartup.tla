----------------------------- MODULE MCStartup -----------------------------
(***************************************************************************)
(* Two API processes and a worker that start against the same stores, with *)
(* a knowledge base whose files share texts and a topology of full depth.  *)
(***************************************************************************)
EXTENDS Startup

\* A process whose restarts are followed; any other API would do.
CONSTANT Restarted

ASSUME MCStartupAssumption == Restarted \in Apis

\* The files of one service share a text, another file repeats one, and a
\* past incident names no service.
MCDocuments ==
    << [name |-> <<"incident", "2026", "001">>,             chunks |-> <<"d", "d">>],
       [name |-> <<"inventory", "service", "runbook">>,     chunks |-> <<"a", "b">>],
       [name |-> <<"inventory", "service", "architecture">>, chunks |-> <<"b", "c", "d">>] >>

MCBuiltIn ==
    [dependencies |-> << <<"bff", "gateway">>, <<"gateway", "checkout">>,
                         <<"checkout", "payment">>, <<"payment", "redis">> >>,
     criticality  |-> << <<"checkout", "CRITICAL">> >>]

MCNoFile == [dependencies |-> <<>>, criticality |-> << <<"redis", "CRITICAL">> >>]

\* A process that starts on a database that was set up before comes up, in
\* whatever state the others have left and leave the stores and whichever
\* of them fail but the database, unless a process dies first.
RestartSucceeds ==
    \A n \in 0..MaxFaults :
        (/\ crashes = n /\ phase[Restarted] = "inspect"
         /\ tables /\ users[Admin] > 0)
            ~> (crashes > n \/ phase[Restarted] = "ready")
=============================================================================
