----------------------------- MODULE MCEventBus -----------------------------
(***************************************************************************)
(* An instance of the event bus with limits small enough for the history   *)
(* to be trimmed and for a read to return less than there is, and what     *)
(* must happen in the end.                                                 *)
(***************************************************************************)
EXTENDS EventBus

\* A reader with a terminal event ahead reaches the end of its stream, unless
\* the stream is trimmed or expires before it has read so far.
StreamEnds ==
    \A c \in Clients, rank \in 1..MaxEvents :
        Awaits(c, rank) /\ rank <= Len(published) /\ published[rank] ~>
            \/ phase[c] = "closed"
            \/ backend = "redis" /\ rank \notin Range(log)
=============================================================================
