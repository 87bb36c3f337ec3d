------------------------------ MODULE EventBus ------------------------------
(***************************************************************************)
(* The event stream of one incident: the bus in its two implementations    *)
(* (core/events/bus.py, redis_bus.py), the one that configure_event_bus    *)
(* installs, and the readers, each the loop of stream_incident_events      *)
(* (apps/api/routes_incidents.py).                                         *)
(*                                                                         *)
(* An event is known by its rank in the order of publication, and of its   *)
(* content only whether it is terminal matters: the loop stops there.      *)
(* What a job publishes is any sequence of events.  Subscriptions replay,  *)
(* as the only caller asks them to.                                        *)
(***************************************************************************)
EXTENDS Integers, SequencesExt

CONSTANTS
    Clients,       \* readers of the stream
    HistoryLimit,  \* events the in-memory bus keeps
    StreamLimit,   \* events the Redis stream keeps at least
    Batch,         \* entries one XREAD returns at most
    MaxEvents      \* bound: events published

ASSUME EventBusAssumption ==
    /\ HistoryLimit \in Nat \ {0} /\ StreamLimit \in Nat \ {0}
    /\ Batch \in Nat \ {0} /\ MaxEvents \in Nat

VARIABLES
    backend,      \* the bus that is installed
    published,    \* the events so far: TRUE for a terminal one
    log,          \* what the bus still has: _history, or the Redis stream
    subscribers,  \* subscriptions the in-memory bus knows
    phase,        \* where a client's loop is
    pending,      \* a subscription's queue, or its buffer
    last_id,      \* the last entry a Redis subscription has read
    seen          \* what its client was sent

bus     == <<backend, published, log>>
readers == <<subscribers, phase, pending, last_id, seen>>
vars    == <<bus, readers>>

TypeOK ==
    /\ backend \in {"memory", "redis"}
    /\ published \in Seq(BOOLEAN) /\ Len(published) <= MaxEvents
    /\ log \in Seq(1..Len(published))
    /\ subscribers \subseteq Clients
    /\ phase \in [Clients -> {"closed", "open", "ending"}]
    /\ pending \in [Clients -> Seq(1..Len(published))]
    /\ last_id \in [Clients -> 0..Len(published)]
    /\ seen \in [Clients -> Seq(1..Len(published))]

Init ==
    /\ backend \in {"memory", "redis"}
    /\ published = <<>> /\ log = <<>>
    /\ subscribers = {}
    /\ phase = [c \in Clients |-> "closed"]
    /\ pending = [c \in Clients |-> <<>>]
    /\ last_id = [c \in Clients |-> 0]
    /\ seen = [c \in Clients |-> <<>>]

\* The last n members of a sequence.
Newest(s, n) == SubSeq(s, IF Len(s) > n THEN Len(s) - n + 1 ELSE 1, Len(s))

-----------------------------------------------------------------------------
(* Publishing.                                                             *)

NextRank == Len(published) + 1

\* Mutant: a subscriber that is behind is passed over.
PublishToIdle(terminal) ==
    /\ backend = "memory" /\ NextRank <= MaxEvents
    /\ published' = Append(published, terminal)
    /\ log' = Newest(Append(log, NextRank), HistoryLimit)
    /\ pending' = [c \in Clients |->
           IF c \in subscribers /\ pending[c] = <<>>
           THEN Append(pending[c], NextRank) ELSE pending[c]]
    /\ UNCHANGED <<backend, subscribers, phase, last_id, seen>>

\* InMemoryEventBus.publish: it awaits nothing, so it is one step.
PublishInMemory(terminal) ==
    /\ backend = "memory" /\ NextRank <= MaxEvents
    /\ published' = Append(published, terminal)
    /\ log' = Newest(Append(log, NextRank), HistoryLimit)
    /\ pending' = [c \in Clients |->
           IF c \in subscribers THEN Append(pending[c], NextRank)
           ELSE pending[c]]
    /\ UNCHANGED <<backend, subscribers, phase, last_id, seen>>

\* XADD: the server trims to StreamLimit when it suits it.
PublishToStream(terminal) ==
    /\ backend = "redis" /\ NextRank <= MaxEvents
    /\ published' = Append(published, terminal)
    /\ \E kept \in StreamLimit..(StreamLimit + MaxEvents) :
           log' = Newest(Append(log, NextRank), kept)
    /\ UNCHANGED <<backend, readers>>

\* A day after the last event the stream expires.
Expire ==
    /\ backend = "redis" /\ log # <<>>
    /\ log' = <<>>
    /\ UNCHANGED <<backend, published, readers>>

-----------------------------------------------------------------------------
(* A reader.                                                               *)

\* Mutant: the history is not replayed.
SubscribeLive(c) ==
    /\ phase[c] = "closed"
    /\ phase' = [phase EXCEPT ![c] = "open"]
    /\ seen' = [seen EXCEPT ![c] = <<>>]
    /\ last_id' = [last_id EXCEPT ![c] = 0]
    /\ pending' = [pending EXCEPT ![c] = <<>>]
    /\ subscribers' = IF backend = "memory" THEN subscribers \cup {c}
                      ELSE subscribers
    /\ UNCHANGED bus

\* subscribe(replay=True): in memory the history is copied and the queue
\* registered in one step; in Redis the subscription starts before entry 0.
Subscribe(c) ==
    /\ phase[c] = "closed"
    /\ phase' = [phase EXCEPT ![c] = "open"]
    /\ seen' = [seen EXCEPT ![c] = <<>>]
    /\ last_id' = [last_id EXCEPT ![c] = 0]
    /\ IF backend = "memory"
       THEN /\ pending' = [pending EXCEPT ![c] = log]
            /\ subscribers' = subscribers \cup {c}
       ELSE /\ pending' = [pending EXCEPT ![c] = <<>>]
            /\ UNCHANGED subscribers
    /\ UNCHANGED bus

\* Mutant: the loop goes on after a terminal event.
DeliverOn(c, rank) ==
    /\ seen' = [seen EXCEPT ![c] = Append(@, rank)]
    /\ UNCHANGED phase

\* The client is sent the event; a terminal one ends the loop.
Deliver(c, rank) ==
    /\ seen' = [seen EXCEPT ![c] = Append(@, rank)]
    /\ phase' = [phase EXCEPT ![c] = IF published[rank] THEN "ending" ELSE "open"]

\* get() takes the next event of the queue, or of the buffer.
Get(c) ==
    /\ phase[c] = "open" /\ pending[c] # <<>>
    /\ Deliver(c, Head(pending[c]))
    /\ pending' = [pending EXCEPT ![c] = Tail(@)]
    /\ UNCHANGED <<bus, subscribers, last_id>>

\* The entries that XREAD finds after the last one read, from the first of them
\* on, and those that it returns.
Later(c) == {i \in DOMAIN log : log[i] > last_id[c]}

Unread(c) ==
    IF Later(c) = {} THEN <<>>
    ELSE SubSeq(log, CHOOSE i \in Later(c) : \A j \in Later(c) : i <= j, Len(log))

Entries(c) ==
    SubSeq(Unread(c), 1, IF Len(Unread(c)) < Batch THEN Len(Unread(c)) ELSE Batch)

\* Mutant: what is read and not returned is not remembered.
ReadLast(c) ==
    /\ backend = "redis"
    /\ phase[c] = "open" /\ pending[c] = <<>> /\ Unread(c) # <<>>
    /\ last_id' = [last_id EXCEPT ![c] = Last(Unread(c))]
    /\ pending' = [pending EXCEPT ![c] = Tail(Entries(c))]
    /\ Deliver(c, Head(Entries(c)))
    /\ UNCHANGED <<bus, subscribers>>

\* get() of a Redis subscription whose buffer is empty: XREAD fills it.
Read(c) ==
    /\ backend = "redis"
    /\ phase[c] = "open" /\ pending[c] = <<>> /\ Unread(c) # <<>>
    /\ last_id' = [last_id EXCEPT ![c] = Last(Entries(c))]
    /\ pending' = [pending EXCEPT ![c] = Tail(Entries(c))]
    /\ Deliver(c, Head(Entries(c)))
    /\ UNCHANGED <<bus, subscribers>>

\* Mutant: the queue stays registered.
CloseRegistered(c) ==
    /\ phase[c] # "closed"
    /\ phase' = [phase EXCEPT ![c] = "closed"]
    /\ UNCHANGED <<bus, subscribers, pending, last_id, seen>>

\* The finally clause: after a terminal event, or when the client has left.
Close(c) ==
    /\ phase[c] # "closed"
    /\ phase' = [phase EXCEPT ![c] = "closed"]
    /\ subscribers' = subscribers \ {c}
    /\ pending' = [pending EXCEPT ![c] = <<>>]
    /\ UNCHANGED <<bus, last_id, seen>>

\* The API process starts again: its memory is lost, the stream is not.
Restart ==
    /\ log' = IF backend = "memory" THEN <<>> ELSE log
    /\ subscribers' = {}
    /\ phase' = [c \in Clients |-> "closed"]
    /\ pending' = [c \in Clients |-> <<>>]
    /\ UNCHANGED <<backend, published, last_id, seen>>

Receive(c) == Get(c) \/ Read(c)

Next ==
    \/ \E terminal \in BOOLEAN :
           PublishInMemory(terminal) \/ PublishToStream(terminal)
    \/ Expire \/ Restart
    \/ \E c \in Clients : Subscribe(c) \/ Receive(c) \/ Close(c)

Spec == Init /\ [][Next]_vars

\* The loop of a connected client goes on, and it runs to its end after a
\* terminal event.  Nobody has to publish, to subscribe or to leave.
FairSpec ==
    /\ Spec
    /\ \A c \in Clients :
           WF_vars(Receive(c)) /\ WF_vars(phase[c] = "ending" /\ Close(c))

-----------------------------------------------------------------------------
(* Properties.                                                             *)

\* What a client was sent, and then what its subscription has for it.
Held(c) == seen[c] \o pending[c]

\* bus.py: "no event can be lost or duplicated".  What a client was sent and
\* what its subscription holds for it are in the order of publication, none
\* twice; in memory they have no gap.
InOrder ==
    \A c \in Clients : \A i \in 1..(Len(Held(c)) - 1) :
        /\ Held(c)[i] < Held(c)[i + 1]
        /\ backend = "memory" => Held(c)[i + 1] = Held(c)[i] + 1

\* A subscription, whenever it began, misses nothing that the bus still has:
\* its client was sent it, or will be.
NoneSkipped ==
    \A c \in Clients : phase[c] # "closed" =>
        \A i \in DOMAIN log :
            \/ log[i] \in Range(seen[c]) \cup Range(pending[c])
            \/ backend = "redis" /\ log[i] > last_id[c]

\* The stream ends at the first terminal event, and only once.
EndsAtTerminal ==
    \A c \in Clients : \A i \in DOMAIN seen[c] :
        published[seen[c][i]] => i = Len(seen[c]) /\ phase[c] # "open"

\* The in-memory bus fills the queues of the streams that are open, and of
\* no other.
NoQueueLeaks ==
    backend = "memory" => subscribers = {c \in Clients : phase[c] # "closed"}

\* A reader that goes on has an event ahead: its subscription holds it, or
\* will read it.
Awaits(c, rank) ==
    /\ phase[c] = "open"
    /\ \/ rank \in Range(pending[c])
       \/ backend = "redis" /\ rank \in Range(Unread(c))
=============================================================================
