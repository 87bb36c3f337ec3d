--------------------------- MODULE EventBusProofs ---------------------------
(***************************************************************************)
(* The event stream for every number of readers, events and limits: on     *)
(* either bus a reader gets the events in order, none twice and, in        *)
(* memory, without a gap; it misses nothing that the bus still has; it     *)
(* stops at the first terminal event; no queue outlives its reader; and    *)
(* what is sent brings it nearer to what it has ahead.                     *)
(***************************************************************************)
EXTENDS EventBus, SequenceTheorems, WellFoundedInduction, TLAPS

-----------------------------------------------------------------------------
(* Sequences of ranks.                                                     *)

\* A sequence over a set is one over any larger set.
LEMMA SeqWider ==
    ASSUME NEW A, NEW B, A \subseteq B, NEW s \in Seq(A)
    PROVE  s \in Seq(B)
<1>1. s \in [1..Len(s) -> B] /\ Len(s) \in Nat
  OBVIOUS
<1> QED
  BY <1>1, SeqDef

\* The newest members of a sequence are its last ones.
LEMMA NewestTail ==
    ASSUME NEW S, NEW s \in Seq(S), NEW n \in Nat \ {0}
    PROVE  /\ Newest(s, n) \in Seq(S)
           /\ Len(Newest(s, n)) <= Len(s)
           /\ \A i \in 1..Len(Newest(s, n)) :
                  Newest(s, n)[i] = s[Len(s) - Len(Newest(s, n)) + i]
<1> DEFINE first == IF Len(s) > n THEN Len(s) - n + 1 ELSE 1
<1>1. /\ first \in 1..(Len(s) + 1) /\ Len(s) \in Nat
      /\ Newest(s, n) = SubSeq(s, first, Len(s))
  BY DEF Newest
<1>2. /\ SubSeq(s, first, Len(s)) \in Seq(S)
      /\ Len(SubSeq(s, first, Len(s))) = Len(s) - first + 1
      /\ \A i \in 1..(Len(s) - first + 1) :
             SubSeq(s, first, Len(s))[i] = s[first + i - 1]
  <2> HIDE DEF first
  <2>1. \A i \in first..Len(s) : s[i] \in S
    BY <1>1
  <2> QED
    BY <1>1, <2>1, SubSeqProperties
<1> HIDE DEF first
<1> QED
  BY <1>1, <1>2

\* Taking an event from the front of a subscription and sending it leaves the
\* two sequences together as they are.
LEMMA MovedHead ==
    ASSUME NEW S, NEW s \in Seq(S), NEW t \in Seq(S), t # <<>>
    PROVE  Append(s, Head(t)) \o Tail(t) = s \o t
<1>1. /\ Head(t) \in S /\ Tail(t) \in Seq(S) /\ Len(Tail(t)) = Len(t) - 1
      /\ Len(t) \in Nat \ {0} /\ Head(t) = t[1]
      /\ \A i \in 1..Len(Tail(t)) : Tail(t)[i] = t[i + 1]
  BY HeadTailProperties
<1>2. /\ Append(s, Head(t)) \in Seq(S) /\ Len(Append(s, Head(t))) = Len(s) + 1
      /\ \A i \in 1..Len(s) : Append(s, Head(t))[i] = s[i]
      /\ Append(s, Head(t))[Len(s) + 1] = t[1]
      /\ Len(s) \in Nat
  BY <1>1, AppendProperties
<1> DEFINE left == Append(s, Head(t)) \o Tail(t)
           right == s \o t
<1>3. /\ left \in Seq(S) /\ right \in Seq(S)
      /\ Len(left) = Len(s) + Len(t) /\ Len(right) = Len(s) + Len(t)
  BY <1>1, <1>2, ConcatProperties
<1>4. ASSUME NEW i \in 1..(Len(s) + Len(t))
      PROVE  left[i] = right[i]
  <2>1. CASE i <= Len(s)
    BY <1>1, <1>2, <2>1, ConcatProperties
  <2>2. CASE i = Len(s) + 1
    BY <1>1, <1>2, <2>2, ConcatProperties
  <2>3. CASE i > Len(s) + 1
    <3>1. left[i] = Tail(t)[i - (Len(s) + 1)] /\ right[i] = t[i - Len(s)]
      BY <1>1, <1>2, <2>3, ConcatProperties
    <3> QED
      BY <1>1, <1>2, <2>3, <3>1
  <2> QED
    BY <1>2, <2>1, <2>2, <2>3
<1> HIDE DEF left, right
<1>5. left = right
  BY <1>3, <1>4, SeqEqual
<1> QED
  BY <1>5 DEF left, right

-----------------------------------------------------------------------------
(* Types.                                                                  *)

\* What the bus still has is the newest ranks, without a gap.
LogRanks == \A i \in 1..Len(log) : log[i] = Len(published) - Len(log) + i

Bounded == TypeOK /\ LogRanks

\* What a reader has not read is the end of the log.
LEMMA UnreadRead ==
    ASSUME Bounded, NEW c \in Clients, Later(c) # {}
    PROVE  \E k \in 1..Len(log) :
               /\ Unread(c) \in Seq(1..Len(published))
               /\ Len(Unread(c)) = Len(log) - k + 1
               /\ \A i \in 1..Len(Unread(c)) : Unread(c)[i] = log[k + i - 1]
               /\ \A i \in 1..Len(log) : log[i] > last_id[c] <=> i >= k
<1>1. /\ log \in Seq(1..Len(published)) /\ Len(log) \in Nat
      /\ Len(published) \in Nat /\ last_id[c] \in Nat
      /\ DOMAIN log = 1..Len(log)
  BY DEF Bounded, TypeOK
<1>2. Later(c) # {} /\ Later(c) \subseteq 1..Len(log)
  BY <1>1 DEF Later
<1> DEFINE least == last_id[c] - (Len(published) - Len(log)) + 1
           k == IF least < 1 THEN 1 ELSE least
<1>3. \A i \in 1..Len(log) : log[i] > last_id[c] <=> i >= least
  BY <1>1 DEF Bounded, LogRanks
<1>4. k \in 1..Len(log)
  BY <1>1, <1>2, <1>3 DEF Later
<1>5. \A i \in 1..Len(log) : log[i] > last_id[c] <=> i >= k
  BY <1>1, <1>3
<1> HIDE DEF k
<1>6. (CHOOSE i \in Later(c) : \A j \in Later(c) : i <= j) = k
  <2>1. k \in Later(c) /\ \A j \in Later(c) : k <= j
    BY <1>1, <1>4, <1>5 DEF Later
  <2>2. \A i, j \in 1..Len(log) : i <= j /\ j <= i => i = j
    BY <1>1
  <2> QED
    BY <1>2, <2>1, <2>2
<1>7. Unread(c) = SubSeq(log, k, Len(log))
  BY <1>2, <1>6 DEF Unread
<1>8. /\ Unread(c) \in Seq(1..Len(published))
      /\ Len(Unread(c)) = Len(log) - k + 1
      /\ \A i \in 1..Len(Unread(c)) : Unread(c)[i] = log[k + i - 1]
  <2>1. \A i \in k..Len(log) : log[i] \in 1..Len(published)
    BY <1>1, <1>4
  <2> QED
    BY <1>1, <1>4, <1>7, <2>1, SubSeqProperties
<1> QED
  BY <1>4, <1>5, <1>8

\* A read returns a part of the log that begins with the first entry after the
\* last one read.
LEMMA EntriesRead ==
    ASSUME Bounded, NEW c \in Clients, Unread(c) # <<>>
    PROVE  \E k \in 1..Len(log) :
               /\ Entries(c) \in Seq(1..Len(published)) /\ Entries(c) # <<>>
               /\ Len(Entries(c)) \in 1..(Len(log) - k + 1)
               /\ \A i \in 1..Len(Entries(c)) : Entries(c)[i] = log[k + i - 1]
               /\ \A i \in 1..Len(log) : log[i] > last_id[c] <=> i >= k
<1>1. Len(log) \in Nat /\ Len(published) \in Nat
  BY DEF Bounded, TypeOK
<1>2. Later(c) # {}
  BY DEF Unread
<1>3. PICK k \in 1..Len(log) :
          /\ Unread(c) \in Seq(1..Len(published))
          /\ Len(Unread(c)) = Len(log) - k + 1
          /\ \A i \in 1..Len(Unread(c)) : Unread(c)[i] = log[k + i - 1]
          /\ \A i \in 1..Len(log) : log[i] > last_id[c] <=> i >= k
  BY <1>2, UnreadRead
<1> DEFINE m == IF Len(Unread(c)) < Batch THEN Len(Unread(c)) ELSE Batch
<1>9. /\ m \in 1..Len(Unread(c)) /\ m \in Nat \ {0}
      /\ Entries(c) = SubSeq(Unread(c), 1, m)
  <2>1. Len(Unread(c)) \in Nat \ {0} /\ Batch \in Nat \ {0}
    BY <1>1, <1>3, EventBusAssumption
  <2> QED
    BY <2>1 DEF Entries
<1> HIDE DEF m
<1>10. /\ Entries(c) \in Seq(1..Len(published))
       /\ Len(Entries(c)) = m
       /\ \A i \in 1..m : Entries(c)[i] = Unread(c)[i]
  <2>1. \A i \in 1..m : Unread(c)[i] \in 1..Len(published)
    <3> DEFINE u == Unread(c)
               S == 1..Len(published)
    <3>1. u \in Seq(S) /\ m \in 1..Len(u)
      BY <1>3, <1>9
    <3> HIDE DEF u, S
    <3>2. \A i \in 1..m : u[i] \in S
      BY <3>1
    <3> QED
      BY <3>2 DEF u, S
  <2> QED
    BY <1>9, <2>1, SubSeqProperties
<1>11. Entries(c) # <<>>
  BY <1>9, <1>10
<1>12. /\ Len(Entries(c)) \in 1..(Len(log) - k + 1)
       /\ \A i \in 1..Len(Entries(c)) : Entries(c)[i] = log[k + i - 1]
  BY <1>1, <1>3, <1>9, <1>10
<1> QED
  BY <1>3, <1>10, <1>11, <1>12

LEMMA EventBusTypeInit == Init => Bounded
<1> SUFFICES ASSUME Init
             PROVE  Bounded
  OBVIOUS
<1>1. Len(published) = 0 /\ Len(log) = 0
  BY DEF Init
<1>2. /\ published \in Seq(BOOLEAN) /\ log \in Seq(1..Len(published))
      /\ pending \in [Clients -> Seq(1..Len(published))]
      /\ seen \in [Clients -> Seq(1..Len(published))]
  BY DEF Init
<1>3. TypeOK
  BY <1>1, <1>2, EventBusAssumption DEF Init, TypeOK
<1>4. LogRanks
  BY <1>1 DEF LogRanks
<1> QED
  BY <1>3, <1>4 DEF Bounded

\* An event is published: the ranks grow by one, and the log keeps the newest.
LEMMA Published ==
    ASSUME Bounded, NEW terminal \in BOOLEAN,
           NEW kept \in Nat \ {0}, NextRank <= MaxEvents,
           published' = Append(published, terminal),
           log' = Newest(Append(log, NextRank), kept)
    PROVE  /\ published' \in Seq(BOOLEAN) /\ Len(published') = Len(published) + 1
           /\ Len(published') <= MaxEvents
           /\ \A i \in 1..Len(published) : published'[i] = published[i]
           /\ 1..Len(published) \subseteq 1..Len(published')
           /\ NextRank \in 1..Len(published')
           /\ log' \in Seq(1..Len(published')) /\ LogRanks'
           /\ \A i \in 1..Len(log') :
                  log'[i] = NextRank \/ \E j \in 1..Len(log) : log'[i] = log[j]
<1>1. /\ published \in Seq(BOOLEAN) /\ Len(published) \in Nat
      /\ log \in Seq(1..Len(published)) /\ Len(log) \in Nat
  BY DEF Bounded, TypeOK
<1>2. /\ published' \in Seq(BOOLEAN) /\ Len(published') = Len(published) + 1
      /\ \A i \in 1..Len(published) : published'[i] = published[i]
  BY <1>1, AppendProperties
<1>3. /\ NextRank = Len(published') /\ NextRank \in 1..Len(published')
      /\ Len(published') <= MaxEvents
      /\ 1..Len(published) \subseteq 1..Len(published')
  BY <1>1, <1>2 DEF NextRank
<1> DEFINE longer == Append(log, NextRank)
<1>4. /\ longer \in Seq(1..Len(published')) /\ Len(longer) = Len(log) + 1
      /\ \A i \in 1..Len(log) : longer[i] = log[i]
      /\ longer[Len(log) + 1] = NextRank
  <2>1. log \in Seq(1..Len(published'))
    BY <1>1, <1>3, SeqWider
  <2> QED
    BY <1>3, <2>1, AppendProperties
<1> HIDE DEF longer
<1>5. log' = Newest(longer, kept)
  BY DEF longer
<1>6. /\ log' \in Seq(1..Len(published')) /\ Len(log') <= Len(longer)
      /\ \A i \in 1..Len(log') : log'[i] = longer[Len(longer) - Len(log') + i]
  <2> DEFINE S == 1..Len(published')
  <2>1. longer \in Seq(S)
    BY <1>4
  <2> HIDE DEF S
  <2>2. /\ Newest(longer, kept) \in Seq(S)
        /\ Len(Newest(longer, kept)) <= Len(longer)
        /\ \A i \in 1..Len(Newest(longer, kept)) :
               Newest(longer, kept)[i]
                   = longer[Len(longer) - Len(Newest(longer, kept)) + i]
    BY <2>1, NewestTail
  <2>3. /\ log' \in Seq(S) /\ Len(log') <= Len(longer)
        /\ \A i \in 1..Len(log') : log'[i] = longer[Len(longer) - Len(log') + i]
    BY <1>5, <2>2
  <2> QED
    BY <2>3 DEF S
<1>7. \A i \in 1..Len(longer) : longer[i] = Len(published') - Len(longer) + i
  <2>1. \A i \in 1..Len(log) : log[i] = Len(published) - Len(log) + i
    BY DEF Bounded, LogRanks
  <2> QED
    <3> SUFFICES ASSUME NEW i \in 1..(Len(log) + 1)
                 PROVE  longer[i] = Len(published) - Len(log) + i
      BY <1>1, <1>2, <1>4
    <3>1. CASE i \in 1..Len(log)
      BY <1>4, <2>1, <3>1
    <3>2. CASE i = Len(log) + 1
      BY <1>1, <1>4, <3>2 DEF NextRank
    <3> QED
      BY <1>1, <3>1, <3>2
<1>8. ASSUME NEW i \in 1..Len(log')
      PROVE  /\ log'[i] = Len(published') - Len(log') + i
             /\ log'[i] = NextRank \/ \E j \in 1..Len(log) : log'[i] = log[j]
  <2> DEFINE j == Len(longer) - Len(log') + i
  <2>1. j \in 1..Len(longer) /\ log'[i] = longer[j] /\ Len(log') \in Nat
    <3>1. Len(log') \in Nat /\ Len(log') <= Len(longer)
      BY <1>6
    <3>2. j \in 1..Len(longer)
      BY <1>1, <1>4, <3>1
    <3> QED
      BY <1>6, <3>1, <3>2
  <2>2. log'[i] = Len(published') - Len(log') + i
    BY <1>1, <1>2, <1>4, <1>7, <2>1
  <2>3. CASE j = Len(log) + 1
    BY <1>4, <2>1, <2>2, <2>3
  <2>4. CASE j # Len(log) + 1
    <3> HIDE DEF j
    <3>1. j \in 1..Len(log)
      BY <1>1, <1>4, <2>1, <2>4
    <3>2. log'[i] = log[j]
      BY <1>4, <2>1, <3>1
    <3> QED
      BY <2>2, <3>1, <3>2
  <2> QED
    BY <2>3, <2>4
<1> QED
  BY <1>2, <1>3, <1>6, <1>8 DEF LogRanks

\* A subscription that is sent the next of what it holds.
LEMMA DeliverTyped ==
    ASSUME TypeOK, NEW c \in Clients, NEW rank \in 1..Len(published),
           Deliver(c, rank)
    PROVE  /\ seen' \in [Clients -> Seq(1..Len(published))]
           /\ phase' \in [Clients -> {"closed", "open", "ending"}]
<1>1. seen[c] \in Seq(1..Len(published))
  BY DEF TypeOK
<1>2. Append(seen[c], rank) \in Seq(1..Len(published))
  BY <1>1, AppendProperties
<1> QED
  BY <1>2 DEF Deliver, TypeOK

LEMMA EventBusTypeStep ==
    ASSUME Bounded, [Next]_vars
    PROVE  Bounded'
<1> USE DEF Bounded
<1>e. <<>> \in Seq(1..Len(published))
  OBVIOUS
<1>1. ASSUME NEW terminal \in BOOLEAN,
             PublishInMemory(terminal) \/ PublishToStream(terminal)
      PROVE  Bounded'
  <2>1. PICK kept \in Nat \ {0} : log' = Newest(Append(log, NextRank), kept)
    BY <1>1, EventBusAssumption DEF PublishInMemory, PublishToStream
  <2>2. published' = Append(published, terminal) /\ NextRank <= MaxEvents
    BY <1>1 DEF PublishInMemory, PublishToStream
  <2>3. /\ published' \in Seq(BOOLEAN) /\ Len(published') <= MaxEvents
        /\ Len(published') = Len(published) + 1 /\ Len(published) \in Nat
        /\ 1..Len(published) \subseteq 1..Len(published')
        /\ NextRank \in 1..Len(published')
        /\ log' \in Seq(1..Len(published')) /\ LogRanks'
    BY <2>1, <2>2, Published DEF TypeOK
  <2>4. ASSUME NEW c \in Clients
        PROVE  /\ seen[c] \in Seq(1..Len(published'))
               /\ pending[c] \in Seq(1..Len(published'))
               /\ Append(pending[c], NextRank) \in Seq(1..Len(published'))
    <3>1. /\ seen[c] \in Seq(1..Len(published'))
          /\ pending[c] \in Seq(1..Len(published'))
      BY <2>3, SeqWider DEF TypeOK
    <3> QED
      BY <2>3, <3>1, AppendProperties
  <2>5. /\ seen' \in [Clients -> Seq(1..Len(published'))]
        /\ pending' \in [Clients -> Seq(1..Len(published'))]
    BY <1>1, <2>4 DEF PublishInMemory, PublishToStream, readers, TypeOK
  <2>6. last_id' \in [Clients -> 0..Len(published')]
    BY <1>1, <2>3 DEF PublishInMemory, PublishToStream, readers, TypeOK
  <2>7. /\ backend' \in {"memory", "redis"} /\ subscribers' \subseteq Clients
        /\ phase' \in [Clients -> {"closed", "open", "ending"}]
    BY <1>1 DEF PublishInMemory, PublishToStream, readers, TypeOK
  <2> QED
    BY <2>3, <2>5, <2>6, <2>7 DEF TypeOK
<1>2. CASE Expire
  <2>1. TypeOK'
    BY <1>2, <1>e DEF Expire, readers, TypeOK
  <2> QED
    BY <1>2, <2>1 DEF Expire, LogRanks
<1>3. CASE Restart
  <2>1. /\ log' \in Seq(1..Len(published))
        /\ pending' \in [Clients -> Seq(1..Len(published))]
        /\ phase' \in [Clients -> {"closed", "open", "ending"}]
    BY <1>3, <1>e DEF Restart, TypeOK
  <2>2. TypeOK'
    BY <1>3, <2>1 DEF Restart, TypeOK
  <2> QED
    <3>1. CASE backend = "memory"
      BY <1>3, <2>2, <3>1 DEF Restart, LogRanks
    <3>2. CASE backend # "memory"
      BY <1>3, <2>2, <3>2 DEF Restart, LogRanks
    <3> QED
      BY <3>1, <3>2
<1>4. ASSUME NEW c \in Clients, Subscribe(c)
      PROVE  Bounded'
  <2>0. /\ seen' \in [Clients -> Seq(1..Len(published))]
        /\ pending' \in [Clients -> Seq(1..Len(published))]
    BY <1>4, <1>e DEF Subscribe, bus, TypeOK
  <2>2. /\ last_id' \in [Clients -> 0..Len(published)]
        /\ phase' \in [Clients -> {"closed", "open", "ending"}]
        /\ subscribers' \subseteq Clients
    BY <1>4 DEF Subscribe, bus, TypeOK
  <2>1. TypeOK'
    BY <1>4, <2>0, <2>2 DEF Subscribe, bus, TypeOK
  <2> QED
    BY <1>4, <2>1 DEF Subscribe, bus, LogRanks
<1>5. ASSUME NEW c \in Clients, Get(c)
      PROVE  Bounded'
  <2>1. /\ Head(pending[c]) \in 1..Len(published)
        /\ Tail(pending[c]) \in Seq(1..Len(published))
    BY <1>5, HeadTailProperties DEF Get, TypeOK
  <2>2. /\ seen' \in [Clients -> Seq(1..Len(published))]
        /\ phase' \in [Clients -> {"closed", "open", "ending"}]
    BY <1>5, <2>1, DeliverTyped DEF Get
  <2>3. TypeOK'
    BY <1>5, <2>1, <2>2 DEF Get, bus, TypeOK
  <2> QED
    BY <1>5, <2>3 DEF Get, bus, LogRanks
<1>6. ASSUME NEW c \in Clients, Read(c)
      PROVE  Bounded'
  <2>1. Entries(c) \in Seq(1..Len(published)) /\ Entries(c) # <<>>
    BY <1>6, EntriesRead DEF Read
  <2>2. /\ Head(Entries(c)) \in 1..Len(published)
        /\ Tail(Entries(c)) \in Seq(1..Len(published))
    BY <2>1, HeadTailProperties
  <2>3. Last(Entries(c)) \in 1..Len(published)
    BY <2>1 DEF Last
  <2>4. /\ seen' \in [Clients -> Seq(1..Len(published))]
        /\ phase' \in [Clients -> {"closed", "open", "ending"}]
    BY <1>6, <2>2, DeliverTyped DEF Read
  <2>5. TypeOK'
    <3>1. last_id' \in [Clients -> 0..Len(published)]
      <4>1. Last(Entries(c)) \in 0..Len(published)
        BY <2>3
      <4> QED
        BY <1>6, <4>1 DEF Read, TypeOK
    <3>2. pending' \in [Clients -> Seq(1..Len(published))]
      BY <1>6, <2>2 DEF Read, TypeOK
    <3> QED
      BY <1>6, <2>4, <3>1, <3>2 DEF Read, bus, TypeOK
  <2> QED
    BY <1>6, <2>5 DEF Read, bus, LogRanks
<1>7. ASSUME NEW c \in Clients, Close(c)
      PROVE  Bounded'
  <2>0. /\ pending' \in [Clients -> Seq(1..Len(published))]
        /\ phase' \in [Clients -> {"closed", "open", "ending"}]
    BY <1>7, <1>e DEF Close, bus, TypeOK
  <2>1. TypeOK'
    BY <1>7, <2>0 DEF Close, bus, TypeOK
  <2> QED
    BY <1>7, <2>1 DEF Close, bus, LogRanks
<1>8. CASE UNCHANGED vars
  BY <1>8 DEF vars, bus, readers, TypeOK, LogRanks
<1> QED
  BY <1>1, <1>2, <1>3, <1>4, <1>5, <1>6, <1>7, <1>8 DEF Next, Receive

-----------------------------------------------------------------------------
(* What a subscription holds.                                              *)

\* The two parts of what a client holds, as one sequence.
LEMMA HeldParts ==
    ASSUME NEW S, NEW s \in Seq(S), NEW t \in Seq(S)
    PROVE  /\ s \o t \in Seq(S) /\ Len(s \o t) = Len(s) + Len(t)
           /\ Len(s) \in Nat /\ Len(t) \in Nat
           /\ \A i \in 1..Len(s) : (s \o t)[i] = s[i]
           /\ \A i \in 1..Len(t) : (s \o t)[Len(s) + i] = t[i]
           /\ t = <<>> => s \o t = s
<1>1. /\ s \o t \in Seq(S) /\ Len(s \o t) = Len(s) + Len(t)
      /\ Len(s) \in Nat /\ Len(t) \in Nat
      /\ \A i \in 1..(Len(s) + Len(t)) :
             (s \o t)[i] = IF i <= Len(s) THEN s[i] ELSE t[i - Len(s)]
  BY ConcatProperties
<1>2. ASSUME NEW i \in 1..Len(t)
      PROVE  (s \o t)[Len(s) + i] = t[i]
  BY <1>1
<1>3. ASSUME t = <<>>
      PROVE  s \o t = s
  BY <1>3
<1> QED
  BY <1>1, <1>2, <1>3

Increasing(s) ==
    \A i \in 1..(Len(s) - 1) :
        s[i] < s[i + 1] /\ (backend = "memory" => s[i + 1] = s[i] + 1)

\* In memory an open subscription holds the newest ranks, at least as many as
\* the history has.
Newly(c) ==
    backend = "memory" /\ phase[c] # "closed" =>
        /\ Len(log) <= Len(Held(c))
        /\ \A i \in 1..Len(Held(c)) :
               Held(c)[i] = Len(published) - Len(Held(c)) + i

\* In Redis it holds nothing after the last entry it has read, and every entry
\* up to that one.
UpToLast(c) ==
    backend = "redis" =>
        /\ \A i \in 1..Len(Held(c)) : Held(c)[i] <= last_id[c]
        /\ phase[c] # "closed" => \A j \in 1..Len(log) :
               log[j] > last_id[c] \/ \E i \in 1..Len(Held(c)) : Held(c)[i] = log[j]

Subscription(c) ==
    /\ Increasing(Held(c)) /\ Newly(c) /\ UpToLast(c)
    /\ phase[c] = "closed" => pending[c] = <<>>

IInv ==
    /\ Bounded
    /\ NoQueueLeaks
    /\ \A c \in Clients : Subscription(c)

\* What a typed state says of one client.
LEMMA HeldTyped ==
    ASSUME TypeOK, NEW c \in Clients
    PROVE  /\ seen[c] \in Seq(1..Len(published))
           /\ pending[c] \in Seq(1..Len(published))
           /\ Held(c) \in Seq(1..Len(published))
           /\ Len(seen[c]) \in Nat /\ Len(pending[c]) \in Nat
           /\ Len(Held(c)) = Len(seen[c]) + Len(pending[c])
           /\ \A i \in 1..Len(seen[c]) : Held(c)[i] = seen[c][i]
           /\ \A i \in 1..Len(pending[c]) : Held(c)[Len(seen[c]) + i] = pending[c][i]
           /\ \A i \in 1..Len(Held(c)) : Held(c)[i] \in 1..Len(published)
           /\ pending[c] = <<>> => Held(c) = seen[c]
<1>1. seen[c] \in Seq(1..Len(published)) /\ pending[c] \in Seq(1..Len(published))
  BY DEF TypeOK
<1> DEFINE S == 1..Len(published)
<1>2. seen[c] \in Seq(S) /\ pending[c] \in Seq(S)
  BY <1>1
<1> HIDE DEF S
<1>a. Held(c) = seen[c] \o pending[c]
  BY DEF Held
<1>3. /\ Held(c) \in Seq(S)
      /\ Len(seen[c]) \in Nat /\ Len(pending[c]) \in Nat
      /\ Len(Held(c)) = Len(seen[c]) + Len(pending[c])
      /\ \A i \in 1..Len(seen[c]) : Held(c)[i] = seen[c][i]
      /\ \A i \in 1..Len(pending[c]) : Held(c)[Len(seen[c]) + i] = pending[c][i]
      /\ pending[c] = <<>> => Held(c) = seen[c]
  <2> DEFINE t == pending[c]
             s == seen[c]
  <2>1. s \in Seq(S) /\ t \in Seq(S)
    BY <1>2
  <2> HIDE DEF s, t
  <2>2. /\ s \o t \in Seq(S)
        /\ Len(s) \in Nat /\ Len(t) \in Nat
        /\ Len(s \o t) = Len(s) + Len(t)
        /\ \A i \in 1..Len(s) : (s \o t)[i] = s[i]
        /\ \A i \in 1..Len(t) : (s \o t)[Len(s) + i] = t[i]
        /\ t = <<>> => s \o t = s
    BY <2>1, HeldParts
  <2> QED
    BY <1>a, <2>2 DEF s, t
<1>4. \A i \in 1..Len(Held(c)) : Held(c)[i] \in S
  <2> DEFINE h == Held(c)
  <2>1. h \in Seq(S)
    BY <1>3
  <2> HIDE DEF h
  <2>2. \A i \in 1..Len(h) : h[i] \in S
    BY <2>1
  <2> QED
    BY <2>2 DEF h
<1> QED
  BY <1>1, <1>3, <1>4 DEF S

LEMMA HeldRanks ==
    ASSUME TypeOK, NEW c \in Clients
    PROVE  seen[c] \in Seq(Nat) /\ pending[c] \in Seq(Nat) /\ Held(c) \in Seq(Nat)
<1> DEFINE S == 1..Len(published)
           s == seen[c]
           t == pending[c]
           h == Held(c)
<1>1. s \in Seq(S) /\ t \in Seq(S) /\ h \in Seq(S)
  BY HeldTyped
<1>2. S \subseteq Nat
  OBVIOUS
<1> HIDE DEF S, s, t, h
<1>3. s \in Seq(Nat) /\ t \in Seq(Nat) /\ h \in Seq(Nat)
  BY <1>1, <1>2, SeqWider
<1> QED
  BY <1>3 DEF s, t, h

\* The part that was sent is in order when the whole is.
LEMMA SentIncreasing ==
    ASSUME TypeOK, NEW c \in Clients, Increasing(Held(c))
    PROVE  Increasing(seen[c])
<1>1. /\ Len(seen[c]) \in Nat /\ Len(pending[c]) \in Nat
      /\ Len(Held(c)) = Len(seen[c]) + Len(pending[c])
      /\ \A i \in 1..Len(seen[c]) : Held(c)[i] = seen[c][i]
  BY HeldTyped
<1> SUFFICES ASSUME NEW i \in 1..(Len(seen[c]) - 1)
             PROVE  /\ seen[c][i] < seen[c][i + 1]
                    /\ backend = "memory" => seen[c][i + 1] = seen[c][i] + 1
  BY DEF Increasing
<1>2. /\ i \in 1..(Len(Held(c)) - 1)
      /\ i \in 1..Len(seen[c]) /\ i + 1 \in 1..Len(seen[c])
  <2>1. i \in Nat /\ i >= 1 /\ i + 1 <= Len(seen[c])
    BY <1>1
  <2> DEFINE a == Len(seen[c])
             b == Len(pending[c])
  <2>2. a \in Nat /\ b \in Nat /\ i \in Nat /\ i >= 1 /\ i + 1 <= a
    BY <1>1, <2>1
  <2> HIDE DEF a, b
  <2>3. i \in 1..(a + b - 1) /\ i \in 1..a /\ i + 1 \in 1..a
    BY <2>2
  <2> QED
    <3>1. Len(Held(c)) = a + b
      BY <1>1 DEF a, b
    <3>2. i \in 1..a /\ i + 1 \in 1..a /\ i \in 1..(Len(Held(c)) - 1)
      BY <2>2, <2>3, <3>1
    <3> QED
      BY <3>2 DEF a
<1>3. Held(c)[i] = seen[c][i] /\ Held(c)[i + 1] = seen[c][i + 1]
  BY <1>1, <1>2
<1> QED
  BY <1>2, <1>3 DEF Increasing

\* A step that leaves what a client holds, and the log, as they are, and opens
\* no subscription.
LEMMA SubscriptionKept ==
    ASSUME NEW c \in Clients, Subscription(c),
           UNCHANGED <<backend, published, log>>,
           Held(c)' = Held(c), last_id'[c] = last_id[c],
           phase'[c] # "closed" => phase[c] # "closed",
           phase'[c] = "closed" => pending'[c] = <<>>
    PROVE  Subscription(c)'
<1>1. Increasing(Held(c))'
  BY DEF Subscription, Increasing
<1>2. Newly(c)'
  BY DEF Subscription, Newly
<1>3. UpToLast(c)'
  BY DEF Subscription, UpToLast
<1> QED
  BY <1>1, <1>2, <1>3 DEF Subscription

\* A step that closes a subscription leaves what its client was sent.
LEMMA SubscriptionClosed ==
    ASSUME TypeOK, TypeOK', NEW c \in Clients, Subscription(c),
           backend' = backend, seen'[c] = seen[c], last_id'[c] = last_id[c],
           pending'[c] = <<>>, phase'[c] = "closed"
    PROVE  Subscription(c)'
<1>1. Held(c)' = seen[c]
  BY HeldTyped DEF Held, TypeOK
<1>2. Increasing(Held(c))'
  <2>1. Increasing(seen[c])
    BY SentIncreasing DEF Subscription
  <2> QED
    BY <1>1, <2>1 DEF Increasing
<1>3. Newly(c)'
  BY DEF Newly
<1>4. UpToLast(c)'
  <2>1. SUFFICES ASSUME backend = "redis", NEW i \in 1..Len(seen[c])
                 PROVE  seen[c][i] <= last_id[c]
    BY <1>1 DEF UpToLast
  <2>2. \A j \in 1..Len(Held(c)) : Held(c)[j] <= last_id[c]
    BY <2>1 DEF Subscription, UpToLast
  <2>3. i \in 1..Len(Held(c)) /\ Held(c)[i] = seen[c][i]
    <3> DEFINE a == Len(seen[c])
               b == Len(pending[c])
    <3>1. /\ a \in Nat /\ b \in Nat /\ Len(Held(c)) = a + b
          /\ i \in 1..a /\ Held(c)[i] = seen[c][i]
      BY HeldTyped
    <3> HIDE DEF a, b
    <3>2. i \in 1..(a + b)
      BY <3>1
    <3> QED
      BY <3>1, <3>2
  <2> QED
    BY <2>2, <2>3
<1> QED
  BY <1>2, <1>3, <1>4 DEF Subscription

\* One more event at the end of what is held.
LEMMA AppendedHeld ==
    ASSUME NEW S, NEW s \in Seq(S), NEW t \in Seq(S), NEW e \in S
    PROVE  s \o Append(t, e) = Append(s \o t, e)
<1>1. /\ s \o t \in Seq(S) /\ Len(s \o t) = Len(s) + Len(t)
      /\ Len(s) \in Nat /\ Len(t) \in Nat
      /\ \A i \in 1..(Len(s) + Len(t)) :
             (s \o t)[i] = IF i <= Len(s) THEN s[i] ELSE t[i - Len(s)]
  BY ConcatProperties
<1>2. /\ Append(t, e) \in Seq(S) /\ Len(Append(t, e)) = Len(t) + 1
      /\ \A i \in 1..Len(t) : Append(t, e)[i] = t[i]
      /\ Append(t, e)[Len(t) + 1] = e
  BY AppendProperties
<1> DEFINE left == s \o Append(t, e)
           right == Append(s \o t, e)
<1>3. /\ left \in Seq(S) /\ Len(left) = Len(s) + Len(t) + 1
      /\ \A i \in 1..(Len(s) + Len(t) + 1) :
             left[i] = IF i <= Len(s) THEN s[i] ELSE Append(t, e)[i - Len(s)]
  BY <1>1, <1>2, ConcatProperties
<1>4. /\ right \in Seq(S) /\ Len(right) = Len(s) + Len(t) + 1
      /\ \A i \in 1..(Len(s) + Len(t)) : right[i] = (s \o t)[i]
      /\ right[Len(s) + Len(t) + 1] = e
  BY <1>1, AppendProperties
<1> HIDE DEF left, right
<1>5. ASSUME NEW i \in 1..(Len(s) + Len(t) + 1)
      PROVE  left[i] = right[i]
  <2>1. CASE i <= Len(s)
    <3>1. left[i] = s[i]
      BY <1>3, <2>1
    <3>2. i \in 1..(Len(s) + Len(t))
      BY <1>1, <2>1
    <3> QED
      BY <1>1, <1>4, <2>1, <3>1, <3>2
  <2>2. CASE i > Len(s) /\ i <= Len(s) + Len(t)
    <3>1. i - Len(s) \in 1..Len(t) /\ i \in 1..(Len(s) + Len(t)) /\ ~(i <= Len(s))
      BY <1>1, <2>2
    <3>2. left[i] = t[i - Len(s)] /\ right[i] = t[i - Len(s)]
      BY <1>1, <1>2, <1>3, <1>4, <3>1
    <3> QED
      BY <3>2
  <2>3. CASE i = Len(s) + Len(t) + 1
    <3>1. i - Len(s) = Len(t) + 1 /\ ~(i <= Len(s))
      BY <1>1, <2>3
    <3> QED
      BY <1>2, <1>3, <1>4, <2>3, <3>1
  <2>4. i \in Nat /\ i <= Len(s) + Len(t) + 1 /\ Len(s) + Len(t) \in Nat
    BY <1>1
  <2>5. i <= Len(s) \/ (i > Len(s) /\ i <= Len(s) + Len(t)) \/ i = Len(s) + Len(t) + 1
    BY <1>1, <2>4
  <2> QED
    BY <2>1, <2>2, <2>3, <2>5
<1>6. left = right
  BY <1>3, <1>4, <1>5, SeqEqual
<1> QED
  BY <1>6 DEF left, right

\* The newest ranks are in order and without a gap.
LEMMA NewestIncrease ==
    ASSUME NEW s, Len(s) \in Nat, NEW n \in Nat,
           \A i \in 1..Len(s) : s[i] = n - Len(s) + i
    PROVE  Increasing(s)
BY DEF Increasing

-----------------------------------------------------------------------------
(* What publishing does to a subscription.                                 *)

LEMMA PublishedInMemory ==
    ASSUME IInv, NEW terminal \in BOOLEAN, PublishInMemory(terminal),
           NEW d \in Clients
    PROVE  Subscription(d)'
<1>1. /\ backend = "memory" /\ backend' = backend /\ phase' = phase
      /\ seen' = seen /\ Subscription(d) /\ Bounded
      /\ published' = Append(published, terminal) /\ NextRank <= MaxEvents
      /\ log' = Newest(Append(log, NextRank), HistoryLimit)
      /\ Len(published) \in Nat /\ Len(log) \in Nat
  BY DEF IInv, PublishInMemory, Bounded, TypeOK
<1>2. pending'[d] = IF d \in subscribers THEN Append(pending[d], NextRank)
                    ELSE pending[d]
  BY DEF PublishInMemory
<1>3. d \in subscribers <=> phase[d] # "closed"
  BY <1>1 DEF IInv, NoQueueLeaks
<1>4. UpToLast(d)'
  BY <1>1 DEF UpToLast
<1>5. CASE d \notin subscribers
  <2>1. Held(d)' = Held(d) /\ pending'[d] = <<>>
    BY <1>1, <1>2, <1>3, <1>5 DEF Held, Subscription
  <2>2. Increasing(Held(d))' /\ Newly(d)'
    BY <1>1, <1>3, <1>5, <2>1 DEF Subscription, Increasing, Newly
  <2> QED
    BY <1>4, <2>1, <2>2 DEF Subscription
<1>6. CASE d \in subscribers
  <2>1. /\ Len(published') = Len(published) + 1
        /\ NextRank = Len(published) + 1
        /\ Len(log') \in Nat /\ Len(log') <= Len(log) + 1
    <3>1. /\ Len(published') = Len(published) + 1
          /\ log' \in Seq(1..Len(published'))
      BY <1>1, Published, EventBusAssumption
    <3>2. /\ Append(log, NextRank) \in Seq(Nat)
          /\ Len(Append(log, NextRank)) = Len(log) + 1
      <4>1. log \in Seq(Nat) /\ NextRank \in Nat
        BY <1>1, SeqWider DEF Bounded, TypeOK, NextRank
      <4> QED
        BY <4>1, AppendProperties
    <3>3. Len(log') <= Len(Append(log, NextRank))
      BY <1>1, <3>2, NewestTail, EventBusAssumption
    <3> QED
      BY <1>1, <3>1, <3>2, <3>3 DEF NextRank
  <2>2. /\ Held(d)' = Append(Held(d), NextRank)
        /\ Held(d) \in Seq(Nat) /\ Len(Held(d)) \in Nat
    <3>1. seen[d] \in Seq(Nat) /\ pending[d] \in Seq(Nat) /\ Held(d) \in Seq(Nat)
      BY <1>1, HeldRanks DEF Bounded
    <3>2. seen[d] \o Append(pending[d], NextRank) = Append(seen[d] \o pending[d], NextRank)
      <4> DEFINE s == seen[d]
                 t == pending[d]
                 e == NextRank
      <4>1. s \in Seq(Nat) /\ t \in Seq(Nat) /\ e \in Nat
        BY <1>1, <2>1, <3>1
      <4> HIDE DEF s, t, e
      <4>2. s \o Append(t, e) = Append(s \o t, e)
        BY <4>1, AppendedHeld
      <4> QED
        BY <4>2 DEF s, t, e
    <3>3. Held(d)' = seen[d] \o Append(pending[d], NextRank)
      BY <1>1, <1>2, <1>6 DEF Held
    <3>4. Len(Held(d)) \in Nat
      BY <1>1, <3>1
    <3> QED
      BY <3>1, <3>2, <3>3, <3>4 DEF Held
  <2> DEFINE h == Held(d)
             more == Append(h, NextRank)
  <2>3. /\ Len(log) <= Len(h)
        /\ \A i \in 1..Len(h) : h[i] = Len(published) - Len(h) + i
    BY <1>1, <1>3, <1>6 DEF Subscription, Newly
  <2>4. h \in Seq(Nat) /\ Len(h) \in Nat /\ NextRank \in Nat
    BY <1>1, <2>1, <2>2
  <2> HIDE DEF h
  <2>5. /\ Len(more) = Len(h) + 1 /\ more[Len(h) + 1] = NextRank
        /\ \A i \in 1..Len(h) : more[i] = h[i]
    BY <2>4, AppendProperties
  <2> HIDE DEF more
  <2>6. ASSUME NEW i \in 1..Len(more)
        PROVE  more[i] = Len(published') - Len(more) + i
    <3>1. CASE i \in 1..Len(h)
      BY <1>1, <2>1, <2>3, <2>4, <2>5, <3>1
    <3>2. CASE i = Len(h) + 1
      BY <1>1, <2>1, <2>4, <2>5, <3>2
    <3> QED
      BY <2>4, <2>5, <3>1, <3>2
  <2>7. Len(log') <= Len(more) /\ Len(more) \in Nat /\ Len(published') \in Nat
    BY <1>1, <2>1, <2>3, <2>4, <2>5
  <2>8. Held(d)' = more
    BY <2>2 DEF more, h
  <2>9. Newly(d)'
    BY <2>6, <2>7, <2>8 DEF Newly
  <2>10. Increasing(more)
    BY <2>6, <2>7, NewestIncrease
  <2>11. Increasing(Held(d))'
    BY <1>1, <2>8, <2>10 DEF Increasing
  <2> QED
    BY <1>1, <1>3, <1>4, <1>6, <2>9, <2>11 DEF Subscription
<1> QED
  BY <1>5, <1>6

LEMMA PublishedToStream ==
    ASSUME IInv, NEW terminal \in BOOLEAN, PublishToStream(terminal),
           NEW d \in Clients
    PROVE  Subscription(d)'
<1>1. /\ backend = "redis" /\ backend' = backend /\ phase' = phase
      /\ pending' = pending /\ last_id' = last_id /\ Held(d)' = Held(d)
      /\ Subscription(d) /\ Bounded
  BY DEF IInv, PublishToStream, readers, Held
<1>2. ASSUME NEW i \in 1..Len(log')
      PROVE  log'[i] > last_id[d] \/ \E j \in 1..Len(log) : log'[i] = log[j]
  <2>1. PICK kept \in Nat \ {0} : log' = Newest(Append(log, NextRank), kept)
    BY EventBusAssumption DEF PublishToStream
  <2>2. published' = Append(published, terminal) /\ NextRank <= MaxEvents
    BY DEF PublishToStream
  <2>3. log'[i] = NextRank \/ \E j \in 1..Len(log) : log'[i] = log[j]
    BY <1>1, <2>1, <2>2, Published
  <2>4. NextRank > last_id[d]
    BY <1>1 DEF Bounded, TypeOK, NextRank
  <2> QED
    BY <2>3, <2>4
<1>3. UpToLast(d)'
  BY <1>1, <1>2 DEF Subscription, UpToLast
<1>4. Increasing(Held(d))' /\ Newly(d)'
  BY <1>1 DEF Subscription, Increasing, Newly
<1> QED
  BY <1>1, <1>3, <1>4 DEF Subscription

-----------------------------------------------------------------------------
(* What a reader does to its subscription.                                 *)

LEMMA SubscribeHeld ==
    ASSUME IInv, NEW c \in Clients, Subscribe(c)
    PROVE  Subscription(c)'
<1>1. /\ phase'[c] = "open" /\ seen'[c] = <<>> /\ last_id'[c] = 0
      /\ backend' = backend /\ log' = log /\ published' = published
      /\ pending'[c] = IF backend = "memory" THEN log ELSE <<>>
      /\ Bounded
  BY DEF Subscribe, bus, IInv, Bounded, TypeOK
<1>2. /\ log \in Seq(1..Len(published)) /\ Len(log) \in Nat /\ Len(published) \in Nat
      /\ \A i \in 1..Len(log) : log[i] = Len(published) - Len(log) + i
      /\ \A i \in 1..Len(log) : log[i] \in 1..Len(published)
  BY <1>1 DEF Bounded, LogRanks, TypeOK
<1>3. CASE backend = "memory"
  <2>1. Held(c)' = log
    <3>1. Held(c)' = <<>> \o log
      BY <1>1, <1>3 DEF Held
    <3>2. <<>> \o log = log
      BY <1>2, ConcatEmptySeq
    <3> QED
      BY <3>1, <3>2
  <2>2. Newly(c)' /\ UpToLast(c)'
    BY <1>1, <1>2, <1>3, <2>1 DEF Newly, UpToLast
  <2>3. Increasing(log)
    BY <1>2, NewestIncrease
  <2>4. Increasing(Held(c))'
    BY <1>1, <2>1, <2>3 DEF Increasing
  <2> QED
    BY <1>1, <2>2, <2>4 DEF Subscription
<1>4. CASE backend # "memory"
  <2>1. Held(c)' = <<>>
    BY <1>1, <1>4 DEF Held
  <2>2. \A i \in 1..Len(log) : log[i] > 0
    BY <1>2
  <2>3. Increasing(Held(c))' /\ Newly(c)' /\ UpToLast(c)'
    BY <1>1, <1>4, <2>1, <2>2 DEF Increasing, Newly, UpToLast
  <2> QED
    BY <1>1, <2>3 DEF Subscription
<1> QED
  BY <1>3, <1>4

LEMMA GetHeld ==
    ASSUME TypeOK, NEW c \in Clients, Get(c)
    PROVE  Held(c)' = Held(c)
<1>1. /\ seen'[c] = Append(seen[c], Head(pending[c]))
      /\ pending'[c] = Tail(pending[c]) /\ pending[c] # <<>>
  BY DEF Get, Deliver, TypeOK
<1> DEFINE s == seen[c]
           t == pending[c]
<1>2. s \in Seq(Nat) /\ t \in Seq(Nat) /\ t # <<>>
  BY <1>1, HeldRanks
<1> HIDE DEF s, t
<1>3. Append(s, Head(t)) \o Tail(t) = s \o t
  BY <1>2, MovedHead
<1> QED
  BY <1>1, <1>3 DEF s, t, Held

LEMMA ReadHeld ==
    ASSUME IInv, NEW c \in Clients, Read(c)
    PROVE  Subscription(c)'
<1>1. /\ backend = "redis" /\ phase[c] = "open" /\ pending[c] = <<>>
      /\ Unread(c) # <<>> /\ Bounded /\ Subscription(c)
      /\ backend' = backend /\ log' = log /\ published' = published
      /\ last_id'[c] = Last(Entries(c)) /\ pending'[c] = Tail(Entries(c))
      /\ seen'[c] = Append(seen[c], Head(Entries(c)))
      /\ phase'[c] # "closed"
  BY DEF Read, Deliver, bus, IInv, Bounded, TypeOK
<1>2. /\ \A i \in 1..Len(log) : log[i] = Len(published) - Len(log) + i
      /\ Len(log) \in Nat /\ Len(published) \in Nat /\ last_id[c] \in Nat
  <2>1. \A i \in 1..Len(log) : log[i] = Len(published) - Len(log) + i
    BY <1>1 DEF Bounded, LogRanks
  <2>2. Len(log) \in Nat /\ Len(published) \in Nat
    BY <1>1 DEF Bounded, TypeOK
  <2>3. last_id[c] \in Nat
    BY <1>1, <2>2 DEF Bounded, TypeOK
  <2> QED
    BY <2>1, <2>2, <2>3
<1> DEFINE h == seen[c]
           r == Entries(c)
           last == last_id[c]
<1>3. PICK k \in 1..Len(log) :
          /\ r \in Seq(1..Len(published)) /\ r # <<>>
          /\ Len(r) \in 1..(Len(log) - k + 1)
          /\ \A i \in 1..Len(r) : r[i] = log[k + i - 1]
          /\ \A i \in 1..Len(log) : log[i] > last <=> i >= k
  BY <1>1, EntriesRead
<1>4. r \in Seq(Nat) /\ r # <<>> /\ h \in Seq(Nat) /\ Held(c) = h
  <2> DEFINE S == 1..Len(published)
  <2>1. r \in Seq(S) /\ r # <<>> /\ S \subseteq Nat
    BY <1>3
  <2> HIDE DEF S, r
  <2>2. r \in Seq(Nat)
    BY <2>1, SeqWider
  <2> QED
    BY <1>1, <2>1, <2>2, HeldRanks, HeldTyped DEF Bounded
<1>5. /\ \A i \in 1..(Len(h) - 1) : h[i] < h[i + 1]
      /\ \A i \in 1..Len(h) : h[i] <= last
      /\ \A j \in 1..Len(log) :
             log[j] > last \/ \E i \in 1..Len(h) : h[i] = log[j]
  BY <1>1, <1>4 DEF Subscription, Increasing, UpToLast
<1>6. last_id'[c] = r[Len(r)]
  BY <1>1 DEF Last
<1>7. Held(c)' = Append(h, Head(r)) \o Tail(r)
  BY <1>1 DEF Held
<1> HIDE DEF h, r, last
<1> DEFINE more == h \o r
<1>8. Held(c)' = more
  BY <1>4, <1>7, MovedHead
<1>9. /\ Len(h) \in Nat /\ Len(r) \in Nat /\ Len(more) = Len(h) + Len(r)
      /\ \A i \in 1..Len(h) : more[i] = h[i]
      /\ \A i \in 1..Len(r) : more[Len(h) + i] = r[i]
  BY <1>4, HeldParts
<1> HIDE DEF more
<1>10. last \in Nat /\ k \in Nat
  BY <1>2, <1>3 DEF last
<1>11. \A i \in 1..Len(r) : /\ k + i - 1 \in 1..Len(log)
                            /\ r[i] = Len(published) - Len(log) + k + i - 1
                            /\ r[i] > last
  <2> SUFFICES ASSUME NEW i \in 1..Len(r)
               PROVE  /\ k + i - 1 \in 1..Len(log)
                      /\ r[i] = Len(published) - Len(log) + k + i - 1
                      /\ r[i] > last
    OBVIOUS
  <2>1. k + i - 1 \in 1..Len(log) /\ k + i - 1 >= k
    BY <1>2, <1>3, <1>9, <1>10
  <2>2. r[i] = log[k + i - 1]
    BY <1>3
  <2> QED
    BY <1>2, <1>3, <2>1, <2>2
<1>12. ASSUME NEW i \in 1..(Len(more) - 1)
       PROVE  more[i] < more[i + 1]
  <2>1. CASE i < Len(h)
    <3>1. i \in 1..(Len(h) - 1) /\ i \in 1..Len(h) /\ i + 1 \in 1..Len(h)
      BY <1>9, <2>1
    <3> QED
      BY <1>5, <1>9, <3>1
  <2>2. CASE i = Len(h)
    <3>1. i \in 1..Len(h) /\ 1 \in 1..Len(r)
      BY <1>3, <1>9, <2>2
    <3>2. more[i] = h[i] /\ more[i + 1] = r[1] /\ h[i] <= last /\ r[1] > last
      BY <1>5, <1>9, <1>11, <2>2, <3>1
    <3>3. h[i] \in Nat /\ r[1] \in Nat
      BY <1>4, <3>1
    <3> QED
      BY <1>10, <3>2, <3>3
  <2>3. CASE i > Len(h)
    <3> DEFINE n == i - Len(h)
    <3>1. n \in 1..Len(r) /\ n + 1 \in 1..Len(r) /\ i = Len(h) + n /\ i + 1 = Len(h) + (n + 1)
      BY <1>9, <2>3
    <3> HIDE DEF n
    <3>2. more[i] = r[n] /\ more[i + 1] = r[n + 1]
      BY <1>9, <3>1
    <3> QED
      BY <1>2, <1>9, <1>10, <1>11, <3>1, <3>2
  <2> QED
    BY <1>9, <2>1, <2>2, <2>3
<1>13. Len(r) \in 1..Len(r)
  BY <1>3, <1>9
<1>14. ASSUME NEW i \in 1..Len(more)
       PROVE  more[i] <= r[Len(r)]
  <2>1. CASE i \in 1..Len(h)
    <3>1. more[i] = h[i] /\ h[i] <= last /\ r[Len(r)] > last
      BY <1>5, <1>9, <1>11, <1>13, <2>1
    <3>2. h[i] \in Nat /\ r[Len(r)] \in Nat
      BY <1>4, <1>13, <2>1
    <3> QED
      BY <1>10, <3>1, <3>2
  <2>2. CASE i \notin 1..Len(h)
    <3> DEFINE n == i - Len(h)
    <3>1. n \in 1..Len(r) /\ i = Len(h) + n
      BY <1>9, <2>2
    <3> HIDE DEF n
    <3>2. more[i] = r[n]
      BY <1>9, <3>1
    <3>3. /\ r[n] = Len(published) - Len(log) + k + n - 1
          /\ r[Len(r)] = Len(published) - Len(log) + k + Len(r) - 1
      BY <1>11, <1>13, <3>1
    <3>4. n \in Nat /\ Len(r) \in Nat /\ n <= Len(r)
      BY <1>9, <3>1
    <3> QED
      BY <1>2, <1>10, <3>2, <3>3, <3>4
  <2> QED
    BY <2>1, <2>2
<1>15. ASSUME NEW j \in 1..Len(log)
       PROVE  log[j] > r[Len(r)] \/ \E i \in 1..Len(more) : more[i] = log[j]
  <2>1. CASE j < k
    <3>1. PICK i \in 1..Len(h) : h[i] = log[j]
      BY <1>3, <1>5, <1>10, <2>1
    <3>2. i \in 1..Len(more) /\ more[i] = log[j]
      BY <1>9, <3>1
    <3> QED
      BY <3>2
  <2>2. CASE j >= k /\ j - k + 1 <= Len(r)
    <3> DEFINE n == j - k + 1
    <3>1. n \in 1..Len(r) /\ j = k + n - 1
      BY <1>9, <1>10, <2>2
    <3> HIDE DEF n
    <3>2. Len(h) + n \in 1..Len(more) /\ more[Len(h) + n] = log[j]
      BY <1>3, <1>9, <3>1
    <3> QED
      BY <3>2
  <2>3. CASE j >= k /\ j - k + 1 > Len(r)
    <3>1. /\ log[j] = Len(published) - Len(log) + j
          /\ r[Len(r)] = Len(published) - Len(log) + k + Len(r) - 1
      BY <1>2, <1>11, <1>13
    <3>2. j \in Nat /\ Len(r) \in Nat
      BY <1>9
    <3> QED
      BY <1>2, <1>10, <2>3, <3>1, <3>2
  <2> QED
    BY <1>9, <1>10, <2>1, <2>2, <2>3
<1>16. Increasing(Held(c))'
  BY <1>1, <1>8, <1>12 DEF Increasing
<1>17. UpToLast(c)'
  BY <1>1, <1>6, <1>8, <1>14, <1>15 DEF UpToLast
<1>18. Newly(c)'
  BY <1>1 DEF Newly
<1> QED
  BY <1>1, <1>16, <1>17, <1>18 DEF Subscription

-----------------------------------------------------------------------------
(* The inductive invariant.                                                *)

LEMMA EventBusInit == Init => IInv
<1> SUFFICES ASSUME Init
             PROVE  IInv
  OBVIOUS
<1>1. NoQueueLeaks
  BY DEF Init, NoQueueLeaks
<1>2. ASSUME NEW c \in Clients
      PROVE  Subscription(c)
  <2>1. /\ Held(c) = <<>> /\ Len(log) = 0 /\ pending[c] = <<>>
        /\ phase[c] = "closed"
    BY DEF Init, Held
  <2> QED
    BY <2>1 DEF Subscription, Increasing, Newly, UpToLast
<1> QED
  BY <1>1, <1>2, EventBusTypeInit DEF IInv

\* A step of one reader leaves the others as they are.
LEMMA OthersKept ==
    ASSUME IInv, NEW c \in Clients, NEW d \in Clients, d # c,
           Subscribe(c) \/ Receive(c) \/ Close(c)
    PROVE  Subscription(d)'
<1>1. /\ UNCHANGED <<backend, published, log>>
      /\ phase'[d] = phase[d] /\ last_id'[d] = last_id[d]
      /\ pending'[d] = pending[d] /\ seen'[d] = seen[d]
  BY DEF IInv, Bounded, TypeOK, Subscribe, Receive, Get, Read, Deliver, Close, bus
<1>2. Held(d)' = Held(d)
  BY <1>1 DEF Held
<1>3. Subscription(d) /\ (phase[d] = "closed" => pending[d] = <<>>)
  BY DEF IInv, Subscription
<1> QED
  BY <1>1, <1>2, <1>3, SubscriptionKept

LEMMA NoQueueLeaksStep ==
    ASSUME IInv, [Next]_vars
    PROVE  NoQueueLeaks'
<1> USE DEF IInv, Bounded, TypeOK, NoQueueLeaks
<1>1. ASSUME NEW terminal \in BOOLEAN,
             PublishInMemory(terminal) \/ PublishToStream(terminal)
      PROVE  NoQueueLeaks'
  BY <1>1 DEF PublishInMemory, PublishToStream, readers
<1>2. CASE Expire \/ Restart \/ UNCHANGED vars
  BY <1>2 DEF Expire, Restart, vars, bus, readers
<1>3. ASSUME NEW c \in Clients, Subscribe(c)
      PROVE  NoQueueLeaks'
  <2>1. /\ backend' = backend
        /\ \A d \in Clients : phase'[d] = IF d = c THEN "open" ELSE phase[d]
        /\ backend = "memory" => subscribers' = subscribers \cup {c}
    BY <1>3 DEF Subscribe, bus
  <2> QED
    BY <2>1
<1>4. ASSUME NEW c \in Clients, Receive(c)
      PROVE  NoQueueLeaks'
  <2>1. /\ backend' = backend /\ subscribers' = subscribers
        /\ phase[c] # "closed" /\ phase'[c] # "closed"
        /\ \A d \in Clients : d # c => phase'[d] = phase[d]
    BY <1>4 DEF Receive, Get, Read, Deliver, bus
  <2> QED
    BY <2>1
<1>5. ASSUME NEW c \in Clients, Close(c)
      PROVE  NoQueueLeaks'
  <2>1. /\ backend' = backend /\ subscribers' = subscribers \ {c}
        /\ \A d \in Clients : phase'[d] = IF d = c THEN "closed" ELSE phase[d]
    BY <1>5 DEF Close, bus
  <2> QED
    BY <2>1
<1> QED
  BY <1>1, <1>2, <1>3, <1>4, <1>5 DEF Next

LEMMA EventBusStep ==
    ASSUME IInv, [Next]_vars
    PROVE  IInv'
<1>1. Bounded /\ Bounded' /\ NoQueueLeaks'
  BY EventBusTypeStep, NoQueueLeaksStep DEF IInv
<1>2. TypeOK /\ TypeOK'
  BY <1>1 DEF Bounded
<1> SUFFICES ASSUME NEW d \in Clients
             PROVE  Subscription(d)'
  BY <1>1 DEF IInv
<1>3. Subscription(d) /\ (phase[d] = "closed" => pending[d] = <<>>)
  BY DEF IInv, Subscription
<1>4. ASSUME NEW terminal \in BOOLEAN,
             PublishInMemory(terminal) \/ PublishToStream(terminal)
      PROVE  Subscription(d)'
  BY <1>4, PublishedInMemory, PublishedToStream
<1>5. CASE Expire
  <2>1. /\ backend = "redis" /\ backend' = backend /\ Len(log') = 0
        /\ UNCHANGED <<published, phase, pending, last_id>>
        /\ Held(d)' = Held(d)
    BY <1>5 DEF Expire, readers, Held
  <2>2. Increasing(Held(d))' /\ Newly(d)' /\ UpToLast(d)'
    BY <1>3, <2>1 DEF Subscription, Increasing, Newly, UpToLast
  <2> QED
    BY <1>3, <2>1, <2>2 DEF Subscription
<1>6. CASE Restart
  <2>1. /\ backend' = backend /\ seen'[d] = seen[d] /\ last_id'[d] = last_id[d]
        /\ pending'[d] = <<>> /\ phase'[d] = "closed"
    BY <1>6 DEF Restart
  <2> QED
    BY <1>2, <1>3, <2>1, SubscriptionClosed
<1>7. ASSUME NEW c \in Clients, Subscribe(c) \/ Receive(c) \/ Close(c)
      PROVE  Subscription(d)'
  <2>1. CASE d # c
    BY <1>7, <2>1, OthersKept
  <2>2. CASE d = c /\ Subscribe(c)
    BY <2>2, SubscribeHeld
  <2>3. CASE d = c /\ Get(c)
    <3>1. Held(d)' = Held(d)
      BY <1>2, <2>3, GetHeld
    <3>2. /\ UNCHANGED <<backend, published, log>> /\ last_id'[d] = last_id[d]
          /\ phase[d] # "closed" /\ phase'[d] # "closed"
      BY <1>2, <2>3 DEF Get, Deliver, bus, TypeOK
    <3> QED
      BY <1>3, <3>1, <3>2, SubscriptionKept
  <2>4. CASE d = c /\ Read(c)
    BY <2>4, ReadHeld
  <2>5. CASE d = c /\ Close(c)
    <3>1. /\ backend' = backend /\ seen'[d] = seen[d] /\ last_id'[d] = last_id[d]
          /\ pending'[d] = <<>> /\ phase'[d] = "closed"
      BY <1>2, <2>5 DEF Close, bus, TypeOK
    <3> QED
      BY <1>2, <1>3, <3>1, SubscriptionClosed
  <2> QED
    BY <1>7, <2>1, <2>2, <2>3, <2>4, <2>5 DEF Receive
<1>8. CASE UNCHANGED vars
  <2>1. /\ UNCHANGED <<backend, published, log, phase, pending, last_id>>
        /\ Held(d)' = Held(d)
    BY <1>8 DEF vars, bus, readers, Held
  <2> QED
    BY <1>3, <2>1, SubscriptionKept
<1> QED
  BY <1>4, <1>5, <1>6, <1>7, <1>8 DEF Next

\* The invariant gives what a client may count on.
LEMMA InvariantInOrder == IInv => InOrder
BY DEF IInv, InOrder, Subscription, Increasing

LEMMA InvariantNoneSkipped == IInv => NoneSkipped
<1> SUFFICES ASSUME IInv, NEW c \in Clients, phase[c] # "closed",
                    NEW i \in DOMAIN log
             PROVE  \/ log[i] \in Range(seen[c]) \cup Range(pending[c])
                    \/ backend = "redis" /\ log[i] > last_id[c]
  BY DEF NoneSkipped
<1>1. /\ TypeOK /\ LogRanks /\ Subscription(c)
      /\ backend \in {"memory", "redis"}
  BY DEF IInv, Bounded, TypeOK
<1> DEFINE s == seen[c]
           t == pending[c]
           h == Held(c)
           total == Len(published)
           kept == Len(log)
<1>2. /\ i \in 1..kept /\ kept \in Nat /\ total \in Nat
      /\ log[i] = total - kept + i
  <2>1. log \in Seq(1..Len(published)) /\ published \in Seq(BOOLEAN)
    BY <1>1 DEF TypeOK
  <2>2. i \in 1..Len(log)
    BY <2>1
  <2> QED
    BY <1>1, <2>1, <2>2 DEF LogRanks
<1>3. /\ Len(s) \in Nat /\ Len(t) \in Nat /\ Len(h) = Len(s) + Len(t)
      /\ \A j \in 1..Len(s) : h[j] = s[j]
      /\ \A j \in 1..Len(t) : h[Len(s) + j] = t[j]
  BY <1>1, HeldTyped
<1>4. DOMAIN s = 1..Len(s) /\ DOMAIN t = 1..Len(t)
  <2>1. s \in Seq(Nat) /\ t \in Seq(Nat)
    BY <1>1, HeldRanks
  <2> HIDE DEF s, t
  <2> QED
    BY <2>1
<1>5. ASSUME backend = "memory"
      PROVE  \E j \in 1..Len(h) : h[j] = log[i]
  <2>1. /\ kept <= Len(h)
        /\ \A n \in 1..Len(h) : h[n] = total - Len(h) + n
    BY <1>1, <1>5 DEF Subscription, Newly
  <2> HIDE DEF s, t, h, total, kept
  <2> DEFINE j == Len(h) - kept + i
  <2>2. Len(h) \in Nat
    BY <1>3
  <2>3. j \in 1..Len(h) /\ log[i] = total - Len(h) + j
    BY <1>2, <2>1, <2>2
  <2> HIDE DEF j
  <2> QED
    BY <2>1, <2>3
<1>6. ASSUME backend = "redis", ~(log[i] > last_id[c])
      PROVE  \E j \in 1..Len(h) : h[j] = log[i]
  BY <1>1, <1>2, <1>6 DEF Subscription, UpToLast
<1>7. ASSUME NEW j \in 1..Len(h), h[j] = log[i]
      PROVE  log[i] \in Range(seen[c]) \cup Range(pending[c])
  <2> HIDE DEF s, t, h
  <2>1. CASE j \in 1..Len(s)
    BY <1>3, <1>4, <1>7, <2>1 DEF Range, s
  <2>2. CASE j \notin 1..Len(s)
    <3> DEFINE n == j - Len(s)
    <3>1. n \in 1..Len(t) /\ j = Len(s) + n
      BY <1>3, <2>2
    <3> HIDE DEF n
    <3> QED
      BY <1>3, <1>4, <1>7, <3>1 DEF Range, t
  <2> QED
    BY <2>1, <2>2
<1> QED
  BY <1>1, <1>5, <1>6, <1>7

-----------------------------------------------------------------------------
(* The end of a stream.                                                    *)

EndsInv == Bounded /\ EndsAtTerminal

LEMMA EndsStep ==
    ASSUME EndsInv, [Next]_vars
    PROVE  EndsInv'
<1>1. Bounded /\ Bounded'
  BY EventBusTypeStep DEF EndsInv
<1> SUFFICES ASSUME NEW d \in Clients, NEW i \in DOMAIN seen'[d],
                    published'[seen'[d][i]]
             PROVE  i = Len(seen'[d]) /\ phase'[d] # "open"
  BY <1>1 DEF EndsInv, EndsAtTerminal
<1>2. /\ seen[d] \in Seq(1..Len(published)) /\ DOMAIN seen[d] = 1..Len(seen[d])
      /\ Len(seen[d]) \in Nat /\ Len(published) \in Nat
      /\ \A j \in 1..Len(seen[d]) : seen[d][j] \in 1..Len(published)
  <2>1. TypeOK
    BY <1>1 DEF Bounded
  <2>2. seen[d] \in Seq(1..Len(published)) /\ Len(published) \in Nat
    BY <2>1 DEF TypeOK
  <2> QED
    BY <2>2
<1>3. \A j \in 1..Len(seen[d]) :
          published[seen[d][j]] => j = Len(seen[d]) /\ phase[d] # "open"
  BY <1>2 DEF EndsInv, EndsAtTerminal
<1>4. ASSUME NEW terminal \in BOOLEAN,
             PublishInMemory(terminal) \/ PublishToStream(terminal)
      PROVE  i = Len(seen'[d]) /\ phase'[d] # "open"
  <2>1. /\ seen' = seen /\ phase' = phase
        /\ published' = Append(published, terminal)
    BY <1>4 DEF PublishInMemory, PublishToStream, readers
  <2>2. \A j \in 1..Len(published) : published'[j] = published[j]
    BY <1>1, <2>1, AppendProperties DEF Bounded, TypeOK
  <2> QED
    BY <1>2, <1>3, <2>1, <2>2
<1>5. CASE Expire \/ Restart \/ UNCHANGED vars
  <2>1. /\ seen' = seen /\ published' = published
        /\ phase'[d] \in {phase[d], "closed"}
    BY <1>5 DEF Expire, Restart, vars, bus, readers
  <2> QED
    BY <1>2, <1>3, <2>1
<1>6. ASSUME NEW c \in Clients, Subscribe(c) \/ Close(c)
      PROVE  i = Len(seen'[d]) /\ phase'[d] # "open"
  <2>1. CASE d = c /\ Subscribe(c)
    <3>1. seen'[d] = <<>>
      BY <1>1, <2>1 DEF Subscribe, Bounded, TypeOK
    <3> QED
      BY <3>1
  <2>2. CASE d # c \/ Close(c)
    <3>1. /\ seen'[d] = seen[d] /\ published' = published
          /\ phase'[d] \in {phase[d], "closed"}
      BY <1>1, <1>6, <2>2 DEF Subscribe, Close, bus, Bounded, TypeOK
    <3> QED
      BY <1>2, <1>3, <3>1
  <2> QED
    BY <1>6, <2>1, <2>2
<1>7. ASSUME NEW c \in Clients, Receive(c)
      PROVE  i = Len(seen'[d]) /\ phase'[d] # "open"
  <2>1. CASE d # c
    <3>1. seen'[d] = seen[d] /\ published' = published /\ phase'[d] = phase[d]
      BY <1>1, <1>7, <2>1 DEF Receive, Get, Read, Deliver, bus, Bounded, TypeOK
    <3> QED
      BY <1>2, <1>3, <3>1
  <2>2. CASE d = c
    <3>1. PICK rank \in 1..Len(published) : Deliver(c, rank)
      <4>1. CASE Get(c)
        <5>1. pending[c] \in Seq(1..Len(published)) /\ pending[c] # <<>>
          BY <1>1, <4>1 DEF Get, Bounded, TypeOK
        <5>2. Head(pending[c]) \in 1..Len(published)
          BY <5>1
        <5> QED
          BY <4>1, <5>2 DEF Get
      <4>2. CASE Read(c)
        <5>1. Entries(c) \in Seq(1..Len(published)) /\ Entries(c) # <<>>
          BY <1>1, <4>2, EntriesRead DEF Read
        <5>2. Head(Entries(c)) \in 1..Len(published)
          BY <5>1
        <5> QED
          BY <4>2, <5>2 DEF Read
      <4> QED
        BY <1>7, <4>1, <4>2 DEF Receive
    <3>2. /\ seen'[d] = Append(seen[d], rank) /\ published' = published
          /\ phase'[d] = IF published[rank] THEN "ending" ELSE "open"
          /\ phase[d] = "open"
      BY <1>1, <1>7, <2>2, <3>1
      DEF Receive, Get, Read, Deliver, bus, Bounded, TypeOK
    <3>3. /\ Len(seen'[d]) = Len(seen[d]) + 1
          /\ DOMAIN seen'[d] = 1..(Len(seen[d]) + 1)
          /\ \A j \in 1..Len(seen[d]) : seen'[d][j] = seen[d][j]
          /\ seen'[d][Len(seen[d]) + 1] = rank
      BY <1>2, <3>2, AppendProperties
    <3>4. CASE i \in 1..Len(seen[d])
      BY <1>2, <1>3, <3>2, <3>3, <3>4
    <3>5. CASE i = Len(seen[d]) + 1
      BY <3>2, <3>3, <3>5
    <3> QED
      BY <1>2, <3>3, <3>4, <3>5
  <2> QED
    BY <2>1, <2>2
<1> QED
  BY <1>4, <1>5, <1>6, <1>7 DEF Next

-----------------------------------------------------------------------------

\* Every state that either bus reaches is well formed.
THEOREM EventBusTyped == Spec => []TypeOK
<1>1. Bounded /\ [Next]_vars => Bounded'
  BY EventBusTypeStep
<1>2. Bounded => TypeOK
  BY DEF Bounded
<1> QED
  BY EventBusTypeInit, <1>1, <1>2, PTL DEF Spec

LEMMA EventBusInvariant == Spec => []IInv
<1>1. IInv /\ [Next]_vars => IInv'
  BY EventBusStep
<1> QED
  BY EventBusInit, <1>1, PTL DEF Spec

\* subscribe, publish and get, core/events: no reader is sent an event twice,
\* out of order or, from the in-memory bus, without the one before it.
THEOREM StreamInOrder == Spec => []InOrder
BY EventBusInvariant, InvariantInOrder, PTL

\* A subscription has or will have all that the bus still has, whenever it
\* began and however its reads are cut into batches.
THEOREM StreamNoneSkipped == Spec => []NoneSkipped
BY EventBusInvariant, InvariantNoneSkipped, PTL

\* The queues that publishing fills are those of the open streams.
THEOREM QueuesClosed == Spec => []NoQueueLeaks
<1>1. IInv => NoQueueLeaks
  BY DEF IInv
<1> QED
  BY EventBusInvariant, <1>1, PTL

\* stream_incident_events sends a terminal event once, and last.
THEOREM StreamEndsOnce == Spec => []EndsAtTerminal
<1>1. Init => EndsInv
  BY EventBusTypeInit DEF Init, EndsInv, EndsAtTerminal
<1>2. EndsInv /\ [Next]_vars => EndsInv'
  BY EndsStep
<1>3. EndsInv => EndsAtTerminal
  BY DEF EndsInv
<1> QED
  BY <1>1, <1>2, <1>3, PTL DEF Spec

-----------------------------------------------------------------------------
(* A reader that goes on gets nearer to every event ahead of it.           *)

\* Induction, for the sets of numbers that the lemmas are about.
LEMMA InductionBySet ==
    ASSUME NEW S, 0 \in S, \A n \in Nat : n \in S => n + 1 \in S
    PROVE  \A n \in Nat : n \in S
<1> DEFINE T == Nat \ S
<1>1. SUFFICES ASSUME T # {}
               PROVE  FALSE
  OBVIOUS
<1>2. T \subseteq Nat
  OBVIOUS
<1> HIDE DEF T
<1>3. PICK x \in T : \A y \in T : <<y, x>> \notin OpToRel(<, Nat)
  BY <1>1, <1>2, NatLessThanWellFounded, WFMin
<1>4. \A y \in T : ~(y < x)
  BY <1>2, <1>3 DEF OpToRel
<1>5. x \in Nat \ {0} /\ x - 1 \in Nat /\ x - 1 < x
  BY <1>2 DEF T
<1>6. x - 1 \in S
  BY <1>4, <1>5 DEF T
<1> QED
  BY <1>5, <1>6 DEF T

\* Neighbours in order, all in order.
LEMMA EarlierIsLess ==
    ASSUME NEW h \in Seq(Nat), \A i \in 1..(Len(h) - 1) : h[i] < h[i + 1]
    PROVE  \A i, j \in 1..Len(h) : i < j => h[i] < h[j]
<1>1. Len(h) \in Nat /\ \A i \in 1..Len(h) : h[i] \in Nat
  OBVIOUS
<1> DEFINE S == {n \in Nat : \A i \in 1..Len(h) :
                     i + n + 1 \in 1..Len(h) => h[i] < h[i + n + 1]}
<1>2. 0 \in S
  BY <1>1
<1>3. ASSUME NEW n \in Nat, n \in S
      PROVE  n + 1 \in S
  <2> SUFFICES ASSUME NEW i \in 1..Len(h), i + n + 2 \in 1..Len(h)
               PROVE  h[i] < h[i + n + 2]
    BY <1>1
  <2>1. i + n + 1 \in 1..(Len(h) - 1) /\ i + n + 1 \in 1..Len(h)
        /\ i + n + 1 + 1 = i + n + 2
    BY <1>1
  <2>2. h[i] < h[i + n + 1] /\ h[i + n + 1] < h[i + n + 2]
    BY <1>3, <2>1
  <2> QED
    BY <1>1, <2>1, <2>2
<1> HIDE DEF S
<1>4. \A n \in Nat : n \in S
  BY <1>2, <1>3, InductionBySet
<1> SUFFICES ASSUME NEW i \in 1..Len(h), NEW j \in 1..Len(h), i < j
             PROVE  h[i] < h[j]
  OBVIOUS
<1>5. j - i - 1 \in S /\ i + (j - i - 1) + 1 = j
  BY <1>1, <1>4
<1> QED
  BY <1>5 DEF S

\* The members of a sequence, and those of one that is a little longer or
\* shorter.
LEMMA Members ==
    ASSUME NEW S, NEW s \in Seq(S)
    PROVE  /\ Range(s) = {s[i] : i \in 1..Len(s)}
           /\ \A e \in S : Range(Append(s, e)) = Range(s) \cup {e}
           /\ s # <<>> => Range(s) = Range(Tail(s)) \cup {Head(s)}
<1>1. Len(s) \in Nat /\ DOMAIN s = 1..Len(s)
  OBVIOUS
<1>2. Range(s) = {s[i] : i \in 1..Len(s)}
  BY <1>1 DEF Range
<1>3. ASSUME NEW e \in S
      PROVE  Range(Append(s, e)) = Range(s) \cup {e}
  <2> DEFINE t == Append(s, e)
  <2>1. /\ DOMAIN t = 1..(Len(s) + 1) /\ t[Len(s) + 1] = e
        /\ \A i \in 1..Len(s) : t[i] = s[i]
    BY <1>1, AppendProperties
  <2> HIDE DEF t
  <2>2. Range(t) = {t[i] : i \in 1..(Len(s) + 1)}
    BY <2>1 DEF Range
  <2>3. Range(t) = Range(s) \cup {e}
    BY <1>1, <1>2, <2>1, <2>2
  <2> QED
    BY <2>3 DEF t
<1>4. ASSUME s # <<>>
      PROVE  Range(s) = Range(Tail(s)) \cup {Head(s)}
  <2> DEFINE t == Tail(s)
  <2>1. /\ DOMAIN t = 1..(Len(s) - 1) /\ Head(s) = s[1] /\ Len(s) > 0
        /\ \A i \in 1..(Len(s) - 1) : t[i] = s[i + 1]
    BY <1>1, <1>4, HeadTailProperties
  <2> HIDE DEF t
  <2>2. Range(t) = {t[i] : i \in 1..(Len(s) - 1)}
    BY <2>1 DEF Range
  <2>3. ASSUME NEW i \in 1..Len(s)
        PROVE  s[i] \in Range(t) \cup {Head(s)}
    <3>1. CASE i = 1
      BY <2>1, <3>1
    <3>2. CASE i # 1
      <4>1. i - 1 \in 1..(Len(s) - 1) /\ (i - 1) + 1 = i
        BY <1>1, <3>2
      <4> QED
        BY <2>1, <2>2, <4>1
    <3> QED
      BY <3>1, <3>2
  <2>4. ASSUME NEW i \in 1..(Len(s) - 1)
        PROVE  t[i] \in Range(s)
    <3>1. i + 1 \in 1..Len(s)
      BY <1>1
    <3> QED
      BY <1>2, <2>1, <3>1
  <2>5. Head(s) \in Range(s)
    BY <1>1, <1>2, <2>1
  <2>6. Range(s) = Range(t) \cup {Head(s)}
    BY <1>2, <2>2, <2>3, <2>4, <2>5
  <2> QED
    BY <2>6 DEF t
<1> QED
  BY <1>2, <1>3, <1>4

\* What a read finds is what the stream has after the last entry read.
LEMMA UnreadMembers ==
    ASSUME Bounded, NEW c \in Clients
    PROVE  /\ Range(Unread(c)) = {log[i] : i \in Later(c)}
           /\ Later(c) = {i \in 1..Len(log) : log[i] > last_id[c]}
<1>1. Len(log) \in Nat /\ DOMAIN log = 1..Len(log) /\ Len(published) \in Nat
  BY DEF Bounded, TypeOK
<1>2. Later(c) = {i \in 1..Len(log) : log[i] > last_id[c]}
  BY <1>1 DEF Later
<1>3. CASE Later(c) = {}
  BY <1>3, <1>2 DEF Unread, Range
<1>4. CASE Later(c) # {}
  <2> DEFINE u == Unread(c)
             S == 1..Len(published)
  <2>1. PICK k \in 1..Len(log) :
            /\ u \in Seq(S)
            /\ Len(u) = Len(log) - k + 1
            /\ \A i \in 1..Len(u) : u[i] = log[k + i - 1]
            /\ \A i \in 1..Len(log) : log[i] > last_id[c] <=> i >= k
    BY <1>4, UnreadRead
  <2> HIDE DEF u, S
  <2>2. Range(u) = {u[i] : i \in 1..Len(u)}
    BY <2>1, Members
  <2>3. ASSUME NEW i \in 1..Len(u)
        PROVE  u[i] \in {log[j] : j \in Later(c)}
    <3>1. k + i - 1 \in 1..Len(log) /\ k + i - 1 >= k
      BY <1>1, <2>1
    <3>2. k + i - 1 \in Later(c)
      BY <1>2, <2>1, <3>1
    <3> QED
      BY <2>1, <3>2
  <2>4. ASSUME NEW j \in Later(c)
        PROVE  log[j] \in Range(u)
    <3> DEFINE n == j - k + 1
    <3>1. j \in 1..Len(log) /\ j >= k
      BY <1>2, <2>1
    <3>2. n \in 1..Len(u) /\ k + n - 1 = j
      BY <1>1, <2>1, <3>1
    <3> HIDE DEF n
    <3> QED
      BY <2>1, <2>2, <3>2
  <2>5. Range(u) = {log[i] : i \in Later(c)}
    BY <2>2, <2>3, <2>4
  <2> QED
    BY <1>2, <2>5 DEF u
<1> QED
  BY <1>3, <1>4

\* The same of the state after a step.
LEMMA UnreadMembersNext ==
    ASSUME NEW c \in Clients, Bounded'
    PROVE  /\ Range(Unread(c))' = {log'[i] : i \in Later(c)'}
           /\ Later(c)' = {i \in 1..Len(log') : log'[i] > last_id'[c]}
<1> SUFFICES Bounded' => ( /\ Range(Unread(c)) = {log[i] : i \in Later(c)}
                           /\ Later(c) = {i \in 1..Len(log) : log[i] > last_id[c]} )'
  OBVIOUS
<1> QED
  BY UnreadMembers, PTL

LEMMA NoneSkippedNext == IInv' => NoneSkipped'
BY InvariantNoneSkipped, PTL

\* The last event that a client was sent, and how far another is from it.
Sent(c) == IF seen[c] = <<>> THEN 0 ELSE Last(seen[c])

Behind(c, rank) == rank - Sent(c)

\* What a reader has ahead of it comes after what it was sent.
LEMMA AwaitsLater ==
    ASSUME IInv, NEW c \in Clients, NEW rank, Awaits(c, rank)
    PROVE  rank \in Nat /\ Sent(c) \in Nat /\ Sent(c) < rank
<1>1. /\ TypeOK /\ Bounded /\ Increasing(Held(c)) /\ UpToLast(c)
      /\ Len(published) \in Nat
  BY DEF IInv, Bounded, Subscription, TypeOK
<1> DEFINE s == seen[c]
           t == pending[c]
           h == Held(c)
           total == Len(published)
<1>2. /\ Len(s) \in Nat /\ Len(t) \in Nat /\ Len(h) = Len(s) + Len(t)
      /\ \A i \in 1..Len(s) : h[i] = s[i]
      /\ \A i \in 1..Len(t) : h[Len(s) + i] = t[i]
      /\ \A i \in 1..Len(h) : h[i] \in 1..total
  BY <1>1, HeldTyped
<1>3. s \in Seq(Nat) /\ t \in Seq(Nat) /\ h \in Seq(Nat)
  BY <1>1, HeldRanks
<1>4. \A i \in 1..(Len(h) - 1) : h[i] < h[i + 1]
  BY <1>1 DEF Increasing
<1>5. Sent(c) = IF Len(s) = 0 THEN 0 ELSE s[Len(s)]
  <2>1. Len(s) = 0 <=> s = <<>>
    <3> HIDE DEF s, t, h, total
    <3> QED
      BY <1>3
  <2> QED
    BY <2>1 DEF Sent, Last
<1> HIDE DEF s, t, h, total
<1>6. \A i, j \in 1..Len(h) : i < j => h[i] < h[j]
  BY <1>3, <1>4, EarlierIsLess
<1>7. Sent(c) \in Nat /\ (Len(s) > 0 => Len(s) \in 1..Len(h) /\ Sent(c) = h[Len(s)])
  BY <1>1, <1>2, <1>5 DEF total
<1>8. CASE rank \in Range(t)
  <2>1. PICK i \in 1..Len(t) : rank = t[i]
    BY <1>3, <1>8, Members
  <2>2. Len(s) + i \in 1..Len(h) /\ rank = h[Len(s) + i] /\ Len(s) + i > Len(s)
    BY <1>2, <2>1
  <2>3. rank \in 1..total
    BY <1>2, <2>2
  <2>4. CASE Len(s) = 0
    BY <1>1, <1>5, <2>3, <2>4 DEF total
  <2>5. CASE Len(s) > 0
    BY <1>1, <1>6, <1>7, <2>2, <2>3, <2>5 DEF total
  <2> QED
    BY <1>2, <2>4, <2>5
<1>9. CASE backend = "redis" /\ rank \in Range(Unread(c))
  <2>1. PICK i \in 1..Len(log) : rank = log[i] /\ log[i] > last_id[c]
    BY <1>1, <1>9, UnreadMembers
  <2>2. rank \in 1..total /\ last_id[c] \in Nat
    BY <1>1, <2>1 DEF TypeOK, total
  <2>3. \A j \in 1..Len(h) : h[j] <= last_id[c]
    BY <1>1, <1>9 DEF UpToLast, h
  <2>4. CASE Len(s) = 0
    BY <1>1, <1>5, <2>2, <2>4 DEF total
  <2>5. CASE Len(s) > 0
    BY <1>1, <1>7, <2>1, <2>2, <2>3, <2>5 DEF total
  <2> QED
    BY <1>2, <2>4, <2>5
<1> QED
  BY <1>7, <1>8, <1>9 DEF Awaits, t

\* An event that was ahead still is, or the client was sent it, or leaves, or
\* the stream lost it before it was read.
Onward(c, rank) ==
    \/ Awaits(c, rank)' /\ Behind(c, rank)' <= Behind(c, rank)
    \/ rank \in Range(seen[c])'
    \/ (phase[c] # "open")'
    \/ rank \notin Range(pending[c]) /\ (rank \notin Range(log))'

\* A step that is not the reader's own takes nothing from its subscription.
LEMMA AheadKept ==
    ASSUME IInv, IInv', NEW c \in Clients, NEW rank, Awaits(c, rank),
           backend' = backend, seen'[c] = seen[c], last_id'[c] = last_id[c],
           phase'[c] = phase[c], Range(pending[c]) \subseteq Range(pending'[c])
    PROVE  Onward(c, rank)
<1>1. Bounded /\ Bounded'
  BY DEF IInv
<1>2. Sent(c)' = Sent(c)
  BY DEF Sent
<1>3. Behind(c, rank)' <= Behind(c, rank)
  <2>1. Behind(c, rank)' = Behind(c, rank) /\ Behind(c, rank) \in Int
    BY <1>2, AwaitsLater DEF Behind
  <2> QED
    BY <2>1
<1>4. CASE rank \in Range(pending[c])
  BY <1>3, <1>4 DEF Awaits, Onward
<1>5. CASE backend = "redis" /\ rank \in Range(Unread(c)) /\ rank \in Range(log')
  <2>2. PICK i \in Later(c) : rank = log[i] /\ log[i] > last_id[c]
    BY <1>1, <1>5, UnreadMembers
  <2>3. PICK j \in 1..Len(log') : rank = log'[j]
    <3>1. log' \in Seq(1..Len(published'))
      BY <1>1 DEF Bounded, TypeOK
    <3> QED
      BY <1>5, <3>1, Members
  <2>4. /\ Range(Unread(c))' = {log'[n] : n \in Later(c)'}
        /\ Later(c)' = {n \in 1..Len(log') : log'[n] > last_id'[c]}
    BY <1>1, UnreadMembersNext
  <2>5. j \in Later(c)'
    BY <2>2, <2>3, <2>4
  <2>6. rank \in Range(Unread(c))'
    BY <2>3, <2>4, <2>5
  <2> QED
    BY <1>3, <1>5, <2>6 DEF Awaits, Onward
<1> QED
  BY <1>4, <1>5 DEF Awaits, Onward

\* What a reader receives is the first of what it has ahead.
LEMMA Received ==
    ASSUME IInv, IInv', NEW c \in Clients, Receive(c)
    PROVE  \E first :
               /\ Awaits(c, first) /\ Sent(c)' = first
               /\ Range(seen'[c]) = Range(seen[c]) \cup {first}
               /\ pending[c] = <<>> \/
                     /\ Range(pending[c]) = Range(pending'[c]) \cup {first}
                     /\ last_id'[c] = last_id[c]
<1>1. TypeOK /\ Bounded
  BY DEF IInv, Bounded
<1> DEFINE s == seen[c]
           t == pending[c]
           S == 1..Len(published)
<1>2. s \in Seq(S) /\ t \in Seq(S)
  BY <1>1 DEF TypeOK
<1>3. ASSUME NEW first \in S, seen'[c] = Append(s, first)
      PROVE  /\ Sent(c)' = first
             /\ Range(seen'[c]) = Range(seen[c]) \cup {first}
  <2> DEFINE a == Append(s, first)
  <2> HIDE DEF S, s
  <2>1. /\ a # <<>> /\ a[Len(a)] = first
        /\ Range(a) = Range(s) \cup {first}
    BY <1>2, AppendProperties, Members
  <2> HIDE DEF a
  <2>2. seen'[c] = a
    BY <1>3 DEF a
  <2>3. Sent(c)' = first
    BY <2>1, <2>2 DEF Sent, Last
  <2> QED
    BY <2>1, <2>2, <2>3 DEF s
<1>4. CASE Get(c)
  <2>1. /\ phase[c] = "open" /\ t # <<>> /\ seen'[c] = Append(s, Head(t))
        /\ pending'[c] = Tail(t) /\ last_id'[c] = last_id[c]
    BY <1>1, <1>4 DEF Get, Deliver, TypeOK
  <2>2. Head(t) \in S /\ Range(t) = Range(Tail(t)) \cup {Head(t)}
    <3> HIDE DEF S, s, t
    <3> QED
      BY <1>2, <2>1, Members
  <2>3. Awaits(c, Head(t))
    BY <2>1, <2>2 DEF Awaits
  <2>4. Sent(c)' = Head(t) /\ Range(seen'[c]) = Range(seen[c]) \cup {Head(t)}
    BY <1>3, <2>1, <2>2
  <2> QED
    BY <2>1, <2>2, <2>3, <2>4
<1>5. CASE Read(c)
  <2>1. /\ backend = "redis" /\ phase[c] = "open" /\ t = <<>> /\ Unread(c) # <<>>
        /\ seen'[c] = Append(s, Head(Entries(c)))
    BY <1>1, <1>5 DEF Read, Deliver, TypeOK
  <2> DEFINE r == Entries(c)
  <2>2. PICK k \in 1..Len(log) :
            /\ r \in Seq(S) /\ r # <<>>
            /\ Len(r) \in 1..(Len(log) - k + 1)
            /\ \A i \in 1..Len(r) : r[i] = log[k + i - 1]
            /\ \A i \in 1..Len(log) : log[i] > last_id[c] <=> i >= k
    BY <1>1, <2>1, EntriesRead
  <2> HIDE DEF r, S
  <2>3. Head(r) \in S /\ Head(r) = r[1] /\ 1 \in 1..Len(r)
    BY <2>2
  <2>4. Head(r) = log[k] /\ log[k] > last_id[c]
    <3>1. Len(log) \in Nat
      BY <1>1 DEF TypeOK
    <3> QED
      BY <2>2, <2>3, <3>1
  <2>5. Awaits(c, Head(r))
    <3>1. Head(r) \in Range(Unread(c))
      BY <1>1, <2>4, UnreadMembers
    <3> QED
      BY <2>1, <3>1 DEF Awaits
  <2>6. Sent(c)' = Head(r) /\ Range(seen'[c]) = Range(seen[c]) \cup {Head(r)}
    BY <1>3, <2>1, <2>3 DEF r
  <2> QED
    BY <2>1, <2>5, <2>6
<1> QED
  BY <1>4, <1>5 DEF Receive

\* The reader's own step: it is nearer, and what it was not sent is still
\* ahead.
LEMMA ReceivedNearer ==
    ASSUME IInv, IInv', NEW c \in Clients, NEW rank, Awaits(c, rank), Receive(c)
    PROVE  Behind(c, rank)' < Behind(c, rank) /\ Onward(c, rank)
<1>1. /\ TypeOK /\ Bounded /\ TypeOK' /\ Bounded' /\ NoneSkipped'
      /\ backend' = backend /\ log' = log
  BY NoneSkippedNext DEF IInv, Bounded, Receive, Get, Read, bus
<1>2. PICK first :
          /\ Awaits(c, first) /\ Sent(c)' = first
          /\ Range(seen'[c]) = Range(seen[c]) \cup {first}
          /\ pending[c] = <<>> \/
                /\ Range(pending[c]) = Range(pending'[c]) \cup {first}
                /\ last_id'[c] = last_id[c]
  BY Received
<1>3. /\ rank \in Nat /\ first \in Nat /\ Sent(c) \in Nat
      /\ Sent(c) < rank /\ Sent(c) < first
  BY <1>2, AwaitsLater
<1>4. Behind(c, rank)' < Behind(c, rank)
  <2>1. Behind(c, rank)' = rank - first /\ Behind(c, rank) = rank - Sent(c)
    BY <1>2 DEF Behind
  <2> QED
    BY <1>3, <2>1
<1>5. Behind(c, rank)' <= Behind(c, rank)
  <2>1. Behind(c, rank)' = rank - first /\ Behind(c, rank) = rank - Sent(c)
    BY <1>2 DEF Behind
  <2> QED
    BY <1>3, <2>1
<1> SUFFICES ASSUME phase'[c] = "open", rank \notin Range(seen'[c])
             PROVE  Awaits(c, rank)'
  BY <1>4, <1>5 DEF Onward
<1>6. CASE rank \in Range(pending[c])
  <2>1. pending[c] # <<>>
    BY <1>6 DEF Range
  <2> QED
    BY <1>2, <1>6, <2>1 DEF Awaits
<1>7. CASE backend = "redis" /\ rank \in Range(Unread(c))
  <2>1. PICK i \in Later(c) : rank = log[i]
    BY <1>1, <1>7, UnreadMembers
  <2>2. i \in DOMAIN log' /\ i \in 1..Len(log')
    BY <1>1, <2>1, UnreadMembers DEF Later
  <2>3. rank \in Range(pending'[c]) \/ (backend' = "redis" /\ rank > last_id'[c])
    BY <1>1, <2>1, <2>2 DEF NoneSkipped
  <2>4. ASSUME backend' = "redis", rank > last_id'[c]
        PROVE  rank \in Range(Unread(c))'
    BY <1>1, <2>1, <2>2, <2>4, UnreadMembersNext
  <2> QED
    BY <2>3, <2>4 DEF Awaits
<1> QED
  BY <1>6, <1>7 DEF Awaits

LEMMA OnwardStep ==
    ASSUME IInv, IInv', [Next]_vars, NEW c \in Clients, NEW rank, Awaits(c, rank)
    PROVE  Onward(c, rank)
<1>1. TypeOK /\ phase[c] = "open"
  BY DEF IInv, Bounded, Awaits
<1>2. ASSUME NEW terminal \in BOOLEAN,
             PublishInMemory(terminal) \/ PublishToStream(terminal)
      PROVE  Onward(c, rank)
  <2>1. /\ backend' = backend /\ seen' = seen /\ last_id' = last_id
        /\ phase' = phase
    BY <1>2 DEF PublishInMemory, PublishToStream, readers
  <2>2. \/ pending'[c] = pending[c]
        \/ pending'[c] = Append(pending[c], NextRank)
    BY <1>1, <1>2 DEF PublishInMemory, PublishToStream, readers, TypeOK
  <2>3. Range(pending[c]) \subseteq Range(pending'[c])
    <3> DEFINE t == pending[c]
    <3>1. t \in Seq(Nat) /\ NextRank \in Nat
      BY <1>1, HeldRanks DEF TypeOK, NextRank
    <3> HIDE DEF t
    <3>2. Range(t) \subseteq Range(Append(t, NextRank))
      BY <3>1, Members
    <3> QED
      BY <2>2, <3>2 DEF t
  <2> QED
    BY <2>1, <2>3, AheadKept
<1>3. CASE Expire \/ UNCHANGED vars
  BY <1>3, AheadKept DEF Expire, vars, bus, readers
<1>4. CASE Restart
  BY <1>4 DEF Restart, Onward
<1>5. ASSUME NEW d \in Clients, Subscribe(d) \/ Receive(d) \/ Close(d)
      PROVE  Onward(c, rank)
  <2>1. CASE d # c
    <3>1. /\ backend' = backend /\ seen'[c] = seen[c] /\ last_id'[c] = last_id[c]
          /\ phase'[c] = phase[c] /\ pending'[c] = pending[c]
      BY <1>1, <1>5, <2>1
      DEF Subscribe, Receive, Get, Read, Deliver, Close, bus, TypeOK
    <3> QED
      BY <3>1, AheadKept
  <2>2. CASE d = c /\ Receive(c)
    BY <2>2, ReceivedNearer
  <2>3. CASE d = c /\ Close(c)
    BY <1>1, <2>3 DEF Close, Onward, TypeOK
  <2>4. CASE d = c /\ Subscribe(c)
    BY <1>1, <2>4 DEF Subscribe
  <2> QED
    BY <1>5, <2>1, <2>2, <2>3, <2>4
<1> QED
  BY <1>2, <1>3, <1>4, <1>5 DEF Next

\* A reader reaches every event that it has ahead: each event that it is sent
\* brings it nearer, nothing that the bus or others do sets it back, and until
\* it was sent the event it keeps it ahead, unless it leaves or the Redis
\* stream drops what it has not read yet (that it goes on is the fairness of
\* StreamEnds).
THEOREM StreamGetsNearer ==
    ASSUME NEW c \in Clients, NEW rank
    PROVE  Spec =>
               /\ [](Awaits(c, rank) => Behind(c, rank) \in Nat \ {0})
               /\ [][Awaits(c, rank) =>
                        /\ Receive(c) => Behind(c, rank)' < Behind(c, rank)
                        /\ Onward(c, rank)]_vars
<1>1. IInv => (Awaits(c, rank) => Behind(c, rank) \in Nat \ {0})
  BY AwaitsLater DEF Behind
<1>2. IInv /\ IInv' /\ [Next]_vars =>
          [Awaits(c, rank) =>
               /\ Receive(c) => Behind(c, rank)' < Behind(c, rank)
               /\ Onward(c, rank)]_vars
  BY ReceivedNearer, OnwardStep
<1> QED
  BY <1>1, <1>2, EventBusInvariant, PTL DEF Spec
=============================================================================
