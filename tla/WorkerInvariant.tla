--------------------------- MODULE WorkerInvariant ---------------------------
(***************************************************************************)
(* The inductive invariant of the worker of microdoh3, for any number of   *)
(* queries and addresses, any upstream sets and any values of its timers:  *)
(* it holds at the start, and every step keeps the types and the books of  *)
(* the queries.  WorkerProofs has the rest of the invariant.               *)
(***************************************************************************)
EXTENDS Worker, TLAPS

\* The solver gets more than its 5 seconds, for slow machines.
USE SMTT(30)

-----------------------------------------------------------------------------
(* The inductive invariant. *)

\* TypeOK in parts.
Event == [kind : {"response", "failed", "goaway"}, stream : Streams, of : Query \cup {None}]
ConnType ==
  /\ conn \in {"none", "handshake", "up", "drained"}
  /\ preambles \in 0..2 /\ nextStream \in 0..Cardinality(Query)
  /\ ticket \in BOOLEAN /\ early \in BOOLEAN
  /\ h3 \in [Streams -> Query \cup {None}]
FlagType ==
  /\ h3_ready \in BOOLEAN /\ goaway \in BOOLEAN
  /\ reconnect_at \in NotSet..(BackoffMax + ConnectRetry) /\ backoff \in 0..BackoffMax
QueryType ==
  /\ pending \in [Streams -> Query \cup {None}]
  /\ queue \in Seq(Query) /\ Len(queue) <= MaxQueued
  /\ left \in [Query -> 0..Timeout] /\ received \subseteq Query
ReplyType ==
  /\ replies \in [Query -> 0..2] /\ answer \in [Query -> Query \cup {None, "servfail"}]
PathType ==
  /\ my_remote \in Addr /\ set \in UpstreamSets /\ page \in UpstreamSets
  /\ fail_streak \in 0..2 /\ since_migrate \in 0..MigrateMin
  /\ quality \subseteq Addr /\ pages \in 0..MaxPages
LoopType ==
  /\ pc \in {"wait", "batch", "dns", "quic", "flush", "h3", "expire", "migrate",
             "reconnect", "stopping", "stopped", "exited"}
  /\ todo \subseteq {"dns", "quic", "timer", "signal"} /\ shutdown \in BOOLEAN

\* Which queries are where: one not received yet is nowhere, one that is in
\* flight or queued is unanswered, and in one place only.
Books ==
  /\ \A q \in Query \ received : replies[q] = 0 /\ q \notin InFlight /\ q \notin Queued
  /\ \A q \in InFlight \cup Queued : replies[q] = 0
  /\ \A s, t \in Streams : pending[s] # None /\ pending[s] = pending[t] => s = t
  /\ \A i, j \in 1..Len(queue) : queue[i] = queue[j] => i = j
  /\ InFlight \cap Queued = {}

\* What the connection knows of a stream agrees with the pending table, or the
\* entry is gone; events of streams wait only inside the QUIC handler.
Wires ==
  /\ \A s \in Streams : h3[s] # None => s < nextStream /\ pending[s] \in {None, h3[s]}
  /\ \A i \in 1..Len(h3_events) :
       h3_events[i].kind = "response" => pending[h3_events[i].stream] \in {None, h3_events[i].of}
  /\ h3_events # <<>> => pc = "h3" \/ (pc = "quic" /\ conn = "up")

\* There is a stream id for every query that can still be sent.
Room == nextStream + Len(queue) <= Cardinality(received)

\* The state of the connection.
Conn ==
  /\ h3_ready => conn # "none" /\ preambles >= 1
  /\ conn # "none" /\ nextStream > 0 => preambles >= 1
  /\ conn # "none" => preambles <= 1 \/ early
  /\ conn = "handshake" /\ ~h3_ready /\ ~early => preambles = 0
  /\ conn = "none" => reconnect_at # NotSet
  /\ pc = "flush" => h3_ready /\ conn = "up"
  /\ h3_ready /\ ~early /\ pc # "flush" => queue = <<>>

\* Housekeeping has expired what was due.
Expired ==
  pc \in {"migrate", "reconnect"} =>
    /\ \A q \in InFlight : left[q] # 0
    /\ queue # <<>> => left[Head(queue)] # 0

\* What the proof takes from the library on finite sets and natural numbers;
\* WorkerProofs shows it.
Counting ==
  /\ Cardinality({}) = 0 /\ Cardinality(Query) > 0
  /\ \A R \in SUBSET Query :
       /\ Cardinality(R) \in Nat /\ Cardinality(R) <= Cardinality(Query)
       /\ \A q \in Query \ R : /\ Cardinality(R \cup {q}) = Cardinality(R) + 1
                               /\ Cardinality(R) < Cardinality(Query)
  /\ \A T \in SUBSET Nat : T # {} => \E k \in T : \A y \in T : k <= y

IInv == TypeOK /\ Books /\ Wires /\ Room /\ Conn /\ Expired /\ ScoreOfOwnAddress
-----------------------------------------------------------------------------
(* Facts about the operators. *)

\* The type invariant of Worker is its parts.
LEMMA TypeParts ==
  TypeOK <=> /\ LoopType /\ ConnType /\ FlagType /\ QueryType /\ ReplyType /\ PathType
             /\ h3_events \in Seq(Event)
  BY Zenon DEF TypeOK, LoopType, ConnType, FlagType, QueryType, ReplyType, PathType, Event

\* The constants, one by one.
LEMMA Constants ==
  /\ MaxQueued \in Nat /\ MaxQueued > 0 /\ Timeout \in Nat /\ Timeout > 0
  /\ ConnectRetry \in Nat /\ ConnectRetry > 0 /\ BackoffMax \in Nat /\ BackoffMax > 0
  /\ FailMigrate \in Nat /\ MigrateMin \in Nat /\ MaxPages \in Nat
  BY WorkerAssumption

\* There is a stream for every query.
LEMMA StreamCount ==
  ASSUME Counting
  PROVE  Cardinality(Query) \in Nat /\ Cardinality(Query) > 0 /\ 0 \in Streams
  <1>1. Cardinality(Query) \in Nat /\ Cardinality(Query) > 0
    BY Zenon DEF Counting
  <1> QED  BY <1>1 DEF Streams

\* The expired front of the queue: every query in it is due, the one behind it
\* is not.
LEMMA FrontExpired ==
  ASSUME Counting, TypeOK
  PROVE  /\ ExpiredFront \in 0..Len(queue)
         /\ \A i \in 1..ExpiredFront : left[queue[i]] = 0
         /\ ExpiredFront < Len(queue) => left[queue[ExpiredFront + 1]] # 0
  <1> DEFINE Stops == {k \in 0..Len(queue) : k < Len(queue) => left[queue[k + 1]] # 0}
  <1>1. Len(queue) \in Nat
    BY DEF TypeOK
  <1>2. Stops \subseteq Nat /\ Len(queue) \in Stops
    BY <1>1
  <1>3. PICK k \in Stops : \A y \in Stops : k <= y
    <2> HIDE DEF Stops
    <2> QED  BY <1>2, Zenon DEF Counting
  <1>4. \A y \in Stops : ~ (y < k)
    BY <1>2, <1>3
  <1>5. ASSUME NEW i \in 1..k PROVE left[queue[i]] = 0
    <2>1. i - 1 \in 0..Len(queue) /\ i - 1 < k /\ (i - 1) + 1 = i
      BY <1>1
    <2> QED  BY <1>4, <2>1, Zenon
  <1> QED  BY <1>5, Zenon DEF ExpiredFront

-----------------------------------------------------------------------------
(* The invariant holds initially. *)

\* The inductive invariant holds when a worker starts.
LEMMA InitIInv == Counting /\ Init => IInv
  <1> SUFFICES ASSUME Counting, Init PROVE IInv
    BY Zenon
  <1>0. InFlight = {} /\ Queued = {}
    BY DEF Init, InFlight, Queued, NoStreams
  <1>1. TypeOK
    <2>1. set \in UpstreamSets /\ page \in UpstreamSets /\ my_remote \in Addr
      BY WorkerAssumption, Zenon DEF Init
    <2>2. h3 \in [Streams -> Query \cup {None}] /\ pending \in [Streams -> Query \cup {None}]
      BY Zenon DEF Init, NoStreams
    <2>3. /\ left \in [Query -> 0..Timeout] /\ replies \in [Query -> 0..2]
          /\ answer \in [Query -> Query \cup {None, "servfail"}]
      BY Constants DEF Init
    <2>4. /\ LoopType /\ ConnType /\ FlagType /\ QueryType /\ ReplyType /\ PathType
          /\ h3_events \in Seq(Event)
      <3>1. h3_events \in Seq(Event)
        BY DEF Init
      <3>2. LoopType /\ ConnType
        <4>1. shutdown \in BOOLEAN /\ ticket \in BOOLEAN /\ early \in BOOLEAN
          BY Zenon DEF Init
        <4>2. preambles \in 0..2 /\ nextStream \in 0..Cardinality(Query)
          BY StreamCount DEF Init
        <4> QED  BY <2>2, <4>1, <4>2, Zenon DEF Init, LoopType, ConnType
      <3>3. FlagType
        <4>1. h3_ready \in BOOLEAN /\ goaway \in BOOLEAN
          BY Zenon DEF Init
        <4>2. reconnect_at = -1 /\ backoff = 0
          BY Zenon DEF Init, NotSet
        <4> QED  BY <4>1, <4>2, Constants DEF FlagType, NotSet
      <3>4. QueryType
        BY <2>2, <2>3, Constants DEF Init, QueryType
      <3>5. ReplyType /\ PathType
        BY <2>1, <2>3, Constants DEF Init, ReplyType, PathType
      <3> QED  BY <3>1, <3>2, <3>3, <3>4, <3>5, Zenon
    <2> QED  BY <2>4, TypeParts, Zenon
  <1>2. Books
    BY <1>0 DEF Init, Books, NoStreams
  <1>3. Wires
    BY DEF Init, Wires, NoStreams
  <1>4. Room
    BY DEF Init, Room, Counting
  <1> QED  BY <1>1, <1>2, <1>3, <1>4 DEF Init, IInv, Conn, Expired, ScoreOfOwnAddress

-----------------------------------------------------------------------------
(* The type of every variable is kept. *)

\* A SERVFAIL leaves the books of the replies in range.
LEMMA ServfailTypes ==
  ASSUME ReplyType, NEW Q, ServfailAll(Q)
  PROVE  ReplyType'
  BY DEF ServfailAll, ReplyType, Least

\* What a dispatched query leaves in range.
LEMMA DispatchTypes ==
  ASSUME Counting, ConnType, QueryType, ReplyType, NEW q \in Query, DispatchQuery(q),
         nextStream < Cardinality(Query)
  PROVE  /\ nextStream' \in 0..Cardinality(Query)
         /\ h3' \in [Streams -> Query \cup {None}]
         /\ pending' \in [Streams -> Query \cup {None}]
         /\ left' \in [Query -> 0..Timeout]
         /\ ReplyType'
  <1>1. nextStream \in Streams /\ nextStream + 1 \in 0..Cardinality(Query)
    BY StreamCount DEF ConnType, Streams
  <1>2. CASE ServfailAll({q}) /\ UNCHANGED <<pending, h3, left>> /\ nextStream' \in {nextStream, nextStream + 1}
    BY <1>1, <1>2, ServfailTypes, Zenon DEF ConnType, QueryType
  <1>3. CASE /\ nextStream' = nextStream + 1
             /\ h3' = [h3 EXCEPT ![nextStream] = q]
             /\ pending' = [pending EXCEPT ![nextStream] = q]
             /\ left' = [left EXCEPT ![q] = Timeout]
             /\ UNCHANGED replyVars
    BY <1>1, <1>3, Constants DEF ConnType, QueryType, ReplyType, replyVars
  <1> QED  BY <1>2, <1>3, Zenon DEF DispatchQuery

\* Every step of the worker keeps the types.
LEMMA TypeStep == Counting /\ IInv /\ [Next]_vars => TypeOK'
  <1> SUFFICES ASSUME Counting, IInv, [Next]_vars
               PROVE  /\ LoopType' /\ ConnType' /\ FlagType' /\ QueryType' /\ ReplyType' /\ PathType'
                      /\ h3_events' \in Seq(Event)
    BY Zenon DEF TypeOK, LoopType, ConnType, FlagType, QueryType, ReplyType, PathType, Event
  <1> USE Constants, StreamCount
  <1> USE DEF loopVars, connVars, flagVars, queryVars, replyVars, pathVars, pageVars
  <1>0. /\ LoopType /\ ConnType /\ FlagType /\ QueryType /\ ReplyType /\ PathType
        /\ h3_events \in Seq(Event)
    BY TypeParts, Zenon DEF IInv
  <1>n. NoStreams \in [Streams -> Query \cup {None}]
    BY Zenon DEF NoStreams
  <1>q. ASSUME UNCHANGED <<connVars, h3_events, flagVars, queryVars, replyVars, pathVars, pageVars>>
        PROVE  ConnType' /\ FlagType' /\ QueryType' /\ ReplyType' /\ PathType' /\ h3_events' \in Seq(Event)
    BY <1>0, <1>q, Zenon DEF ConnType, FlagType, QueryType, ReplyType, PathType
  <1>1. CASE UNCHANGED vars
    BY <1>0, <1>1, <1>q, Zenon DEF vars, LoopType
  <1>2. CASE Wake
    BY <1>0, <1>2, <1>q, Zenon DEF Wake, LoopType, Ready
  <1>3. CASE Tick
    <2>1. left' \in [Query -> 0..Timeout]
      BY <1>0, <1>3 DEF Tick, QueryType, Decr
    <2>2. reconnect_at' \in NotSet..(BackoffMax + ConnectRetry)
      BY <1>0, <1>3 DEF Tick, FlagType, Decr, NotSet
    <2>3. since_migrate' \in 0..MigrateMin
      BY <1>0, <1>3 DEF Tick, PathType, Least
    <2> QED  BY <1>0, <1>3, <2>1, <2>2, <2>3, Zenon
             DEF Tick, LoopType, ConnType, FlagType, QueryType, ReplyType, PathType
  <1>4. CASE Publish
    BY <1>0, <1>4 DEF Publish, LoopType, ConnType, FlagType, QueryType, ReplyType, PathType
  <1>5. CASE Signal \/ DrainDone \/ FlushDone \/ QuicPolled \/ QuicDone \/ TimerSendError
    BY <1>0, <1>5, <1>q, Zenon
    DEF Signal, DrainDone, FlushDone, QuicPolled, QuicDone, TimerSendError, LoopType
  <1>6. CASE EndBatch
    <2>1. LoopType' /\ PathType' /\ h3_events' \in Seq(Event)
      BY <1>0, <1>6 DEF EndBatch, LoopType, PathType, Least
    <2>2. CASE conn = "drained"
      <3>1. ConnType' /\ QueryType'
        <4>1. h3' = NoStreams /\ pending' = NoStreams /\ nextStream' = 0 /\ conn' = "none"
          BY <1>6, <2>2, Zenon DEF EndBatch, FailAllPending, DropConnection
        <4>2. early' \in BOOLEAN /\ preambles' \in 0..2 /\ ticket' \in BOOLEAN
          BY <1>0, <1>6, <2>2 DEF EndBatch, DropConnection, ConnType
        <4>3. UNCHANGED <<queue, left, received>>
          BY <1>6, Zenon DEF EndBatch
        <4> QED  BY <1>0, <1>n, <4>1, <4>2, <4>3 DEF ConnType, QueryType
      <3>2. ReplyType'
        BY <1>0, <1>6, <2>2, ServfailTypes, Zenon DEF EndBatch, FailAllPending
      <3>3. FlagType'
        <4>1. h3_ready' = FALSE /\ goaway' = FALSE /\ UNCHANGED backoff /\ reconnect_at' = DrainedReconnect
          BY <1>6, <2>2, Zenon DEF EndBatch
        <4>2. h3_ready' \in BOOLEAN /\ goaway' \in BOOLEAN
          BY <4>1, Zenon
        <4> QED  BY <1>0, <4>1, <4>2 DEF FlagType, DrainedReconnect, NotSet
      <3> QED  BY <2>1, <3>1, <3>2, <3>3, Zenon
    <2>3. CASE conn # "drained"
      BY <1>0, <1>6, <2>1, <2>3, Zenon DEF EndBatch, ConnType, QueryType, ReplyType, FlagType
    <2> QED  BY <2>2, <2>3, Zenon
  <1>7. CASE Stop
    <2>1. ReplyType'
      BY <1>0, <1>7, ServfailTypes, Zenon DEF Stop, FailAllPending
    <2>2. QueryType'
      BY <1>0, <1>7, Zenon DEF Stop, FailAllPending, QueryType, NoStreams
    <2> QED  BY <1>0, <1>7, <2>1, <2>2, Zenon DEF Stop, LoopType, ConnType, FlagType, PathType
  <1>8. ASSUME NEW q \in Query, DrainQuery(q)
        PROVE  /\ LoopType' /\ ConnType' /\ FlagType' /\ QueryType' /\ ReplyType' /\ PathType'
               /\ h3_events' \in Seq(Event)
    <2>1. received' \subseteq Query
      BY <1>0, <1>8, Zenon DEF DrainQuery, QueryType
    <2>2. nextStream < Cardinality(Query)
      <3>1. Cardinality(received) < Cardinality(Query) /\ Cardinality(received) \in Nat
        BY <1>0, <1>8, Zenon DEF DrainQuery, QueryType, Counting
      <3>2. nextStream + Len(queue) <= Cardinality(received) /\ nextStream \in Nat /\ Len(queue) \in Nat
        BY <1>0 DEF IInv, Room, ConnType, QueryType
      <3> QED  BY <3>1, <3>2
    <2>3. LoopType' /\ FlagType' /\ PathType' /\ h3_events' \in Seq(Event)
      BY <1>0, <1>8, Zenon DEF DrainQuery, LoopType, FlagType, PathType
    <2>4. CASE ServfailAll({q}) /\ UNCHANGED <<pending, h3, nextStream, left, queue>>
      <3>1. ReplyType'
        BY <1>0, <2>4, ServfailTypes, Zenon
      <3> QED  BY <1>0, <1>8, <2>1, <2>3, <2>4, <3>1, Zenon DEF DrainQuery, ConnType, QueryType
    <2>5. CASE /\ Len(queue) < MaxQueued /\ queue' = Append(queue, q)
               /\ left' = [left EXCEPT ![q] = Timeout]
               /\ UNCHANGED <<replyVars, pending, h3, nextStream>>
      <3>1. queue' \in Seq(Query) /\ Len(queue') <= MaxQueued
        BY <1>0, <2>5 DEF QueryType
      <3>2. left' \in [Query -> 0..Timeout]
        BY <1>0, <2>5 DEF QueryType
      <3> QED  BY <1>0, <1>8, <2>1, <2>3, <2>5, <3>1, <3>2, Zenon DEF DrainQuery, ConnType, QueryType, ReplyType
    <2>6. CASE DispatchQuery(q) /\ UNCHANGED queue
      BY <1>0, <1>8, <2>1, <2>2, <2>3, <2>6, DispatchTypes DEF DrainQuery, ConnType, QueryType
    <2>7. Len(queue) \in Nat
      BY <1>0 DEF QueryType
    <2> QED  BY <1>8, <2>4, <2>5, <2>6, <2>7 DEF DrainQuery
  <1>10. CASE Connected
    BY <1>0, <1>10
    DEF Connected, ConnectedPreambles, AfterConnected, Least, NotSet,
        LoopType, ConnType, FlagType, QueryType, ReplyType, PathType
  <1>11. CASE FlushQuery
    <2>1. /\ Head(queue) \in Query /\ Tail(queue) \in Seq(Query)
          /\ Len(Tail(queue)) = Len(queue) - 1 /\ Len(queue) >= 1 /\ Len(queue) \in Nat
      BY <1>0, <1>11 DEF FlushQuery, QueryType
    <2>2. nextStream < Cardinality(Query)
      <3>1. nextStream + Len(queue) <= Cardinality(received) /\ nextStream \in Nat
        BY <1>0 DEF IInv, Room, ConnType
      <3>2. Cardinality(received) \in Nat /\ Cardinality(received) <= Cardinality(Query)
        BY <1>0, Zenon DEF QueryType, Counting
      <3> QED  BY <2>1, <3>1, <3>2
    <2>3. LoopType' /\ FlagType' /\ PathType' /\ h3_events' \in Seq(Event)
      BY <1>0, <1>11, Zenon DEF FlushQuery, LoopType, FlagType, PathType
    <2>4. queue' \in Seq(Query) /\ Len(queue') <= MaxQueued
      BY <1>0, <1>11, <2>1 DEF FlushQuery, QueryType
    <2>5. CASE ServfailAll({Head(queue)}) /\ UNCHANGED <<pending, h3, nextStream, left>>
      BY <1>0, <1>11, <2>3, <2>4, <2>5, ServfailTypes, Zenon DEF FlushQuery, ConnType, QueryType
    <2>6. CASE DispatchQuery(Head(queue))
      <3>1. /\ nextStream' \in 0..Cardinality(Query)
            /\ h3' \in [Streams -> Query \cup {None}]
            /\ pending' \in [Streams -> Query \cup {None}]
            /\ left' \in [Query -> 0..Timeout]
            /\ ReplyType'
        BY <1>0, <2>1, <2>2, <2>6, DispatchTypes
      <3>2. UNCHANGED <<conn, preambles, ticket, early, received>>
        BY <1>11, Zenon DEF FlushQuery
      <3> QED  BY <1>0, <2>3, <2>4, <3>1, <3>2, Zenon DEF ConnType, QueryType
    <2> QED  BY <1>11, <2>5, <2>6, Zenon DEF FlushQuery
  <1>13. ASSUME NEW closed \in BOOLEAN, ConnectionLost(closed)
         PROVE  /\ LoopType' /\ ConnType' /\ FlagType' /\ QueryType' /\ ReplyType' /\ PathType'
                /\ h3_events' \in Seq(Event)
    <2>1. ConnType' /\ QueryType'
      <3>1. h3' = NoStreams /\ pending' = NoStreams /\ nextStream' = 0 /\ conn' = "none"
        BY <1>13, Zenon DEF ConnectionLost, FailAllPending, DropConnection
      <3>2. early' \in BOOLEAN /\ ticket' \in BOOLEAN /\ preambles' = 0 /\ 0 \in 0..2
        <4>1. 0 \in 0..2
          OBVIOUS
        <4> QED  BY <1>0, <1>13, <4>1, Zenon DEF ConnectionLost, DropConnection, ConnType
      <3>3. UNCHANGED <<queue, left, received>>
        BY <1>13, Zenon DEF ConnectionLost
      <3> QED  BY <1>0, <1>n, <3>1, <3>2, <3>3 DEF ConnType, QueryType
    <2>2. ReplyType'
      BY <1>0, <1>13, ServfailTypes, Zenon DEF ConnectionLost, FailAllPending
    <2>3. FlagType'
      <3>1. /\ h3_ready' = FALSE /\ goaway' = FALSE /\ reconnect_at' = backoff
            /\ backoff' = NextBackoff
        BY <1>13, Zenon DEF ConnectionLost
      <3>2. h3_ready' \in BOOLEAN /\ goaway' \in BOOLEAN
        BY <3>1, Zenon
      <3> QED  BY <1>0, <3>1, <3>2 DEF FlagType, NextBackoff, Least, NotSet
    <2>4. PathType' /\ LoopType' /\ h3_events' \in Seq(Event)
      BY <1>0, <1>13 DEF ConnectionLost, PathType, LoopType, Least
    <2> QED  BY <2>1, <2>2, <2>3, <2>4, Zenon
  <1>14. ASSUME NEW s \in Streams, NEW o \in {"response", "failed", "silent"}, StreamEnd(s, o)
         PROVE  /\ LoopType' /\ ConnType' /\ FlagType' /\ QueryType' /\ ReplyType' /\ PathType'
                /\ h3_events' \in Seq(Event)
    <2>1. h3' \in [Streams -> Query \cup {None}] /\ h3[s] \in Query
      BY <1>0, <1>14, Zenon DEF StreamEnd, ConnType
    <2>2. h3_events' \in Seq(Event)
      <3>1. o # "silent" => [kind |-> o, stream |-> s, of |-> h3[s]] \in Event
        BY <2>1, Zenon DEF Event
      <3>2. \A e \in Event : Append(h3_events, e) \in Seq(Event)
        BY <1>0
      <3> QED  BY <1>0, <1>14, <3>1, <3>2, Zenon DEF StreamEnd
    <2>3. ConnType'
      BY <1>0, <1>14, <2>1, Zenon DEF StreamEnd, ConnType
    <2> QED  BY <1>0, <1>14, <2>2, <2>3, Zenon DEF StreamEnd, LoopType, FlagType, QueryType, ReplyType, PathType
  <1>15. CASE GoawayFrame
    <2>1. [kind |-> "goaway", stream |-> 0, of |-> None] \in Event
      BY Zenon DEF Event
    <2>2. h3_events' \in Seq(Event)
      BY <1>0, <1>15, <2>1 DEF GoawayFrame
    <2> QED  BY <1>0, <1>15, <2>2, Zenon
             DEF GoawayFrame, LoopType, ConnType, FlagType, QueryType, ReplyType, PathType
  <1>17. CASE ApplyH3
    <2> DEFINE ev == Head(h3_events)
    <2>1. ev \in Event /\ h3_events' \in Seq(Event)
      BY <1>0, <1>17 DEF ApplyH3
    <2>2. ev.stream \in Streams /\ ev.of \in Query \cup {None} /\ pending[ev.stream] \in Query \cup {None}
      BY <1>0, <2>1, Zenon DEF Event, QueryType
    <2>3. LoopType' /\ ConnType'
      BY <1>0, <1>17, Zenon DEF ApplyH3, LoopType, ConnType
    <2>4. QueryType'
      BY <1>0, <1>17, <2>2, Zenon DEF ApplyH3, QueryType, PendingWithout
    <2>5. ReplyType'
      <3>1. CASE ServfailAll({pending[ev.stream]})
        BY <1>0, <3>1, ServfailTypes, Zenon
      <3>2. CASE UNCHANGED replyVars
        BY <1>0, <3>2, Zenon DEF ReplyType
      <3>3. CASE /\ pending[ev.stream] # None
                 /\ replies' = [replies EXCEPT ![pending[ev.stream]] = Least(@ + 1, 2)]
                 /\ answer' = [answer EXCEPT ![pending[ev.stream]] = ev.of]
        BY <1>0, <2>2, <3>3 DEF ReplyType, Least
      <3> QED  BY <1>17, <3>1, <3>2, <3>3, Zenon DEF ApplyH3
    <2>6. FlagType'
      <3>1. /\ reconnect_at' = reconnect_at \/ reconnect_at' = 0
            /\ goaway' = goaway \/ goaway' = TRUE
            /\ UNCHANGED <<h3_ready, backoff>>
        BY <1>17, Zenon DEF ApplyH3
      <3>2. h3_ready' \in BOOLEAN /\ goaway' \in BOOLEAN
        BY <1>0, <3>1, Zenon DEF FlagType
      <3> QED  BY <1>0, <3>1, <3>2 DEF FlagType, NotSet
    <2>7. PathType'
      BY <1>0, <1>17, Zenon DEF ApplyH3, PathType
    <2> QED  BY <2>1, <2>3, <2>4, <2>5, <2>6, <2>7, Zenon
  <1>19. CASE HandleTimeout
    BY <1>0, <1>19, Zenon DEF HandleTimeout, LoopType, ConnType, FlagType, QueryType, ReplyType, PathType
  <1>21. CASE Expire
    <2>1. queue' \in Seq(Query) /\ Len(queue') <= MaxQueued
      <3>1. ExpiredFront \in 0..Len(queue) /\ queue \in Seq(Query) /\ Len(queue) <= MaxQueued
        BY <1>0, FrontExpired, Zenon DEF IInv, QueryType
      <3>2. queue' = SubSeq(queue, ExpiredFront + 1, Len(queue))
        BY <1>21, Zenon DEF Expire
      <3> QED  BY <3>1, <3>2
    <2>2. QueryType'
      BY <1>0, <1>21, <2>1, Zenon DEF Expire, QueryType
    <2>3. ReplyType'
      BY <1>0, <1>21, ServfailTypes, Zenon DEF Expire
    <2> QED  BY <1>0, <1>21, <2>2, <2>3 DEF Expire, LoopType, ConnType, FlagType, PathType, NotSet
  <1>22. CASE Migrate
    <2>1. ASSUME NEW open \in BOOLEAN PROVE MigrationTargets(open) \subseteq Addr
      BY <1>0, WorkerAssumption, Zenon DEF PathType, MigrationTargets, BestAlternatives
    <2>2. PathType'
      BY <1>0, <1>22, <2>1 DEF Migrate, PathType, FreshQuality
    <2>3. FlagType'
      BY <1>0, <1>22 DEF Migrate, FlagType, NotSet
    <2> QED  BY <1>0, <1>22, <2>2, <2>3, Zenon DEF Migrate, LoopType, ConnType, QueryType, ReplyType
  <1>23. CASE Reconnect
    <2>1. LoopType' /\ QueryType' /\ ReplyType' /\ h3_events' \in Seq(Event)
      BY <1>0, <1>23, Zenon DEF Reconnect, LoopType, QueryType, ReplyType
    <2>2. CASE ~ReconnectDue
      BY <1>0, <1>23, <2>1, <2>2, Zenon DEF Reconnect, ConnType, FlagType, PathType
    <2>3. CASE ReconnectDue
      <3>1. ConnType'
        BY <1>0, <1>23, <2>3 DEF Reconnect, ConnectAndPreamble, ConnType, NoStreams
      <3>2. FlagType'
        BY <1>0, <1>23, <2>3 DEF Reconnect, ConnectAndPreamble, ConnType, FlagType, NotSet
      <3>3. PathType'
        <4>1. fail_streak' \in {fail_streak, Least(fail_streak + 1, 2)}
          BY <1>23, <2>3, Zenon DEF Reconnect, ConnectAndPreamble
        <4>2. UNCHANGED <<my_remote, set, since_migrate, quality, page, pages>>
          BY <1>23, Zenon DEF Reconnect
        <4> QED  BY <1>0, <4>1, <4>2 DEF PathType, Least
      <3> QED  BY <2>1, <3>1, <3>2, <3>3, Zenon
    <2> QED  BY <2>2, <2>3, Zenon
  <1> QED
    BY <1>1, <1>2, <1>3, <1>4, <1>5, <1>6, <1>7, <1>8, <1>10, <1>11, <1>13, <1>14, <1>15, <1>17,
       <1>19, <1>21, <1>22, <1>23
    DEF Next, Handlers

-----------------------------------------------------------------------------
(* The books: which queries are where. *)

\* queue' is queue without its first queries.
Suffix == /\ Len(queue') <= Len(queue)
          /\ \A i \in 1..Len(queue') : queue'[i] = queue[i + (Len(queue) - Len(queue'))]

\* A queue that lost its first queries has gained none.
LEMMA SuffixQueued ==
  ASSUME QueryType, QueryType', Suffix
  PROVE  Queued' \subseteq Queued
  <1>1. Len(queue) \in Nat /\ Len(queue') \in Nat
    BY DEF QueryType
  <1>2. ASSUME NEW i \in 1..Len(queue') PROVE i + (Len(queue) - Len(queue')) \in 1..Len(queue)
    BY <1>1 DEF Suffix
  <1> QED  BY <1>1, <1>2, Zenon DEF Suffix, Queued

\* Queries leave the books, and only queries that left are answered.
LEMMA BooksShrink ==
  ASSUME Books, QueryType, QueryType', ReplyType, received \subseteq received', Suffix,
         \A s \in Streams : pending'[s] \in {None, pending[s]},
         \A q \in Query : replies'[q] = replies[q]
                          \/ (q \in received' /\ q \notin InFlight' /\ q \notin Queued')
  PROVE  Books'
  <1>1. InFlight' \subseteq InFlight /\ InFlight \subseteq Query
    BY Zenon DEF InFlight, QueryType
  <1>2. Queued' \subseteq Queued /\ Queued \subseteq Query
    <2>1. Queued' \subseteq Queued
      BY SuffixQueued, Zenon
    <2>2. Queued \subseteq Query
      BY DEF Queued, QueryType
    <2> QED  BY <2>1, <2>2, Zenon
  <1>3. \A q \in Query \ received' : replies'[q] = 0 /\ q \notin InFlight' /\ q \notin Queued'
    BY <1>1, <1>2, Zenon DEF Books
  <1>4. \A q \in InFlight' \cup Queued' : replies'[q] = 0
    BY <1>1, <1>2, Zenon DEF Books
  <1>5. \A s, t \in Streams : pending'[s] # None /\ pending'[s] = pending'[t] => s = t
    BY Zenon DEF Books
  <1>6. ASSUME NEW i \in 1..Len(queue'), NEW j \in 1..Len(queue'), queue'[i] = queue'[j]
        PROVE  i = j
    <2>1. Len(queue) \in Nat /\ Len(queue') \in Nat
      BY DEF QueryType
    <2> DEFINE d == Len(queue) - Len(queue')
    <2>2. i + d \in 1..Len(queue) /\ j + d \in 1..Len(queue)
      BY <2>1 DEF Suffix
    <2>3. queue[i + d] = queue[j + d]
      BY <1>6, Zenon DEF Suffix
    <2>4. i + d = j + d
      BY <2>2, <2>3, Zenon DEF Books
    <2> QED  BY <2>1, <2>4
  <1>7. InFlight' \cap Queued' = {}
    BY <1>1, <1>2, Zenon DEF Books
  <1> QED  BY <1>3, <1>4, <1>5, <1>6, <1>7, Zenon DEF Books

\* A received query that is in neither place goes into the pending table.
LEMMA BooksDispatch ==
  ASSUME Books, QueryType, QueryType', ReplyType, UNCHANGED replies,
         received \subseteq received', Suffix,
         NEW n \in Streams, NEW q \in received', pending' = [pending EXCEPT ![n] = q],
         q \notin InFlight, q \notin Queued', replies[q] = 0
  PROVE  Books'
  <1>1. InFlight' \subseteq InFlight \cup {q} /\ InFlight \subseteq Query
    BY Zenon DEF InFlight, QueryType
  <1>2. Queued' \subseteq Queued /\ Queued \subseteq Query
    <2>1. Queued' \subseteq Queued
      BY SuffixQueued, Zenon
    <2>2. Queued \subseteq Query
      BY DEF Queued, QueryType
    <2> QED  BY <2>1, <2>2, Zenon
  <1>3. \A p \in Query \ received' : replies'[p] = 0 /\ p \notin InFlight' /\ p \notin Queued'
    BY <1>1, <1>2, Zenon DEF Books
  <1>4. \A p \in InFlight' \cup Queued' : replies'[p] = 0
    BY <1>1, <1>2, Zenon DEF Books
  <1>5. ASSUME NEW s \in Streams, NEW t \in Streams, pending'[s] # None, pending'[s] = pending'[t]
        PROVE  s = t
    <2>1. \A u \in Streams : pending[u] # q
      BY WorkerAssumption, Zenon DEF InFlight, QueryType
    <2> QED  BY <1>5, <2>1, Zenon DEF Books, QueryType
  <1>6. ASSUME NEW i \in 1..Len(queue'), NEW j \in 1..Len(queue'), queue'[i] = queue'[j]
        PROVE  i = j
    <2>1. Len(queue) \in Nat /\ Len(queue') \in Nat
      BY DEF QueryType
    <2> DEFINE d == Len(queue) - Len(queue')
    <2>2. i + d \in 1..Len(queue) /\ j + d \in 1..Len(queue)
      BY <2>1 DEF Suffix
    <2>3. queue[i + d] = queue[j + d]
      BY <1>6, Zenon DEF Suffix
    <2>4. i + d = j + d
      BY <2>2, <2>3, Zenon DEF Books
    <2> QED  BY <2>1, <2>4
  <1>7. InFlight' \cap Queued' = {}
    BY <1>1, <1>2 DEF Books
  <1> QED  BY <1>3, <1>4, <1>5, <1>6, <1>7, Zenon DEF Books

\* A received query that is in neither place goes into the queue.
LEMMA BooksAppend ==
  ASSUME Books, QueryType, QueryType', UNCHANGED <<replies, pending>>,
         NEW q \in Query \ received, received' = received \cup {q}, queue' = Append(queue, q)
  PROVE  Books'
  <1>1. InFlight' = InFlight /\ InFlight \subseteq Query /\ Queued \subseteq Query
    BY DEF InFlight, Queued, QueryType
  <1>2. Queued' = Queued \cup {q}
    <2>1. /\ Len(queue) \in Nat /\ Len(queue') = Len(queue) + 1 /\ queue'[Len(queue) + 1] = q
          /\ \A i \in 1..Len(queue) : queue'[i] = queue[i]
      BY DEF QueryType
    <2>2. ASSUME NEW p \in Queued' PROVE p \in Queued \cup {q}
      BY <2>1 DEF Queued
    <2>3. ASSUME NEW p \in Queued PROVE p \in Queued'
      BY <2>1 DEF Queued
    <2>4. q \in Queued'
      BY <2>1 DEF Queued
    <2> QED  BY <2>2, <2>3, <2>4, Zenon
  <1>3. \A p \in Query \ received' : replies'[p] = 0 /\ p \notin InFlight' /\ p \notin Queued'
    BY <1>1, <1>2, Zenon DEF Books
  <1>4. \A p \in InFlight' \cup Queued' : replies'[p] = 0
    BY <1>1, <1>2, Zenon DEF Books
  <1>5. \A i, j \in 1..Len(queue') : queue'[i] = queue'[j] => i = j
    <2>1. \A i \in 1..Len(queue) : queue[i] # q /\ queue'[i] = queue[i]
      BY DEF Books, Queued, QueryType
    <2>2. Len(queue) \in Nat /\ Len(queue') = Len(queue) + 1 /\ queue'[Len(queue) + 1] = q
      BY DEF QueryType
    <2> QED  BY <2>1, <2>2 DEF Books
  <1>6. InFlight' \cap Queued' = {}
    BY <1>1, <1>2, Zenon DEF Books
  <1> QED  BY <1>3, <1>4, <1>5, <1>6, Zenon DEF Books

\* What a SERVFAIL leaves alone.
LEMMA ServfailReplies ==
  ASSUME NEW Q, ServfailAll(Q)
  PROVE  \A q \in Query : q \in Q \/ replies'[q] = replies[q]
  BY Zenon DEF ServfailAll

\* Every step keeps the books: received, queued, in flight, answered.
LEMMA BooksStep == Counting /\ IInv /\ [Next]_vars => Books'
  <1> SUFFICES ASSUME Counting, IInv, [Next]_vars PROVE Books'
    BY Zenon
  <1> USE DEF loopVars, connVars, flagVars, queryVars, replyVars, pathVars, pageVars
  <1>t. /\ QueryType /\ ReplyType /\ Books /\ h3_events \in Seq(Event)
        /\ None \notin Query
    BY TypeParts, WorkerAssumption, Zenon DEF IInv
  <1>p. QueryType' /\ ReplyType'
    BY TypeStep, Zenon DEF TypeOK, QueryType, ReplyType
  <1>q. ASSUME UNCHANGED <<pending, queue, received, replies>> PROVE Books'
    <2>1. InFlight' = InFlight /\ Queued' = Queued
      BY <1>q, Zenon DEF InFlight, Queued
    <2> QED  BY <1>t, <1>q, <2>1, Zenon DEF Books
  <1>l. Len(queue) \in Nat
    BY <1>t DEF QueryType
  <1>s. UNCHANGED queue => Suffix
    BY <1>l DEF Suffix
  <1>f. ASSUME FailAllPending, UNCHANGED <<queue, received>> PROVE Books'
    <2>1. /\ \A s \in Streams : pending'[s] = None
          /\ InFlight' = {}
      BY <1>f, Zenon DEF FailAllPending, NoStreams, InFlight
    <2>2. \A q \in Query : q \in InFlight \/ replies'[q] = replies[q]
      BY <1>f, ServfailReplies, Zenon DEF FailAllPending
    <2>3. Queued' = Queued
      BY <1>f, Zenon DEF Queued
    <2>4. \A q \in Query : replies'[q] = replies[q]
                           \/ (q \in received' /\ q \notin InFlight' /\ q \notin Queued')
      BY <1>t, <1>f, <2>1, <2>2, <2>3, Zenon DEF Books
    <2> QED  BY <1>t, <1>p, <1>f, <1>s, <2>1, <2>4, BooksShrink, Zenon
  <1>1. CASE \/ Wake \/ Tick \/ Publish \/ Signal \/ DrainDone \/ Connected \/ FlushDone \/ GoawayFrame
             \/ QuicPolled \/ QuicDone \/ HandleTimeout \/ TimerSendError \/ Migrate \/ Reconnect
             \/ UNCHANGED vars
    BY <1>1, <1>q, Zenon
    DEF Wake, Tick, Publish, Signal, DrainDone, Connected, FlushDone, GoawayFrame, QuicPolled,
        QuicDone, HandleTimeout, TimerSendError, Migrate, Reconnect, vars
  <1>2. ASSUME NEW s \in Streams, NEW o \in {"response", "failed", "silent"}, StreamEnd(s, o)
        PROVE  Books'
    BY <1>2, <1>q, Zenon DEF StreamEnd
  <1>3. CASE EndBatch
    BY <1>3, <1>f, <1>q, Zenon DEF EndBatch
  <1>4. CASE Stop
    BY <1>4, <1>f, Zenon DEF Stop
  <1>5. ASSUME NEW closed \in BOOLEAN, ConnectionLost(closed) PROVE Books'
    BY <1>5, <1>f, Zenon DEF ConnectionLost
  <1>6. ASSUME NEW q \in Query, DrainQuery(q) PROVE Books'
    <2>1. /\ q \in Query \ received /\ received' = received \cup {q}
          /\ q \notin InFlight /\ q \notin Queued /\ replies[q] = 0
      BY <1>t, <1>6, Zenon DEF DrainQuery, Books
    <2>2. CASE ServfailAll({q}) /\ UNCHANGED <<pending, queue>>
      <3>1. InFlight' = InFlight /\ Queued' = Queued /\ Suffix
        BY <1>s, <2>2, Zenon DEF InFlight, Queued
      <3>2. \A p \in Query : replies'[p] = replies[p]
                             \/ (p \in received' /\ p \notin InFlight' /\ p \notin Queued')
        BY <2>1, <2>2, <3>1, ServfailReplies
      <3> QED  BY <1>t, <1>p, <2>1, <2>2, <3>1, <3>2, BooksShrink, Zenon
    <2>3. CASE queue' = Append(queue, q) /\ UNCHANGED <<replyVars, pending>>
      BY <1>t, <1>p, <2>1, <2>3, BooksAppend, Zenon
    <2>4. CASE pending' = [pending EXCEPT ![nextStream] = q] /\ UNCHANGED <<replyVars, queue>>
      <3>1. Queued' = Queued
        BY <2>4, Zenon DEF Queued
      <3>2. CASE nextStream \in Streams
        BY <1>t, <1>p, <1>s, <2>1, <2>4, <3>1, <3>2, BooksDispatch, Zenon
      <3>3. CASE nextStream \notin Streams
        <4>1. pending' = pending
          BY <1>t, <2>4, <3>3, Zenon DEF QueryType
        <4>2. InFlight' = InFlight
          BY <4>1, Zenon DEF InFlight
        <4> QED  BY <1>t, <1>p, <1>s, <2>1, <2>4, <4>1, <4>2, BooksShrink, Zenon
      <3> QED  BY <3>2, <3>3, Zenon
    <2> QED  BY <1>6, <2>2, <2>3, <2>4, Zenon DEF DrainQuery, DispatchQuery
  <1>7. CASE FlushQuery
    <2> DEFINE q == Head(queue)
    <2>1. /\ q = queue[1] /\ 1 \in 1..Len(queue) /\ q \in Query
          /\ Len(queue') = Len(queue) - 1
          /\ \A i \in 1..Len(queue') : queue'[i] = queue[i + 1]
      BY <1>t, <1>7 DEF FlushQuery, QueryType
    <2>2. Suffix
      BY <1>l, <2>1 DEF Suffix
    <2>3. q \in Queued /\ q \notin InFlight /\ replies[q] = 0 /\ q \in received
      BY <1>t, <2>1 DEF Queued, Books
    <2>4. q \notin Queued'
      BY <1>t, <1>l, <2>1 DEF Queued, Books
    <2>5. CASE ServfailAll({q}) /\ UNCHANGED <<pending, received>>
      <3>1. InFlight' = InFlight
        BY <2>5, Zenon DEF InFlight
      <3>2. \A p \in Query : replies'[p] = replies[p]
                             \/ (p \in received' /\ p \notin InFlight' /\ p \notin Queued')
        BY <2>3, <2>4, <2>5, <3>1, ServfailReplies
      <3> QED  BY <1>t, <1>p, <2>2, <2>5, <3>2, BooksShrink, Zenon
    <2>6. CASE pending' = [pending EXCEPT ![nextStream] = q] /\ UNCHANGED <<replyVars, received>>
      <3>1. CASE nextStream \in Streams
        BY <1>t, <1>p, <2>2, <2>3, <2>4, <2>6, <3>1, BooksDispatch, Zenon
      <3>2. CASE nextStream \notin Streams
        <4>1. pending' = pending
          BY <1>t, <2>6, <3>2, Zenon DEF QueryType
        <4> QED  BY <1>t, <1>p, <2>2, <2>6, <4>1, BooksShrink, Zenon
      <3> QED  BY <3>1, <3>2, Zenon
    <2> QED  BY <1>7, <2>5, <2>6, Zenon DEF FlushQuery, DispatchQuery
  <1>8. CASE ApplyH3
    <2> DEFINE ev == Head(h3_events)
               q == pending[ev.stream]
    <2>1. ev.stream \in Streams
      <3>1. ev \in Event
        BY <1>t, <1>8 DEF ApplyH3
      <3> QED  BY <3>1, Zenon DEF Event
    <2>2. CASE UNCHANGED <<pending, replyVars>>
      BY <1>8, <1>q, <2>2, Zenon DEF ApplyH3
    <2>3. CASE /\ q # None /\ pending' = PendingWithout(ev.stream)
               /\ \A p \in Query : p = q \/ replies'[p] = replies[p]
      <3>1. UNCHANGED <<queue, received>>
        BY <1>8, Zenon DEF ApplyH3
      <3>2. q \in InFlight /\ q \in Query
        BY <1>t, <2>1, <2>3, Zenon DEF InFlight, QueryType
      <3>3. q \in received /\ q \notin Queued' /\ Suffix
        <4>1. q \in received /\ q \notin Queued
          BY <1>t, <3>2, Zenon DEF Books
        <4>2. Queued' = Queued
          BY <3>1, Zenon DEF Queued
        <4>3. Suffix
          BY <1>s, <3>1, Zenon
        <4> QED  BY <4>1, <4>2, <4>3, Zenon
      <3>4. \A s \in Streams : pending'[s] \in {None, pending[s]}
        BY <1>t, <2>3, Zenon DEF PendingWithout, QueryType
      <3>5. q \notin InFlight'
        BY <1>t, <2>1, <2>3 DEF PendingWithout, QueryType, Books, InFlight
      <3>6. \A p \in Query : replies'[p] = replies[p]
                             \/ (p \in received' /\ p \notin InFlight' /\ p \notin Queued')
        BY <2>3, <3>1, <3>3, <3>5, Zenon
      <3> QED  BY <1>t, <1>p, <3>1, <3>3, <3>4, <3>6, BooksShrink, Zenon
    <2>4. \/ UNCHANGED <<pending, replyVars>>
          \/ /\ q # None /\ pending' = PendingWithout(ev.stream)
             /\ \/ ServfailAll({q})
                \/ replies' = [replies EXCEPT ![q] = Least(@ + 1, 2)]
      BY <1>8, Zenon DEF ApplyH3
    <2>5. ASSUME replies' = [replies EXCEPT ![q] = Least(@ + 1, 2)]
          PROVE  \A p \in Query : p = q \/ replies'[p] = replies[p]
      BY <1>t, <2>5, Zenon DEF ReplyType
    <2>6. ASSUME ServfailAll({q})
          PROVE  \A p \in Query : p = q \/ replies'[p] = replies[p]
      BY <2>6, ServfailReplies
    <2> QED  BY <2>2, <2>3, <2>4, <2>5, <2>6, Zenon
  <1>9. CASE Expire
    <2> DEFINE k == ExpiredFront
               Q == {q \in InFlight : left[q] = 0} \cup {queue[i] : i \in 1..k}
    <2>1. k \in 0..Len(queue) /\ \A i \in 1..k : left[queue[i]] = 0
      BY FrontExpired, Zenon DEF IInv
    <2>2. /\ Len(queue') = Len(queue) - k
          /\ \A i \in 1..Len(queue') : queue'[i] = queue[i + k]
      BY <1>t, <1>9, <1>l, <2>1 DEF Expire, QueryType
    <2>3. Suffix
      BY <1>l, <2>1, <2>2 DEF Suffix
    <2>4. \A s \in Streams : /\ pending'[s] \in {None, pending[s]}
                             /\ pending'[s] # None => left[pending[s]] # 0
      BY <1>9, Zenon DEF Expire
    <2>5. InFlight' \subseteq {q \in InFlight : left[q] # 0}
      BY <2>4 DEF InFlight
    <2>6. Queued' \subseteq Queued
      BY <1>t, <1>p, <2>3, SuffixQueued, Zenon
    <2>7. ASSUME NEW i \in 1..k PROVE queue[i] \notin Queued' /\ queue[i] \in Queued
      <3>1. i \in 1..Len(queue)
        BY <1>l, <2>1
      <3>2. ASSUME NEW j \in 1..Len(queue'), queue[i] = queue'[j] PROVE FALSE
        <4>1. j + k \in 1..Len(queue) /\ i # j + k
          BY <1>l, <2>1, <2>2
        <4>2. queue[i] = queue[j + k]
          BY <2>2, <3>2, Zenon
        <4> QED  BY <1>t, <3>1, <4>1, <4>2, Zenon DEF Books
      <3> QED  BY <3>1, <3>2, Zenon DEF Queued
    <2>8. \A q \in Query : q \in Q \/ replies'[q] = replies[q]
      BY <1>9, ServfailReplies, Zenon DEF Expire
    <2>9. ASSUME NEW q \in Q PROVE q \in received' /\ q \notin InFlight' /\ q \notin Queued'
      <3>1. received' = received /\ InFlight \subseteq Query /\ Queued \subseteq Query
        BY <1>t, <1>9 DEF Expire, QueryType, InFlight, Queued
      <3>2. CASE q \in InFlight /\ left[q] = 0
        BY <1>t, <2>5, <2>6, <3>1, <3>2, Zenon DEF Books
      <3>3. CASE q \in {queue[i] : i \in 1..k}
        BY <1>t, <2>5, <2>7, <3>1, <3>3 DEF Books
      <3> QED  BY <3>2, <3>3, Zenon
    <2>10. received' = received
      BY <1>9, Zenon DEF Expire
    <2> QED  BY <1>t, <1>p, <2>3, <2>4, <2>8, <2>9, <2>10, BooksShrink
  <1> QED
    BY <1>1, <1>2, <1>3, <1>4, <1>5, <1>6, <1>7, <1>8, <1>9 DEF Next, Handlers
=============================================================================
