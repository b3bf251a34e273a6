---------------------------- MODULE WorkerProofs ----------------------------
(***************************************************************************)
(* The worker of microdoh3, for any number of queries and addresses, any   *)
(* upstream sets and any values of its timers: it implements Forwarder and *)
(* its safety properties hold.                                             *)
(***************************************************************************)
EXTENDS WorkerInvariant

\* The solver gets more than its 5 seconds, for slow machines.
USE SMTT(30)

-----------------------------------------------------------------------------
(* Streams, events and the pending table. *)

\* Entries leave the pending table and the connection, and no event is added.
LEMMA WiresShrink ==
  ASSUME Wires, h3_events \in Seq(Event), h3_events' = h3_events \/ h3_events' = <<>>,
         \A s \in Streams : pending'[s] \in {None, pending[s]},
         \A s \in Streams : h3'[s] = None \/ (h3'[s] = h3[s] /\ nextStream' = nextStream),
         h3_events' # <<>> => pc' = "h3" \/ (pc' = "quic" /\ conn' = "up")
  PROVE  Wires'
  <1>1. \A i \in 1..Len(h3_events) : h3_events[i].stream \in Streams
    <2>1. \A i \in 1..Len(h3_events) : h3_events[i] \in Event
      OBVIOUS
    <2> QED  BY <2>1, Zenon DEF Event
  <1>2. \A s \in Streams : h3'[s] # None => s < nextStream' /\ pending'[s] \in {None, h3'[s]}
    BY Zenon DEF Wires
  <1>3. CASE h3_events' = <<>>
    BY <1>2, <1>3 DEF Wires
  <1>4. CASE h3_events' = h3_events
    <2>1. ASSUME NEW i \in 1..Len(h3_events), h3_events[i].kind = "response"
          PROVE  pending'[h3_events[i].stream] \in {None, h3_events[i].of}
      BY <1>1, <2>1, Zenon DEF Wires
    <2> QED  BY <1>2, <1>4, <2>1, Zenon DEF Wires
  <1> QED  BY <1>3, <1>4, Zenon

\* A request is sent on the next stream.
LEMMA WiresDispatch ==
  ASSUME Counting, Wires, ConnType, QueryType, h3_events' = <<>>, NEW q \in Query,
         nextStream < Cardinality(Query), nextStream' = nextStream + 1,
         h3' = [h3 EXCEPT ![nextStream] = q], pending' = [pending EXCEPT ![nextStream] = q]
  PROVE  Wires'
  <1>1. nextStream \in Streams /\ nextStream \in Nat
    BY StreamCount DEF ConnType, Streams
  <1>2. \A s \in Streams : s \in Nat
    BY StreamCount DEF Streams
  <1>3. ASSUME NEW s \in Streams, h3'[s] # None
        PROVE  s < nextStream' /\ pending'[s] \in {None, h3'[s]}
    <2>1. CASE s = nextStream
      BY <1>1, <2>1 DEF ConnType, QueryType
    <2>2. CASE s # nextStream
      <3>1. h3'[s] = h3[s] /\ pending'[s] = pending[s]
        BY <1>1, <2>2, Zenon DEF ConnType, QueryType
      <3> QED  BY <1>1, <1>2, <1>3, <3>1 DEF Wires
    <2> QED  BY <2>1, <2>2, Zenon
  <1> QED  BY <1>3 DEF Wires

\* The next stream of a connection that may open one has an id.
LEMMA StreamLeft ==
  ASSUME Counting, IInv
  PROVE  /\ \A q \in Query : DrainQuery(q) => nextStream < Cardinality(Query)
         /\ FlushQuery => nextStream < Cardinality(Query)
  <1>t. ConnType /\ QueryType
    BY TypeParts, Zenon DEF IInv
  <1>1. nextStream + Len(queue) <= Cardinality(received) /\ nextStream \in Nat /\ Len(queue) \in Nat
    BY <1>t DEF IInv, Room, ConnType, QueryType
  <1>2. Cardinality(received) \in Nat /\ Cardinality(received) <= Cardinality(Query)
    BY <1>t, Zenon DEF QueryType, Counting
  <1>3. ASSUME NEW q \in Query, DrainQuery(q) PROVE nextStream < Cardinality(Query)
    <2>1. Cardinality(received) < Cardinality(Query)
      BY <1>t, <1>3, Zenon DEF DrainQuery, QueryType, Counting
    <2> QED  BY <1>1, <1>2, <2>1, StreamCount
  <1>4. ASSUME FlushQuery PROVE nextStream < Cardinality(Query)
    <2>1. Len(queue) > 0
      BY <1>t, <1>4 DEF FlushQuery, QueryType
    <2> QED  BY <1>1, <1>2, <2>1, StreamCount
  <1> QED  BY <1>3, <1>4, Zenon

\* Every step keeps the connection's streams in agreement with the pending table.
LEMMA WiresStep == Counting /\ IInv /\ [Next]_vars => Wires'
  <1> SUFFICES ASSUME Counting, IInv, [Next]_vars PROVE Wires'
    BY Zenon
  <1> USE DEF loopVars, connVars, flagVars, queryVars, replyVars, pathVars, pageVars
  <1>t. ConnType /\ QueryType /\ Wires /\ Conn /\ h3_events \in Seq(Event)
    BY TypeParts, Zenon DEF IInv
  <1>q. ASSUME UNCHANGED <<pending, h3, nextStream, h3_events>>,
               h3_events # <<>> => pc' = "h3" \/ (pc' = "quic" /\ conn' = "up")
        PROVE  Wires'
    BY <1>t, <1>q, WiresShrink, Zenon
  <1>n. \A s \in Streams : NoStreams[s] = None
    BY Zenon DEF NoStreams
  <1>1. CASE \/ Wake \/ Tick \/ Publish \/ Signal \/ DrainDone \/ Connected \/ FlushDone
             \/ QuicPolled \/ QuicDone \/ HandleTimeout \/ TimerSendError \/ Migrate
             \/ UNCHANGED vars
    BY <1>t, <1>1, <1>q, Zenon
    DEF Wake, Tick, Publish, Signal, DrainDone, Connected, FlushDone, QuicPolled,
        QuicDone, HandleTimeout, TimerSendError, Migrate, vars, Wires, PollingQuic
  <1>2. ASSUME NEW s \in Streams, NEW o \in {"response", "failed", "silent"}, StreamEnd(s, o)
        PROVE  Wires'
    <2>1. /\ UNCHANGED <<pending, nextStream, conn>> /\ pc' = "quic" /\ conn = "up" /\ h3[s] # None
          /\ h3' = [h3 EXCEPT ![s] = None]
      BY <1>2, Zenon DEF StreamEnd
    <2>2. \A u \in Streams : h3'[u] = None \/ h3'[u] = h3[u]
      BY <1>t, <2>1, Zenon DEF ConnType
    <2>3. CASE h3_events' = h3_events
      BY <1>t, <2>1, <2>2, <2>3, WiresShrink, Zenon
    <2>4. CASE h3_events' = Append(h3_events, [kind |-> o, stream |-> s, of |-> h3[s]])
      <3>1. /\ Len(h3_events') = Len(h3_events) + 1 /\ Len(h3_events) \in Nat
            /\ \A i \in 1..Len(h3_events) : h3_events'[i] = h3_events[i]
            /\ h3_events'[Len(h3_events) + 1] = [kind |-> o, stream |-> s, of |-> h3[s]]
        BY <1>t, <2>4
      <3>2. ASSUME NEW i \in 1..Len(h3_events'), h3_events'[i].kind = "response"
            PROVE  pending[h3_events'[i].stream] \in {None, h3_events'[i].of}
        <4>1. CASE i \in 1..Len(h3_events)
          BY <1>t, <3>1, <3>2, <4>1, Zenon DEF Wires
        <4>2. CASE i = Len(h3_events) + 1
          BY <1>t, <2>1, <3>1, <4>2 DEF Wires
        <4> QED  BY <3>1, <4>1, <4>2
      <3>3. \A u \in Streams : h3'[u] # None => u < nextStream' /\ pending'[u] \in {None, h3'[u]}
        BY <1>t, <2>1, <2>2, Zenon DEF Wires
      <3> QED  BY <2>1, <3>2, <3>3, Zenon DEF Wires
    <2> QED  BY <1>2, <2>3, <2>4, Zenon DEF StreamEnd
  <1>3. CASE GoawayFrame
    <2> DEFINE e == [kind |-> "goaway", stream |-> 0, of |-> None]
    <2>1. UNCHANGED <<pending, h3, nextStream, conn>> /\ pc' = "quic" /\ conn = "up"
      BY <1>3, Zenon DEF GoawayFrame
    <2>2. /\ Len(h3_events') = Len(h3_events) + 1 /\ Len(h3_events) \in Nat
          /\ \A i \in 1..Len(h3_events) : h3_events'[i] = h3_events[i]
          /\ h3_events'[Len(h3_events) + 1] = e
      BY <1>t, <1>3 DEF GoawayFrame
    <2>3. ASSUME NEW i \in 1..Len(h3_events'), h3_events'[i].kind = "response"
          PROVE  pending[h3_events'[i].stream] \in {None, h3_events'[i].of}
      <3>1. i # Len(h3_events) + 1
        BY <2>2, <2>3
      <3>2. i \in 1..Len(h3_events)
        BY <2>2, <3>1
      <3> QED  BY <1>t, <2>2, <2>3, <3>2, Zenon DEF Wires
    <2> QED  BY <1>t, <2>1, <2>3 DEF Wires
  <1>4. CASE EndBatch
    <2>1. h3_events = <<>> /\ h3_events' = h3_events
      BY <1>t, <1>4, Zenon DEF EndBatch, Wires
    <2>2. CASE conn = "drained"
      BY <1>t, <1>4, <1>n, <2>1, <2>2, WiresShrink DEF EndBatch, FailAllPending, DropConnection
    <2>3. CASE conn # "drained"
      BY <1>4, <1>q, <2>1, <2>3 DEF EndBatch
    <2> QED  BY <2>2, <2>3, Zenon
  <1>5. CASE Stop
    BY <1>t, <1>5, <1>n, WiresShrink DEF Stop, FailAllPending, Wires
  <1>6. ASSUME NEW closed \in BOOLEAN, ConnectionLost(closed) PROVE Wires'
    BY <1>t, <1>6, <1>n, WiresShrink DEF ConnectionLost, FailAllPending, DropConnection
  <1>7. ASSUME NEW q \in Query, DrainQuery(q) PROVE Wires'
    <2>1. h3_events = <<>> /\ h3_events' = h3_events
      BY <1>t, <1>7, Zenon DEF DrainQuery, Wires
    <2>2. CASE UNCHANGED <<pending, h3>> /\ nextStream' \in {nextStream, nextStream + 1}
      <3>1. \A s \in Streams : s \in Nat
        BY StreamCount DEF Streams
      <3>2. nextStream \in Nat
        BY <1>t DEF ConnType
      <3> QED  BY <1>t, <2>1, <2>2, <3>1, <3>2 DEF Wires
    <2>3. CASE /\ nextStream' = nextStream + 1
               /\ h3' = [h3 EXCEPT ![nextStream] = q] /\ pending' = [pending EXCEPT ![nextStream] = q]
      BY <1>t, <1>7, <2>1, <2>3, StreamLeft, WiresDispatch, Zenon
    <2> QED  BY <1>7, <2>2, <2>3 DEF DrainQuery, DispatchQuery
  <1>8. CASE FlushQuery
    <2>1. h3_events = <<>> /\ h3_events' = h3_events
      BY <1>t, <1>8, Zenon DEF FlushQuery, Wires
    <2>2. CASE UNCHANGED <<pending, h3>> /\ nextStream' \in {nextStream, nextStream + 1}
      <3>1. \A s \in Streams : s \in Nat
        BY StreamCount DEF Streams
      <3>2. nextStream \in Nat
        BY <1>t DEF ConnType
      <3> QED  BY <1>t, <2>1, <2>2, <3>1, <3>2 DEF Wires
    <2>3. Head(queue) \in Query
      BY <1>t, <1>8 DEF FlushQuery, QueryType
    <2>4. CASE /\ nextStream' = nextStream + 1
               /\ h3' = [h3 EXCEPT ![nextStream] = Head(queue)]
               /\ pending' = [pending EXCEPT ![nextStream] = Head(queue)]
      BY <1>t, <1>8, <2>1, <2>3, <2>4, StreamLeft, WiresDispatch, Zenon
    <2> QED  BY <1>8, <2>2, <2>4 DEF FlushQuery, DispatchQuery
  <1>9. CASE ApplyH3
    <2>1. /\ UNCHANGED <<h3, nextStream, pc>> /\ pc = "h3"
          /\ \A s \in Streams : pending'[s] \in {None, pending[s]}
      BY <1>t, <1>9, Zenon DEF ApplyH3, PendingWithout, QueryType
    <2>2. /\ Len(h3_events) \in Nat /\ Len(h3_events') = Len(h3_events) - 1
          /\ \A i \in 1..Len(h3_events') : h3_events'[i] = h3_events[i + 1]
                                           /\ h3_events[i + 1].stream \in Streams
      <3>1. /\ Len(h3_events) \in Nat /\ Len(h3_events') = Len(h3_events) - 1
            /\ \A i \in 1..Len(h3_events') : h3_events'[i] = h3_events[i + 1]
                                             /\ h3_events[i + 1] \in Event
        BY <1>t, <1>9 DEF ApplyH3
      <3> QED  BY <3>1, Zenon DEF Event
    <2>3. ASSUME NEW i \in 1..Len(h3_events'), h3_events'[i].kind = "response"
          PROVE  pending'[h3_events'[i].stream] \in {None, h3_events'[i].of}
      <3>1. i + 1 \in 1..Len(h3_events)
        BY <2>2
      <3>2. pending[h3_events[i + 1].stream] \in {None, h3_events[i + 1].of}
        BY <1>t, <2>2, <2>3, <3>1 DEF Wires
      <3> QED  BY <2>1, <2>2, <3>2
    <2> QED  BY <1>t, <2>1, <2>3 DEF Wires
  <1>10. CASE Expire
    BY <1>t, <1>10, WiresShrink, Zenon DEF Expire, Wires
  <1>11. CASE Reconnect
    BY <1>t, <1>11, <1>n, <1>q, WiresShrink, Zenon DEF Reconnect, ConnectAndPreamble, Wires
  <1> QED
    BY <1>1, <1>2, <1>3, <1>4, <1>5, <1>6, <1>7, <1>8, <1>9, <1>10, <1>11 DEF Next, Handlers

-----------------------------------------------------------------------------
(* Stream ids, the connection, deadlines and the score. *)

\* Every step leaves a stream id for every query that can still be sent.
LEMMA RoomStep == Counting /\ IInv /\ [Next]_vars => Room'
  <1> SUFFICES ASSUME Counting, IInv, [Next]_vars PROVE Room'
    BY Zenon
  <1> USE DEF loopVars, connVars, flagVars, queryVars, replyVars, pathVars, pageVars
  <1>r. QueryType /\ nextStream \in Nat /\ Len(queue) \in Nat
        /\ nextStream + Len(queue) <= Cardinality(received)
    BY TypeParts DEF IInv, Room, ConnType, QueryType
  <1>t. QueryType /\ nextStream \in Nat /\ Len(queue) \in Nat
        /\ nextStream + Len(queue) <= Cardinality(received) /\ Cardinality(received) \in Nat
    <2>1. Cardinality(received) \in Nat
      BY <1>r, Zenon DEF QueryType, Counting
    <2> QED  BY <1>r, <2>1, Zenon
  <1>q. ASSUME UNCHANGED <<queue, received>>, nextStream' = nextStream \/ nextStream' = 0
        PROVE  Room'
    BY <1>t, <1>q DEF Room
  <1>1. CASE \/ Wake \/ Tick \/ Publish \/ Signal \/ DrainDone \/ Connected \/ FlushDone \/ GoawayFrame
             \/ QuicPolled \/ ApplyH3 \/ QuicDone \/ HandleTimeout \/ TimerSendError \/ Migrate
             \/ Stop \/ UNCHANGED vars
    BY <1>1, <1>q, Zenon
    DEF Wake, Tick, Publish, Signal, DrainDone, Connected, FlushDone, GoawayFrame, QuicPolled,
        ApplyH3, QuicDone, HandleTimeout, TimerSendError, Migrate, Stop, vars
  <1>2. CASE EndBatch
    BY <1>2, <1>q, Zenon DEF EndBatch, DropConnection
  <1>3. ASSUME NEW closed \in BOOLEAN, ConnectionLost(closed) PROVE Room'
    BY <1>3, <1>q, Zenon DEF ConnectionLost, DropConnection
  <1>4. CASE Reconnect
    BY <1>4, <1>q, Zenon DEF Reconnect, ConnectAndPreamble
  <1>5. ASSUME NEW s \in Streams, NEW o \in {"response", "failed", "silent"}, StreamEnd(s, o)
        PROVE  Room'
    BY <1>5, <1>q, Zenon DEF StreamEnd
  <1>6. ASSUME NEW q \in Query, DrainQuery(q) PROVE Room'
    <2>1. Cardinality(received') = Cardinality(received) + 1
      BY <1>t, <1>6, Zenon DEF DrainQuery, QueryType, Counting
    <2>2. \/ nextStream' = nextStream /\ queue' = queue
          \/ nextStream' = nextStream /\ queue' = Append(queue, q)
          \/ nextStream' = nextStream + 1 /\ queue' = queue
      BY <1>6, Zenon DEF DrainQuery, DispatchQuery
    <2>3. Len(Append(queue, q)) = Len(queue) + 1
      BY <1>t DEF QueryType
    <2> QED  BY <1>t, <2>1, <2>2, <2>3 DEF Room
  <1>7. CASE FlushQuery
    <2>1. Len(queue') = Len(queue) - 1 /\ received' = received
      BY <1>t, <1>7 DEF FlushQuery, QueryType
    <2>2. nextStream' = nextStream \/ nextStream' = nextStream + 1
      BY <1>7, Zenon DEF FlushQuery, DispatchQuery
    <2> QED  BY <1>t, <2>1, <2>2 DEF Room
  <1>8. CASE Expire
    <2>1. ExpiredFront \in 0..Len(queue)
      BY FrontExpired, Zenon DEF IInv
    <2>2. Len(queue') = Len(queue) - ExpiredFront /\ received' = received /\ nextStream' = nextStream
      BY <1>t, <1>8, <2>1 DEF Expire, QueryType
    <2> QED  BY <1>t, <2>1, <2>2 DEF Room
  <1> QED
    BY <1>1, <1>2, <1>3, <1>4, <1>5, <1>6, <1>7, <1>8 DEF Next, Handlers

\* Every step keeps the flags of the connection consistent.
LEMMA ConnStep == Counting /\ IInv /\ [Next]_vars => Conn'
  <1> SUFFICES ASSUME Counting, IInv, [Next]_vars PROVE Conn'
    BY Zenon
  <1> USE Constants DEF loopVars, connVars, flagVars, queryVars, replyVars, pathVars, pageVars, NotSet
  <1>t. /\ Conn /\ ConnType /\ FlagType
        /\ QueryType
    BY TypeParts, Zenon DEF IInv
  <1>1. CASE \/ Wake \/ Publish \/ Signal \/ DrainDone \/ FlushDone
             \/ QuicPolled \/ QuicDone \/ TimerSendError \/ Stop \/ UNCHANGED vars
    BY <1>t, <1>1
    DEF Wake, Publish, Signal, DrainDone, FlushDone, QuicPolled,
        QuicDone, TimerSendError, Stop, PollingQuic, vars, Conn
  <1>2. CASE Tick
    BY <1>t, <1>2 DEF Tick, Decr, Conn, FlagType
  <1>3. CASE GoawayFrame
    BY <1>t, <1>3, Zenon DEF GoawayFrame, PollingQuic, Conn
  <1>4. ASSUME NEW s \in Streams, NEW o \in {"response", "failed", "silent"}, StreamEnd(s, o)
        PROVE  Conn'
    BY <1>t, <1>4, Zenon DEF StreamEnd, PollingQuic, Conn
  <1>5. CASE EndBatch
    BY <1>t, <1>5 DEF EndBatch, DropConnection, DrainedReconnect, Conn, FlagType
  <1>6. ASSUME NEW closed \in BOOLEAN, ConnectionLost(closed) PROVE Conn'
    BY <1>t, <1>6 DEF ConnectionLost, DropConnection, Conn, FlagType
  <1>7. ASSUME NEW q \in Query, DrainQuery(q) PROVE Conn'
    BY <1>t, <1>7, Zenon DEF DrainQuery, DispatchQuery, Conn
  <1>8. CASE Connected
    BY <1>t, <1>8 DEF Connected, ConnectedPreambles, AfterConnected, PollingQuic, Least, Conn, ConnType
  <1>9. CASE FlushQuery
    BY <1>t, <1>9, Zenon DEF FlushQuery, DispatchQuery, Conn
  <1>10. CASE ApplyH3
    BY <1>t, <1>10, Zenon DEF ApplyH3, Conn
  <1>11. CASE HandleTimeout
    BY <1>t, <1>11, Zenon DEF HandleTimeout, Conn
  <1>12. CASE Expire
    <2>1. ExpiredFront \in 0..Len(queue)
      BY FrontExpired, Zenon DEF IInv
    <2>2. queue = <<>> => queue' = <<>>
      BY <1>t, <1>12, <2>1 DEF Expire, QueryType
    <2> QED  BY <1>t, <1>12, <2>2 DEF Expire, Conn
  <1>13. CASE Migrate
    BY <1>t, <1>13, Zenon DEF Migrate, Conn
  <1>14. CASE Reconnect
    <2>1. pc' = "batch" /\ UNCHANGED queue
      BY <1>14, Zenon DEF Reconnect
    <2>2. CASE ~ReconnectDue
      BY <1>t, <1>14, <2>2 DEF Reconnect, Conn
    <2>3. CASE ReconnectDue
      <3>1. nextStream' = 0
        BY <1>14, <2>3, Zenon DEF Reconnect, ConnectAndPreamble
      <3>2. CASE /\ conn' = "handshake" /\ early' \in {FALSE, ticket}
                 /\ preambles' = IF early' THEN 1 ELSE 0
                 /\ h3_ready' = early'
        BY <2>1, <3>1, <3>2 DEF Conn
      <3>3. CASE /\ \/ conn' = "none" /\ early' = FALSE /\ preambles' = 0
                    \/ conn' = "handshake" /\ early' \in {FALSE, ticket} /\ preambles' = 0
                    \/ conn' = "handshake" /\ ticket /\ early' = TRUE /\ preambles' = 1
                 /\ h3_ready' = FALSE
                 /\ reconnect_at' = ConnectRetry
        <4>1. reconnect_at' # NotSet /\ ~h3_ready' /\ ~(nextStream' > 0)
          BY <3>1, <3>3
        <4>2. CASE preambles' = 0
          BY <2>1, <4>1, <4>2 DEF Conn
        <4>3. CASE early' = TRUE /\ preambles' = 1
          BY <2>1, <4>1, <4>3, Zenon DEF Conn
        <4> QED  BY <3>3, <4>2, <4>3, Zenon
      <3> QED  BY <1>14, <2>3, <3>2, <3>3, Zenon DEF Reconnect, ConnectAndPreamble
    <2> QED  BY <2>2, <2>3, Zenon
  <1> QED
    BY <1>1, <1>2, <1>3, <1>4, <1>5, <1>6, <1>7, <1>8, <1>9, <1>10, <1>11, <1>12, <1>13, <1>14
    DEF Next, Handlers

\* Every step keeps what housekeeping has expired expired.
LEMMA ExpiredStep == Counting /\ IInv /\ [Next]_vars => Expired'
  <1> SUFFICES ASSUME Counting, IInv, [Next]_vars, pc' \in {"migrate", "reconnect"}
               PROVE  /\ \A q \in InFlight' : left'[q] # 0
                      /\ queue' # <<>> => left'[Head(queue')] # 0
    BY Zenon DEF Expired
  <1> USE DEF loopVars, connVars, flagVars, queryVars, replyVars, pathVars, pageVars
  <1>t. QueryType /\ Expired
    BY TypeParts, Zenon DEF IInv
  <1>q. ASSUME UNCHANGED <<pending, queue, left>>, pc \in {"migrate", "reconnect"}
        PROVE  /\ \A q \in InFlight' : left'[q] # 0
               /\ queue' # <<>> => left'[Head(queue')] # 0
    BY <1>t, <1>q, Zenon DEF Expired, InFlight
  <1>1. CASE UNCHANGED vars
    BY <1>1, <1>q, Zenon DEF vars
  <1>2. CASE Migrate
    BY <1>2, <1>q, Zenon DEF Migrate
  <1>3. CASE Expire
    <2>1. /\ ExpiredFront \in 0..Len(queue)
          /\ ExpiredFront < Len(queue) => left[queue[ExpiredFront + 1]] # 0
      BY FrontExpired, Zenon DEF IInv
    <2>2. queue' # <<>> => ExpiredFront < Len(queue) /\ Head(queue') = queue[ExpiredFront + 1]
      BY <1>t, <1>3, <2>1 DEF Expire, QueryType
    <2>3. \A q \in InFlight' : left[q] # 0
      BY <1>3, Zenon DEF Expire, InFlight
    <2> QED  BY <1>3, <2>1, <2>2, <2>3, Zenon DEF Expire
  <1>4. ~Wake /\ ~Tick /\ ~Publish /\ ~Signal /\ ~EndBatch /\ ~Stop /\ ~DrainDone /\ ~Connected
        /\ ~FlushQuery /\ ~FlushDone /\ ~GoawayFrame /\ ~QuicPolled /\ ~ApplyH3 /\ ~QuicDone
        /\ ~HandleTimeout /\ ~TimerSendError /\ ~Reconnect
    BY Zenon DEF Wake, Tick, Publish, Signal, EndBatch, Stop, DrainDone, Connected, AfterConnected,
           FlushQuery, FlushDone, GoawayFrame, QuicPolled, ApplyH3, QuicDone, HandleTimeout,
           TimerSendError, Reconnect
  <1>5. /\ \A q \in Query : ~DrainQuery(q)
        /\ \A closed \in BOOLEAN : ~ConnectionLost(closed)
        /\ \A s \in Streams, o \in {"response", "failed", "silent"} : ~StreamEnd(s, o)
    BY Zenon DEF DrainQuery, ConnectionLost, StreamEnd
  <1> QED  BY <1>1, <1>2, <1>3, <1>4, <1>5, Zenon DEF Next, Handlers

\* Every step keeps the quality window to samples of my_remote.
LEMMA ScoreStep == Counting /\ IInv /\ [Next]_vars => ScoreOfOwnAddress'
  <1> SUFFICES ASSUME Counting, IInv, [Next]_vars PROVE ScoreOfOwnAddress'
    BY Zenon
  <1> USE DEF loopVars, connVars, flagVars, queryVars, replyVars, pathVars, pageVars
  <1>t. quality \subseteq {my_remote}
    BY Zenon DEF IInv, ScoreOfOwnAddress
  <1>q. ASSUME UNCHANGED <<quality, my_remote>> PROVE ScoreOfOwnAddress'
    BY <1>t, <1>q, Zenon DEF ScoreOfOwnAddress
  <1>1. CASE Migrate
    BY <1>t, <1>1, Zenon DEF Migrate, FreshQuality, ScoreOfOwnAddress
  <1>2. CASE ApplyH3
    BY <1>t, <1>2, Zenon DEF ApplyH3, ScoreOfOwnAddress
  <1>3. CASE \/ Wake \/ Tick \/ Publish \/ Signal \/ EndBatch \/ Stop \/ DrainDone \/ Connected
             \/ FlushQuery \/ FlushDone \/ GoawayFrame \/ QuicPolled \/ QuicDone \/ HandleTimeout
             \/ TimerSendError \/ Expire \/ Reconnect \/ UNCHANGED vars
    BY <1>3, <1>q, Zenon
    DEF Wake, Tick, Publish, Signal, EndBatch, Stop, DrainDone, Connected, FlushQuery, FlushDone,
        GoawayFrame, QuicPolled, QuicDone, HandleTimeout, TimerSendError, Expire, Reconnect, vars
  <1>4. CASE \/ \E q \in Query : DrainQuery(q)
             \/ \E closed \in BOOLEAN : ConnectionLost(closed)
             \/ \E s \in Streams, o \in {"response", "failed", "silent"} : StreamEnd(s, o)
    BY <1>4, <1>q, Zenon DEF DrainQuery, ConnectionLost, StreamEnd
  <1> QED  BY <1>1, <1>2, <1>3, <1>4, Zenon DEF Next, Handlers

-----------------------------------------------------------------------------
(* The worker's steps and Forwarder's. *)

\* A SERVFAIL to received, unanswered queries is a step of Forwarder.
LEMMA ServfailForwards ==
  ASSUME ReplyType, ReplyType', received \subseteq received', received' \subseteq Query,
         NEW Q, ServfailAll(Q), \A q \in Q : q \in received' /\ replies[q] = 0
  PROVE  F!Forward
  <1>1. Q \in SUBSET {q \in received' : replies[q] = 0}
    BY Zenon
  <1>2. replies' = [q \in Query |-> IF q \in Q THEN 1 ELSE replies[q]]
    BY DEF ServfailAll, Least, ReplyType
  <1>3. answer' \in [Query -> Query \cup {None, "servfail"}]
    BY Zenon DEF ReplyType
  <1>4. \A q \in Query : answer'[q] \in IF q \in Q THEN {q, "servfail"} ELSE {answer[q]}
    BY Zenon DEF ServfailAll
  <1> QED  BY <1>1, <1>2, <1>3, <1>4, Zenon DEF F!Forward

\* Every step of the worker is a step of the forwarder, or a stutter of it.
LEMMA ForwarderStep == Counting /\ IInv /\ [Next]_vars => [F!Forward]_(F!vars)
  <1> SUFFICES ASSUME Counting, IInv, [Next]_vars PROVE [F!Forward]_(F!vars)
    BY Zenon
  <1> USE DEF loopVars, connVars, flagVars, queryVars, replyVars, pathVars, pageVars
  <1>t. QueryType /\ ReplyType /\ Books /\ Wires /\ h3_events \in Seq(Event)
    BY TypeParts, Zenon DEF IInv
  <1>p. ReplyType' /\ received' \subseteq Query
    BY TypeStep, Zenon DEF TypeOK, ReplyType
  <1>q. ASSUME UNCHANGED <<received, replyVars>> PROVE [F!Forward]_(F!vars)
    BY <1>q, Zenon DEF F!vars
  <1>b. /\ InFlight \subseteq Query /\ Queued \subseteq Query
        /\ \A q \in InFlight \cup Queued : q \in received /\ replies[q] = 0
    <2>1. InFlight \subseteq Query
      BY <1>t, Zenon DEF QueryType, InFlight
    <2>2. Queued \subseteq Query
      BY <1>t DEF QueryType, Queued
    <2> QED  BY <1>t, <2>1, <2>2, Zenon DEF Books
  <1>f. ASSUME NEW Q \in SUBSET (InFlight \cup Queued), ServfailAll(Q), UNCHANGED received
        PROVE  [F!Forward]_(F!vars)
    <2>1. \A q \in Q : q \in received' /\ replies[q] = 0
      BY <1>f, <1>b, Zenon
    <2> QED  BY <1>t, <1>p, <1>f, <2>1, ServfailForwards
  <1>1. CASE \/ Wake \/ Tick \/ Publish \/ Signal \/ DrainDone \/ Connected \/ FlushDone \/ GoawayFrame
             \/ QuicPolled \/ QuicDone \/ HandleTimeout \/ TimerSendError \/ Migrate \/ Reconnect
             \/ UNCHANGED vars
    BY <1>1, <1>q, Zenon
    DEF Wake, Tick, Publish, Signal, DrainDone, Connected, FlushDone, GoawayFrame, QuicPolled,
        QuicDone, HandleTimeout, TimerSendError, Migrate, Reconnect, vars
  <1>2. ASSUME NEW s \in Streams, NEW o \in {"response", "failed", "silent"}, StreamEnd(s, o)
        PROVE  [F!Forward]_(F!vars)
    BY <1>2, <1>q, Zenon DEF StreamEnd
  <1>3. CASE EndBatch \/ Stop
    <2>1. UNCHANGED received /\ (ServfailAll(InFlight) \/ UNCHANGED replyVars)
      BY <1>3, Zenon DEF EndBatch, Stop, FailAllPending
    <2> QED  BY <1>f, <1>q, <2>1
  <1>4. ASSUME NEW closed \in BOOLEAN, ConnectionLost(closed) PROVE [F!Forward]_(F!vars)
    <2>1. UNCHANGED received /\ ServfailAll(InFlight)
      BY <1>4, Zenon DEF ConnectionLost, FailAllPending
    <2> QED  BY <1>f, <2>1, Zenon
  <1>5. ASSUME NEW q \in Query, DrainQuery(q) PROVE [F!Forward]_(F!vars)
    <2>1. q \in Query \ received /\ received' = received \cup {q} /\ replies[q] = 0
      BY <1>t, <1>5, Zenon DEF DrainQuery, Books
    <2>2. ServfailAll({q}) \/ UNCHANGED replyVars
      BY <1>5, Zenon DEF DrainQuery, DispatchQuery
    <2>3. CASE ServfailAll({q})
      BY <1>t, <1>p, <2>1, <2>3, ServfailForwards
    <2>4. CASE UNCHANGED replyVars
      <3>1. replies' = [p \in Query |-> IF p \in {} THEN 1 ELSE replies[p]]
        BY <1>t, <2>4, Zenon DEF ReplyType
      <3>2. \A p \in Query : answer'[p] \in IF p \in {} THEN {p, "servfail"} ELSE {answer[p]}
        BY <2>4, Zenon
      <3>3. {} \in SUBSET {p \in received' : replies[p] = 0} /\ received \subseteq received'
        BY <2>1, Zenon
      <3>4. answer' \in [Query -> Query \cup {None, "servfail"}]
        BY <1>p, Zenon DEF ReplyType
      <3> QED  BY <1>p, <3>1, <3>2, <3>3, <3>4, Zenon DEF F!Forward
    <2> QED  BY <2>2, <2>3, <2>4, Zenon
  <1>6. CASE FlushQuery
    <2>1. Head(queue) = queue[1] /\ 1 \in 1..Len(queue)
      BY <1>t, <1>6 DEF FlushQuery, QueryType
    <2>2. Head(queue) \in Queued
      BY <2>1, Zenon DEF Queued
    <2>3. UNCHANGED received /\ (ServfailAll({Head(queue)}) \/ UNCHANGED replyVars)
      BY <1>6, Zenon DEF FlushQuery, DispatchQuery
    <2> QED  BY <1>f, <1>q, <2>2, <2>3, Zenon
  <1>7. CASE ApplyH3
    <2> DEFINE ev == Head(h3_events)
               q == pending[ev.stream]
    <2>1. ev \in Event /\ ev = h3_events[1] /\ 1 \in 1..Len(h3_events)
      BY <1>t, <1>7 DEF ApplyH3
    <2>2. ev.stream \in Streams
      BY <2>1, Zenon DEF Event
    <2>3. UNCHANGED received
      BY <1>7, Zenon DEF ApplyH3
    <2>4. q # None => q \in InFlight
      BY <2>2, Zenon DEF InFlight
    <2>5. CASE UNCHANGED replyVars
      BY <1>q, <2>3, <2>5, Zenon
    <2>6. CASE q # None /\ ServfailAll({q})
      BY <1>f, <2>3, <2>4, <2>6, Zenon
    <2>7. CASE /\ q # None /\ ev.kind = "response"
               /\ replies' = [replies EXCEPT ![q] = Least(@ + 1, 2)]
               /\ answer' = [answer EXCEPT ![q] = ev.of]
      <3>1. q = ev.of
        BY <1>t, <2>1, <2>7, Zenon DEF Wires
      <3>2. q \in Query /\ q \in received /\ replies[q] = 0
        BY <1>b, <2>4, <2>7, Zenon
      <3>3. {q} \in SUBSET {p \in received' : replies[p] = 0}
        BY <2>3, <3>2, Zenon
      <3>4. replies' = [p \in Query |-> IF p \in {q} THEN 1 ELSE replies[p]]
        <4>1. Least(replies[q] + 1, 2) = 1
          BY <3>2 DEF Least
        <4>2. replies' = [replies EXCEPT ![q] = 1]
          BY <2>7, <4>1, Zenon
        <4> QED  BY <1>t, <3>2, <4>2, Zenon DEF ReplyType
      <3>5. answer' \in [Query -> Query \cup {None, "servfail"}]
        BY <1>p, Zenon DEF ReplyType
      <3>6. \A p \in Query : answer'[p] \in IF p \in {q} THEN {p, "servfail"} ELSE {answer[p]}
        BY <1>t, <2>7, <3>1, <3>2 DEF ReplyType
      <3> QED  BY <1>p, <2>3, <3>3, <3>4, <3>5, <3>6, Zenon DEF F!Forward
    <2> QED  BY <1>7, <2>5, <2>6, <2>7, Zenon DEF ApplyH3
  <1>8. CASE Expire
    <2>1. ExpiredFront \in 0..Len(queue) /\ Len(queue) \in Nat
      BY <1>t, FrontExpired DEF IInv, QueryType
    <2>2. {q \in InFlight : left[q] = 0} \cup {queue[i] : i \in 1..ExpiredFront}
          \in SUBSET (InFlight \cup Queued)
      BY <2>1 DEF Queued
    <2> QED  BY <1>8, <1>f, <2>2, Zenon DEF Expire
  <1> QED
    BY <1>1, <1>2, <1>3, <1>4, <1>5, <1>6, <1>7, <1>8 DEF Next, Handlers
-----------------------------------------------------------------------------
(* Unanswered queries. *)

\* A query that is answered with a SERVFAIL has a reply.
LEMMA ServfailCounts ==
  ASSUME ReplyType, NEW Q, ServfailAll(Q)
  PROVE  \A q \in Query : q \in Q => replies'[q] > 0
  BY DEF ServfailAll, ReplyType, Least

\* A request that takes a stream id displaces at most a query whose stream the
\* connection does not know.
LEMMA Displaced ==
  ASSUME QueryType, ConnType, Wires, NEW p \in Query, p \notin InFlight, nextStream \in Streams,
         pending' = [pending EXCEPT ![nextStream] = p]
  PROVE  /\ p \in InFlight'
         /\ \A q \in InFlight \ InFlight' :
              \E s \in Streams : pending[s] = q /\ h3[s] # q /\ pending'[s] \notin {q, None}
  <1>1. p \in InFlight'
    BY WorkerAssumption, Zenon DEF InFlight, QueryType
  <1>2. ASSUME NEW q \in InFlight, q \notin InFlight'
        PROVE  pending[nextStream] = q /\ h3[nextStream] # q /\ pending'[nextStream] \notin {q, None}
    <2>1. PICK s \in Streams : pending[s] = q
      BY Zenon DEF InFlight
    <2>2. s = nextStream
      BY <1>2, <2>1, Zenon DEF InFlight, QueryType
    <2>3. h3[nextStream] = None
      BY DEF Wires, ConnType
    <2>4. pending'[nextStream] = p /\ q # p /\ q # None
      BY <1>1, <1>2, <2>1, Zenon DEF InFlight, QueryType
    <2> QED  BY <2>1, <2>2, <2>3, <2>4, WorkerAssumption
  <1> QED  BY <1>1, <1>2, Zenon

\* Every unanswered query stays in the books, but one whose stream id another
\* request takes over.
Kept ==
  \A q \in (InFlight \cup Queued) \ (InFlight \cup Queued)' :
    \/ replies'[q] > 0
    \/ \E s \in Streams : pending[s] = q /\ h3[s] # q /\ pending'[s] \notin {q, None}

\* Every step keeps them so.
LEMMA LostStep == Counting /\ IInv /\ [Next]_vars => [Kept]_vars
  <1> SUFFICES ASSUME Counting, IInv, Next PROVE Kept
    BY Zenon
  <1> USE DEF Kept, loopVars, connVars, flagVars, queryVars, replyVars, pathVars, pageVars
  <1>t. ConnType /\ QueryType /\ ReplyType /\ Books /\ Wires /\ h3_events \in Seq(Event)
    BY TypeParts, Zenon DEF IInv
  <1>q. ASSUME UNCHANGED <<pending, queue>> PROVE Kept
    BY <1>q, Zenon DEF InFlight, Queued
  <1>b. InFlight \subseteq Query /\ Queued \subseteq Query
    <2>1. InFlight \subseteq Query
      BY <1>t, Zenon DEF QueryType, InFlight
    <2>2. Queued \subseteq Query
      BY <1>t DEF QueryType, Queued
    <2> QED  BY <2>1, <2>2, Zenon
  <1>f. ASSUME FailAllPending, UNCHANGED queue PROVE Kept
    <2>1. Queued' = Queued
      BY <1>f, Zenon DEF Queued
    <2>2. \A q \in InFlight : replies'[q] > 0
      BY <1>t, <1>b, <1>f, ServfailCounts DEF FailAllPending
    <2> QED  BY <2>1, <2>2, Zenon
  <1>n. nextStream < Cardinality(Query) => nextStream \in Streams
    BY <1>t, StreamCount DEF ConnType, Streams
  <1>1. CASE \/ Wake \/ Tick \/ Publish \/ Signal \/ DrainDone \/ Connected \/ FlushDone \/ GoawayFrame
             \/ QuicPolled \/ QuicDone \/ HandleTimeout \/ TimerSendError \/ Migrate \/ Reconnect
    BY <1>1, <1>q, Zenon
    DEF Wake, Tick, Publish, Signal, DrainDone, Connected, FlushDone, GoawayFrame, QuicPolled,
        QuicDone, HandleTimeout, TimerSendError, Migrate, Reconnect
  <1>2. ASSUME NEW s \in Streams, NEW o \in {"response", "failed", "silent"}, StreamEnd(s, o)
        PROVE  Kept
    BY <1>2, <1>q, Zenon DEF StreamEnd
  <1>3. CASE EndBatch \/ Stop
    BY <1>3, <1>f, <1>q, Zenon DEF EndBatch, Stop
  <1>4. ASSUME NEW closed \in BOOLEAN, ConnectionLost(closed) PROVE Kept
    BY <1>4, <1>f, Zenon DEF ConnectionLost
  <1>5. ASSUME NEW p \in Query, DrainQuery(p) PROVE Kept
    <2>1. p \notin InFlight
      BY <1>t, <1>5, Zenon DEF DrainQuery, Books
    <2>2. CASE UNCHANGED <<pending, queue>>
      BY <1>q, <2>2, Zenon
    <2>3. CASE queue' = Append(queue, p) /\ UNCHANGED pending
      <3>1. InFlight' = InFlight
        BY <2>3, Zenon DEF InFlight
      <3>2. ASSUME NEW i \in 1..Len(queue) PROVE i \in 1..Len(queue') /\ queue'[i] = queue[i]
        BY <1>t, <2>3 DEF QueryType
      <3>3. Queued \subseteq Queued'
        BY <3>2, Zenon DEF Queued
      <3> QED  BY <3>1, <3>3, Zenon
    <2>4. CASE pending' = [pending EXCEPT ![nextStream] = p] /\ UNCHANGED queue
      <3>1. Queued' = Queued
        BY <2>4, Zenon DEF Queued
      <3>2. nextStream \in Streams
        BY <1>5, <1>n, StreamLeft
      <3> QED  BY <1>t, <2>1, <2>4, <3>1, <3>2, Displaced, Zenon
    <2> QED  BY <1>5, <2>2, <2>3, <2>4, Zenon DEF DrainQuery, DispatchQuery
  <1>6. CASE FlushQuery
    <2> DEFINE p == Head(queue)
    <2>1. /\ p = queue[1] /\ 1 \in 1..Len(queue) /\ p \in Query
          /\ Len(queue') = Len(queue) - 1 /\ Len(queue) \in Nat
          /\ \A i \in 1..Len(queue') : queue'[i] = queue[i + 1]
      BY <1>t, <1>6 DEF FlushQuery, QueryType
    <2>2. ASSUME NEW q \in Queued, q # p PROVE q \in Queued'
      <3>1. PICK i \in 1..Len(queue) : queue[i] = q
        BY Zenon DEF Queued
      <3>2. i # 1
        BY <2>1, <2>2, <3>1
      <3>3. i - 1 \in 1..Len(queue') /\ (i - 1) + 1 = i
        BY <2>1, <3>2
      <3>4. queue'[i - 1] = q
        BY <2>1, <3>1, <3>3
      <3> QED  BY <3>3, <3>4, Zenon DEF Queued
    <2>3. p \notin InFlight
      BY <1>t, <2>1 DEF Books, Queued
    <2>4. CASE ServfailAll({p}) /\ UNCHANGED pending
      <3>1. InFlight' = InFlight
        BY <2>4, Zenon DEF InFlight
      <3>2. replies'[p] > 0
        BY <1>t, <2>1, <2>4, ServfailCounts
      <3> QED  BY <2>2, <3>1, <3>2
    <2>5. CASE pending' = [pending EXCEPT ![nextStream] = p]
      <3>1. nextStream \in Streams
        BY <1>6, <1>n, StreamLeft
      <3>2. /\ p \in InFlight'
            /\ \A q \in InFlight \ InFlight' :
                 \E s \in Streams : pending[s] = q /\ h3[s] # q /\ pending'[s] \notin {q, None}
        BY <1>t, <2>1, <2>3, <2>5, <3>1, Displaced, Zenon
      <3> QED  BY <2>2, <3>2, Zenon
    <2> QED  BY <1>6, <2>4, <2>5, Zenon DEF FlushQuery, DispatchQuery
  <1>7. CASE ApplyH3
    <2> DEFINE ev == Head(h3_events)
               p == pending[ev.stream]
    <2>1. ev.stream \in Streams
      <3>1. ev \in Event
        BY <1>t, <1>7 DEF ApplyH3
      <3> QED  BY <3>1, Zenon DEF Event
    <2>2. UNCHANGED queue
      BY <1>7, Zenon DEF ApplyH3
    <2>3. CASE UNCHANGED pending
      BY <1>q, <2>2, <2>3, Zenon
    <2>4. CASE p # None /\ pending' = PendingWithout(ev.stream) /\ replies'[p] > 0
      <3>1. ASSUME NEW q \in InFlight, q # p PROVE q \in InFlight'
        BY <1>t, <2>4, <3>1, Zenon DEF InFlight, PendingWithout, QueryType
      <3>2. Queued' = Queued
        BY <2>2, Zenon DEF Queued
      <3> QED  BY <2>4, <3>1, <3>2, Zenon
    <2>5. \/ UNCHANGED pending
          \/ /\ p # None /\ pending' = PendingWithout(ev.stream)
             /\ \/ ServfailAll({p})
                \/ replies' = [replies EXCEPT ![p] = Least(@ + 1, 2)]
      BY <1>7, Zenon DEF ApplyH3
    <2>6. p # None => p \in Query
      BY <1>t, <2>1, Zenon DEF QueryType
    <2>7. ServfailAll({p}) /\ p # None => replies'[p] > 0
      BY <1>t, <2>6, ServfailCounts, Zenon
    <2>8. replies' = [replies EXCEPT ![p] = Least(@ + 1, 2)] /\ p # None => replies'[p] > 0
      BY <1>t, <2>6 DEF ReplyType, Least
    <2> QED  BY <2>3, <2>4, <2>5, <2>7, <2>8, Zenon
  <1>8. CASE Expire
    <2> DEFINE k == ExpiredFront
               Q == {q \in InFlight : left[q] = 0} \cup {queue[i] : i \in 1..k}
    <2>1. k \in 0..Len(queue) /\ Len(queue) \in Nat
      BY <1>t, FrontExpired DEF IInv, QueryType
    <2>2. /\ Len(queue') = Len(queue) - k
          /\ \A i \in 1..Len(queue') : queue'[i] = queue[i + k]
      BY <1>t, <1>8, <2>1 DEF Expire, QueryType
    <2>3. \A q \in Query : q \in Q => replies'[q] > 0
      BY <1>t, <1>8, ServfailCounts, Zenon DEF Expire
    <2>4. ASSUME NEW q \in InFlight, left[q] # 0 PROVE q \in InFlight'
      BY <1>8, <2>4 DEF Expire, InFlight
    <2>5. ASSUME NEW q \in Queued, q \notin Q PROVE q \in Queued'
      <3>1. PICK i \in 1..Len(queue) : queue[i] = q
        BY Zenon DEF Queued
      <3>2. ~(i \in 1..k)
        BY <2>5, <3>1, Zenon
      <3>3. i - k \in 1..Len(queue') /\ (i - k) + k = i
        BY <2>1, <2>2, <3>2
      <3>4. queue'[i - k] = q
        BY <2>2, <3>1, <3>3
      <3> QED  BY <3>3, <3>4, Zenon DEF Queued
    <2> QED  BY <1>b, <2>3, <2>4, <2>5, Zenon
  <1> QED
    BY <1>1, <1>2, <1>3, <1>4, <1>5, <1>6, <1>7, <1>8, Zenon DEF Next, Handlers
-----------------------------------------------------------------------------
(* What holds in every behaviour of the worker. *)
INSTANCE FiniteSetTheorems

\* What the steps use of the library.
LEMMA CountingHolds == Counting
  <1>1. \A R \in SUBSET Query : IsFiniteSet(R) /\ Cardinality(R) \in Nat
                                /\ Cardinality(R) <= Cardinality(Query)
    BY WorkerAssumption, FS_Subset, FS_CardinalityType
  <1>2. Cardinality({}) = 0 /\ Cardinality(Query) \in Nat /\ Cardinality(Query) # 0
    BY WorkerAssumption, FS_CardinalityType, FS_EmptySet
  <1>3. ASSUME NEW R \in SUBSET Query, NEW q \in Query \ R
        PROVE  Cardinality(R \cup {q}) = Cardinality(R) + 1 /\ Cardinality(R) < Cardinality(Query)
    <2>1. Cardinality(R \cup {q}) = Cardinality(R) + 1
      BY <1>1, FS_AddElement
    <2>2. R \cup {q} \in SUBSET Query
      BY Zenon
    <2> QED  BY <1>1, <1>2, <2>1, <2>2
  <1>4. ASSUME NEW T \in SUBSET Nat, T # {} PROVE \E k \in T : \A y \in T : k <= y
    <2>1. PICK k \in T : \A y \in T : ~ (<<y, k>> \in OpToRel(<, Nat))
      BY <1>4, NatLessThanWellFounded, WFMin, Zenon
    <2>2. \A y \in T : ~ (y < k)
      BY <2>1, Zenon DEF OpToRel
    <2> QED  BY <2>2
  <1>5. Cardinality(Query) > 0
    BY <1>2
  <1> QED  BY <1>1, <1>2, <1>3, <1>4, <1>5, Zenon DEF Counting

\* The inductive invariant is one.
THEOREM Invariance == Spec => []IInv
  <1>1. Init => IInv
    BY InitIInv, CountingHolds, Zenon
  <1>2. IInv /\ [Next]_vars => IInv'
    BY TypeStep, BooksStep, WiresStep, RoomStep, ConnStep, ExpiredStep, ScoreStep, CountingHolds DEF IInv
  <1> QED  BY <1>1, <1>2, PTL DEF Spec

\* Type correctness: in particular the backoff is bounded by its maximum, the
\* queue by MAX_QUEUED, and no stream id is beyond those of the pending table.
THEOREM TypeCorrect == Spec => []TypeOK
  <1>1. IInv => TypeOK
    BY Zenon DEF IInv
  <1> QED  BY <1>1, Invariance, PTL

\* The worker implements Forwarder: at most one reply to a client, and never the
\* response to another query.
THEOREM ImplementsForwarder == Spec => ForwarderSpec
  <1>1. Init => F!Init
    BY Zenon DEF Init, F!Init
  <1>2. IInv /\ [Next]_vars => [F!Forward]_(F!vars)
    BY ForwarderStep, CountingHolds, Zenon
  <1> QED  BY <1>1, <1>2, Invariance, PTL DEF Spec, ForwarderSpec, F!Spec

\* While it waits, a worker without a connection has a reconnect ahead, and no
\* query is left in the queue of a usable connection.
THEOREM NeverStrandedHolds == Spec => []NeverStranded
  <1>1. IInv => NeverStranded
    BY Zenon DEF IInv, Conn, NeverStranded
  <1> QED  BY <1>1, Invariance, PTL

\* The preamble is sent before any request, and once.
THEOREM PreambleOnceHolds == Spec => []PreambleOnce
  <1>1. IInv => PreambleOnce
    BY Zenon DEF IInv, Conn, PreambleOnce
  <1> QED  BY <1>1, Invariance, PTL

\* The score published for an address was measured on it.
THEOREM ScoreOfOwnAddressHolds == Spec => []ScoreOfOwnAddress
  <1>1. IInv => ScoreOfOwnAddress
    BY Zenon DEF IInv
  <1> QED  BY <1>1, Invariance, PTL

\* Housekeeping leaves nothing due.
THEOREM TimerMakesProgressHolds == Spec => TimerMakesProgress
  <1>1. IInv /\ [Next]_vars => [pc = "reconnect" => ~Due']_vars
    <2> SUFFICES ASSUME IInv, Next, pc = "reconnect" PROVE ~Due'
      BY Zenon
    <2>1. Reconnect
      BY Zenon DEF Next, Handlers, Wake, Tick, Publish, Signal, EndBatch, Stop, DrainQuery, DrainDone,
             Connected, FlushQuery, FlushDone, ConnectionLost, StreamEnd, GoawayFrame, QuicPolled,
             ApplyH3, QuicDone, HandleTimeout, TimerSendError, Expire, Migrate, PollingQuic
    <2>2. UNCHANGED <<pending, queue, left>>
      BY <2>1 DEF Reconnect, queryVars
    <2>3. reconnect_at' # 0
      <3>1. reconnect_at' \in {NotSet, ConnectRetry} \/ (reconnect_at # 0 /\ UNCHANGED reconnect_at)
        BY <2>1, Zenon DEF Reconnect, ConnectAndPreamble, ReconnectDue
      <3> QED  BY <3>1, Constants DEF NotSet
    <2> QED  BY <2>2, <2>3 DEF IInv, Expired, Due, InFlight
  <1> QED  BY <1>1, Invariance, PTL DEF Spec, TimerMakesProgress

\* An unanswered query leaves the books only when a request of a new connection
\* takes over its stream id.
THEOREM LostByReuseOnlyHolds == Spec => LostByReuseOnly
  <1>1. IInv /\ [Next]_vars => [Kept]_vars
    BY LostStep, CountingHolds, Zenon
  <1> QED  BY <1>1, Invariance, PTL DEF Spec, LostByReuseOnly, Kept
=============================================================================
