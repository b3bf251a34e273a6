------------------------------- MODULE Worker -------------------------------
(***************************************************************************)
(* One microdoh3 worker process (worker.rs): a single-threaded epoll loop  *)
(* that takes DNS queries, sends them as HTTP/3 requests over one QUIC     *)
(* connection, and answers every client with a response or a SERVFAIL.     *)
(*                                                                         *)
(* One wake-up delivers a set of epoll tokens; their handlers run one      *)
(* after the other, in any order, with one reading of the clock.  Handlers *)
(* that loop over queries or events are split at the loop, and pc forces   *)
(* the program's order.  Deadlines are kept as the time that is left: 0 is *)
(* due.  The QUIC library is external: it is what it may report.           *)
(***************************************************************************)
EXTENDS Integers, Sequences, FiniteSets

CONSTANTS
  Query,         \* queries the clients send, each once
  Addr,          \* upstream addresses
  UpstreamSets,  \* what the supervisor may publish: [weight, assigned]
  None,          \* no query
  MaxQueued,     \* MAX_QUEUED
  Timeout,       \* cfg.timeout, in ticks
  BackoffMax,    \* RECONNECT_BACKOFF_MAX, in ticks
  ConnectRetry,  \* the one second after a failed connect
  FailMigrate,   \* FAIL_MIGRATE_INTERVAL
  MigrateMin,    \* MIGRATE_MIN_INTERVAL
  MigrateRatio,  \* MIGRATE_RATIO_PCT
  MaxPages       \* bound: publications of the supervisor

ASSUME WorkerAssumption ==
  /\ IsFiniteSet(Query) /\ Query # {}
  /\ None \notin Query /\ "servfail" \notin Query
  /\ UpstreamSets \subseteq [weight : [Addr -> Nat], assigned : Addr]
  /\ \A c \in {MaxQueued, Timeout, ConnectRetry, BackoffMax} : c \in Nat \ {0}
  /\ \A c \in {FailMigrate, MigrateMin, MigrateRatio, MaxPages} : c \in Nat
  /\ FailMigrate <= MigrateMin

VARIABLES
  pc,            \* where the loop is
  todo,          \* tokens of this wake-up not handled yet
  shutdown,      \* the flag of the loop
  conn,          \* quic.conn: "none", "handshake", "up", "drained"
  preambles,     \* control streams opened on this connection
  nextStream,    \* request streams opened on this connection
  ticket,        \* the upstream may have handed out a session ticket
  early,         \* this connection was opened with early data
  h3,            \* h3.streams: the query of each registered request stream
  h3_events,     \* events H3 produced in this handler
  h3_ready, goaway, reconnect_at, backoff,
  pending,       \* pending[s]: the query in flight under stream id s
  queue,         \* queries waiting for the handshake
  left,          \* left[q]: time to the deadline of q
  my_remote, set, fail_streak, since_migrate,
  quality,       \* addresses whose latencies are in the EWMA (none: unmeasured)
  page, pages,   \* the resolve page and the number of publications
  received,      \* queries accepted from clients
  replies,       \* replies[q]: datagrams sent back for q, counted up to 2
  answer         \* answer[q]: the query whose response was sent, or "servfail"

loopVars == <<pc, todo, shutdown>>
connVars == <<conn, preambles, nextStream, ticket, early, h3>>
flagVars == <<h3_ready, goaway, reconnect_at, backoff>>
queryVars == <<pending, queue, left, received>>
replyVars == <<replies, answer>>
pathVars == <<my_remote, set, fail_streak, since_migrate, quality>>
pageVars == <<page, pages>>
vars == <<loopVars, connVars, h3_events, flagVars, queryVars, replyVars,
          pathVars, pageVars>>

Streams == 0..(Cardinality(Query) - 1)
NoStreams == [s \in Streams |-> None]
NotSet == -1
Least(a, b) == IF a < b THEN a ELSE b
Decr(n) == IF n > 0 THEN n - 1 ELSE n
InFlight == {pending[s] : s \in Streams} \ {None}
Queued == {queue[i] : i \in 1..Len(queue)}

\* run, up to the loop: the set is read, the first connect succeeded (an error
\* ends the process), and a fresh process has no session ticket.
Init ==
  /\ pc = "wait" /\ todo = {} /\ shutdown = FALSE
  /\ conn = "handshake" /\ preambles = 0 /\ nextStream = 0
  /\ ticket = FALSE /\ early = FALSE
  /\ h3 = NoStreams /\ h3_events = <<>>
  /\ h3_ready = FALSE /\ goaway = FALSE
  /\ reconnect_at = NotSet /\ backoff = 0
  /\ pending = NoStreams /\ queue = <<>> /\ received = {}
  /\ left = [q \in Query |-> 0]
  /\ page \in UpstreamSets /\ pages = 0
  /\ set = page /\ my_remote = page.assigned
  /\ fail_streak = 0 /\ since_migrate = 0
  /\ quality = {}
  /\ replies = [q \in Query |-> 0]
  /\ answer = [q \in Query |-> None]
-----------------------------------------------------------------------------
(* Replies. *)

ServfailAll(Q) ==
  /\ replies' = [q \in Query |-> IF q \in Q THEN Least(replies[q] + 1, 2) ELSE replies[q]]
  /\ answer' = [q \in Query |-> IF q \in Q THEN "servfail" ELSE answer[q]]

\* Mutant: in-flight queries dropped without a reply.
FailAllSilently ==
  /\ pending' = NoStreams
  /\ UNCHANGED replyVars

\* fail_all_pending
FailAllPending ==
  /\ ServfailAll(InFlight)
  /\ pending' = NoStreams

\* The connection is dropped, and its streams with it.
DropConnection ==
  /\ conn' = "none" /\ preambles' = 0 /\ nextStream' = 0 /\ early' = FALSE
  /\ h3' = NoStreams

\* dispatch_query: no stream credit or no live connection; a write error; sent.
DispatchQuery(q) ==
  \/ /\ ServfailAll({q})
     /\ UNCHANGED <<pending, h3, nextStream, left>>
  \/ /\ conn \in {"handshake", "up"}
     /\ nextStream' = nextStream + 1
     /\ ServfailAll({q})
     /\ UNCHANGED <<pending, h3, left>>
  \/ /\ conn \in {"handshake", "up"}
     /\ nextStream' = nextStream + 1
     /\ h3' = [h3 EXCEPT ![nextStream] = q]
     /\ pending' = [pending EXCEPT ![nextStream] = q]
     /\ left' = [left EXCEPT ![q] = Timeout]
     /\ UNCHANGED replyVars
-----------------------------------------------------------------------------
(* The loop: arm the timer, wait, handle the tokens, end of the batch. *)

\* A deadline the timer is armed for has passed.
Due == \/ reconnect_at = 0
       \/ \E q \in InFlight : left[q] = 0
       \/ queue # <<>> /\ left[Head(queue)] = 0

Ready == {t \in {"dns", "quic", "timer", "signal"} :
            CASE t = "dns" -> received # Query
              [] t = "quic" -> conn # "none"
              [] t = "timer" -> Due \/ conn # "none"
              [] t = "signal" -> ~shutdown}

\* poller.wait: every ready token is delivered, and QUIC timers, datagrams,
\* queries and signals are ready whenever their sender likes.
Wake ==
  /\ pc = "wait"
  /\ todo' \in (SUBSET Ready) \ {{}}
  /\ Due => "timer" \in todo'
  /\ pc' = "batch"
  /\ UNCHANGED <<shutdown, connVars, h3_events, flagVars, queryVars, replyVars,
                 pathVars, pageVars>>

\* Time passes while the worker waits.
Tick ==
  /\ pc = "wait"
  /\ left' = [q \in Query |-> Decr(left[q])]
  /\ reconnect_at' = Decr(reconnect_at)
  /\ since_migrate' = Least(since_migrate + 1, MigrateMin)
  /\ UNCHANGED <<loopVars, connVars, h3_events, h3_ready, goaway, backoff, pending,
                 queue, received, replyVars, my_remote, set, fail_streak, quality, pageVars>>

\* The supervisor publishes another set (atomically: see ResolvePage).
Publish ==
  /\ pc = "wait"
  /\ pages < MaxPages
  /\ pages' = pages + 1
  /\ page' \in UpstreamSets
  /\ UNCHANGED <<loopVars, connVars, h3_events, flagVars, queryVars, replyVars, pathVars>>

\* TOKEN_SIGNAL
Signal ==
  /\ pc = "batch" /\ "signal" \in todo
  /\ todo' = todo \ {"signal"}
  /\ shutdown' = TRUE
  /\ UNCHANGED <<pc, connVars, h3_events, flagVars, queryVars, replyVars, pathVars, pageVars>>

\* Mutant: no reconnect for a connection that drained.
DrainedForgotten == reconnect_at

\* reconnect_at.get_or_insert(now + backoff)
DrainedReconnect == IF reconnect_at = NotSet THEN backoff ELSE reconnect_at

\* After the batch: a drained connection is dropped; then loop or shut down.
EndBatch ==
  /\ pc = "batch" /\ todo = {}
  /\ IF conn = "drained"
       THEN /\ fail_streak' = Least(fail_streak + 1, 2)
            /\ FailAllPending
            /\ DropConnection
            /\ goaway' = FALSE /\ h3_ready' = FALSE
            /\ reconnect_at' = DrainedReconnect
       ELSE UNCHANGED <<fail_streak, pending, replyVars, conn, preambles, nextStream, early,
                        h3, goaway, h3_ready, reconnect_at>>
  /\ pc' = IF shutdown THEN "stopping" ELSE "wait"
  /\ UNCHANGED <<todo, shutdown, ticket, h3_events, backoff, queue,
                 left, received, my_remote, set, since_migrate, quality, pageVars>>

\* Graceful shutdown.
Stop ==
  /\ pc = "stopping"
  /\ FailAllPending
  /\ pc' = "stopped"
  /\ UNCHANGED <<todo, shutdown, connVars, h3_events, flagVars, queue, left, received,
                 pathVars, pageVars>>
-----------------------------------------------------------------------------
(* TOKEN_DNS: drain_dns. *)

DrainQuery(q) ==
  /\ pc = "dns" \/ (pc = "batch" /\ "dns" \in todo)
  /\ q \notin received
  /\ received' = received \cup {q}
  /\ pc' = "dns"
  /\ \/ /\ goaway \/ conn = "none"
        /\ ServfailAll({q})
        /\ UNCHANGED <<pending, h3, nextStream, left, queue>>
     \/ /\ ~goaway /\ conn # "none" /\ ~h3_ready
        /\ IF Len(queue) >= MaxQueued
             THEN ServfailAll({q}) /\ UNCHANGED <<queue, left>>
             ELSE /\ queue' = Append(queue, q)
                  /\ left' = [left EXCEPT ![q] = Timeout]
                  /\ UNCHANGED replyVars
        /\ UNCHANGED <<pending, h3, nextStream>>
     \/ /\ ~goaway /\ conn # "none" /\ h3_ready
        /\ DispatchQuery(q)
        /\ UNCHANGED queue
  /\ UNCHANGED <<todo, shutdown, conn, preambles, ticket, early, h3_events, flagVars, pathVars, pageVars>>

DrainDone ==
  /\ pc = "dns"
  /\ pc' = "batch" /\ todo' = todo \ {"dns"}
  /\ UNCHANGED <<shutdown, connVars, h3_events, flagVars, queryVars, replyVars, pathVars, pageVars>>
-----------------------------------------------------------------------------
(* TOKEN_QUIC: process_quic_events.  The library reports Connected first and
   ConnectionLost last. *)

PollingQuic == pc = "quic" \/ (pc = "batch" /\ "quic" \in todo)

\* Mutant: no preamble.
PreambleForgotten == preambles

\* if !h3_ready: send_preamble, then flush_queue.
ConnectedPreambles == IF h3_ready THEN preambles ELSE Least(preambles + 1, 2)
AfterConnected == IF h3_ready THEN "quic" ELSE "flush"

Connected ==
  /\ PollingQuic
  /\ conn = "handshake"
  /\ conn' = "up" /\ ticket' = TRUE
  /\ backoff' = 0 /\ reconnect_at' = NotSet /\ fail_streak' = 0
  /\ h3_ready' = TRUE
  /\ preambles' = ConnectedPreambles
  /\ pc' = AfterConnected
  /\ UNCHANGED <<todo, shutdown, nextStream, early, h3, h3_events, goaway, queryVars, replyVars,
                 my_remote, set, since_migrate, quality, pageVars>>

\* flush_queue, one query
FlushQuery ==
  /\ pc = "flush" /\ queue # <<>>
  /\ queue' = Tail(queue)
  /\ IF left[Head(queue)] = 0
       THEN ServfailAll({Head(queue)}) /\ UNCHANGED <<pending, h3, nextStream, left>>
       ELSE DispatchQuery(Head(queue))
  /\ UNCHANGED <<loopVars, conn, preambles, ticket, early, h3_events, flagVars, received,
                 pathVars, pageVars>>

FlushDone ==
  /\ pc = "flush" /\ queue = <<>>
  /\ pc' = "quic"
  /\ UNCHANGED <<todo, shutdown, connVars, h3_events, flagVars, queryVars, replyVars,
                 pathVars, pageVars>>

\* Exponential backoff, in units of 100 ms.
NextBackoff == Least(2 * backoff + 1, BackoffMax)

\* ConnectionLost; `closed` is an ApplicationClosed by the peer.
ConnectionLost(closed) ==
  /\ PollingQuic
  /\ conn # "none"
  /\ fail_streak' = IF closed THEN 0 ELSE Least(fail_streak + 1, 2)
  /\ FailAllPending
  /\ DropConnection
  /\ goaway' = FALSE /\ h3_ready' = FALSE
  /\ reconnect_at' = backoff
  /\ backoff' = NextBackoff
  /\ pc' = "h3"
  /\ UNCHANGED <<todo, shutdown, ticket, h3_events, queue, left,
                 received, my_remote, set, since_migrate, quality, pageVars>>

\* A request stream ends: finish with a good response, finish or reset with a
\* failure, or reset after malformed headers, which H3::reset does not report.
StreamEnd(s, outcome) ==
  /\ PollingQuic
  /\ conn = "up" /\ h3[s] # None
  /\ h3' = [h3 EXCEPT ![s] = None]
  /\ h3_events' = IF outcome = "silent" THEN h3_events
                  ELSE Append(h3_events, [kind |-> outcome, stream |-> s, of |-> h3[s]])
  /\ pc' = "quic"
  /\ UNCHANGED <<todo, shutdown, conn, preambles, nextStream, ticket, early, flagVars, queryVars,
                 replyVars, pathVars, pageVars>>

\* A GOAWAY frame on the server's control stream.
GoawayFrame ==
  /\ PollingQuic
  /\ conn = "up"
  /\ \A i \in 1..Len(h3_events) : h3_events[i].kind # "goaway"
  /\ h3_events' = Append(h3_events, [kind |-> "goaway", stream |-> 0, of |-> None])
  /\ pc' = "quic"
  /\ UNCHANGED <<todo, shutdown, connVars, flagVars, queryVars, replyVars, pathVars, pageVars>>

QuicPolled ==
  /\ PollingQuic
  /\ pc' = "h3"
  /\ UNCHANGED <<todo, shutdown, connVars, h3_events, flagVars, queryVars, replyVars,
                 pathVars, pageVars>>

\* Mutant: get instead of remove.
PendingKept(s) == pending

\* pending.remove(&stream)
PendingWithout(s) == [pending EXCEPT ![s] = None]

\* Apply one H3 event.
ApplyH3 ==
  /\ pc = "h3" /\ h3_events # <<>>
  /\ h3_events' = Tail(h3_events)
  /\ LET ev == Head(h3_events)
         q == pending[ev.stream]
     IN \/ /\ ev.kind = "response" /\ q # None
           /\ pending' = PendingWithout(ev.stream)
           /\ quality' = quality \cup {my_remote}
           /\ replies' = [replies EXCEPT ![q] = Least(@ + 1, 2)]
           /\ answer' = [answer EXCEPT ![q] = ev.of]
           /\ UNCHANGED <<goaway, reconnect_at>>
        \/ /\ ev.kind = "failed" /\ q # None
           /\ pending' = PendingWithout(ev.stream)
           /\ ServfailAll({q})
           /\ UNCHANGED <<goaway, reconnect_at, quality>>
        \/ /\ ev.kind = "goaway" /\ conn # "none"
           /\ goaway' = TRUE
           /\ reconnect_at' = IF InFlight = {} THEN 0 ELSE reconnect_at
           /\ UNCHANGED <<pending, replyVars, quality>>
        \/ /\ IF ev.kind = "goaway" THEN conn = "none" ELSE q = None
           /\ UNCHANGED <<pending, replyVars, quality, goaway, reconnect_at>>
  /\ UNCHANGED <<loopVars, connVars, h3_ready, backoff, queue, left, received, my_remote,
                 set, fail_streak, since_migrate, pageVars>>

QuicDone ==
  /\ pc = "h3" /\ h3_events = <<>>
  /\ pc' = "batch" /\ todo' = todo \ {"quic"}
  /\ UNCHANGED <<shutdown, connVars, h3_events, flagVars, queryVars, replyVars, pathVars, pageVars>>
-----------------------------------------------------------------------------
(* TOKEN_TIMER: handle_timeout, then housekeeping. *)

\* The idle timer may find the connection dead: drained, with its
\* ConnectionLost event not polled yet.
HandleTimeout ==
  /\ pc = "batch" /\ "timer" \in todo
  /\ conn' = conn \/ (conn # "none" /\ conn' = "drained")
  /\ pc' = "expire" /\ todo' = todo \ {"timer"}
  /\ UNCHANGED <<shutdown, preambles, nextStream, ticket, early, h3, h3_events, flagVars,
                 queryVars, replyVars, pathVars, pageVars>>

\* The flush inside handle_timeout fails, `?` ends the process.
TimerSendError ==
  /\ pc = "batch" /\ "timer" \in todo
  /\ conn # "none"
  /\ pc' = "exited"
  /\ UNCHANGED <<todo, shutdown, connVars, h3_events, flagVars, queryVars, replyVars,
                 pathVars, pageVars>>

\* Mutants: the queue never expires; a drained GOAWAY is never acted on.
NothingExpired == 0
GoawayIgnored(p) == FALSE

\* GOAWAY fully drained.
GoawayDrained(p) == goaway /\ p = NoStreams

\* Length of the expired front of the queue.
ExpiredFront == CHOOSE k \in 0..Len(queue) :
                  /\ \A i \in 1..k : left[queue[i]] = 0
                  /\ k < Len(queue) => left[queue[k + 1]] # 0

\* housekeeping, up to the migration: expire requests, adopt the set, expire
\* the queue.  The score it publishes is that of quality, for my_remote; what
\* becomes of it is in ScorePage and Fleet.
Expire ==
  /\ pc = "expire"
  /\ pending' = [s \in Streams |-> IF pending[s] # None /\ left[pending[s]] = 0
                                     THEN None ELSE pending[s]]
  /\ queue' = SubSeq(queue, ExpiredFront + 1, Len(queue))
  /\ ServfailAll({q \in InFlight : left[q] = 0} \cup {queue[i] : i \in 1..ExpiredFront})
  /\ set' = page
  /\ since_migrate' = IF page # set /\ page.weight[my_remote] = 0
                        THEN MigrateMin ELSE since_migrate
  /\ reconnect_at' = IF GoawayDrained(pending') THEN 0 ELSE reconnect_at
  /\ pc' = "migrate"
  /\ UNCHANGED <<todo, shutdown, connVars, h3_events, h3_ready, goaway, backoff, left,
                 received, my_remote, fail_streak, quality, pageVars>>

\* best_alternative: an address of the greatest weight other than the current.
BestAlternatives ==
  {a \in Addr \ {my_remote} : /\ set.weight[a] > 0
                              /\ \A b \in Addr \ {my_remote} : set.weight[b] <= set.weight[a]}

\* migration_target; `open` is the stagger window (migration_slot_open), a
\* phase of the clock.
MigrationTargets(open) ==
  IF fail_streak >= 2
    THEN {a \in BestAlternatives : /\ since_migrate >= FailMigrate
                                   /\ set.weight[a] > set.weight[my_remote]}
    ELSE {a \in {set.assigned} \ {my_remote} :
            /\ since_migrate >= MigrateMin
            /\ open
            /\ \/ set.weight[my_remote] = 0
               \/ set.weight[a] * 100 >= set.weight[my_remote] * MigrateRatio}

\* Mutant: the measurement of the old path is kept.
QualityKept == quality

\* Quality::new(): the measurement belongs to the old path.
FreshQuality == {}

Migrate ==
  /\ pc = "migrate"
  /\ pc' = "reconnect"
  /\ \E open \in BOOLEAN :
       IF reconnect_at = NotSet /\ MigrationTargets(open) # {}
         THEN /\ my_remote' \in MigrationTargets(open)
              /\ since_migrate' = 0 /\ fail_streak' = 0
              /\ quality' = FreshQuality
              /\ reconnect_at' = 0
         ELSE UNCHANGED <<my_remote, since_migrate, fail_streak, quality, reconnect_at>>
  /\ UNCHANGED <<todo, shutdown, connVars, h3_events, h3_ready, goaway, backoff, queryVars,
                 replyVars, set, pageVars>>

\* connect_and_preamble: success; no connection; or a connection whose first
\* packets could not be sent, before or after the early-data preamble.
ConnectAndPreamble ==
  /\ h3' = NoStreams /\ nextStream' = 0
  /\ \/ /\ conn' = "handshake" /\ early' \in {FALSE, ticket}
        /\ preambles' = IF early' THEN 1 ELSE 0
        /\ h3_ready' = early'
        /\ reconnect_at' = NotSet
        /\ UNCHANGED fail_streak
     \/ /\ \/ conn' = "none" /\ early' = FALSE /\ preambles' = 0
           \/ conn' = "handshake" /\ early' \in {FALSE, ticket} /\ preambles' = 0
           \/ conn' = "handshake" /\ ticket /\ early' = TRUE /\ preambles' = 1
        /\ h3_ready' = FALSE
        /\ fail_streak' = Least(fail_streak + 1, 2)
        /\ reconnect_at' = ConnectRetry

\* Mutant: the reconnect is skipped while a connection exists.
ReconnectIfNone == reconnect_at = 0 /\ conn = "none"
ReconnectDue == reconnect_at = 0

\* The reconnect of housekeeping closes what is left of the old connection.
Reconnect ==
  /\ pc = "reconnect"
  /\ pc' = "batch"
  /\ IF ReconnectDue
       THEN /\ goaway' = IF conn # "none" THEN FALSE ELSE goaway
            /\ ConnectAndPreamble
       ELSE UNCHANGED <<h3, goaway, conn, preambles, nextStream, early, h3_ready, reconnect_at,
                        fail_streak>>
  /\ UNCHANGED <<todo, shutdown, ticket, h3_events, backoff, queryVars, replyVars,
                 my_remote, set, since_migrate, quality, pageVars>>
-----------------------------------------------------------------------------
Handlers ==
  \/ Signal \/ EndBatch \/ Stop
  \/ \E q \in Query : DrainQuery(q)
  \/ DrainDone
  \/ Connected \/ FlushQuery \/ FlushDone
  \/ \E closed \in BOOLEAN : ConnectionLost(closed)
  \/ \E s \in Streams, o \in {"response", "failed", "silent"} : StreamEnd(s, o)
  \/ GoawayFrame \/ QuicPolled \/ ApplyH3 \/ QuicDone
  \/ HandleTimeout \/ TimerSendError
  \/ Expire \/ Migrate \/ Reconnect

Next == Wake \/ Tick \/ Publish \/ Handlers

Spec == Init /\ [][Next]_vars

\* The loop runs, a due timer wakes it (Wake), time passes, and a connection
\* always has a QUIC timer armed (keep-alive, idle), which wakes it too.
FairSpec ==
  /\ Spec
  /\ WF_vars(Wake) /\ WF_vars(Handlers) /\ SF_vars(Tick)
  /\ SF_vars(Wake /\ "timer" \in todo')
-----------------------------------------------------------------------------
Running == pc \notin {"stopped", "exited"}

\* Every variable stays in its range.
TypeOK ==
  /\ pc \in {"wait", "batch", "dns", "quic", "flush", "h3", "expire", "migrate",
             "reconnect", "stopping", "stopped", "exited"}
  /\ todo \subseteq {"dns", "quic", "timer", "signal"}
  /\ shutdown \in BOOLEAN
  /\ conn \in {"none", "handshake", "up", "drained"}
  /\ preambles \in 0..2
  /\ nextStream \in 0..Cardinality(Query)
  /\ ticket \in BOOLEAN /\ early \in BOOLEAN
  /\ h3 \in [Streams -> Query \cup {None}]
  /\ h3_events \in Seq([kind : {"response", "failed", "goaway"},
                        stream : Streams, of : Query \cup {None}])
  /\ h3_ready \in BOOLEAN /\ goaway \in BOOLEAN
  /\ reconnect_at \in NotSet..(BackoffMax + ConnectRetry)
  /\ backoff \in 0..BackoffMax
  /\ pending \in [Streams -> Query \cup {None}]
  /\ queue \in Seq(Query) /\ Len(queue) <= MaxQueued
  /\ left \in [Query -> 0..Timeout]
  /\ my_remote \in Addr
  /\ set \in UpstreamSets /\ page \in UpstreamSets
  /\ fail_streak \in 0..2
  /\ since_migrate \in 0..MigrateMin
  /\ quality \subseteq Addr
  /\ pages \in 0..MaxPages
  /\ received \subseteq Query
  /\ replies \in [Query -> 0..2]
  /\ answer \in [Query -> Query \cup {None, "servfail"}]

\* The worker implements Forwarder: a client gets at most one datagram for its
\* query, whatever time-outs, late responses, losses and shutdown do, and never
\* the response to another one, though every new connection uses the stream ids
\* of the one before it again.
F == INSTANCE Forwarder
ForwarderSpec == F!Spec

\* "pending clients get an immediate SERVFAIL ... on upstream timeout or
\* connection loss" (README): no accepted query is forgotten, it is answered,
\* in flight or queued.
NoQueryLost == Running => \A q \in received : replies[q] > 0 \/ q \in InFlight \cup Queued

\* An unanswered query leaves the books in one way only: its stream id is that
\* of a connection given up with the query in flight, and a request of the new
\* connection takes the id (pending.insert).
LostByReuseOnly ==
  [][\A q \in (InFlight \cup Queued) \ (InFlight \cup Queued)' :
       \/ replies'[q] > 0
       \/ \E s \in Streams : pending[s] = q /\ h3[s] # q /\ pending'[s] \notin {q, None}]_vars

\* The worker never waits for what cannot come: without a connection a
\* reconnect is ahead, and no query stays in the queue once request streams
\* may be opened, unless they could be from the start (early data flushes no
\* queue).
NeverStranded ==
  pc = "wait" => /\ conn = "none" => reconnect_at # NotSet
                 /\ h3_ready /\ ~early => queue = <<>>

\* The H3 preamble goes out before any request, and once per connection but
\* where an early one was followed by a send error.
PreambleOnce == conn # "none" => /\ preambles <= 1 \/ early
                                 /\ nextStream > 0 => preambles >= 1

\* The score that housekeeping publishes for my_remote was measured on
\* my_remote: no response of the connection before a migration counts.
ScoreOfOwnAddress == quality \subseteq {my_remote}

\* Every deadline the timer is armed for is dealt with by the handler it
\* wakes: housekeeping leaves nothing due, so the timer cannot spin.
TimerMakesProgress == [][pc = "reconnect" => ~Due']_vars

\* Every accepted query is answered, unless the process ends first.
EventuallyAnswered ==
  \A q \in Query : q \in received ~> replies[q] > 0 \/ ~Running

\* A connection the server drains is replaced, however many requests are in
\* flight when the GOAWAY arrives.
GoawayEnds == goaway ~> ~goaway \/ ~Running
=============================================================================
