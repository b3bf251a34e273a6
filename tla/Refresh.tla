------------------------------- MODULE Refresh -------------------------------
(***************************************************************************)
(* The supervisor's bootstrap resolution of the upstream's name: the       *)
(* blocking one before the fork (Bootstrap::resolve), then step 3 of the   *)
(* loop, which drives an AsyncResolve between polls.  A tick of time is a  *)
(* second of the code; next_refresh and deadline are ticks still to go.    *)
(* Every AsyncResolve has a socket of its own, so the datagrams under way  *)
(* vanish with it.                                                         *)
(***************************************************************************)
EXTENDS Selection

CONSTANTS
  Zones,          \* what the name may resolve to: [AAAA, A] address sequences
  Ttls,           \* TTLs of address records
  FirstTtls,      \* TTLs of address records during the blocking resolution
  IdsOfA,         \* ids an A query may get; the AAAA query always gets 1
  IPv6, PreferIpv4, MaxAddrs,
  QUERY_TIMEOUT, ATTEMPTS, DEFAULT_TTL, MIN_TTL, RETRY_INTERVAL,
  None,
  MaxChanges,     \* bound: changes of the zone
  MaxDups,        \* bound: duplicated answers in a refresh
  MaxInbox        \* bound: datagrams waiting in the socket's buffer

Family == {"AAAA", "A"}
AddrsOf(z) == Range(z.AAAA) \cup Range(z.A)
Ips == {z[f] : z \in Zones, f \in Family} \cup {<<>>}
Ans == [fam : Family, ips : Ips, ttl : Nat]
Datagram == [id : Nat, answer : Ans]

\* An AsyncResolve; a family without an answer so far has None.
Resolve == [id_aaaa : Nat, id_a : Nat, deadline : Nat, attempts : Nat,
            aaaa : Ans \cup {None}, a : Ans \cup {None}]

ASSUME RefreshAssumption ==
  /\ \A z \in Zones, f \in Family : z[f] \in Seq(AddrsOf(z))
  /\ MaxAddrs \in Nat \ {0}
  /\ QUERY_TIMEOUT \in Nat \ {0} /\ ATTEMPTS \in Nat \ {0}
  /\ DEFAULT_TTL \in Nat \ {0} /\ MIN_TTL \in Nat \ {0} /\ RETRY_INTERVAL \in Nat \ {0}
  /\ MIN_TTL <= RETRY_INTERVAL
  /\ Ttls \subseteq Nat /\ FirstTtls \subseteq Nat
  /\ IdsOfA \subseteq Nat /\ IdsOfA \ {1} # {}
  /\ None \notin Resolve
  /\ MaxChanges \in Nat /\ MaxDups \in Nat /\ MaxInbox \in Nat \ {0}

VARIABLES
  pc,            \* "resolve", then "drive" and "poll" in turn
  first,         \* first[f]: what the blocking query of f returned, or None
  candidates,
  next_refresh,
  pending,       \* the AsyncResolve, or None
  readable,
  queries,       \* queries[f]: queries of the socket the resolver has to answer
  inbox,         \* datagrams in the socket's buffer
  zone, changes, dups,
  calm,          \* from here on the resolver answers, in time and correctly,
                 \* and the two ids drawn for a refresh differ
  since,         \* ticks since the last refresh ended, up to MIN_TTL (history)
  served         \* addresses the zone has held since the refresh began (history)

vars == <<pc, first, candidates, next_refresh, pending, readable, queries, inbox,
          zone, changes, dups, calm, since, served>>
world == <<zone, changes, calm>>

Answer(f, ips, ttl) == [fam |-> f, ips |-> ips, ttl |-> ttl]
Idle == [f \in Family |-> 0]
Down(t) == IF t = 0 THEN 0 ELSE t - 1

\* parse_response's TTL: the records' one, DEFAULT_TTL without any record.
TtlOf(ips, ttl) == IF ips = <<>> THEN DEFAULT_TTL ELSE ttl

\* What a resolver returns for f: its records, or (a failure) none at all.
Replies(f, ttls) ==
  {Answer(f, ips, TtlOf(ips, ttl)) :
     ips \in {zone[f]} \cup (IF calm THEN {} ELSE {<<>>}), ttl \in ttls}

Errors == IF calm THEN {} ELSE {None}

Init ==
  /\ pc = "resolve" /\ first = [f \in Family |-> None]
  /\ candidates = <<>> /\ next_refresh = 0 /\ pending = None /\ readable = FALSE
  /\ queries = Idle /\ inbox = <<>>
  /\ zone \in Zones /\ changes = 0 /\ dups = 0 /\ calm = FALSE
  /\ since = MIN_TTL /\ served = {}
-----------------------------------------------------------------------------
(* The blocking resolution. *)

\* Both queries, each with its own retries: an answer or an error.
SyncQueries ==
  /\ pc = "resolve"
  /\ \E r6 \in Replies("AAAA", FirstTtls) \cup Errors, r4 \in Replies("A", FirstTtls) \cup Errors :
       first' = [f \in Family |-> IF f = "AAAA" THEN r6 ELSE r4]
  /\ pc' = "resolved"
  /\ UNCHANGED <<candidates, next_refresh, pending, readable, queries, inbox, world,
                 dups, since, served>>

FirstIps(f) == IF first[f] = None THEN <<>> ELSE first[f].ips

\* min_ttl of the families that answered, DEFAULT_TTL for 0.
FirstTtl ==
  LET ttl == Min({first[f].ttl : f \in {g \in Family : first[g] # None}})
  IN IF ttl = 0 THEN DEFAULT_TTL ELSE ttl

FirstAddrs == FirstIps("AAAA") \o FirstIps("A")

\* resolve_upstream: IPv6 first.
ResolveUpstream ==
  SelectSeq(FirstAddrs, LAMBDA a : a \in IPv6) \o SelectSeq(FirstAddrs, LAMBDA a : a \notin IPv6)

\* Without any address: again, in two seconds.  Else the supervisor goes on.
SyncDone ==
  /\ pc = "resolved"
  /\ IF FirstAddrs = <<>>
       THEN pc' = "resolve" /\ UNCHANGED <<candidates, next_refresh>>
       ELSE /\ candidates' = UpdateCandidates(<<>>,
                               Ordered(ResolveUpstream, PreferIpv4, IPv6, MaxAddrs))
            /\ next_refresh' = FirstTtl
            /\ pc' = "drive"
  /\ first' = [f \in Family |-> None]
  /\ UNCHANGED <<pending, readable, queries, inbox, world, dups, since, served>>
-----------------------------------------------------------------------------
(* AsyncResolve. *)

\* AsyncResolve::start, send_both included.
Start ==
  /\ pc = "drive" /\ pending = None /\ next_refresh = 0
  /\ \E id \in (IF calm THEN IdsOfA \ {1} ELSE IdsOfA) :
       pending' = [id_aaaa |-> 1, id_a |-> id, deadline |-> QUERY_TIMEOUT, attempts |-> 1,
                   aaaa |-> None, a |-> None]
  /\ queries' = [f \in Family |-> 1]
  /\ served' = AddrsOf(zone) /\ since' = 0
  /\ pc' = "poll"
  /\ UNCHANGED <<first, candidates, next_refresh, readable, inbox, world, dups>>

\* No socket, or no packet.
StartFails ==
  /\ pc = "drive" /\ pending = None /\ next_refresh = 0 /\ ~calm
  /\ next_refresh' = RETRY_INTERVAL
  /\ pc' = "poll"
  /\ UNCHANGED <<first, candidates, pending, readable, queries, inbox, world, dups,
                 since, served>>

\* Mutant: every iteration that waits sets the time of the refresh anew.
NotDueRearmed ==
  /\ pc = "drive" /\ pending = None /\ next_refresh > 0
  /\ next_refresh' = RETRY_INTERVAL
  /\ pc' = "poll"
  /\ UNCHANGED <<first, candidates, pending, readable, queries, inbox, world, dups, since, served>>

NotDue ==
  /\ pc = "drive" /\ pending = None /\ next_refresh > 0
  /\ pc' = "poll"
  /\ UNCHANGED <<first, candidates, next_refresh, pending, readable, queries, inbox, world,
                 dups, since, served>>

\* The answer of the last datagram with this id, or the one known before.
LastFor(id, known) ==
  LET at == {i \in 1..Len(inbox) : inbox[i].id = id}
  IN IF at = {} THEN known ELSE inbox[Max(at)].answer

\* Mutant: an answer is taken for whichever query has none yet.
DrainedAny(r) ==
  IF ~readable \/ inbox = <<>> THEN r
  ELSE IF r.aaaa = None THEN [r EXCEPT !.aaaa = Head(inbox).answer]
  ELSE [r EXCEPT !.a = inbox[Len(inbox)].answer]

\* on_readable's loop: the AAAA query's id is tried first.
Drained(r) ==
  IF ~readable THEN r
  ELSE [r EXCEPT !.aaaa = LastFor(r.id_aaaa, @),
                 !.a = IF r.id_a = r.id_aaaa THEN @ ELSE LastFor(r.id_a, @)]

IsComplete(r) == r.aaaa # None /\ r.a # None

\* Mutant: the TTL is taken as it came.
FinishTtlAsIs(r) == LeastOf(r.aaaa.ttl, r.a.ttl)

\* finish: the lesser TTL, zeroes aside, and no less than MIN_TTL.
FinishTtl(r) ==
  LET ttls == {r.aaaa.ttl, r.a.ttl} \ {0}
  IN MaxOf(IF ttls = {} THEN DEFAULT_TTL ELSE Min(ttls), MIN_TTL)

\* Mutant: one socket, and its receive buffer, for all refreshes.
KeepSocket == queries' = Idle /\ dups' = 0 /\ UNCHANGED inbox

\* An AsyncResolve is dropped, and its socket with it.
CloseSocket == queries' = Idle /\ dups' = 0 /\ inbox' = <<>>

\* The iteration's on_readable completes the refresh (r is bound by \E, not
\* LET: TLC then drains the socket once, not at every use of r).
Complete ==
  /\ pc = "drive" /\ pending # None
  /\ \E r \in {Drained(pending)} :
       /\ readable /\ IsComplete(r)
       /\ candidates' = UpdateCandidates(candidates,
                          Ordered(r.aaaa.ips \o r.a.ips, PreferIpv4, IPv6, MaxAddrs))
       /\ next_refresh' = FinishTtl(r)
  /\ pending' = None /\ CloseSocket /\ served' = {}
  /\ pc' = "poll"
  /\ UNCHANGED <<first, readable, world, since>>

\* It does not, and the deadline is still ahead.
KeepWaiting ==
  /\ pc = "drive" /\ pending # None
  /\ ~(readable /\ IsComplete(Drained(pending)))
  /\ pending.deadline > 0
  /\ pending' = Drained(pending)
  /\ inbox' = IF readable THEN <<>> ELSE inbox
  /\ pc' = "poll"
  /\ UNCHANGED <<first, candidates, next_refresh, readable, queries, world, dups, since, served>>

\* The attempt is counted and the deadline set anew.
Resent(r) == [r EXCEPT !.attempts = @ + 1, !.deadline = QUERY_TIMEOUT]

\* The deadline has passed: on_timeout resends both queries...
Resend ==
  /\ pc = "drive" /\ pending # None
  /\ ~(readable /\ IsComplete(Drained(pending)))
  /\ pending.deadline = 0 /\ pending.attempts < ATTEMPTS
  /\ pending' = Resent(Drained(pending))
  /\ inbox' = IF readable THEN <<>> ELSE inbox
  /\ queries' = [f \in Family |-> queries[f] + 1]
  /\ pc' = "poll"
  /\ UNCHANGED <<first, candidates, next_refresh, readable, world, dups, since, served>>

\* Mutant: the refresh that failed stays pending.
GiveUpPending ==
  /\ pc = "drive" /\ pending # None
  /\ ~(readable /\ IsComplete(Drained(pending)))
  /\ pending.deadline = 0 /\ pending.attempts >= ATTEMPTS
  /\ pending' = Drained(pending) /\ CloseSocket /\ served' = {}
  /\ next_refresh' = RETRY_INTERVAL
  /\ pc' = "poll"
  /\ UNCHANGED <<first, candidates, readable, world, since>>

\* ... or gives up, and the addresses in force stay.
GiveUp ==
  /\ pc = "drive" /\ pending # None
  /\ ~(readable /\ IsComplete(Drained(pending)))
  /\ pending.deadline = 0 /\ pending.attempts >= ATTEMPTS
  /\ pending' = None /\ CloseSocket /\ served' = {}
  /\ next_refresh' = RETRY_INTERVAL
  /\ pc' = "poll"
  /\ UNCHANGED <<first, candidates, readable, world, since>>
-----------------------------------------------------------------------------
(* Step 4, the resolver and the network. *)

\* poll returns at once when the socket is readable; else, like the sleep
\* without a socket, it takes time.
Poll ==
  /\ pc = "poll"
  /\ readable' = (pending # None /\ inbox # <<>>)
  /\ \/ readable' /\ UNCHANGED <<next_refresh, pending, since>>
     \/ /\ calm => queries = Idle /\ ~readable'
        /\ next_refresh' = Down(next_refresh)
        /\ pending' = IF pending = None THEN None ELSE [pending EXCEPT !.deadline = Down(@)]
        /\ since' = IF pending = None THEN LeastOf(since + 1, MIN_TTL) ELSE since
  /\ pc' = "drive"
  /\ UNCHANGED <<first, candidates, queries, inbox, world, dups, served>>

IdOf(f) == IF f = "AAAA" THEN pending.id_aaaa ELSE pending.id_a

\* The resolver answers a query, once or (a duplicate) again.
Reply(f) ==
  /\ pending # None /\ queries[f] > 0 /\ Len(inbox) < MaxInbox
  /\ \E answer \in Replies(f, Ttls) : inbox' = Append(inbox, [id |-> IdOf(f), answer |-> answer])
  /\ \/ queries' = [queries EXCEPT ![f] = @ - 1] /\ UNCHANGED dups
     \/ dups < MaxDups /\ ~calm /\ dups' = dups + 1 /\ UNCHANGED queries
  /\ UNCHANGED <<pc, first, candidates, next_refresh, pending, readable, world, since, served>>

\* A query or its answer is lost.
Lose(f) ==
  /\ queries[f] > 0 /\ ~calm
  /\ queries' = [queries EXCEPT ![f] = @ - 1]
  /\ UNCHANGED <<pc, first, candidates, next_refresh, pending, readable, inbox, world, dups,
                 since, served>>

ZoneChanges ==
  /\ changes < MaxChanges /\ ~calm
  /\ zone' \in Zones \ {zone}
  /\ changes' = changes + 1
  /\ served' = IF pending = None THEN {} ELSE served \cup AddrsOf(zone')
  /\ UNCHANGED <<pc, first, candidates, next_refresh, pending, readable, queries, inbox, dups,
                 calm, since>>

CalmDown ==
  /\ ~calm /\ calm' = TRUE
  /\ UNCHANGED <<pc, first, candidates, next_refresh, pending, readable, queries, inbox, zone,
                 changes, dups, since, served>>
-----------------------------------------------------------------------------
Drive == Start \/ StartFails \/ NotDue \/ Complete \/ KeepWaiting \/ Resend \/ GiveUp

Supervise == SyncQueries \/ SyncDone \/ Drive \/ Poll

Next == \/ Supervise
        \/ \E f \in Family : Reply(f) \/ Lose(f)
        \/ ZoneChanges \/ CalmDown

Spec == Init /\ [][Next]_vars

\* The supervisor runs; the resolver answers what it does not lose.
FairSpec == Spec /\ WF_vars(Supervise) /\ WF_vars(\E f \in Family : Reply(f))
-----------------------------------------------------------------------------
\* "responses are matched by ID": an answer is filed under the query it
\* answers, whatever is lost, duplicated or late, if the random ids differ.
AnswersFiled ==
  pending # None /\ pending.id_a # pending.id_aaaa =>
                    /\ pending.aaaa # None => pending.aaaa.fam = "AAAA"
                    /\ pending.a # None => pending.a.fam = "A"

\* A refresh only brings in addresses the name has had since the refresh
\* began: no answer meant for an earlier one leaks into it.
NoStaleAnswer ==
  [][pc = "drive" /\ candidates' # candidates => Range(candidates') \subseteq served]_vars

\* "Minimum refresh interval": a refresh never begins earlier than MIN_TTL
\* after the refresh before it ended (the blocking resolution has no minimum).
RefreshSpacing == [][pending = None /\ pending' # None => since >= MIN_TTL]_vars

\* Every refresh ends, though the resolver never answers.
RefreshEnds == pending # None ~> pending = None

\* Once the resolver works and the zone is left alone, the candidates become
\* and remain what the name resolves to, whatever went wrong before.
CandidatesFollowDns ==
  calm ~> [](AddrsOf(zone) # {} =>
               candidates = Ordered(zone.AAAA \o zone.A, PreferIpv4, IPv6, MaxAddrs))
=============================================================================
