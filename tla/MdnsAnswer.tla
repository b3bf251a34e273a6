----------------------------- MODULE MdnsAnswer -----------------------------
(***************************************************************************)
(* What mdns-publisher (main.go) has in its zone and what it answers.  A   *)
(* name stands for all its spellings, a resource record is a record of its *)
(* header's fields and data, the top bit of its class being `flush`.  A    *)
(* list of records, addresses or questions is the set of its elements, a   *)
(* pointer that may be nil a set of at most one: no order and no           *)
(* repetition in them is looked at.                                        *)
(***************************************************************************)
EXTENDS Integers

CONSTANT legacyUnicastMaxTTL

RR(name, type, data, ttl) ==
  [name |-> name, type |-> type, class |-> "IN", flush |-> TRUE, ttl |-> ttl, data |-> data]

\* An address is [ip, type, scope], its type that of its record.
recordsForIPs(name, ips, ttl) ==
  {RR(name, a.type, a.ip, ttl) : a \in {b \in ips : b.scope \notin {"link-local", "loopback"}}}

\* The types there are, none without records.
buildNSEC(name, records, ttl) ==
  IF records = {} THEN {} ELSE {RR(name, "NSEC", {r.type : r \in records}, ttl)}

\* The records of q's type, or the NSEC record instead.
Records(z, q, legacy) ==
  LET out == {r \in z.records : r.name = q.name /\ q.type \in {"ANY", r.type}}
      negative == {r \in z.nsec : r.name = q.name}
      found == IF out = {} /\ q.type # "ANY" /\ q.class = "IN" THEN negative ELSE out
  IN IF q.class \notin {"IN", "ANY"} THEN {} ELSE {[r EXCEPT !.flush = ~legacy] : r \in found}

\* Mutant: the data is not compared.
KnownByType(r, known) ==
  \E k \in known :
    /\ k.name = r.name /\ k.type = r.type /\ k.class = r.class
    /\ k.ttl >= r.ttl \div 2

isKnownAnswer(r, known) ==
  \E k \in known :
    /\ k.name = r.name /\ k.type = r.type /\ k.class = r.class /\ k.data = r.data
    /\ k.ttl >= r.ttl \div 2

filterKnownAnswers(records, known) ==
  {r \in records : ~isKnownAnswer(r, known)}

\* What is sent for a query, by multicast and to the querier alone: handlePacket
\* of a running server, and answerQuery.
answerQuery(z, msg, legacy) ==
  LET capped(r) == [r EXCEPT !.ttl = IF legacy /\ @ > legacyUnicastMaxTTL THEN legacyUnicastMaxTTL ELSE @]
      records(q) == {capped(r) : r \in filterKnownAnswers(Records(z, q, legacy), msg.Answer)}
      unicast(q) == legacy \/ q.qu
      gathered(Sel(_)) == UNION {records(q) : q \in {p \in msg.Question : Sel(p)}}
  IN IF msg.Response \/ msg.Truncated THEN [multicast |-> {}, unicast |-> {}]
     ELSE [multicast |-> gathered(LAMBDA q : ~unicast(q)), unicast |-> gathered(unicast)]
=============================================================================
