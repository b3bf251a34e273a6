----------------------------- MODULE PureProofs -----------------------------
(***************************************************************************)
(* Proofs about the code without state of its own, for any inputs: the     *)
(* CPUs of the workers (main.rs), the split of the fleet (shared.rs), what *)
(* mdns-publisher answers (main.go), padding and SERVFAIL of a worker      *)
(* (dns.rs) and the dns parameter of a GET (base64url.rs).                 *)
(***************************************************************************)
EXTENDS PureFunctions, TLAPS

\* The solver gets more than its 5 seconds, for slow machines.
USE SMTT(30)
-----------------------------------------------------------------------------
(* What the functions make of any input.  The input stays, and is of its kind. *)

LEMMA InputStays == PureSpec => []PureInit
  <1>1. PureInit /\ [UNCHANGED input]_input => PureInit'
    BY Zenon DEF PureInit
  <1> QED
    BY <1>1, PTL DEF PureSpec

LEMMA InputOf ==
  ASSUME PureInit
  PROVE  /\ Given("split") => IsSplit(input)
         /\ Given("datagram") => IsDatagram(input)
         /\ Given("host") => IsHost(input)
         /\ Given("mdns") => IsMdns(input)
  <1>1. PICK k \in DOMAIN Inputs : input \in Inputs[k]
    BY Zenon DEF PureInit
  <1>2. input.of = k
    BY <1>1, InputsAssumption, Zenon
  <1> QED
    BY <1>1, <1>2, InputsAssumption, Zenon DEF Given
-----------------------------------------------------------------------------
(* The answers of mdns-publisher.  What QuerierLearns names, of an input x:  *)
(* the addresses, their types, the records the query names, what a question  *)
(* is owed.  A pair of a type and its data stands for a record.             *)

Has(x) == {<<a.type, a.ip>> : a \in {b \in x.ips : b.scope = "global"}}
Types(x) == {h[1] : h \in Has(x)}
Named(x) == {<<k.type, k.data>> : k \in {l \in x.msg.Answer :
               l.name = x.own /\ l.class = "IN" /\ 2 * l.ttl + 1 >= x.ttl}}
Wanted(x, q) ==
  IF q.name # x.own \/ q.class \notin {"IN", "ANY"} THEN {}
  ELSE IF q.type = "ANY" \/ q.type \in Types(x) THEN {h \in Has(x) : q.type \in {"ANY", h[1]}}
  ELSE IF Has(x) # {} /\ q.class = "IN" THEN {<<"NSEC", Types(x)>>} ELSE {}
Zone(x) == LET rs == recordsForIPs(x.own, x.ips, x.ttl)
           IN [records |-> rs, nsec |-> buildNSEC(x.own, rs, x.ttl)]
Rec(name, w, flush, ttl) ==
  [name |-> name, type |-> w[1], class |-> "IN", flush |-> flush, ttl |-> ttl, data |-> w[2]]

\* The zone holds the global addresses.
LEMMA ZoneHas ==
  ASSUME NEW x, IsMdns(x)
  PROVE  /\ Zone(x).records = {RR(x.own, h[1], h[2], x.ttl) : h \in Has(x)}
         /\ Zone(x).nsec = IF Has(x) = {} THEN {} ELSE {RR(x.own, "NSEC", Types(x), x.ttl)}
  <1> DEFINE G == {b \in x.ips : b.scope = "global"}
             rs == recordsForIPs(x.own, x.ips, x.ttl)
  <1>1. Zone(x).records = rs /\ Zone(x).nsec = buildNSEC(x.own, rs, x.ttl)
    BY Zenon DEF Zone
  <1>2. G = {b \in x.ips : b.scope \notin {"link-local", "loopback"}}
    BY Zenon DEF IsMdns
  <1>3. rs = {RR(x.own, a.type, a.ip, x.ttl) : a \in G}
    BY <1>2, Zenon DEF recordsForIPs
  <1> HIDE DEF G, rs
  <1>4. Has(x) = {<<a.type, a.ip>> : a \in G}
    BY Zenon DEF Has, G
  <1>5. rs = {RR(x.own, h[1], h[2], x.ttl) : h \in Has(x)}
    <2> DEFINE rr(h) == RR(x.own, h[1], h[2], x.ttl)
    <2>1. \A a \in G : RR(x.own, a.type, a.ip, x.ttl) = rr(<<a.type, a.ip>>)
      BY Zenon
    <2> HIDE DEF rr
    <2>2. rs = {rr(<<a.type, a.ip>>) : a \in G}
      BY <1>3, <2>1, Zenon
    <2>3. rs = {rr(h) : h \in Has(x)}
      BY <1>4, <2>2, Zenon
    <2> QED  BY <2>3, Zenon DEF rr
  <1>6. rs = {} <=> Has(x) = {}
    BY <1>5, Zenon
  <1>7. {r.type : r \in rs} = Types(x)
    <2>1. \A h \in Has(x) : RR(x.own, h[1], h[2], x.ttl).type = h[1]
      BY Zenon DEF RR
    <2> QED  BY <1>5, <2>1, Zenon DEF Types
  <1> QED
    BY <1>1, <1>5, <1>6, <1>7, Zenon DEF buildNSEC

\* The records of a question are those it is owed.
LEMMA FoundIsWanted ==
  ASSUME NEW x, IsMdns(x), NEW q
  PROVE  Records(Zone(x), q, x.legacy) = {Rec(x.own, w, ~x.legacy, x.ttl) : w \in Wanted(x, q)}
  <1> DEFINE rr(w) == RR(x.own, w[1], w[2], x.ttl)
             out == {r \in Zone(x).records : r.name = q.name /\ q.type \in {"ANY", r.type}}
             negative == {r \in Zone(x).nsec : r.name = q.name}
             found == IF out = {} /\ q.type # "ANY" /\ q.class = "IN" THEN negative ELSE out
  <1>1. Records(Zone(x), q, x.legacy) =
          IF q.class \notin {"IN", "ANY"} THEN {} ELSE {[r EXCEPT !.flush = ~x.legacy] : r \in found}
    BY Zenon DEF Records
  <1>2. /\ Zone(x).records = {rr(h) : h \in Has(x)}
        /\ Zone(x).nsec = IF Has(x) = {} THEN {} ELSE {rr(<<"NSEC", Types(x)>>)}
    BY ZoneHas, Zenon
  <1>3. \A w : rr(w).name = x.own /\ rr(w).type = w[1]
    BY Zenon DEF RR
  <1>4. \A w : [rr(w) EXCEPT !.flush = ~x.legacy] = Rec(x.own, w, ~x.legacy, x.ttl)
    BY DEF RR, Rec
  <1> HIDE DEF rr
  <1>5. q.class \in {"IN", "ANY"} => found = {rr(w) : w \in Wanted(x, q)}
    <2> SUFFICES ASSUME q.class \in {"IN", "ANY"} PROVE found = {rr(w) : w \in Wanted(x, q)}
      BY Zenon
    <2>1. CASE q.name # x.own
      <3>1. out = {} /\ negative = {}
        BY <1>2, <1>3, <2>1, Zenon
      <3>2. Wanted(x, q) = {}
        BY <2>1, Zenon DEF Wanted
      <3> QED  BY <3>1, <3>2, Zenon
    <2>2. CASE q.name = x.own
      <3> DEFINE W == {h \in Has(x) : q.type \in {"ANY", h[1]}}
      <3>1. out = {rr(h) : h \in W}
        BY <1>2, <1>3, <2>2, Zenon
      <3>2. negative = IF Has(x) = {} THEN {} ELSE {rr(<<"NSEC", Types(x)>>)}
        BY <1>2, <1>3, <2>2, Zenon
      <3>3. CASE q.type = "ANY" \/ q.type \in Types(x)
        <4>1. Wanted(x, q) = W
          BY <2>2, <3>3, Zenon DEF Wanted
        <4>2. q.type # "ANY" => W # {}
          BY <3>3, Zenon DEF Types
        <4> HIDE DEF W
        <4>3. q.type # "ANY" => out # {}
          BY <3>1, <4>2, Zenon
        <4> QED  BY <3>1, <4>1, <4>3, Zenon
      <3>4. CASE ~(q.type = "ANY" \/ q.type \in Types(x))
        <4>1. W = {}
          BY <3>4, Zenon DEF Types
        <4>2. out = {}
          BY <3>1, <4>1, Zenon
        <4>3. Wanted(x, q) = IF Has(x) # {} /\ q.class = "IN" THEN {<<"NSEC", Types(x)>>} ELSE {}
          BY <2>2, <3>4, Zenon DEF Wanted
        <4> HIDE DEF out, negative
        <4>4. CASE Has(x) # {} /\ q.class = "IN"
          BY <3>2, <3>4, <4>2, <4>3, <4>4, Zenon
        <4>5. CASE ~(Has(x) # {} /\ q.class = "IN")
          BY <3>2, <3>4, <4>2, <4>3, <4>5, Zenon
        <4> QED  BY <4>4, <4>5, Zenon
      <3> QED  BY <3>3, <3>4, Zenon
    <2> QED  BY <2>1, <2>2, Zenon
  <1>6. q.class \notin {"IN", "ANY"} => Wanted(x, q) = {}
    BY Zenon DEF Wanted
  <1> HIDE DEF found
  <1>7. CASE q.class \in {"IN", "ANY"}
    <2>1. Records(Zone(x), q, x.legacy) = {[r EXCEPT !.flush = ~x.legacy] : r \in found}
      BY <1>1, <1>7, Zenon
    <2>2. Records(Zone(x), q, x.legacy) = {[rr(w) EXCEPT !.flush = ~x.legacy] : w \in Wanted(x, q)}
      BY <1>5, <1>7, <2>1, Zenon
    <2> DEFINE sent(w) == [rr(w) EXCEPT !.flush = ~x.legacy]
               rec(w) == Rec(x.own, w, ~x.legacy, x.ttl)
    <2>3. \A w : sent(w) = rec(w)
      BY <1>4, Zenon
    <2> HIDE DEF sent, rec
    <2>4. {sent(w) : w \in Wanted(x, q)} = {rec(w) : w \in Wanted(x, q)}
      BY <2>3, Zenon
    <2> QED  BY <2>2, <2>4, Zenon DEF sent, rec
  <1>8. CASE q.class \notin {"IN", "ANY"}
    BY <1>1, <1>6, <1>8, Zenon
  <1> QED
    BY <1>7, <1>8, Zenon


\* A record that is owed is known just if the query names it with half its TTL.
LEMMA KnownIsNamed ==
  ASSUME NEW x, IsMdns(x), NEW t, NEW d, NEW f
  PROVE  isKnownAnswer(Rec(x.own, <<t, d>>, f, x.ttl), x.msg.Answer) <=> <<t, d>> \in Named(x)
  <1> DEFINE r == Rec(x.own, <<t, d>>, f, x.ttl)
  <1>1. r.name = x.own /\ r.type = t /\ r.class = "IN" /\ r.data = d /\ r.ttl = x.ttl
    BY Zenon DEF Rec
  <1>2. \A k \in x.msg.Answer : k.ttl >= x.ttl \div 2 <=> 2 * k.ttl + 1 >= x.ttl
    <2> SUFFICES ASSUME NEW k \in x.msg.Answer
                 PROVE  k.ttl >= x.ttl \div 2 <=> 2 * k.ttl + 1 >= x.ttl
      BY Zenon
    <2> DEFINE a == k.ttl
               b == x.ttl
    <2>1. a \in Nat /\ b \in Nat
      BY Zenon DEF IsMdns
    <2> HIDE DEF a, b
    <2>2. a >= b \div 2 <=> 2 * a + 1 >= b
      BY ONLY <2>1
    <2> QED  BY <2>2, Zenon DEF a, b
  <1> HIDE DEF r
  <1>3. isKnownAnswer(r, x.msg.Answer) <=>
          \E k \in x.msg.Answer : /\ k.name = x.own /\ k.type = t /\ k.class = "IN" /\ k.data = d
                                  /\ k.ttl >= x.ttl \div 2
    BY <1>1, Zenon DEF isKnownAnswer
  <1>4. <<t, d>> \in Named(x) <=>
          \E k \in x.msg.Answer : /\ k.name = x.own /\ k.type = t /\ k.class = "IN" /\ k.data = d
                                  /\ 2 * k.ttl + 1 >= x.ttl
    BY Zenon DEF Named
  <1> QED
    BY <1>2, <1>3, <1>4, Zenon DEF r

\* What a question is owed are pairs.
LEMMA WantedPairs ==
  ASSUME NEW x, NEW q, NEW w \in Wanted(x, q)
  PROVE  w = <<w[1], w[2]>>
  <1>1. \A h \in Has(x) : h = <<h[1], h[2]>>
    BY DEF Has
  <1>2. w \in Has(x) \/ w = <<"NSEC", Types(x)>>
    BY Zenon DEF Wanted
  <1> QED
    BY <1>1, <1>2

\* The TTL of what is sent, and what a set of questions is owed.
SentTTL(x) == IF x.legacy THEN LeastOf(x.ttl, legacyUnicastMaxTTL) ELSE x.ttl
Owed(x, Q) == (UNION {Wanted(x, q) : q \in Q}) \ Named(x)
Sent(x, W) == {Rec(x.own, w, ~x.legacy, SentTTL(x)) : w \in W}
Capped(r, legacy) ==
  [r EXCEPT !.ttl = IF legacy /\ @ > legacyUnicastMaxTTL THEN legacyUnicastMaxTTL ELSE @]
Replies(x, q) == {Capped(r, x.legacy) : r \in filterKnownAnswers(Records(Zone(x), q, x.legacy), x.msg.Answer)}

\* The records sent for a question.
LEMMA RepliesOwed ==
  ASSUME NEW x, IsMdns(x), NEW q
  PROVE  Replies(x, q) = Sent(x, Wanted(x, q) \ Named(x))
  <1> DEFINE rec(w) == Rec(x.own, w, ~x.legacy, x.ttl)
             sent(w) == Rec(x.own, w, ~x.legacy, SentTTL(x))
             A == filterKnownAnswers(Records(Zone(x), q, x.legacy), x.msg.Answer)
             D == Wanted(x, q) \ Named(x)
  <1>1. Records(Zone(x), q, x.legacy) = {rec(w) : w \in Wanted(x, q)}
    BY FoundIsWanted, Zenon
  <1>2. ASSUME NEW w \in Wanted(x, q)
        PROVE  isKnownAnswer(rec(w), x.msg.Answer) <=> w \in Named(x)
    <2>1. w = <<w[1], w[2]>>
      BY WantedPairs, Zenon
    <2>2. isKnownAnswer(Rec(x.own, <<w[1], w[2]>>, ~x.legacy, x.ttl), x.msg.Answer) <=> <<w[1], w[2]>> \in Named(x)
      BY KnownIsNamed, Zenon
    <2> QED  BY <2>1, <2>2, Zenon
  <1>3. ASSUME NEW w PROVE Capped(rec(w), x.legacy) = sent(w)
    <2>1. x.ttl \in Nat /\ x.legacy \in BOOLEAN /\ legacyUnicastMaxTTL \in Nat
      BY InputsAssumption, Zenon DEF IsMdns
    <2>2. SentTTL(x) = IF x.legacy /\ x.ttl > legacyUnicastMaxTTL THEN legacyUnicastMaxTTL ELSE x.ttl
      BY <2>1 DEF SentTTL, LeastOf
    <2>3. Capped(rec(w), x.legacy) =
            [rec(w) EXCEPT !.ttl = IF x.legacy /\ x.ttl > legacyUnicastMaxTTL THEN legacyUnicastMaxTTL ELSE x.ttl]
      BY Zenon DEF Capped, Rec
    <2>4. [rec(w) EXCEPT !.ttl = SentTTL(x)] = sent(w)
      BY DEF Rec
    <2> QED  BY <2>2, <2>3, <2>4, Zenon
  <1> HIDE DEF rec
  <1>4. A = {rec(w) : w \in D}
    BY <1>1, <1>2, Zenon DEF filterKnownAnswers
  <1> HIDE DEF A, D, sent
  <1>5. {Capped(r, x.legacy) : r \in A} = {sent(w) : w \in D}
    BY <1>3, <1>4, Zenon
  <1> QED
    BY <1>5, Zenon DEF Replies, Sent, A, D, sent

\* The records sent for all questions of a kind.
LEMMA GatheredOwed ==
  ASSUME NEW x, IsMdns(x), NEW Q
  PROVE  LET rs == UNION {Replies(x, q) : q \in Q}
         IN /\ {<<r.type, r.data>> : r \in rs} = Owed(x, Q)
            /\ \A r \in rs : /\ r.name = x.own /\ r.class = "IN" /\ r.flush = ~x.legacy
                             /\ r.ttl = SentTTL(x)
  <1> DEFINE sent(w) == Rec(x.own, w, ~x.legacy, SentTTL(x))
             rs == UNION {Replies(x, q) : q \in Q}
  <1>1. \A q \in Q : Replies(x, q) = {sent(w) : w \in Wanted(x, q) \ Named(x)}
    BY RepliesOwed, Zenon DEF Sent
  <1>2. \A w : /\ sent(w).name = x.own /\ sent(w).class = "IN" /\ sent(w).flush = ~x.legacy
               /\ sent(w).ttl = SentTTL(x)
    BY Zenon DEF Rec
  <1>3. \A w : <<sent(w).type, sent(w).data>> = <<w[1], w[2]>>
    BY Zenon DEF Rec
  <1> HIDE DEF sent
  <1>4. rs = {sent(w) : w \in Owed(x, Q)}
    <2>1. \A w : w \in Owed(x, Q) <=> \E q \in Q : w \in Wanted(x, q) \ Named(x)
      BY Zenon DEF Owed
    <2>2. \A r : r \in rs <=> \E q \in Q : \E w \in Wanted(x, q) \ Named(x) : r = sent(w)
      BY <1>1, Zenon
    <2> HIDE DEF rs
    <2> QED  BY <2>1, <2>2, Zenon
  <1>5. ASSUME NEW w \in Owed(x, Q) PROVE w = <<w[1], w[2]>>
    <2>1. PICK q \in Q : w \in Wanted(x, q)
      BY Zenon DEF Owed
    <2> QED  BY <2>1, WantedPairs, Zenon
  <1> HIDE DEF rs
  <1>6. {<<r.type, r.data>> : r \in rs} = {<<sent(w).type, sent(w).data>> : w \in Owed(x, Q)}
    BY <1>4, Zenon
  <1>7. {<<sent(w).type, sent(w).data>> : w \in Owed(x, Q)} = {<<w[1], w[2]>> : w \in Owed(x, Q)}
    BY <1>3, Zenon
  <1>8. {<<w[1], w[2]>> : w \in Owed(x, Q)} = Owed(x, Q)
    BY <1>5, Zenon
  <1> QED
    BY <1>2, <1>4, <1>6, <1>7, <1>8, Zenon DEF rs

\* Who asks mdns-publisher learns the addresses of the asked type, or which
\* types there are, or has named them; and nothing else is sent (main.go,
\* handlePacket and answerQuery), for any zone, query and known answers.
THEOREM QuerierLearnsHolds == PureSpec => []QuerierLearns
  <1>1. ASSUME PureInit PROVE QuerierLearns
    <2> DEFINE x == input
               silent == x.msg.Response \/ x.msg.Truncated
               multi == {p \in x.msg.Question : ~(x.legacy \/ p.qu)}
               uni == {p \in x.msg.Question : x.legacy \/ p.qu}
               gathered(Q) == UNION {Replies(x, q) : q \in Q}
               answer == answerQuery(Zone(x), x.msg, x.legacy)
    <2> SUFFICES ASSUME Given("mdns") PROVE QuerierLearns
      BY Zenon DEF QuerierLearns
    <2>1. IsMdns(x)
      BY <1>1, InputOf, Zenon
    <2>2. answer = IF silent THEN [multicast |-> {}, unicast |-> {}]
                   ELSE [multicast |-> gathered(multi), unicast |-> gathered(uni)]
      BY Zenon DEF answerQuery, Replies, Capped
    <2>3. multi = {p \in x.msg.Question : ~x.legacy /\ ~p.qu}
      BY Zenon
    <2> HIDE DEF answer, multi
    <2>4. /\ {<<r.type, r.data>> : r \in answer.multicast} = IF silent THEN {} ELSE Owed(x, multi)
          /\ {<<r.type, r.data>> : r \in answer.unicast} = IF silent THEN {} ELSE Owed(x, uni)
          /\ \A r \in answer.multicast \cup answer.unicast :
               /\ r.name = x.own /\ r.class = "IN" /\ r.flush = ~x.legacy /\ r.ttl = SentTTL(x)
      <3> HIDE DEF uni, gathered
      <3>1. CASE silent
        <4>1. answer.multicast = {} /\ answer.unicast = {}
          BY <2>2, <3>1, Zenon
        <4> QED  BY <3>1, <4>1, Zenon
      <3>2. CASE ~silent
        <4>1. answer.multicast = gathered(multi) /\ answer.unicast = gathered(uni)
          BY <2>2, <3>2, Zenon
        <4>2. \A Q : /\ {<<r.type, r.data>> : r \in gathered(Q)} = Owed(x, Q)
                     /\ \A r \in gathered(Q) :
                          /\ r.name = x.own /\ r.class = "IN" /\ r.flush = ~x.legacy
                          /\ r.ttl = SentTTL(x)
          BY <2>1, GatheredOwed, Zenon DEF gathered
        <4> HIDE DEF silent
        <4> QED  BY <3>2, <4>1, <4>2, Zenon
      <3> QED  BY <3>1, <3>2, Zenon
    <2> DEFINE due(Q) == IF silent THEN {} ELSE Owed(x, Q)
    <2>5. QuerierLearns <=>
            /\ {<<r.type, r.data>> : r \in answer.multicast} =
                 due({p \in x.msg.Question : ~x.legacy /\ ~p.qu})
            /\ {<<r.type, r.data>> : r \in answer.unicast} = due(uni)
            /\ \A r \in answer.multicast \cup answer.unicast :
                 /\ r.name = x.own /\ r.class = "IN" /\ r.flush = ~x.legacy /\ r.ttl = SentTTL(x)
      BY Zenon DEF QuerierLearns, answer, Zone, Owed, Wanted, Has, Types, Named, SentTTL
    <2> HIDE DEF silent, uni
    <2> QED
      BY <2>3, <2>4, <2>5, Zenon
  <1> QED
    BY <1>1, InputStays, PTL
-----------------------------------------------------------------------------
(* What a worker makes of a query for the upstream (dns.rs, base64url.rs). *)

Byte == {n \in Nat : n < 256}

\* A function on 1..n is a sequence.
LEMMA IsSeq ==
  ASSUME NEW T, NEW n \in Nat, NEW f \in [1..n -> T]
  PROVE  f \in Seq(T) /\ Len(f) = n
  <1>1. f \in Seq(T)
    OBVIOUS
  <1>2. Len(f) \in Nat /\ 1..Len(f) = 1..n
    BY <1>1
  <1>3. n # 0 => n \in 1..Len(f)
    BY <1>2
  <1>4. Len(f) # 0 => Len(f) \in 1..n
    BY <1>2
  <1>5. Len(f) = n
    BY ONLY n \in Nat, <1>2, <1>3, <1>4
  <1> QED
    BY <1>1, <1>5, Zenon

\* What a reader makes of the characters.
LEMMA SextetOf ==
  /\ \A c \in 65..90 : Sextet(c) = c - 65
  /\ \A c \in 97..122 : Sextet(c) = c - 71
  /\ \A c \in 48..57 : Sextet(c) = c + 4
  /\ Sextet(45) = 62
  /\ Sextet(95) = 63
  <1>1. \A c \in 65..90 : Sextet(c) = c - 65
    BY DEF Sextet
  <1>2. \A c \in 97..122 : Sextet(c) = c - 71
    BY DEF Sextet
  <1>3. \A c \in 48..57 : Sextet(c) = c + 4
    BY DEF Sextet
  <1>4. Sextet(45) = 62
    BY DEF Sextet
  <1>5. Sextet(95) = 63
    BY DEF Sextet
  <1> QED
    BY <1>1, <1>2, <1>3, <1>4, <1>5, Zenon

\* The characters of the alphabet are read as what they stand for.
LEMMA SextetBack ==
  ASSUME NEW i \in 0..63
  PROVE  Sextet(ALPHABET[i]) = i
  <1>1. CASE i < 26
    <2>1. ALPHABET[i] = 65 + i
      BY <1>1 DEF ALPHABET
    <2> QED
      BY <1>1, <2>1, SextetOf
  <1>2. CASE i \in 26..51
    <2>1. ALPHABET[i] = 97 + i - 26
      BY <1>2 DEF ALPHABET
    <2> QED
      BY <1>2, <2>1, SextetOf
  <1>3. CASE i \in 52..61
    <2>1. ALPHABET[i] = 48 + i - 52
      BY <1>3 DEF ALPHABET
    <2> QED
      BY <1>3, <2>1, SextetOf
  <1>4. CASE i = 62
    <2>1. ALPHABET[i] = 45
      BY <1>4 DEF ALPHABET
    <2> QED
      BY <1>4, <2>1, SextetOf, Zenon
  <1>5. CASE i = 63
    <2>1. ALPHABET[i] = 95
      BY <1>5 DEF ALPHABET
    <2> QED
      BY <1>5, <2>1, SextetOf, Zenon
  <1> QED
    BY <1>1, <1>2, <1>3, <1>4, <1>5

\* The sextets of three bytes, and how those are read from them.
Spell(s, x, y, z) ==
  /\ s[1] \in 0..63 /\ s[2] \in 0..63 /\ s[3] \in 0..63 /\ s[4] \in 0..63
  /\ ((64 * s[1] + s[2]) \div 16) % 256 = x
  /\ ((64 * s[2] + s[3]) \div 4) % 256 = y
  /\ ((64 * s[3] + s[4]) \div 1) % 256 = z
Sextets(w) == [e \in 1..4 |-> (w \div SHIFTS[e]) % 64]

\* The sextets the shifts of encode_into cut from three bytes give them back.
LEMMA Bits ==
  ASSUME NEW x \in Byte, NEW y \in Byte, NEW z \in Byte
  PROVE  Spell(Sextets(Word(x, y, z)), x, y, z)
  <1> DEFINE w == 65536 * x + 256 * y + z
             s == Sextets(w)
  <1>0. x \in Nat /\ x < 256 /\ y \in Nat /\ y < 256 /\ z \in Nat /\ z < 256
    BY Zenon DEF Byte
  <1>1. PICK a \in 0..63, b \in 0..3 : x = 4 * a + b
    <2>1. x = 4 * (x \div 4) + (x % 4) /\ x \div 4 \in 0..63 /\ x % 4 \in 0..3
      BY <1>0
    <2> QED
      BY <2>1, Zenon
  <1>2. PICK c \in 0..15, d \in 0..15 : y = 16 * c + d
    <2>1. y = 16 * (y \div 16) + (y % 16) /\ y \div 16 \in 0..15 /\ y % 16 \in 0..15
      BY <1>0
    <2> QED
      BY <2>1, Zenon
  <1>3. PICK e \in 0..3, f \in 0..63 : z = 64 * e + f
    <2>1. z = 64 * (z \div 64) + (z % 64) /\ z \div 64 \in 0..3 /\ z % 64 \in 0..63
      BY <1>0
    <2> QED
      BY <2>1, Zenon
  <1>4. /\ s[1] = (w \div 262144) % 64 /\ s[2] = (w \div 4096) % 64
        /\ s[3] = (w \div 64) % 64 /\ s[4] = (w \div 1) % 64
    BY DEF Sextets, SHIFTS
  <1> HIDE DEF s
  <1>5. s[1] = a
    <2> DEFINE k == 65536 * b + 256 * y + z
    <2>1. w = 262144 * a + k
      BY <1>0, <1>1
    <2>2. k \in Nat /\ k < 262144
      BY <1>0
    <2> HIDE DEF w, k
    <2>3. w \div 262144 = a
      BY <2>1, <2>2
    <2> QED
      BY <2>3, <1>4
  <1>6. s[2] = 16 * b + c
    <2> DEFINE k == 16 * b + c
               l == 64 * a + k
    <2>1. w = 4096 * l + (256 * d + z) /\ 256 * d + z \in Nat /\ 256 * d + z < 4096
      BY <1>0, <1>1, <1>2
    <2>2. k \in 0..63
      BY <1>0
    <2> HIDE DEF w, k
    <2>3. l \in Nat /\ l % 64 = k
      BY <2>2
    <2> HIDE DEF l
    <2>4. w \div 4096 = l
      BY <2>1, <2>3
    <2> QED
      BY <2>3, <2>4, <1>4 DEF k
  <1>7. s[3] = 4 * d + e
    <2> DEFINE k == 4 * d + e
               l == 64 * (16 * x + c) + k
    <2>1. w = 64 * l + f
      BY <1>0, <1>2, <1>3
    <2>2. k \in 0..63
      BY <1>0
    <2> HIDE DEF w, k
    <2>3. l \in Nat /\ l % 64 = k
      BY <1>0, <2>2
    <2> HIDE DEF l
    <2>4. w \div 64 = l
      BY <2>1, <2>3
    <2> QED
      BY <2>3, <2>4, <1>4 DEF k
  <1>8. s[4] = f
    <2>1. w = 64 * (1024 * x + 4 * y + e) + f /\ w \in Nat
      BY <1>0, <1>3
    <2> HIDE DEF w
    <2>2. w \div 1 = w
      BY <2>1
    <2>3. w % 64 = f
      BY <1>0, <2>1
    <2> QED
      BY <2>2, <2>3, <1>4
  <1> HIDE DEF w
  <1>9. 64 * s[1] + s[2] = 16 * x + c
    BY <1>0, <1>1, <1>5, <1>6
  <1>10. 64 * s[2] + s[3] = 1024 * b + 4 * y + e
    BY <1>0, <1>2, <1>6, <1>7
  <1>11. 64 * s[3] + s[4] = 256 * d + z
    BY <1>0, <1>3, <1>7, <1>8
  <1>12. ((64 * s[1] + s[2]) \div 16) % 256 = x
    BY <1>0, <1>9
  <1>13. ((64 * s[2] + s[3]) \div 4) % 256 = y
    BY <1>0, <1>10
  <1>14. ((64 * s[3] + s[4]) \div 1) % 256 = z
    BY <1>0, <1>11
  <1>15. s[1] \in 0..63 /\ s[2] \in 0..63 /\ s[3] \in 0..63 /\ s[4] \in 0..63
    BY <1>0, <1>5, <1>6, <1>7, <1>8
  <1> QED
    BY <1>12, <1>13, <1>14, <1>15 DEF s, w, Word, Spell

\* So many characters (encoded_len) hold so many bytes again.
LEMMA RoundLength ==
  ASSUME NEW n \in Nat
  PROVE  encoded_len(n) \in Nat /\ (3 * encoded_len(n)) \div 4 = n
  <1> DEFINE q == n \div 3
             r == n % 3
  <1>1. q \in Nat /\ r \in 0..2 /\ n = 3 * q + r
    OBVIOUS
  <1>2. encoded_len(n) = 4 * q + <<0, 2, 3>>[r + 1]
    BY DEF encoded_len
  <1> HIDE DEF q, r
  <1>3. CASE r = 0
    BY <1>1, <1>2, <1>3
  <1>4. CASE r = 1
    BY <1>1, <1>2, <1>4
  <1>5. CASE r = 2
    BY <1>1, <1>2, <1>5
  <1> QED
    BY <1>1, <1>3, <1>4, <1>5

\* Byte d of group c is in characters d and d + 1 of the group, which are there.
LEMMA RoundPlace ==
  ASSUME NEW n \in Nat, NEW c \in Nat, NEW d \in 0..2, 3 * c + d < n
  PROVE  /\ (8 * (3 * c + d)) \div 6 = 4 * c + d /\ (3 * c + d) % 3 = d
         /\ 4 * c + d + 2 <= encoded_len(n)
  <1>1. (3 * c + d) % 3 = d
    OBVIOUS
  <1>2. (8 * (3 * c + d)) \div 6 = 4 * c + d
    <2>1. CASE d = 0
      BY <2>1
    <2>2. CASE d = 1
      BY <2>2
    <2>3. CASE d = 2
      BY <2>3
    <2> QED
      BY <2>1, <2>2, <2>3
  <1>3. 4 * c + d + 2 <= encoded_len(n)
    <2> DEFINE q == n \div 3
               r == n % 3
    <2>1. q \in Nat /\ r \in 0..2 /\ n = 3 * q + r
      OBVIOUS
    <2>2. encoded_len(n) = 4 * q + <<0, 2, 3>>[r + 1]
      BY DEF encoded_len
    <2> HIDE DEF q, r
    <2>3. CASE r = 0
      BY <2>1, <2>2, <2>3
    <2>4. CASE r = 1
      BY <2>1, <2>2, <2>4
    <2>5. CASE r = 2
      BY <2>1, <2>2, <2>5
    <2> QED
      BY <2>1, <2>3, <2>4, <2>5
  <1> QED
    BY <1>1, <1>2, <1>3, Zenon

\* The bytes of a message, zeros behind them, and the groups of three.
ByteOf(m, i) == IF i <= Len(m) THEN m[i] ELSE 0
WordOf(m, c) == Word(ByteOf(m, 3 * c + 1), ByteOf(m, 3 * c + 2), ByteOf(m, 3 * c + 3))

\* All of them are bytes.
LEMMA Bytes ==
  ASSUME NEW m \in Seq(Byte), NEW i \in Nat \ {0}
  PROVE  ByteOf(m, i) \in Byte
  <1>1. 0 \in Byte
    BY DEF Byte
  <1> QED
    BY <1>1 DEF ByteOf

\* Character e of group c stands for sextet e of the group.
LEMMA Written ==
  ASSUME NEW m \in Seq(Byte), NEW c \in Nat, NEW e \in 0..3, 4 * c + e + 1 <= encoded_len(Len(m))
  PROVE  Sextet(encode_into(m)[4 * c + e + 1]) = Sextets(WordOf(m, c))[e + 1]
  <1> DEFINE k == 4 * c + e + 1
  <1>1. k \in 1..encoded_len(Len(m))
    <2>1. Len(m) \in Nat
      OBVIOUS
    <2>2. encoded_len(Len(m)) \in Nat
      BY <2>1, RoundLength, Zenon
    <2> QED
      BY ONLY <2>2, c \in Nat, e \in 0..3, 4 * c + e + 1 <= encoded_len(Len(m))
  <1>2. (k - 1) \div 4 = c /\ (k - 1) % 4 = e
    BY ONLY c \in Nat, e \in 0..3
  <1>3. encode_into(m)[k] =
          ALPHABET[(WordOf(m, (k - 1) \div 4) \div SHIFTS[((k - 1) % 4) + 1]) % 64]
    BY <1>1, Zenon DEF encode_into, WordOf, ByteOf
  <1>4. encode_into(m)[k] = ALPHABET[(WordOf(m, c) \div SHIFTS[e + 1]) % 64]
    BY <1>2, <1>3, Zenon
  <1>5. Sextets(WordOf(m, c))[e + 1] = (WordOf(m, c) \div SHIFTS[e + 1]) % 64
    <2>1. e + 1 \in 1..4
      BY ONLY e \in 0..3
    <2> QED
      BY <2>1, Zenon DEF Sextets
  <1>6. Sextets(WordOf(m, c))[e + 1] \in 0..63
    <2>1. ByteOf(m, 3 * c + 1) \in Byte /\ ByteOf(m, 3 * c + 2) \in Byte /\ ByteOf(m, 3 * c + 3) \in Byte
      <3>1. 3 * c + 1 \in Nat \ {0} /\ 3 * c + 2 \in Nat \ {0} /\ 3 * c + 3 \in Nat \ {0}
        BY ONLY c \in Nat
      <3> QED
        BY <3>1, Bytes, Zenon
    <2>2. /\ Sextets(WordOf(m, c))[1] \in 0..63 /\ Sextets(WordOf(m, c))[2] \in 0..63
          /\ Sextets(WordOf(m, c))[3] \in 0..63 /\ Sextets(WordOf(m, c))[4] \in 0..63
      <3>1. Spell(Sextets(WordOf(m, c)), ByteOf(m, 3 * c + 1), ByteOf(m, 3 * c + 2), ByteOf(m, 3 * c + 3))
        BY <2>1, Bits, Zenon DEF WordOf
      <3> QED
        BY <3>1, Zenon DEF Spell
    <2>3. e + 1 \in {1, 2, 3, 4}
      BY ONLY e \in 0..3
    <2> QED
      BY <2>2, <2>3, Zenon
  <1> QED
    BY <1>4, <1>5, <1>6, SextetBack, Zenon

\* The dns parameter of a GET (base64url.rs, encode_into and encoded_len) is read
\* as the message it was made of, whatever its bytes and its length: no byte is
\* lost or added where the last group is of one or two.
THEOREM Base64RoundTrip ==
  ASSUME NEW m \in Seq(Byte)
  PROVE  Base64Decoded(encode_into(m)) = m
  <1> DEFINE n == Len(m)
             text == encode_into(m)
             back == Base64Decoded(text)
  <1>1. n \in Nat /\ m \in [1..n -> Byte] /\ m = [j \in 1..n |-> m[j]]
    OBVIOUS
  <1>2. Len(text) = encoded_len(n)
    <2>1. text = [k \in 1..encoded_len(n) |-> text[k]]
      BY Zenon DEF encode_into
    <2> DEFINE T == {text[k] : k \in 1..encoded_len(n)}
    <2>2. text \in [1..encoded_len(n) -> T]
      BY <2>1, Zenon
    <2>3. encoded_len(n) \in Nat
      BY <1>1, RoundLength, Zenon
    <2> HIDE DEF T, n, text
    <2> QED
      BY <2>2, <2>3, IsSeq, Zenon
  <1>3. (3 * Len(text)) \div 4 = n
    BY <1>1, <1>2, RoundLength, Zenon
  <1>4. ASSUME NEW j \in 1..n
        PROVE  /\ back[j] = m[j]
    <2> DEFINE c == (j - 1) \div 3
               d == (j - 1) % 3
               s == Sextets(WordOf(m, c))
    <2>1. c \in Nat /\ d \in 0..2 /\ j - 1 = 3 * c + d
      BY <1>1
    <2> HIDE DEF c, d, n, text
    <2>2. 3 * c + d < n
      BY <1>1, <2>1
    <2>3. /\ (8 * (j - 1)) \div 6 = 4 * c + d /\ (j - 1) % 3 = d
          /\ 4 * c + d + 2 <= encoded_len(n)
      BY <1>1, <2>1, <2>2, RoundPlace, Zenon
    <2>4. back[j] = ((64 * Sextet(text[4 * c + d + 1]) + Sextet(text[4 * c + d + 2]))
                       \div <<16, 4, 1>>[d + 1]) % 256
      BY <1>3, <2>3, Zenon DEF Base64Decoded
    <2>5. d \in 0..3 /\ d + 1 \in 0..3 /\ 4 * c + d + 1 <= encoded_len(n)
          /\ 4 * c + (d + 1) + 1 = 4 * c + d + 2
      <3> DEFINE l == encoded_len(n)
      <3>1. l \in Nat /\ 4 * c + d + 2 <= l
        BY <2>3, <1>1, RoundLength, Zenon
      <3> HIDE DEF l
      <3> QED
        BY <2>1, <3>1 DEF l
    <2>6. Sextet(text[4 * c + d + 1]) = s[d + 1] /\ Sextet(text[4 * c + d + 2]) = s[d + 1 + 1]
      BY <2>1, <2>3, <2>5, Written, Zenon DEF n, text
    <2>7. back[j] = ((64 * s[d + 1] + s[d + 1 + 1]) \div <<16, 4, 1>>[d + 1]) % 256
      BY <2>4, <2>6, Zenon
    <2>8. /\ ByteOf(m, 3 * c + 1) \in Byte /\ ByteOf(m, 3 * c + 2) \in Byte
          /\ ByteOf(m, 3 * c + 3) \in Byte
      <3>1. 3 * c + 1 \in Nat \ {0} /\ 3 * c + 2 \in Nat \ {0} /\ 3 * c + 3 \in Nat \ {0}
        BY <2>1
      <3> QED
        BY <3>1, Bytes, Zenon
    <2>9. /\ ((64 * s[1] + s[2]) \div 16) % 256 = ByteOf(m, 3 * c + 1)
          /\ ((64 * s[2] + s[3]) \div 4) % 256 = ByteOf(m, 3 * c + 2)
          /\ ((64 * s[3] + s[4]) \div 1) % 256 = ByteOf(m, 3 * c + 3)
      <3>1. Spell(s, ByteOf(m, 3 * c + 1), ByteOf(m, 3 * c + 2), ByteOf(m, 3 * c + 3))
        BY <2>8, Bits, Zenon DEF WordOf
      <3> HIDE DEF s
      <3> QED
        BY <3>1, Zenon DEF Spell
    <2> HIDE DEF s, back
    <2>10. back[j] = ByteOf(m, 3 * c + d + 1)
      <3>1. CASE d = 0
        BY <3>1, <2>1, <2>7, <2>9
      <3>2. CASE d = 1
        BY <3>2, <2>1, <2>7, <2>9
      <3>3. CASE d = 2
        BY <3>3, <2>1, <2>7, <2>9
      <3> QED
        BY <2>1, <3>1, <3>2, <3>3
    <2>11. 3 * c + d + 1 = j /\ j <= n
      BY <2>1, <1>1
    <2> QED
      BY <2>10, <2>11, Zenon DEF ByteOf, n
  <1>5. back = [j \in 1..n |-> back[j]]
    BY <1>3, Zenon DEF Base64Decoded
  <1> QED
    BY <1>1, <1>4, <1>5, Zenon

-----------------------------------------------------------------------------
(* Padding.  A number of 16 bits; a list put together of two. *)

Short(v) == v \in Nat /\ v < 65536

IsJoin(s, t, p) ==
  /\ p \in Seq(Byte) /\ Len(p) = Len(s) + Len(t)
  /\ \A i \in 1..Len(s) : p[i] = s[i]
  /\ \A i \in 1..Len(t) : p[Len(s) + i] = t[i]

\* What \o does, for messages.
LEMMA Appended ==
  ASSUME NEW s \in Seq(Byte), NEW t \in Seq(Byte)
  PROVE  IsJoin(s, t, s \o t)
  BY DEF IsJoin

\* The bytes of a 16-bit number.
LEMMA Pair ==
  ASSUME NEW v \in Nat
  PROVE  /\ BE(v) \in Seq(Byte) /\ Len(BE(v)) = 2
         /\ Short(v) => U16(BE(v), 1) = v
  <1> DEFINE a == (v \div 256) % 256
             b == v % 256
  <1>1. a \in Byte /\ b \in Byte
    BY DEF Byte
  <1>2. Short(v) => 256 * a + b = v
    BY DEF Short
  <1>3. BE(v) = <<a, b>>
    BY Zenon DEF BE
  <1> HIDE DEF a, b
  <1>4. <<a, b>> \in Seq(Byte) /\ Len(<<a, b>>) = 2 /\ <<a, b>>[1] = a /\ <<a, b>>[1 + 1] = b
    BY <1>1
  <1>5. U16(<<a, b>>, 1) = 256 * a + b
    BY <1>4, Zenon DEF U16
  <1> QED
    BY <1>2, <1>3, <1>4, <1>5, Zenon

\* Zeros.
LEMMA ZeroBytes ==
  ASSUME NEW n \in Nat
  PROVE  Zeros(n) \in Seq(Byte) /\ Len(Zeros(n)) = n /\ \A i \in 1..n : Zeros(n)[i] = 0
  <1>1. 0 \in Byte
    BY DEF Byte
  <1>2. Zeros(n) \in [1..n -> Byte] /\ \A i \in 1..n : Zeros(n)[i] = 0
    BY <1>1, Zenon DEF Zeros
  <1> QED
    BY <1>2, IsSeq, Zenon

\* A number behind a list is read at its place, and numbers in front stay.
LEMMA NumberBehind ==
  ASSUME NEW s \in Seq(Byte), NEW v \in Nat, Short(v)
  PROVE  /\ s \o BE(v) \in Seq(Byte) /\ Len(s \o BE(v)) = Len(s) + 2
         /\ \A i \in 1..Len(s) : (s \o BE(v))[i] = s[i]
         /\ U16(s \o BE(v), Len(s) + 1) = v
  <1> DEFINE t == BE(v)
             p == s \o t
             l == Len(s)
  <1>1. t \in Seq(Byte) /\ Len(t) = 2 /\ U16(t, 1) = v
    BY Pair, Zenon
  <1>2. l \in Nat
    OBVIOUS
  <1> HIDE DEF t
  <1>3. /\ p \in Seq(Byte) /\ Len(p) = l + Len(t)
        /\ \A i \in 1..l : p[i] = s[i]
        /\ \A i \in 1..Len(t) : p[l + i] = t[i]
    <2>1. IsJoin(s, t, p)
      BY <1>1, Appended, Zenon
    <2> HIDE DEF p
    <2> QED
      BY <2>1, Zenon DEF IsJoin
  <1> HIDE DEF p, l
  <1>4. p[l + 1] = t[1] /\ p[l + 1 + 1] = t[1 + 1]
    <2>1. 1 \in 1..Len(t) /\ 2 \in 1..Len(t) /\ 1 + 1 = 2 /\ l + 1 + 1 = l + 2
      BY <1>1, <1>2
    <2> QED
      BY <1>1, <1>2, <1>3, <2>1
  <1>5. U16(p, l + 1) = U16(t, 1)
    BY <1>4, Zenon DEF U16
  <1> QED
    BY <1>1, <1>3, <1>5, Zenon DEF p, l, t

\* The option: its code, its length and so many zeros.
LEMMA OptionBytes ==
  ASSUME NEW n \in Nat, Short(n)
  PROVE  /\ PadOption(n) \in Seq(Byte) /\ Len(PadOption(n)) = 4 + n
         /\ U16(PadOption(n), 1) = EDNS0_OPT_PAD /\ U16(PadOption(n), 3) = n
         /\ \A i \in 5..(4 + n) : PadOption(n)[i] = 0
  <1> DEFINE a == BE(EDNS0_OPT_PAD)
             b == a \o BE(n)
             p == b \o Zeros(n)
  <1>1. a \in Seq(Byte) /\ Len(a) = 2 /\ U16(a, 1) = EDNS0_OPT_PAD
    <2>1. EDNS0_OPT_PAD \in Nat /\ Short(EDNS0_OPT_PAD)
      BY DEF EDNS0_OPT_PAD, Short
    <2> QED
      BY <2>1, Pair, Zenon
  <1> HIDE DEF a
  <1>2. /\ b \in Seq(Byte) /\ Len(b) = Len(a) + 2 /\ U16(b, Len(a) + 1) = n
        /\ \A i \in 1..Len(a) : b[i] = a[i]
    BY <1>1, NumberBehind, Zenon
  <1> HIDE DEF b
  <1>3. Zeros(n) \in Seq(Byte) /\ Len(Zeros(n)) = n /\ \A i \in 1..n : Zeros(n)[i] = 0
    BY ZeroBytes, Zenon
  <1>4. /\ p \in Seq(Byte) /\ Len(p) = Len(b) + Len(Zeros(n))
        /\ \A i \in 1..Len(b) : p[i] = b[i]
        /\ \A i \in 1..Len(Zeros(n)) : p[Len(b) + i] = Zeros(n)[i]
    <2>1. IsJoin(b, Zeros(n), p)
      BY <1>2, <1>3, Appended, Zenon
    <2> HIDE DEF p
    <2> QED
      BY <2>1, Zenon DEF IsJoin
  <1> HIDE DEF p
  <1>5. Len(b) = 4 /\ Len(p) = 4 + n
    BY <1>1, <1>2, <1>3, <1>4
  <1>6. p[1] = a[1] /\ p[2] = a[2] /\ p[3] = b[3] /\ p[4] = b[4]
    <2>1. 1 \in 1..4 /\ 2 \in 1..4 /\ 3 \in 1..4 /\ 4 \in 1..4 /\ 1 \in 1..2 /\ 2 \in 1..2
      OBVIOUS
    <2> QED
      BY <1>1, <1>2, <1>4, <1>5, <2>1
  <1>7. U16(p, 1) = U16(a, 1) /\ U16(p, 3) = U16(b, 3)
    BY <1>6 DEF U16
  <1>8. U16(b, 3) = n
    BY <1>1, <1>2
  <1>9. ASSUME NEW i \in 5..(4 + n) PROVE p[i] = 0
    <2>1. i - 4 \in 1..n /\ 4 + (i - 4) = i
      OBVIOUS
    <2>2. \A k \in 1..n : p[4 + k] = 0
      BY <1>3, <1>4, <1>5, Zenon
    <2> QED
      BY <2>1, <2>2, Zenon
  <1>10. p = PadOption(n)
    BY Zenon DEF p, b, a, PadOption
  <1> QED
    BY <1>1, <1>4, <1>5, <1>7, <1>8, <1>9, <1>10, Zenon

\* The message p ends in an OPT record, from position `at`: its data, to the end
\* of the message, are one option, and that is padding of zeros.
EndsPadded(p, at) ==
  /\ p[at] = 0 /\ U16(p, at + 1) = OPT
  /\ U16(p, at + 9) = Len(p) - (at + 10)
  /\ U16(p, at + 11) = EDNS0_OPT_PAD /\ U16(p, at + 13) = Len(p) - (at + 14)
  /\ \A i \in (at + 15)..Len(p) : p[i] = 0

\* g goes on as p, to the end of an OPT record at `at`.
GoesOn(g, p, at, n) ==
  /\ p \in Seq(Byte) /\ Len(p) = at + 14 + n
  /\ \A i \in 1..Len(g) : p[i] = g[i]
  /\ EndsPadded(p, at)

\* Behind an OPT record up to its length, the length and the option.
LEMMA OptionBehind ==
  ASSUME NEW g \in Seq(Byte), NEW at \in Nat \ {0}, Len(g) = at + 8, g[at] = 0, U16(g, at + 1) = OPT,
         NEW n \in Nat, Short(4 + n)
  PROVE  GoesOn(g, g \o BE(4 + n) \o PadOption(n), at, n)
  <1> DEFINE h == g \o BE(4 + n)
             o == PadOption(n)
             p == h \o o
  <1>0. 4 + n \in Nat /\ Short(n)
    BY DEF Short
  <1>1. /\ h \in Seq(Byte) /\ Len(h) = Len(g) + 2
        /\ \A i \in 1..Len(g) : h[i] = g[i]
        /\ U16(h, Len(g) + 1) = 4 + n
    BY <1>0, NumberBehind, Zenon
  <1>2. /\ o \in Seq(Byte) /\ Len(o) = 4 + n
        /\ U16(o, 1) = EDNS0_OPT_PAD /\ U16(o, 3) = n
        /\ \A i \in 5..(4 + n) : o[i] = 0
    BY <1>0, OptionBytes, Zenon
  <1> HIDE DEF h, o
  <1>3. IsJoin(h, o, p)
    BY <1>1, <1>2, Appended, Zenon
  <1> HIDE DEF p
  <1>4. /\ p \in Seq(Byte) /\ Len(p) = Len(h) + Len(o)
        /\ \A i \in 1..Len(h) : p[i] = h[i]
        /\ \A i \in 1..Len(o) : p[Len(h) + i] = o[i]
    BY <1>3, Zenon DEF IsJoin
  <1>5. Len(h) = at + 10 /\ Len(p) = at + 14 + n
    BY <1>1, <1>2, <1>4
  <1>6. \A i \in 1..(at + 8) : p[i] = g[i]
    <2>1. \A i \in 1..(at + 8) : i \in 1..(at + 10)
      OBVIOUS
    <2> QED
      BY <1>1, <1>4, <1>5, <2>1, Zenon
  <1>7. p[at] = 0 /\ U16(p, at + 1) = OPT
    <2>1. p[at] = g[at] /\ p[at + 1] = g[at + 1] /\ p[at + 1 + 1] = g[at + 1 + 1]
      <3>1. at \in 1..(at + 8) /\ at + 1 \in 1..(at + 8) /\ at + 1 + 1 \in 1..(at + 8)
        OBVIOUS
      <3> QED
        BY <1>6, <3>1, Zenon
    <2> QED
      BY <2>1, Zenon DEF U16
  <1>8. U16(p, at + 9) = 4 + n
    <2>1. at + 9 \in 1..(at + 10) /\ at + 9 + 1 \in 1..(at + 10) /\ at + 8 + 1 = at + 9
      OBVIOUS
    <2>2. p[at + 9] = h[at + 9] /\ p[at + 9 + 1] = h[at + 9 + 1]
      BY <1>4, <1>5, <2>1, Zenon
    <2>3. U16(p, at + 9) = U16(h, at + 9)
      BY <2>2, Zenon DEF U16
    <2> QED
      BY <1>1, <2>1, <2>3, Zenon
  <1>9. U16(p, at + 11) = U16(o, 1) /\ U16(p, at + 13) = U16(o, 3)
    <2>1. /\ 1 \in 1..(4 + n) /\ 1 + 1 \in 1..(4 + n) /\ 3 \in 1..(4 + n) /\ 3 + 1 \in 1..(4 + n)
          /\ at + 10 + 1 = at + 11 /\ at + 10 + (1 + 1) = at + 11 + 1
          /\ at + 10 + 3 = at + 13 /\ at + 10 + (3 + 1) = at + 13 + 1
      OBVIOUS
    <2>2. \A i \in 1..(4 + n) : p[at + 10 + i] = o[i]
      BY <1>2, <1>4, <1>5, Zenon
    <2>3. /\ p[at + 11] = o[1] /\ p[at + 11 + 1] = o[1 + 1]
          /\ p[at + 13] = o[3] /\ p[at + 13 + 1] = o[3 + 1]
      BY <2>1, <2>2, Zenon
    <2> QED
      BY <2>3, ZenonT(30) DEF U16
  <1>10. ASSUME NEW i \in (at + 15)..Len(p) PROVE p[i] = 0
    <2>1. /\ i - (at + 10) \in 1..(4 + n) /\ i - (at + 10) \in 5..(4 + n)
          /\ at + 10 + (i - (at + 10)) = i
      BY <1>5
    <2>2. p[at + 10 + (i - (at + 10))] = o[i - (at + 10)]
      BY <1>2, <1>4, <1>5, <2>1, Zenon
    <2> QED
      BY <1>2, <2>1, <2>2, Zenon
  <1>11. 4 + n = Len(p) - (at + 10) /\ n = Len(p) - (at + 14)
    BY <1>5
  <1>12. EndsPadded(p, at)
    BY <1>2, <1>7, <1>8, <1>9, <1>10, <1>11, Zenon DEF EndsPadded
  <1>13. p = g \o BE(4 + n) \o PadOption(n)
    BY Zenon DEF p, h, o
  <1> QED
    BY <1>4, <1>5, <1>6, <1>12, <1>13, Zenon DEF GoesOn

\* A record of its own behind a message.
LEMMA RecordBehind ==
  ASSUME NEW f \in Seq(Byte), NEW n \in Nat, Short(4 + n)
  PROVE  LET p == f \o <<0>> \o BE(OPT) \o BE(UDP_PAYLOAD) \o Zeros(4) \o BE(4 + n) \o PadOption(n)
         IN /\ p \in Seq(Byte) /\ Len(p) = Len(f) + 15 + n
            /\ \A i \in 1..Len(f) : p[i] = f[i]
            /\ EndsPadded(p, Len(f) + 1)
  <1> DEFINE l == Len(f)
             z == <<0>>
             a == f \o z
             b == a \o BE(OPT)
             c == b \o BE(UDP_PAYLOAD)
             g == c \o Zeros(4)
             p == g \o BE(4 + n) \o PadOption(n)
  <1>0. l \in Nat
    OBVIOUS
  <1>1. z \in Seq(Byte) /\ Len(z) = 1 /\ z[1] = 0
    <2>1. 0 \in Byte
      BY DEF Byte
    <2> QED
      BY <2>1
  <1> HIDE DEF z
  <1>2. a \in Seq(Byte) /\ Len(a) = l + 1 /\ (\A i \in 1..l : a[i] = f[i]) /\ a[l + 1] = 0
    <2>1. IsJoin(f, z, a)
      BY <1>1, Appended, Zenon
    <2> HIDE DEF a
    <2>2. /\ a \in Seq(Byte) /\ Len(a) = l + Len(z) /\ (\A i \in 1..l : a[i] = f[i])
          /\ \A i \in 1..Len(z) : a[l + i] = z[i]
      BY <2>1, Zenon DEF IsJoin
    <2>3. 1 \in 1..1
      OBVIOUS
    <2> QED
      BY <1>1, <2>2, <2>3, Zenon
  <1> HIDE DEF a, l
  <1>3. OPT \in Nat /\ Short(OPT) /\ UDP_PAYLOAD \in Nat /\ Short(UDP_PAYLOAD) /\ 4 \in Nat
    BY DEF OPT, UDP_PAYLOAD, Short
  <1>4. /\ b \in Seq(Byte) /\ Len(b) = Len(a) + 2 /\ (\A i \in 1..Len(a) : b[i] = a[i])
        /\ U16(b, Len(a) + 1) = OPT
    BY <1>2, <1>3, NumberBehind, Zenon
  <1> HIDE DEF b
  <1>5. /\ c \in Seq(Byte) /\ Len(c) = Len(b) + 2 /\ \A i \in 1..Len(b) : c[i] = b[i]
    BY <1>4, <1>3, NumberBehind, Zenon
  <1> HIDE DEF c
  <1>6. g \in Seq(Byte) /\ Len(g) = Len(c) + 4 /\ \A i \in 1..Len(c) : g[i] = c[i]
    <2>1. Zeros(4) \in Seq(Byte) /\ Len(Zeros(4)) = 4
      BY <1>3, ZeroBytes, Zenon
    <2>2. IsJoin(c, Zeros(4), g)
      BY <1>5, <2>1, Appended, Zenon
    <2> HIDE DEF g
    <2> QED
      BY <2>1, <2>2, Zenon DEF IsJoin
  <1> HIDE DEF g
  <1>7. Len(a) = l + 1 /\ Len(b) = l + 3 /\ Len(c) = l + 5 /\ Len(g) = l + 1 + 8 /\ l + 1 \in Nat \ {0}
    BY <1>0, <1>2, <1>4, <1>5, <1>6
  <1>8. \A i \in 1..(l + 3) : g[i] = b[i]
    <2>1. \A i \in 1..(l + 3) : i \in 1..(l + 5)
      BY <1>0
    <2> QED
      BY <1>5, <1>6, <1>7, <2>1, Zenon
  <1>9. \A i \in 1..(l + 1) : g[i] = a[i]
    <2>1. \A i \in 1..(l + 1) : i \in 1..(l + 3)
      BY <1>0
    <2> QED
      BY <1>4, <1>7, <1>8, <2>1, Zenon
  <1>10. g[l + 1] = 0 /\ \A i \in 1..l : g[i] = f[i]
    <2>1. l + 1 \in 1..(l + 1) /\ \A i \in 1..l : i \in 1..(l + 1)
      BY <1>0
    <2> QED
      BY <1>2, <1>9, <2>1, Zenon
  <1>11. U16(g, l + 1 + 1) = OPT
    <2>1. l + 1 + 1 \in 1..(l + 3) /\ l + 1 + 1 + 1 \in 1..(l + 3)
      BY <1>0
    <2>2. g[l + 1 + 1] = b[l + 1 + 1] /\ g[l + 1 + 1 + 1] = b[l + 1 + 1 + 1]
      BY <1>8, <2>1, Zenon
    <2>3. U16(g, l + 1 + 1) = U16(b, l + 1 + 1)
      BY <2>2, Zenon DEF U16
    <2> QED
      BY <1>4, <1>7, <2>3, Zenon
  <1>12. /\ p \in Seq(Byte) /\ Len(p) = l + 1 + 14 + n
         /\ \A i \in 1..Len(g) : p[i] = g[i]
         /\ EndsPadded(p, l + 1)
    <2>1. GoesOn(g, p, l + 1, n)
      <3>1. g \in Seq(Byte) /\ Len(g) = l + 1 + 8 /\ g[l + 1] = 0 /\ l + 1 \in Nat \ {0}
        BY <1>6, <1>7, <1>10, Zenon
      <3> QED
        BY <3>1, <1>11, OptionBehind, Zenon
    <2> HIDE DEF p
    <2> QED
      BY <2>1, Zenon DEF GoesOn
  <1> HIDE DEF p
  <1>13. \A i \in 1..l : p[i] = f[i]
    <2>1. \A i \in 1..l : i \in 1..(l + 1 + 8)
      BY <1>0
    <2> QED
      BY <1>7, <1>10, <1>12, <2>1, Zenon
  <1>14. l + 1 + 14 + n = l + 15 + n
    BY <1>0
  <1>15. p = f \o <<0>> \o BE(OPT) \o BE(UDP_PAYLOAD) \o Zeros(4) \o BE(4 + n) \o PadOption(n)
    BY Zenon DEF p, g, c, b, a, z
  <1> QED
    BY <1>12, <1>13, <1>14, <1>15, Zenon DEF l

\* A part of a message.
LEMMA Piece ==
  ASSUME NEW s \in Seq(Byte), NEW m \in Nat \ {0}, NEW n \in Nat, m <= n + 1, n <= Len(s)
  PROVE  /\ SubSeq(s, m, n) \in Seq(Byte) /\ Len(SubSeq(s, m, n)) = n - m + 1
         /\ \A i \in 1..(n - m + 1) : SubSeq(s, m, n)[i] = s[i + m - 1]
  OBVIOUS

\* The message with another count of additional records.
LEMMA Recounted ==
  ASSUME NEW buf \in Seq(Byte), Len(buf) >= MIN_DNS_LEN, NEW v \in Nat, Short(v)
  PROVE  LET f == SubSeq(buf, 1, 10) \o BE(v) \o SubSeq(buf, 13, Len(buf))
         IN /\ f \in Seq(Byte) /\ Len(f) = Len(buf) /\ U16(f, 11) = v
            /\ \A i \in 1..Len(buf) : i \notin {11, 12} => f[i] = buf[i]
  <1> DEFINE l == Len(buf)
             a == SubSeq(buf, 1, 10)
             b == a \o BE(v)
             c == SubSeq(buf, 13, l)
             f == b \o c
  <1>1. l \in Nat /\ l >= 12
    BY DEF MIN_DNS_LEN
  <1>2. a \in Seq(Byte) /\ Len(a) = 10 /\ \A i \in 1..10 : a[i] = buf[i]
    <2>1. 1 \in Nat \ {0} /\ 10 \in Nat /\ 1 <= 10 + 1 /\ 10 <= Len(buf) /\ 10 - 1 + 1 = 10
      BY <1>1
    <2>2. a \in Seq(Byte) /\ Len(a) = 10 - 1 + 1 /\ \A i \in 1..(10 - 1 + 1) : a[i] = buf[i + 1 - 1]
      BY <2>1, Piece, Zenon
    <2>3. \A i \in 1..10 : i + 1 - 1 = i
      OBVIOUS
    <2> QED
      BY <2>1, <2>2, <2>3, Zenon
  <1>3. c \in Seq(Byte) /\ Len(c) = l - 12 /\ \A i \in 1..(l - 12) : c[i] = buf[i + 12]
    <2>1. 13 \in Nat \ {0} /\ 13 <= l + 1 /\ l <= Len(buf) /\ l - 13 + 1 = l - 12
      BY <1>1
    <2>2. c \in Seq(Byte) /\ Len(c) = l - 13 + 1 /\ \A i \in 1..(l - 13 + 1) : c[i] = buf[i + 13 - 1]
      BY <1>1, <2>1, Piece, Zenon
    <2>3. \A i \in 1..(l - 12) : i + 13 - 1 = i + 12
      BY <1>1
    <2> QED
      BY <2>1, <2>2, <2>3, Zenon
  <1> HIDE DEF a, c, l
  <1>4. /\ b \in Seq(Byte) /\ Len(b) = Len(a) + 2 /\ (\A i \in 1..Len(a) : b[i] = a[i])
        /\ U16(b, Len(a) + 1) = v
    BY <1>2, NumberBehind, Zenon
  <1> HIDE DEF b
  <1>5. IsJoin(b, c, f)
    BY <1>3, <1>4, Appended, Zenon
  <1> HIDE DEF f
  <1>6. /\ f \in Seq(Byte) /\ Len(f) = Len(b) + Len(c)
        /\ \A i \in 1..Len(b) : f[i] = b[i]
        /\ \A i \in 1..Len(c) : f[Len(b) + i] = c[i]
    BY <1>5, Zenon DEF IsJoin
  <1>7. Len(b) = 12 /\ Len(f) = l
    BY <1>1, <1>2, <1>3, <1>4, <1>6
  <1>8. U16(f, 11) = v
    <2>1. 11 \in 1..12 /\ 11 + 1 \in 1..12 /\ 10 + 1 = 11
      OBVIOUS
    <2>2. f[11] = b[11] /\ f[11 + 1] = b[11 + 1]
      BY <1>6, <1>7, <2>1, Zenon
    <2>3. U16(f, 11) = U16(b, 11)
      BY <2>2, Zenon DEF U16
    <2> QED
      BY <1>2, <1>4, <2>1, <2>3, Zenon
  <1>9. ASSUME NEW i \in 1..l, i \notin {11, 12} PROVE f[i] = buf[i]
    <2>1. CASE i <= 10
      <3>1. i \in 1..10 /\ i \in 1..12
        BY <2>1, <1>1
      <3> QED
        BY <1>2, <1>4, <1>6, <1>7, <3>1, Zenon
    <2>2. CASE i > 10
      <3>1. i - 12 \in 1..(l - 12) /\ 12 + (i - 12) = i /\ (i - 12) + 12 = i
        BY <2>2, <1>1, <1>9
      <3>2. f[12 + (i - 12)] = c[i - 12]
        BY <1>3, <1>6, <1>7, <3>1, Zenon
      <3> QED
        BY <1>3, <3>1, <3>2, Zenon
    <2> QED
      BY <1>1, <2>1, <2>2
  <1>10. f = SubSeq(buf, 1, 10) \o BE(v) \o SubSeq(buf, 13, Len(buf))
    BY Zenon DEF f, a, b, c, l
  <1> QED
    BY <1>6, <1>7, <1>8, <1>9, <1>10, Zenon DEF l

\* A padded query (dns.rs, pad_query) is one block long and still a message.  It
\* ends in an OPT record whose length and whose option's length are what is there,
\* and which is counted; every other byte is the client's.  Of any query, with an
\* OPT record without options or with none that the code sees, that leaves room
\* for the option in a block of at most 65535 bytes.
THEOREM PaddedToBlock ==
  ASSUME NEW buf \in Seq(Byte), Len(buf) >= MIN_DNS_LEN, Short(U16(buf, 11) + 1),
         HasEdns0(buf) => U16(buf, Len(buf) - 1) = 0,
         NEW block_size \in Nat, Short(block_size),
         Len(buf) + (IF HasEdns0(buf) THEN 4 ELSE 15) < block_size
  PROVE  LET p == pad_query(buf, block_size)
             at == IF HasEdns0(buf) THEN Len(buf) - 10 ELSE Len(buf) + 1
         IN /\ p \in Seq(Byte) /\ Len(p) = block_size
            /\ EndsPadded(p, at)
            /\ U16(p, 11) = U16(buf, 11) + (IF HasEdns0(buf) THEN 0 ELSE 1)
            /\ \A i \in 1..Len(buf) : i \notin {11, 12} /\ i < at + 9 => p[i] = buf[i]
  <1> DEFINE l == Len(buf)
             p == pad_query(buf, block_size)
  <1>1. l \in Nat /\ l >= 12
    BY DEF MIN_DNS_LEN
  <1>2. CASE HasEdns0(buf)
    <2> DEFINE n == block_size - (l + 4)
               at == l - 10
               g == SubSeq(buf, 1, l - 2)
    <2>1. l >= 15 /\ buf[at] = 0 /\ U16(buf, at + 1) = OPT
      <3>1. l >= 11 + 4 /\ buf[l - 11 + 1] = 0 /\ U16(buf, l - 11 + 1 + 1) = OPT
        BY <1>2, Zenon DEF HasEdns0, EDNS0_HEADER_LEN
      <3>2. l - 11 + 1 = l - 10
        BY <1>1
      <3>3. l >= 15
        BY <3>1, <1>1
      <3> QED
        BY <3>1, <3>2, <3>3, Zenon
    <2>2. n \in Nat /\ Short(4 + n) /\ at \in Nat \ {0} /\ l + 4 < block_size
      <3>1. l + 4 < block_size
        BY <1>2, Zenon
      <3>2. Short(block_size)
        BY Zenon
      <3> HIDE DEF l
      <3> QED
        BY ONLY <3>1, <3>2, <1>1, <2>1, block_size \in Nat DEF Short
    <2>3. p = g \o BE(0 + 4 + n) \o PadOption(n)
      <3>1. ~(l + 4 >= block_size)
        BY <1>1, <2>2
      <3>2. p = ExtendOpt(buf, n)
        BY <1>2, <3>1, Zenon DEF pad_query
      <3> QED
        BY <1>2, <3>2, Zenon DEF ExtendOpt
    <2>4. 0 + 4 + n = 4 + n
      BY <2>2
    <2>5. g \in Seq(Byte) /\ Len(g) = at + 8 /\ \A i \in 1..(at + 8) : g[i] = buf[i]
      <3>1. 1 \in Nat \ {0} /\ l - 2 \in Nat /\ 1 <= l - 2 + 1 /\ l - 2 <= l
            /\ l - 2 - 1 + 1 = at + 8
        BY <1>1, <2>1
      <3>2. /\ g \in Seq(Byte) /\ Len(g) = l - 2 - 1 + 1
            /\ \A i \in 1..(l - 2 - 1 + 1) : g[i] = buf[i + 1 - 1]
        BY <3>1, Piece, Zenon
      <3>3. \A i \in 1..(at + 8) : i + 1 - 1 = i
        OBVIOUS
      <3> QED
        BY <3>1, <3>2, <3>3, Zenon
    <2> HIDE DEF g, n, p
    <2>6. g[at] = 0 /\ U16(g, at + 1) = OPT
      <3>1. at \in 1..(at + 8) /\ at + 1 \in 1..(at + 8) /\ at + 1 + 1 \in 1..(at + 8)
        <4> HIDE DEF at
        <4> QED
          BY ONLY <2>2
      <3>2. g[at] = buf[at] /\ g[at + 1] = buf[at + 1] /\ g[at + 1 + 1] = buf[at + 1 + 1]
        BY <2>5, <3>1, Zenon
      <3> QED
        BY <2>1, <3>2, Zenon DEF U16
    <2>7. /\ p \in Seq(Byte) /\ Len(p) = at + 14 + n
          /\ \A i \in 1..Len(g) : p[i] = g[i]
          /\ EndsPadded(p, at)
      <3> DEFINE q == g \o BE(4 + n) \o PadOption(n)
      <3> HIDE DEF at
      <3>1. GoesOn(g, q, at, n)
        <4>1. n \in Nat /\ Short(4 + n) /\ at \in Nat \ {0} /\ g \in Seq(Byte) /\ Len(g) = at + 8
          BY <2>2, <2>5, Zenon
        <4> QED
          BY ONLY <4>1, <2>6, OptionBehind, Zenon
      <3>2. p = q
        BY <2>3, <2>4, Zenon
      <3> HIDE DEF q
      <3> QED
        BY <3>1, <3>2, Zenon DEF GoesOn
    <2>8. \A i \in 1..(at + 8) : p[i] = buf[i]
      BY <2>5, <2>7, Zenon
    <2>9. U16(p, 11) = U16(buf, 11) + 0
      <3>1. 11 \in 1..(at + 8) /\ 11 + 1 \in 1..(at + 8)
        BY <1>1, <2>1
      <3>2. p[11] = buf[11] /\ p[11 + 1] = buf[11 + 1]
        BY <2>8, <3>1, Zenon
      <3>3. U16(p, 11) = U16(buf, 11)
        BY <3>2, Zenon DEF U16
      <3>4. U16(buf, 11) \in Int
        <4>1. buf[11] \in Byte /\ buf[11 + 1] \in Byte
          BY <1>1
        <4> QED
          BY <4>1 DEF U16, Byte
      <3> QED
        BY <3>3, <3>4
    <2>10. Len(p) = block_size
      BY <1>1, <2>2, <2>7 DEF n
    <2>11. \A i \in 1..l : i < at + 9 => i \in 1..(at + 8)
      BY <1>1
    <2> QED
      BY <1>2, <2>7, <2>8, <2>9, <2>10, <2>11, Zenon DEF p
  <1>3. CASE ~HasEdns0(buf)
    <2> DEFINE n == block_size - (l + 15)
               v == U16(buf, 11) + 1
               f == SubSeq(buf, 1, 10) \o BE(v) \o SubSeq(buf, 13, Len(buf))
    <2>1. n \in Nat /\ Short(4 + n) /\ l + 15 < block_size
      <3>1. l + 15 < block_size
        BY <1>3, Zenon
      <3>2. Short(block_size)
        BY Zenon
      <3> HIDE DEF l
      <3> QED
        BY ONLY <3>1, <3>2, <1>1, block_size \in Nat DEF Short
    <2>2. p = f \o <<0>> \o BE(OPT) \o BE(UDP_PAYLOAD) \o Zeros(4) \o BE(4 + n) \o PadOption(n)
      <3>1. ~(l + (11 + 4) >= block_size) /\ block_size - (l + (11 + 4)) = n
        BY <1>1, <2>1
      <3>2. p = AddOpt(buf, n)
        BY <1>3, <3>1, Zenon DEF pad_query
      <3> QED
        BY <3>2, Zenon DEF AddOpt
    <2>3. v \in Nat /\ Short(v)
      <3>1. Short(v)
        BY Zenon
      <3> QED
        BY ONLY <3>1 DEF Short
    <2> HIDE DEF v
    <2>4. /\ f \in Seq(Byte) /\ Len(f) = l /\ U16(f, 11) = v
          /\ \A i \in 1..l : i \notin {11, 12} => f[i] = buf[i]
      BY <2>3, Recounted, Zenon
    <2> HIDE DEF f, n, p
    <2>5. /\ p \in Seq(Byte) /\ Len(p) = Len(f) + 15 + n
          /\ \A i \in 1..Len(f) : p[i] = f[i]
          /\ EndsPadded(p, Len(f) + 1)
      BY <2>1, <2>2, <2>4, RecordBehind, Zenon
    <2>6. U16(p, 11) = v
      <3>1. 11 \in 1..l /\ 11 + 1 \in 1..l
        BY <1>1
      <3>2. p[11] = f[11] /\ p[11 + 1] = f[11 + 1]
        BY <2>4, <2>5, <3>1, Zenon
      <3> QED
        BY <2>4, <3>2, Zenon DEF U16
    <2>7. Len(p) = block_size
      BY <1>1, <2>1, <2>4, <2>5 DEF n
    <2>8. \A i \in 1..l : i \notin {11, 12} => p[i] = buf[i]
      BY <2>4, <2>5, Zenon
    <2> QED
      BY <1>3, <2>4, <2>5, <2>6, <2>7, <2>8, Zenon DEF p, v
  <1> QED
    BY <1>2, <1>3, Zenon
-----------------------------------------------------------------------------
(* The split of a fleet.  An entry of the set covers the targets from the   *)
(* weight in front of it, `from`, up to that and its own, `to`.             *)

\* The target of worker idx falls into an entry exactly if the middle of the
\* worker's share does: rounding down moves no worker to another entry.
LEMMA TargetExact ==
  ASSUME NEW total \in Nat, NEW n \in Nat \ {0}, NEW idx \in Nat, NEW bound \in Nat
  PROVE  /\ Midpoint(idx, total, n) \in Nat
         /\ Midpoint(idx, total, n) < bound <=> (2 * idx + 1) * total < 2 * n * bound
  <1> DEFINE a == (2 * idx + 1) * total
             m == 2 * n
  <1>1. a \in Nat /\ m \in Nat \ {0}
    OBVIOUS
  <1> HIDE DEF a, m
  <1> DEFINE d == a \div m
             r == a % m
  <1>2. d \in Nat /\ r \in 0..(m - 1) /\ a = m * d + r
    BY <1>1
  <1> HIDE DEF d, r
  <1>3. ASSUME d < bound PROVE a < m * bound
    <2>1. d + 1 <= bound
      BY <1>2, <1>3
    <2>2. m * (d + 1) <= m * bound
      BY <1>1, <1>2, <2>1
    <2>3. m * (d + 1) = m * d + m
      BY <1>1, <1>2
    <2> QED  BY <1>1, <1>2, <2>2, <2>3
  <1>4. ASSUME ~(d < bound) PROVE ~(a < m * bound)
    <2>1. m * bound <= m * d
      BY <1>1, <1>2, <1>4
    <2> QED  BY <1>1, <1>2, <2>1
  <1> QED  BY <1>2, <1>3, <1>4, Zenon DEF Midpoint, a, d, m

\* Every worker of the fleet has an entry: the target is below the total
\* weight, so the search never falls back on the last address.
THEOREM EveryWorkerCovered ==
  ASSUME NEW total \in Nat \ {0}, NEW n \in Nat \ {0}, NEW idx \in 0..(n - 1)
  PROVE  Covers(Midpoint(idx, total, n), total)
  <1>1. 2 * idx + 1 < 2 * n
    OBVIOUS
  <1>2. (2 * idx + 1) * total < (2 * n) * total
    BY <1>1
  <1> QED  BY <1>2, TargetExact DEF Covers

\* Worker idx of n is on the entry from..to of a set of weight total.
On(idx, total, n, from, to) ==
  ~Covers(Midpoint(idx, total, n), from) /\ Covers(Midpoint(idx, total, n), to)

\* The workers of an entry are consecutive.
THEOREM Consecutive ==
  ASSUME NEW total \in Nat, NEW n \in Nat \ {0}, NEW from \in Nat, NEW to \in Nat,
         NEW i \in Nat, NEW j \in Nat, NEW k \in Nat, i <= j, j <= k,
         On(i, total, n, from, to), On(k, total, n, from, to)
  PROVE  On(j, total, n, from, to)
  <1>1. (2 * i + 1) * total <= (2 * j + 1) * total /\ (2 * j + 1) * total <= (2 * k + 1) * total
    BY SMTT(30)
  <1>2. ~((2 * i + 1) * total < 2 * n * from) /\ (2 * k + 1) * total < 2 * n * to
    BY TargetExact, Zenon DEF On, Covers
  <1>3. ~((2 * j + 1) * total < 2 * n * from) /\ (2 * j + 1) * total < 2 * n * to
    <2> DEFINE a == (2 * i + 1) * total
               b == (2 * j + 1) * total
               c == (2 * k + 1) * total
               u == 2 * n * from
               v == 2 * n * to
    <2>1. a \in Nat /\ b \in Nat /\ c \in Nat /\ u \in Nat /\ v \in Nat
      OBVIOUS
    <2>2. a <= b /\ b <= c /\ ~(a < u) /\ c < v
      BY <1>1, <1>2, Zenon
    <2> HIDE DEF a, b, c, u, v
    <2>3. ~(b < u) /\ b < v
      BY <2>1, <2>2
    <2> QED  BY <2>3, Zenon DEF b, u, v
  <1> QED  BY <1>3, TargetExact, Zenon DEF On, Covers

\* No entry gets more workers than its share of the fleet, rounded up: the
\* first and the last one on it are less than that share apart.
THEOREM NotTooMany ==
  ASSUME NEW total \in Nat, NEW n \in Nat \ {0}, NEW from \in Nat, NEW to \in Nat,
         NEW j \in Nat, NEW k \in Nat,
         On(j, total, n, from, to), On(k, total, n, from, to)
  PROVE  (k - j) * total < n * (to - from)
  <1>1. ~((2 * j + 1) * total < 2 * n * from) /\ (2 * k + 1) * total < 2 * n * to
    BY TargetExact, Zenon DEF On, Covers
  <1> DEFINE p == j * total
             q == k * total
             u == n * from
             v == n * to
  <1>2. p \in Nat /\ q \in Nat /\ u \in Nat /\ v \in Nat
    OBVIOUS
  <1>3. /\ (2 * j + 1) * total = 2 * p + total /\ (2 * k + 1) * total = 2 * q + total
        /\ 2 * n * from = 2 * u /\ 2 * n * to = 2 * v
    OBVIOUS
  <1>4. (k - j) * total = q - p /\ n * (to - from) = v - u
    OBVIOUS
  <1> HIDE DEF p, q, u, v
  <1>5. ~(2 * p + total < 2 * u) /\ 2 * q + total < 2 * v
    BY <1>1, <1>3, Zenon
  <1>6. q - p < v - u
    BY <1>2, <1>5
  <1> QED  BY <1>4, <1>6, Zenon

\* Nor fewer than its share rounded down: the last worker before the entry and
\* the first one behind it are more than that share apart.
THEOREM NotTooFew ==
  ASSUME NEW total \in Nat, NEW n \in Nat \ {0}, NEW from \in Nat, NEW to \in Nat,
         NEW j \in Nat, NEW k \in Nat,
         Covers(Midpoint(j, total, n), from), ~Covers(Midpoint(k, total, n), to)
  PROVE  n * (to - from) < (k - j) * total
  <1>1. (2 * j + 1) * total < 2 * n * from /\ ~((2 * k + 1) * total < 2 * n * to)
    BY TargetExact, Zenon DEF Covers
  <1> DEFINE p == j * total
             q == k * total
             u == n * from
             v == n * to
  <1>2. p \in Nat /\ q \in Nat /\ u \in Nat /\ v \in Nat
    OBVIOUS
  <1>3. /\ (2 * j + 1) * total = 2 * p + total /\ (2 * k + 1) * total = 2 * q + total
        /\ 2 * n * from = 2 * u /\ 2 * n * to = 2 * v
    OBVIOUS
  <1>4. (k - j) * total = q - p /\ n * (to - from) = v - u
    OBVIOUS
  <1> HIDE DEF p, q, u, v
  <1>5. 2 * p + total < 2 * u /\ ~(2 * q + total < 2 * v)
    BY <1>1, <1>3, Zenon
  <1>6. v - u < q - p
    BY <1>2, <1>5
  <1> QED  BY <1>4, <1>6, Zenon
-----------------------------------------------------------------------------
INSTANCE FiniteSetTheorems

(* The whole split: what slot_for gives each entry of a set. *)

\* The recursion of Acc.
SumAt(set, f, j) == IF j = 0 THEN 0 ELSE f[j - 1] + set[j].weight
IsSum(set, n, f) == f = [j \in 0..n |-> SumAt(set, f, j)]

\* Every nonempty set of naturals has a least element.
LEMMA LeastNatural == \A T \in SUBSET Nat : T # {} => \E k \in T : \A y \in T : k <= y
  <1> SUFFICES ASSUME NEW T \in SUBSET Nat, T # {} PROVE \E k \in T : \A y \in T : k <= y
    BY Zenon
  <1>1. PICK k \in T : \A y \in T : ~ (<<y, k>> \in OpToRel(<, Nat))
    BY NatLessThanWellFounded, WFMin, Zenon
  <1>2. \A y \in T : ~ (y < k)
    BY <1>1, Zenon DEF OpToRel
  <1> QED
    BY <1>2

\* A set that holds 0 and with each number below N the next holds all to N.
LEMMA UpTo ==
  ASSUME NEW N \in Nat, NEW S, 0 \in S, \A n \in 0..(N - 1) : n \in S => n + 1 \in S
  PROVE  \A n \in 0..N : n \in S
  <1> DEFINE T == {n \in 0..N : n \notin S}
  <1>1. SUFFICES ASSUME T # {} PROVE FALSE
    BY Zenon
  <1>2. PICK k \in T : \A y \in T : k <= y
    <2>1. T \in SUBSET Nat
      OBVIOUS
    <2> HIDE DEF T
    <2> QED  BY <1>1, <2>1, LeastNatural, Zenon
  <1>3. k \in 1..N /\ k \notin S
    BY <1>2
  <1>4. k - 1 \in 0..(N - 1) /\ ~ (k <= k - 1) /\ (k - 1) + 1 = k
    BY <1>3
  <1>5. k - 1 \in S
    BY <1>2, <1>4
  <1> QED
    BY <1>3, <1>4, <1>5

\* It has a solution,
LEMMA SumExists == \A set : \A N \in Nat : \E f : IsSum(set, N, f)
  <1> SUFFICES ASSUME NEW set, NEW N \in Nat PROVE \E f : IsSum(set, N, f)
    BY Zenon
  <1> DEFINE S == {n \in 0..N : \E f : IsSum(set, n, f)}
  <1>1. 0 \in S
    <2> DEFINE f == [j \in 0..0 |-> 0]
    <2>1. \A j \in 0..0 : SumAt(set, f, j) = 0
      BY DEF SumAt
    <2>2. IsSum(set, 0, f)
      BY <2>1, Zenon DEF IsSum
    <2> QED  BY <2>2
  <1>2. ASSUME NEW n \in 0..(N - 1), n \in S PROVE n + 1 \in S
    <2>1. PICK f : IsSum(set, n, f)
      BY <1>2, Zenon
    <2> DEFINE next == SumAt(set, f, n + 1)
               w == [j \in 0..(n + 1) |-> IF j = n + 1 THEN next ELSE f[j]]
    <2>2. ASSUME NEW j \in 0..(n + 1) PROVE w[j] = SumAt(set, w, j)
      <3>1. w[j] = IF j = n + 1 THEN next ELSE f[j]
        BY Zenon
      <3>2. j # n + 1 => f[j] = SumAt(set, f, j)
        <4>1. j # n + 1 => j \in 0..n
          OBVIOUS
        <4> QED  BY <2>1, <4>1, Zenon DEF IsSum
      <3>3. j # 0 => w[j - 1] = f[j - 1]
        <4> HIDE DEF next
        <4> QED  OBVIOUS
      <3> HIDE DEF w
      <3>4. SumAt(set, w, j) = SumAt(set, f, j)
        BY <3>3, Zenon DEF SumAt
      <3> QED  BY <3>1, <3>2, <3>4, Zenon
    <2>3. w = [j \in 0..(n + 1) |-> w[j]]
      <3> HIDE DEF next
      <3> QED  BY Zenon
    <2>4. IsSum(set, n + 1, w)
      <3> HIDE DEF w
      <3> QED  BY <2>2, <2>3, Zenon DEF IsSum
    <2> QED  BY <2>4
  <1>3. N \in S
    <2> HIDE DEF S
    <2> QED  BY <1>1, <1>2, UpTo
  <1> QED
    BY <1>3, Zenon

\* and any two agree as far as both go.
LEMMA SumsAgree ==
  ASSUME NEW set, NEW n \in Nat, NEW m \in Nat, n <= m, NEW f, NEW g, IsSum(set, n, f), IsSum(set, m, g)
  PROVE  \A j \in 0..n : f[j] = g[j]
  <1> DEFINE S == {j \in 0..n : f[j] = g[j]}
  <1>1. \A j \in 0..n : f[j] = SumAt(set, f, j) /\ g[j] = SumAt(set, g, j)
    <2>1. \A j \in 0..n : j \in 0..m
      OBVIOUS
    <2> QED  BY <2>1, Zenon DEF IsSum
  <1>2. 0 \in S
    <2>1. 0 \in 0..n
      OBVIOUS
    <2> QED  BY <1>1, <2>1, Zenon DEF SumAt
  <1>3. ASSUME NEW j \in 0..(n - 1), j \in S PROVE j + 1 \in S
    <2>1. j + 1 \in 0..n /\ j + 1 # 0 /\ (j + 1) - 1 = j
      OBVIOUS
    <2>2. f[j] = g[j]
      BY <1>3, Zenon
    <2>3. f[j + 1] = SumAt(set, f, j + 1) /\ g[j + 1] = SumAt(set, g, j + 1)
      BY <1>1, <2>1, Zenon
    <2>4. \A h : SumAt(set, h, j + 1) = h[j] + set[j + 1].weight
      BY <2>1, Zenon DEF SumAt
    <2>5. f[j + 1] = g[j + 1]
      BY <2>2, <2>3, <2>4, Zenon
    <2> QED  BY <2>1, <2>5, Zenon
  <1>4. \A j \in 0..n : j \in S
    <2> HIDE DEF S
    <2> QED  BY <1>2, <1>3, UpTo, Zenon
  <1> QED
    BY <1>4, Zenon

\* The weight of the first entries, entry by entry.
LEMMA AccSteps ==
  ASSUME NEW set, NEW i \in Nat
  PROVE  Acc(set, 0) = 0 /\ Acc(set, i + 1) = Acc(set, i) + set[i + 1].weight
  <1> DEFINE f(n) == CHOOSE g : IsSum(set, n, g)
  <1>1. \A n : Acc(set, n) = f(n)[n]
    BY Zenon DEF Acc, IsSum, SumAt
  <1>2. \A n \in Nat : IsSum(set, n, f(n))
    BY SumExists, Zenon
  <1> HIDE DEF f
  <1>3. \A n \in Nat : \A j \in 0..n : f(n)[j] = SumAt(set, f(n), j)
    BY <1>2, Zenon DEF IsSum
  <1>4. f(0)[0] = 0
    <2>1. 0 \in Nat /\ 0 \in 0..0
      OBVIOUS
    <2> QED  BY <1>3, <2>1, Zenon DEF SumAt
  <1>5. f(i + 1)[i + 1] = f(i + 1)[i] + set[i + 1].weight
    <2>1. i + 1 \in Nat /\ i + 1 \in 0..(i + 1) /\ i + 1 # 0 /\ (i + 1) - 1 = i
      OBVIOUS
    <2> QED  BY <1>3, <2>1, Zenon DEF SumAt
  <1>6. f(i)[i] = f(i + 1)[i]
    <2>1. i \in Nat /\ i + 1 \in Nat /\ i <= i + 1 /\ i \in 0..i
      OBVIOUS
    <2>2. IsSum(set, i, f(i)) /\ IsSum(set, i + 1, f(i + 1))
      BY <1>2, <2>1, Zenon
    <2>3. \A j \in 0..i : f(i)[j] = f(i + 1)[j]
      BY <2>1, <2>2, SumsAgree
    <2> QED  BY <2>1, <2>3, Zenon
  <1> QED
    BY <1>1, <1>4, <1>5, <1>6

\* It grows.
LEMMA AccGrows ==
  ASSUME NEW set, NEW n \in Nat, \A i \in 1..n : set[i].weight \in Nat
  PROVE  \A j \in 0..n : Acc(set, j) \in Nat /\ \A i \in 0..j : Acc(set, i) \in Nat /\ Acc(set, i) <= Acc(set, j)
  <1> DEFINE A(i) == Acc(set, i)
             S == {j \in 0..n : A(j) \in Nat /\ \A i \in 0..j : A(i) \in Nat /\ A(i) <= A(j)}
  <1>1. A(0) = 0
    <2>1. 0 \in Nat
      BY Zenon
    <2> QED  BY <2>1, AccSteps, Zenon
  <1>2. \A j \in 0..(n - 1) : A(j + 1) = A(j) + set[j + 1].weight /\ set[j + 1].weight \in Nat
    <2>1. \A j \in 0..(n - 1) : j \in Nat /\ j + 1 \in 1..n
      OBVIOUS
    <2> QED  BY <2>1, AccSteps, Zenon
  <1> HIDE DEF A
  <1>3. 0 \in S
    BY <1>1
  <1>4. ASSUME NEW j \in 0..(n - 1), j \in S PROVE j + 1 \in S
    <2>1. A(j + 1) \in Nat /\ A(j) \in Nat /\ A(j) <= A(j + 1)
      BY <1>2, <1>4
    <2>2. ASSUME NEW i \in 0..(j + 1) PROVE A(i) \in Nat /\ A(i) <= A(j + 1)
      <3>1. CASE i = j + 1
        BY <2>1, <3>1
      <3>2. CASE i # j + 1
        <4>1. i \in 0..j
          BY <3>2
        <4> QED  BY <1>4, <2>1, <4>1
      <3> QED  BY <3>1, <3>2
    <2> QED  BY <2>1, <2>2
  <1>5. \A j \in 0..n : j \in S
    <2> HIDE DEF S
    <2> QED  BY <1>3, <1>4, UpTo, Zenon
  <1> QED
    BY <1>5, Zenon DEF A

\* The worker that slot_for gives an entry is the one whose target the entry
\* covers: the first entry that reaches beyond the target is the only one that
\* does and begins at or below it.
LEMMA SlotIsOn ==
  ASSUME NEW set, Len(set) \in Nat, \A j \in 1..Len(set) : set[j].weight \in Nat,
         Acc(set, Len(set)) > 0, NEW workers \in Nat \ {0}, NEW idx \in 0..(workers - 1),
         NEW i \in 1..Len(set)
  PROVE  SlotFor(set, workers, idx) = i
           <=> On(idx, Acc(set, Len(set)), workers, Acc(set, i - 1), Acc(set, i))
  <1> DEFINE n == Len(set)
             A(j) == Acc(set, j)
             total == A(n)
             target == Midpoint(idx, total, workers)
             hits == {j \in 1..n : target < A(j)}
  <1>1. /\ \A j \in 0..n : A(j) \in Nat
        /\ \A j, k \in 0..n : j <= k => A(j) <= A(k)
        /\ A(0) = 0
    <2>1. \A j \in 0..n : A(j) \in Nat /\ \A k \in 0..j : A(k) \in Nat /\ A(k) <= A(j)
      BY AccGrows, Zenon
    <2>2. A(0) = 0
      BY AccSteps, Zenon
    <2> HIDE DEF A
    <2> QED  BY <2>1, <2>2
  <1>2. MaxOf(workers, 1) = workers
    BY DEF MaxOf
  <1>3. SlotFor(set, workers, idx) =
          IF total = 0 THEN (idx % n) + 1 ELSE IF hits = {} THEN n ELSE Min(hits)
    BY <1>2, Zenon DEF SlotFor, Covers
  <1>4. n \in Nat /\ n \in 1..n /\ n \in 0..n /\ total \in Nat \ {0}
    BY <1>1
  <1>5. target \in Nat /\ target < total
    <2> HIDE DEF total
    <2>1. Covers(target, total)
      BY <1>4, EveryWorkerCovered, Zenon
    <2>2. idx \in Nat /\ total \in Nat
      BY <1>4
    <2>3. target \in Nat
      BY <2>2, TargetExact, Zenon
    <2> QED  BY <2>1, <2>3, Zenon DEF Covers
  <1>6. On(idx, total, workers, A(i - 1), A(i)) <=> (~(target < A(i - 1)) /\ target < A(i))
    BY Zenon DEF On, Covers
  <1> HIDE DEF A, total, target, n
  <1>7. PICK m \in hits : \A j \in hits : m <= j
    <2>1. hits \in SUBSET Nat /\ n \in hits
      BY <1>4, <1>5 DEF total
    <2> HIDE DEF hits
    <2> QED  BY <2>1, LeastNatural, Zenon
  <1>8. Min(hits) = m
    <2>1. \A x \in hits : (\A j \in hits : x <= j) => x = m
      BY <1>7
    <2> HIDE DEF hits
    <2> QED  BY <1>7, <2>1, Zenon DEF Min
  <1>9. SlotFor(set, workers, idx) = m
    BY <1>3, <1>4, <1>7, <1>8
  <1>10. m \in 1..n /\ target < A(m) /\ i \in 1..n
    BY <1>7, Zenon DEF n
  <1>11. ~(target < A(m - 1))
    <2>1. CASE m = 1
      BY <1>1, <1>5, <2>1
    <2>2. CASE m # 1
      <3>1. m - 1 \in 1..n /\ ~(m <= m - 1)
        BY <1>4, <1>10, <2>2
      <3> QED  BY <1>7, <3>1
    <2> QED  BY <2>1, <2>2
  <1>12. ASSUME ~(target < A(i - 1)), target < A(i) PROVE i = m
    <2>1. m <= i
      BY <1>7, <1>10, <1>12
    <2>2. ~(m <= i - 1)
      <3> SUFFICES ASSUME m <= i - 1 PROVE FALSE
        BY Zenon
      <3>1. m \in 0..n /\ i - 1 \in 0..n
        BY <1>4, <1>10
      <3>2. A(m) \in Nat /\ A(i - 1) \in Nat /\ A(m) <= A(i - 1)
        BY <1>1, <3>1
      <3> QED  BY <1>5, <1>10, <1>12, <3>2
    <2> QED  BY <1>10, <2>1, <2>2
  <1>13. SlotFor(set, workers, idx) = i <=> On(idx, total, workers, A(i - 1), A(i))
    BY <1>6, <1>9, <1>10, <1>11, <1>12
  <1> QED
    BY <1>13, Zenon DEF total, n, A

\* Below a weight are the workers up to a cut.
LEMMA Cut ==
  ASSUME NEW total \in Nat \ {0}, NEW n \in Nat \ {0}, NEW w \in 0..total
  PROVE  \E c \in 0..n : \A k \in 0..(n - 1) : Covers(Midpoint(k, total, n), w) <=> k < c
  <1> DEFINE T == {k \in 0..n : k = n \/ ~Covers(Midpoint(k, total, n), w)}
  <1>1. PICK c \in T : \A k \in T : c <= k
    <2>1. T \in SUBSET Nat /\ n \in T
      OBVIOUS
    <2> HIDE DEF T
    <2> QED  BY <2>1, LeastNatural, Zenon
  <1>2. ASSUME NEW k \in 0..(n - 1), k < c PROVE Covers(Midpoint(k, total, n), w)
    <2>1. k \notin T /\ k \in 0..n /\ k # n
      BY <1>1, <1>2
    <2> QED  BY <2>1, Zenon
  <1>3. ASSUME NEW k \in 0..(n - 1), ~(k < c) PROVE ~Covers(Midpoint(k, total, n), w)
    <2>1. c \in Nat /\ c # n /\ c <= k /\ k \in Nat
      BY <1>1, <1>3
    <2>2. ~((2 * c + 1) * total < 2 * n * w)
      BY <1>1, <2>1, TargetExact DEF Covers
    <2>3. (2 * c + 1) * total <= (2 * k + 1) * total
      BY <2>1, SMTT(30)
    <2>4. ~((2 * k + 1) * total < 2 * n * w)
      <3> DEFINE a == (2 * c + 1) * total
                 b == (2 * k + 1) * total
                 v == 2 * n * w
      <3>1. a \in Nat /\ b \in Nat /\ v \in Nat
        BY <2>1
      <3>2. a <= b /\ ~(a < v)
        BY <2>2, <2>3
      <3> HIDE DEF a, b, v
      <3>3. ~(b < v)
        BY <3>1, <3>2
      <3> QED  BY <3>3, Zenon DEF b, v
    <2> QED  BY <2>1, <2>4, TargetExact DEF Covers
  <1>4. c \in 0..n
    BY <1>1
  <1> QED
    BY <1>2, <1>3, <1>4, Zenon

\* An entry gets its share of a fleet, in whole workers.
LEMMA Share ==
  ASSUME NEW total \in Nat \ {0}, NEW n \in Nat \ {0}, NEW from \in 0..total, NEW to \in 0..total,
         from <= to
  PROVE  LET on == Cardinality({k \in 0..(n - 1) : On(k, total, n, from, to)})
         IN /\ on * total < (to - from) * n + total
            /\ on * total > (to - from) * n - total
  <1> DEFINE below(k, w) == Covers(Midpoint(k, total, n), w)
  <1>1. PICK b \in 0..n : \A k \in 0..(n - 1) : below(k, from) <=> k < b
    BY Cut, Zenon
  <1>2. PICK e \in 0..n : \A k \in 0..(n - 1) : below(k, to) <=> k < e
    BY Cut, Zenon
  <1>3. \A k \in 0..(n - 1) :
          /\ below(k, from) <=> (2 * k + 1) * total < 2 * n * from
          /\ below(k, to) <=> (2 * k + 1) * total < 2 * n * to
    <2>1. \A k \in 0..(n - 1) : k \in Nat
      OBVIOUS
    <2>2. total \in Nat /\ from \in Nat /\ to \in Nat
      OBVIOUS
    <2> QED  BY <2>1, <2>2, TargetExact, Zenon DEF Covers
  <1> HIDE DEF below
  <1>4. b <= e
    <2> SUFFICES ASSUME e < b PROVE FALSE
      OBVIOUS
    <2>1. e \in 0..(n - 1) /\ ~(e < e)
      OBVIOUS
    <2>2. below(e, from) /\ ~below(e, to)
      BY <1>1, <1>2, <2>1
    <2>3. (2 * e + 1) * total < 2 * n * from /\ ~((2 * e + 1) * total < 2 * n * to)
      BY <1>3, <2>1, <2>2, Zenon
    <2>4. 2 * n * from <= 2 * n * to
      BY SMTT(30)
    <2> DEFINE a == (2 * e + 1) * total
               u == 2 * n * from
               v == 2 * n * to
    <2>5. a \in Nat /\ u \in Nat /\ v \in Nat
      OBVIOUS
    <2>6. a < u /\ ~(a < v) /\ u <= v
      BY <2>3, <2>4
    <2> HIDE DEF a, u, v
    <2> QED  BY <2>5, <2>6
  <1>5. Cardinality({k \in 0..(n - 1) : On(k, total, n, from, to)}) = e - b
    <2>1. \A k \in 0..(n - 1) : On(k, total, n, from, to) <=> (~(k < b) /\ k < e)
      BY <1>1, <1>2, Zenon DEF On, below
    <2>2. {k \in 0..(n - 1) : On(k, total, n, from, to)} = b..(e - 1)
      BY <2>1
    <2>3. Cardinality(b..(e - 1)) = e - b
      <3>1. b \in Int /\ e - 1 \in Int
        OBVIOUS
      <3>2. Cardinality(b..(e - 1)) = IF b > e - 1 THEN 0 ELSE (e - 1) - b + 1
        BY <3>1, FS_Interval, Zenon
      <3>3. (IF b > e - 1 THEN 0 ELSE (e - 1) - b + 1) = e - b
        BY <1>4
      <3> QED  BY <3>2, <3>3
    <2> QED  BY <2>2, <2>3, Zenon
  <1> DEFINE p == b * total
             q == e * total
             u == n * from
             v == n * to
  <1>6. /\ b > 0 => 2 * p - total < 2 * u
        /\ b < n => ~(2 * p + total < 2 * u)
        /\ e > 0 => 2 * q - total < 2 * v
        /\ e < n => ~(2 * q + total < 2 * v)
    <2>1. ASSUME NEW c \in 0..n, NEW w \in 0..total, NEW k \in 0..(n - 1)
          PROVE  /\ (2 * k + 1) * total = 2 * (k * total) + total
                 /\ k = c - 1 => 2 * (k * total) + total = 2 * (c * total) - total
                 /\ 2 * n * w = 2 * (n * w)
      OBVIOUS
    <2>2. ASSUME b > 0 PROVE 2 * p - total < 2 * u
      <3>1. b - 1 \in 0..(n - 1) /\ b - 1 < b
        BY <2>2
      <3>2. (2 * (b - 1) + 1) * total < 2 * n * from
        BY <1>1, <1>3, <3>1, Zenon
      <3> QED  BY <3>2
    <2>3. ASSUME b < n PROVE ~(2 * p + total < 2 * u)
      <3>1. b \in 0..(n - 1) /\ ~(b < b)
        BY <2>3
      <3>2. ~((2 * b + 1) * total < 2 * n * from)
        BY <1>1, <1>3, <3>1, Zenon
      <3> QED  BY <3>2
    <2>4. ASSUME e > 0 PROVE 2 * q - total < 2 * v
      <3>1. e - 1 \in 0..(n - 1) /\ e - 1 < e
        BY <2>4
      <3>2. (2 * (e - 1) + 1) * total < 2 * n * to
        BY <1>2, <1>3, <3>1, Zenon
      <3> QED  BY <3>2
    <2>5. ASSUME e < n PROVE ~(2 * q + total < 2 * v)
      <3>1. e \in 0..(n - 1) /\ ~(e < e)
        BY <2>5
      <3>2. ~((2 * e + 1) * total < 2 * n * to)
        BY <1>2, <1>3, <3>1, Zenon
      <3> QED  BY <3>2
    <2> QED  BY <2>2, <2>3, <2>4, <2>5, Zenon
  <1>7. /\ p \in Nat /\ q \in Nat /\ u \in Nat /\ v \in Nat
        /\ b = 0 => p = 0
        /\ e = 0 => q = 0
        /\ b = n => u <= p
        /\ e = n => v <= q
    <2>1. p \in Nat /\ q \in Nat /\ u \in Nat /\ v \in Nat /\ (b = 0 => p = 0) /\ (e = 0 => q = 0)
      OBVIOUS
    <2>2. b = n => u <= p
      BY SMTT(30)
    <2>3. e = n => v <= q
      BY SMTT(30)
    <2> QED  BY <2>1, <2>2, <2>3
  <1>8. (e - b) * total = q - p /\ (to - from) * n = v - u
    OBVIOUS
  <1> HIDE DEF p, q, u, v
  <1>9. q - p < (v - u) + total
    BY <1>4, <1>6, <1>7
  <1>10. q - p > (v - u) - total
    BY <1>4, <1>6, <1>7
  <1> QED
    BY <1>5, <1>8, <1>9, <1>10

\* What slot_for does to a whole set, for any weights and any fleet: every
\* address gets its exact share of the workers, rounded up or down.
THEOREM SplitIsExact ==
  ASSUME NEW Addr, NEW set \in Seq([addr : Addr, weight : Nat]), NEW workers \in Nat \ {0}
  PROVE  SplitsExactly(set, workers)
  <1> DEFINE n == Len(set)
             total == Acc(set, n)
  <1> SUFFICES ASSUME total > 0, NEW i \in 1..n
               PROVE  LET on == Cardinality(OnEntry(set, workers, i))
                      IN /\ on * total < set[i].weight * workers + total
                         /\ on * total > set[i].weight * workers - total
    BY Zenon DEF SplitsExactly
  <1>1. n \in Nat /\ \A j \in 1..n : set[j].weight \in Nat
    <2>1. n \in Nat /\ \A j \in 1..n : set[j] \in [addr : Addr, weight : Nat]
      <3>1. \A E : \A s \in Seq(E) : Len(s) \in Nat /\ \A j \in 1..Len(s) : s[j] \in E
        OBVIOUS
      <3> QED  BY <3>1, Zenon
    <2>2. \A e \in [addr : Addr, weight : Nat] : e.weight \in Nat
      BY Zenon
    <2> QED  BY <2>1, <2>2, Zenon
  <1> DEFINE from == Acc(set, i - 1)
             to == Acc(set, i)
  <1>2. /\ total \in Nat \ {0} /\ from \in 0..total /\ to \in 0..total /\ from <= to
    <2>1. \A j \in 0..n : Acc(set, j) \in Nat /\ \A k \in 0..j : Acc(set, k) \in Nat /\ Acc(set, k) <= Acc(set, j)
      BY <1>1, AccGrows, Zenon
    <2>2. i \in 0..n /\ i - 1 \in 0..i /\ i - 1 \in 0..n /\ n \in 0..n
      BY <1>1
    <2> HIDE DEF n
    <2> QED  BY <2>1, <2>2
  <1>3. to - from = set[i].weight
    <2>1. i - 1 \in Nat /\ (i - 1) + 1 = i
      BY <1>1
    <2>2. Acc(set, (i - 1) + 1) = Acc(set, i - 1) + set[(i - 1) + 1].weight
      BY <2>1, AccSteps, Zenon
    <2>3. to = from + set[i].weight
      BY <2>1, <2>2, Zenon
    <2>4. set[i].weight \in Nat
      BY <1>1
    <2> HIDE DEF n, from, to, total
    <2>5. from \in Nat
      BY <1>2
    <2> QED  BY <2>3, <2>4, <2>5
  <1>4. OnEntry(set, workers, i) = {k \in 0..(workers - 1) : On(k, total, workers, from, to)}
    <2>1. \A k \in 0..(workers - 1) :
            SlotFor(set, workers, k) = i <=> On(k, total, workers, from, to)
      BY <1>1, SlotIsOn, Zenon
    <2> QED  BY <2>1, Zenon DEF OnEntry
  <1> HIDE DEF n, from, to, total
  <1> QED
    BY <1>2, <1>3, <1>4, Share, Zenon

\* slot_for makes the weights come true for any of them and any fleet.
THEOREM ExactSplitHolds == PureSpec => []ExactSplit
  <1>1. ASSUME PureInit PROVE ExactSplit
    <2> DEFINE set == [i \in 1..Len(input.weights) |-> [addr |-> i, weight |-> input.weights[i]]]
    <2> SUFFICES ASSUME Given("split") PROVE SplitsExactly(set, input.fleet)
      BY Zenon DEF ExactSplit
    <2>1. input.weights \in Seq(Nat) /\ input.fleet \in Nat \ {0}
      BY <1>1, InputOf, Zenon DEF IsSplit
    <2>2. set \in Seq([addr : Nat, weight : Nat])
      BY <2>1
    <2> HIDE DEF set
    <2> QED  BY <2>1, <2>2, SplitIsExact, Zenon
  <1> QED
    BY <1>1, InputStays, PTL
-----------------------------------------------------------------------------
(* The SERVFAIL of the worker.  The recursion of question_end as an equation: *)

EndAt(buf, f, pos) ==
  IF pos >= Len(buf) THEN 0
  ELSE IF buf[pos + 1] = 0 THEN pos + 1 + 4
  ELSE IF buf[pos + 1] >= 64 \/ pos + 1 + buf[pos + 1] > Len(buf) THEN 0
  ELSE f[pos + 1 + buf[pos + 1]]
IsEnd(buf, f) == f = [pos \in Nat |-> EndAt(buf, f, pos)]

\* The element of a list at one of its positions.
LEMMA ElementAt ==
  ASSUME NEW T, NEW s \in Seq(T), NEW i \in 1..Len(s)
  PROVE  s[i] \in T
  OBVIOUS

\* What it says of a position depends on later positions only.
LEMMA EndLooksAhead ==
  ASSUME NEW buf \in Seq(0..255), NEW pos \in Nat, NEW f, NEW g,
         \A p \in Nat : p > pos => f[p] = g[p]
  PROVE  EndAt(buf, f, pos) = EndAt(buf, g, pos)
  <1>1. CASE pos >= Len(buf)
    BY <1>1, Zenon DEF EndAt
  <1>2. CASE ~(pos >= Len(buf))
    <2>1. buf[pos + 1] \in 0..255
      <3>1. pos + 1 \in 1..Len(buf)
        BY <1>2
      <3> QED  BY <3>1, ElementAt, Zenon
    <2> DEFINE b == buf[pos + 1]
               next == pos + 1 + b
    <2>2. next \in Nat /\ next > pos
      <3> HIDE DEF b
      <3>1. b \in 0..255
        BY <2>1, Zenon DEF b
      <3> QED  BY ONLY pos \in Nat, <3>1
    <2>3. f[next] = g[next]
      BY <2>2, Zenon
    <2> QED  BY <2>3, Zenon DEF EndAt
  <1> QED
    BY <1>1, <1>2, Zenon

\* It has a solution: from the end of the message down.
LEMMA EndExists ==
  ASSUME NEW buf \in Seq(0..255)
  PROVE  \E f : IsEnd(buf, f)
  <1> DEFINE N == Len(buf)
             Solves(f, d) == /\ f = [pos \in Nat |-> f[pos]]
                             /\ \A pos \in Nat : pos >= N - d => f[pos] = EndAt(buf, f, pos)
             S == {d \in 0..N : \E f : Solves(f, d)}
  <1>1. N \in Nat
    OBVIOUS
  <1>2. 0 \in S
    <2> DEFINE f == [pos \in Nat |-> 0]
    <2>1. ASSUME NEW pos \in Nat, pos >= N - 0 PROVE EndAt(buf, f, pos) = 0
      <3>1. pos >= Len(buf)
        BY <1>1, <2>1
      <3> QED  BY <3>1, Zenon DEF EndAt
    <2>2. Solves(f, 0)
      BY <2>1, Zenon
    <2>3. 0 \in 0..N
      BY <1>1
    <2> HIDE DEF f, Solves, N
    <2> QED  BY <2>2, <2>3, Zenon
  <1>3. ASSUME NEW d \in 0..(N - 1), d \in S PROVE d + 1 \in S
    <2>1. PICK f : Solves(f, d)
      BY <1>3, Zenon
    <2> DEFINE p == N - (d + 1)
               at == EndAt(buf, f, p)
               w == [pos \in Nat |-> IF pos = p THEN at ELSE f[pos]]
    <2>2. d \in 0..N /\ d + 1 \in 0..N /\ p \in Nat
      BY <1>1
    <2> HIDE DEF N
    <2>3. ASSUME NEW pos \in Nat, pos >= p PROVE w[pos] = EndAt(buf, w, pos)
      <3>1. \A q \in Nat : q > pos => q # p
        BY <2>2, <2>3
      <3>2. pos # p => pos >= N - d
        BY <1>1, <2>2, <2>3
      <3> HIDE DEF p, at
      <3>3. \A q \in Nat : q > pos => f[q] = w[q]
        BY <3>1, Zenon
      <3>4. EndAt(buf, f, pos) = EndAt(buf, w, pos)
        <4> HIDE DEF w
        <4> QED  BY <3>3, EndLooksAhead, Zenon
      <3>5. pos # p => f[pos] = EndAt(buf, f, pos)
        BY <2>1, <3>2, Zenon
      <3>6. w[pos] = IF pos = p THEN at ELSE f[pos]
        BY Zenon
      <3> HIDE DEF w
      <3>7. w[pos] = EndAt(buf, f, pos)
        <4>1. CASE pos = p
          <5>1. at = EndAt(buf, f, pos)
            BY <4>1, Zenon DEF at
          <5> QED  BY <3>6, <4>1, <5>1, Zenon
        <4>2. CASE pos # p
          BY <3>5, <3>6, <4>2, Zenon
        <4> QED  BY <4>1, <4>2, Zenon
      <3> QED  BY <3>4, <3>7, Zenon
    <2>4. w = [pos \in Nat |-> w[pos]]
      <3> HIDE DEF p, at
      <3> QED  BY Zenon
    <2> HIDE DEF w
    <2>5. Solves(w, d + 1)
      BY <2>3, <2>4, Zenon
    <2> HIDE DEF Solves
    <2> QED  BY <2>2, <2>5, Zenon
  <1>4. N \in S
    <2>1. N \in 0..N
      BY <1>1
    <2> HIDE DEF S, N
    <2> QED  BY <1>1, <1>2, <1>3, <2>1, UpTo, Zenon
  <1>5. PICK f : Solves(f, N)
    <2> HIDE DEF Solves, N
    <2> QED  BY <1>4, Zenon
  <1>6. \A pos \in Nat : pos >= N - N
    BY <1>1
  <1> HIDE DEF N
  <1>7. \A pos \in Nat : f[pos] = EndAt(buf, f, pos)
    BY <1>5, <1>6, Zenon
  <1>8. f = [pos \in Nat |-> f[pos]]
    BY <1>5, Zenon
  <1>9. IsEnd(buf, f)
    BY <1>7, <1>8, Zenon DEF IsEnd
  <1> QED
    BY <1>9, Zenon

\* question_end is the solution behind the header.
LEMMA EndSteps ==
  ASSUME NEW buf \in Seq(0..255)
  PROVE  \E f : /\ \A pos \in Nat : f[pos] = EndAt(buf, f, pos)
                /\ question_end(buf) = f[12]
  <1> DEFINE g == CHOOSE f : IsEnd(buf, f)
  <1>1. IsEnd(buf, g)
    BY EndExists, Zenon
  <1>2. question_end(buf) = g[12]
    BY Zenon DEF question_end, IsEnd, EndAt, MIN_DNS_LEN
  <1> HIDE DEF g
  <1>3. \A pos \in Nat : g[pos] = EndAt(buf, g, pos)
    BY <1>1, Zenon DEF IsEnd
  <1> QED
    BY <1>2, <1>3, Zenon

\* The labels lead question_end to the last position, wherever it is.
LEMMA EndOfChain ==
  ASSUME NEW buf \in Seq(0..255), NEW starts, Follows(buf, starts),
         NEW f, \A pos \in Nat : f[pos] = EndAt(buf, f, pos)
  PROVE  LET last == starts[Len(starts)]
         IN last \in Nat /\ last >= 12 /\ f[12] = f[last]
  <1> DEFINE n == Len(starts)
             S == {i \in 0..(n - 1) : starts[i + 1] >= 12 /\ f[12] = f[starts[i + 1]]}
  <1>1. starts \in Seq(Nat) /\ n \in Nat \ {0} /\ starts[1] = 12
    BY DEF Follows
  <1>2. \A i \in 1..n : starts[i] \in Nat
    BY <1>1
  <1>3. 0 \in S
    BY <1>1
  <1>4. ASSUME NEW i \in 0..((n - 1) - 1), i \in S PROVE i + 1 \in S
    <2> DEFINE pos == starts[i + 1]
               next == starts[(i + 1) + 1]
               b == buf[pos + 1]
    <2>1. i + 1 \in 1..(n - 1) /\ i + 1 \in 1..n /\ (i + 1) + 1 \in 1..n /\ i + 1 \in 0..(n - 1)
      BY <1>1
    <2>2. pos \in Nat /\ next \in Nat
      BY <1>2, <2>1, Zenon
    <2>3. pos < Len(buf) /\ b \in 1..63 /\ next = pos + 1 + b
      BY <2>1, Zenon DEF Follows, LabelAt
    <2>4. pos >= 12 /\ f[12] = f[pos]
      BY <1>4, Zenon
    <2> HIDE DEF n
    <2>5. f[pos] = f[next]
      <3>1. f[pos] = EndAt(buf, f, pos) /\ f[next] = EndAt(buf, f, next)
        BY <2>2, Zenon
      <3>2. EndAt(buf, f, pos) = IF next > Len(buf) THEN 0 ELSE f[next]
        <4>1. ~(pos >= Len(buf)) /\ b # 0 /\ ~(b >= 64)
          <5> HIDE DEF pos, b
          <5> QED  BY <2>2, <2>3
        <4> HIDE DEF next
        <4> QED  BY <2>3, <4>1, Zenon DEF EndAt
      <3>3. CASE next > Len(buf)
        <4>1. next >= Len(buf)
          <5> HIDE DEF next
          <5> QED  BY <2>2, <3>3
        <4>2. EndAt(buf, f, next) = 0
          BY <4>1, Zenon DEF EndAt
        <4> QED  BY <3>1, <3>2, <3>3, <4>2, Zenon
      <3>4. CASE ~(next > Len(buf))
        BY <3>1, <3>2, <3>4, Zenon
      <3> QED  BY <3>3, <3>4, Zenon
    <2>6. next >= 12
      <3> HIDE DEF pos, b, next
      <3> QED  BY <2>2, <2>3, <2>4
    <2>7. f[12] = f[next]
      BY <2>4, <2>5, Zenon
    <2> QED  BY <2>1, <2>6, <2>7, Zenon
  <1>5. n - 1 \in Nat /\ n - 1 \in 0..(n - 1) /\ (n - 1) + 1 = n /\ n \in 1..n
    BY <1>1
  <1>6. n - 1 \in S
    <2> HIDE DEF S, n
    <2> QED  BY <1>3, <1>4, <1>5, UpTo, Zenon
  <1>7. starts[(n - 1) + 1] >= 12 /\ f[12] = f[starts[(n - 1) + 1]]
    BY <1>6, Zenon
  <1>8. starts[n] >= 12 /\ f[12] = f[starts[n]]
    BY <1>5, <1>7, Zenon
  <1> QED
    BY <1>2, <1>5, <1>8, Zenon

\* So question_end finds the question that is there.
LEMMA QuestionEnd ==
  ASSUME NEW x, IsDatagram(x)
  PROVE  LET last == x.starts[Len(x.starts)]
         IN /\ last \in Nat /\ last >= 12
            /\ question_end(x.bytes) =
                 IF last < Len(x.bytes) /\ x.bytes[last + 1] = 0 THEN last + 5 ELSE 0
  <1> DEFINE buf == x.bytes
             last == x.starts[Len(x.starts)]
             b == buf[last + 1]
  <1>1. buf \in Seq(0..255) /\ Follows(buf, x.starts)
    BY Zenon DEF IsDatagram
  <1> HIDE DEF buf
  <1>2. PICK f : (\A pos \in Nat : f[pos] = EndAt(buf, f, pos)) /\ question_end(buf) = f[12]
    BY <1>1, EndSteps, Zenon
  <1>3. last \in Nat /\ last >= 12 /\ f[12] = f[last]
    BY <1>1, <1>2, EndOfChain, Zenon
  <1>4. ~(last < Len(buf) /\ b \in 1..63)
    BY <1>1, Zenon DEF Follows, LabelAt
  <1> HIDE DEF last
  <1>5. f[last] = EndAt(buf, f, last)
    BY <1>2, <1>3, Zenon
  <1>6. EndAt(buf, f, last) = IF last < Len(buf) /\ b = 0 THEN last + 5 ELSE 0
    <2>1. Len(buf) \in Nat
      BY <1>1
    <2>2. CASE ~(last < Len(buf))
      <3>1. last >= Len(buf)
        BY <1>3, <2>1, <2>2
      <3> QED  BY <2>2, <3>1, Zenon DEF EndAt
    <2>3. CASE last < Len(buf)
      <3>1. last + 1 \in 1..Len(buf) /\ ~(last >= Len(buf))
        BY <1>3, <2>1, <2>3
      <3>2. b \in 0..255
        BY <1>1, <3>1, ElementAt, Zenon
      <3>3. b \notin 1..63
        BY <1>4, <2>3, Zenon
      <3>4. b = 0 \/ b >= 64
        <4> HIDE DEF b
        <4> QED  BY ONLY <3>2, <3>3
      <3>5. last + 1 + 4 = last + 5
        BY <1>3
      <3>6. CASE b = 0
        BY <2>3, <3>1, <3>5, <3>6, Zenon DEF EndAt
      <3>7. CASE b # 0
        BY <3>1, <3>4, <3>7, Zenon DEF EndAt
      <3> QED  BY <3>6, <3>7, Zenon
    <2> QED  BY <2>2, <2>3, Zenon
  <1> QED
    BY <1>2, <1>3, <1>5, <1>6, Zenon DEF last, buf

\* Parts of lists and lists put together, element by element.
LEMMA PartOf ==
  ASSUME NEW T, NEW s \in Seq(T), NEW m \in Nat \ {0}, NEW n \in Nat, m <= n + 1, n <= Len(s)
  PROVE  /\ SubSeq(s, m, n) \in Seq(T) /\ Len(SubSeq(s, m, n)) = n - m + 1
         /\ \A i \in 1..(n - m + 1) : SubSeq(s, m, n)[i] = s[i + m - 1]
  OBVIOUS

LEMMA Joined ==
  ASSUME NEW T, NEW s \in Seq(T), NEW t \in Seq(T)
  PROVE  /\ s \o t \in Seq(T) /\ Len(s \o t) = Len(s) + Len(t)
         /\ \A i \in 1..(Len(s) + Len(t)) : (s \o t)[i] = IF i <= Len(s) THEN s[i] ELSE t[i - Len(s)]
  OBVIOUS

\* The rest of an answer: the counts, 1 0 0 0, in front of the question.
LEMMA BehindCounts ==
  ASSUME NEW q \in Seq(Nat)
  PROVE  LET s == <<0, 1, 0, 0, 0, 0, 0, 0>> \o q
         IN /\ s \in Seq(Nat) /\ Len(s) = 8 + Len(q)
            /\ s[1] = 0 /\ s[2] = 1 /\ \A i \in 3..8 : s[i] = 0
            /\ \A i \in 9..(8 + Len(q)) : s[i] = q[i - 8]
  <1> DEFINE c == <<0, 1, 0, 0, 0, 0, 0, 0>>
             n == Len(q)
  <1>1. c \in Seq(Nat) /\ Len(c) = 8
    OBVIOUS
  <1>2. c[1] = 0 /\ c[2] = 1 /\ \A i \in 3..8 : c[i] = 0
    OBVIOUS
  <1>3. n \in Nat
    OBVIOUS
  <1> HIDE DEF c
  <1>4. /\ c \o q \in Seq(Nat) /\ Len(c \o q) = Len(c) + Len(q)
        /\ \A i \in 1..(Len(c) + Len(q)) : (c \o q)[i] = IF i <= Len(c) THEN c[i] ELSE q[i - Len(c)]
    BY <1>1, Joined, Zenon
  <1>5. \A i \in 1..(8 + n) : (c \o q)[i] = IF i <= 8 THEN c[i] ELSE q[i - 8]
    BY <1>1, <1>4, Zenon
  <1>6. 1 \in 1..(8 + n) /\ 2 \in 1..(8 + n) /\ 1 <= 8 /\ 2 <= 8
    BY <1>3
  <1>7. (\A i \in 3..8 : i \in 1..(8 + n) /\ i <= 8) /\ \A i \in 9..(8 + n) : i \in 1..(8 + n) /\ ~(i <= 8)
    BY <1>3
  <1> QED
    BY <1>1, <1>2, <1>4, <1>5, <1>6, <1>7, Zenon DEF c

\* A count of one.
LEMMA OneQuestion ==
  ASSUME NEW a \in 0..255, NEW b \in 0..255, 256 * a + b = 1
  PROVE  a = 0 /\ b = 1
  OBVIOUS

\* Lists of the same length with the same elements are the same.
LEMMA SameList ==
  ASSUME NEW T, NEW s \in Seq(T), NEW t \in Seq(T), Len(s) = Len(t), \A i \in 1..Len(s) : s[i] = t[i]
  PROVE  s = t
  OBVIOUS

\* A list of bytes is one of numbers.
LEMMA Widened ==
  ASSUME NEW s \in Seq(0..255)
  PROVE  s \in Seq(Nat)
  <1> DEFINE T == 0..255
             n == Len(s)
  <1>1. n \in Nat /\ s \in [1..n -> T]
    <2>1. s \in Seq(T)
      BY Zenon
    <2> HIDE DEF T
    <2> QED  BY ONLY <2>1
  <1>2. T \subseteq Nat
    OBVIOUS
  <1> HIDE DEF T, n
  <1>3. s \in [1..n -> Nat]
    BY <1>1, <1>2, Zenon
  <1> QED
    BY <1>1, <1>3, IsSeq, Zenon

\* The SERVFAIL for any query the worker accepts (dns.rs, validate_query and
\* build_servfail) answers that query: ID, opcode and question are its own.
THEOREM ServfailEchoesHolds == PureSpec => []ServfailEchoes
  <1>1. ASSUME PureInit PROVE ServfailEchoes
    <2> DEFINE q == input.bytes
               question == input.question
               last == input.starts[Len(input.starts)]
               there == last + 5 <= Len(q) /\ q[last + 1] = 0
               end == IF there THEN last + 5 ELSE 12
               at(i) == CASE i = 3 -> (q[3] % 128) + 128
                          [] i = 4 -> ((q[4] \div 16) % 8) * 16 + 128 + 2
                          [] i \in 7..12 -> 0
                          [] OTHER -> q[i]
               reply == build_servfail(q)
    <2> SUFFICES ASSUME Given("datagram"), validate_query(q)
                 PROVE  /\ SubSeq(reply, 1, 2) = SubSeq(q, 1, 2)
                        /\ reply[3] = q[3] + 128
                        /\ reply[4] >= 128 /\ reply[4] % 16 = 2
                        /\ SubSeq(reply, 5, Len(reply)) = <<0, 1, 0, 0, 0, 0, 0, 0>> \o question
      BY Zenon DEF ServfailEchoes
    <2>1. IsDatagram(input)
      BY <1>1, InputOf, Zenon
    <2>2. q \in Seq(0..255) /\ question = IF there THEN SubSeq(q, 13, last + 5) ELSE <<>>
      BY <2>1, Zenon DEF IsDatagram, QuestionAt
    <2>3. /\ last \in Nat /\ last >= 12
          /\ question_end(q) = IF last < Len(q) /\ q[last + 1] = 0 THEN last + 5 ELSE 0
      BY <2>1, QuestionEnd, Zenon
    <2>4. Len(q) \in Nat /\ Len(q) >= 12 /\ q[3] < 128 /\ 256 * q[5] + q[6] = 1
      BY <2>2 DEF validate_query, MIN_DNS_LEN, U16
    <2> HIDE DEF q, question, last
    <2>5. q \in Seq(Nat) /\ \A i \in 1..Len(q) : q[i] \in 0..255
      BY <2>2, ElementAt, Widened, Zenon
    <2>6. q[3] \in 0..127 /\ q[4] \in 0..255 /\ q[5] = 0 /\ q[6] = 1
      <3>1. q[3] \in 0..255 /\ q[4] \in 0..255 /\ q[5] \in 0..255 /\ q[6] \in 0..255
        <4>1. 3 \in 1..Len(q) /\ 4 \in 1..Len(q) /\ 5 \in 1..Len(q) /\ 6 \in 1..Len(q)
          BY <2>4
        <4> QED  BY <2>5, <4>1, Zenon
      <3>2. q[5] = 0 /\ q[6] = 1
        <4>1. q[5] \in 0..255 /\ q[6] \in 0..255 /\ 256 * q[5] + q[6] = 1
          BY <2>4, <3>1, Zenon
        <4> QED  BY ONLY <4>1, OneQuestion, Zenon
      <3>3. q[3] \in 0..127
        <4> DEFINE b == q[3]
        <4> HIDE DEF b
        <4>1. b \in 0..255 /\ b < 128
          BY <2>4, <3>1, Zenon DEF b
        <4>2. b \in 0..127
          BY ONLY <4>1
        <4> QED  BY <4>2, Zenon DEF b
      <3> QED  BY <3>1, <3>2, <3>3, Zenon
    <2>7. question_end(q) \in 1..Len(q) <=> there
      <3>1. CASE last < Len(q) /\ q[last + 1] = 0
        <4>1. question_end(q) = last + 5
          BY <2>3, <3>1, Zenon
        <4> QED  BY <2>3, <2>4, <3>1, <4>1
      <3>2. CASE ~(last < Len(q) /\ q[last + 1] = 0)
        <4>1. question_end(q) = 0
          BY <2>3, <3>2, Zenon
        <4>2. last + 5 <= Len(q) => last < Len(q)
          BY <2>3, <2>4
        <4>3. 0 \notin 1..Len(q)
          BY <2>4
        <4> QED  BY <3>2, <4>1, <4>2, <4>3, Zenon
      <3> QED  BY <3>1, <3>2, Zenon
    <2>8. there => question_end(q) = last + 5
      <3>1. last + 5 <= Len(q) => last < Len(q)
        BY <2>3, <2>4
      <3> QED  BY <2>3, <3>1, Zenon
    <2>9. end \in 12..Len(q)
      BY <2>3, <2>4
    <2>10. reply = [i \in 1..end |-> at(i)]
      <3> DEFINE whole == question_end(q) \in 1..Len(q)
                 stop == IF whole THEN question_end(q) ELSE MIN_DNS_LEN
      <3>1. reply = IF ~whole /\ Len(q) < MIN_DNS_LEN THEN NoReply ELSE [i \in 1..stop |-> at(i)]
        BY Zenon DEF build_servfail
      <3>2. ~(Len(q) < MIN_DNS_LEN)
        BY <2>4 DEF MIN_DNS_LEN
      <3>3. stop = end
        BY <2>7, <2>8, Zenon DEF MIN_DNS_LEN
      <3> HIDE DEF reply, at, end, stop, whole
      <3> QED  BY <3>1, <3>2, <3>3, Zenon
    <2>11. /\ at(1) = q[1] /\ at(2) = q[2] /\ at(3) = q[3] + 128
           /\ at(4) >= 128 /\ at(4) % 16 = 2 /\ at(4) \in Nat
           /\ at(5) = 0 /\ at(6) = 1
      <3>1. at(3) = q[3] + 128
        BY <2>6
      <3>2. at(4) >= 128 /\ at(4) % 16 = 2 /\ at(4) \in Nat
        <4> DEFINE b == q[4]
        <4>1. b \in 0..255 /\ at(4) = ((b \div 16) % 8) * 16 + 128 + 2
          BY <2>6
        <4> HIDE DEF b
        <4> QED  BY <4>1
      <3> QED  BY <2>6, <3>1, <3>2
    <2>12. (\A i \in 7..12 : at(i) = 0) /\ \A i \in 13..end : at(i) = q[i]
      <3>1. ASSUME NEW i \in 7..12 PROVE at(i) = 0
        OBVIOUS
      <3>2. ASSUME NEW i \in 13..end PROVE at(i) = q[i]
        <4>1. i # 3 /\ i # 4 /\ i \notin 7..12
          <5> HIDE DEF end, q, at
          <5> QED  BY <2>9
        <4> HIDE DEF q, end
        <4> QED  BY <4>1, Zenon
      <3> QED  BY <3>1, <3>2, Zenon
    <2> HIDE DEF at, reply, end
    <2>13. reply \in Seq(Nat) /\ Len(reply) = end /\ \A i \in 1..end : reply[i] = at(i)
      <3>1. \A i \in 1..end : at(i) \in Nat
        <4> SUFFICES ASSUME NEW i \in 1..end PROVE at(i) \in Nat
          BY Zenon
        <4>1. i \in 1..Len(q)
          BY <2>4, <2>9
        <4>2. i = 1 \/ i = 2 \/ i = 3 \/ i = 4 \/ i = 5 \/ i = 6 \/ i \in 7..12 \/ i \in 13..end
          BY <2>9
        <4>3. q[1] \in 0..255 /\ q[2] \in 0..255 /\ q[i] \in 0..255
          <5>1. 1 \in 1..Len(q) /\ 2 \in 1..Len(q)
            BY <2>4
          <5> QED  BY <2>5, <4>1, <5>1, Zenon
        <4> QED  BY <2>6, <2>11, <2>12, <4>2, <4>3
      <3>2. end \in Nat
        BY <2>4, <2>9
      <3>3. reply \in [1..end -> Nat]
        BY <2>10, <3>1, Zenon
      <3>4. reply \in Seq(Nat) /\ Len(reply) = end
        BY <3>2, <3>3, IsSeq, Zenon
      <3> QED  BY <2>10, <3>4, Zenon
    <2>14. 1 \in 1..end /\ 2 \in 1..end /\ 3 \in 1..end /\ 4 \in 1..end /\ 5 \in 1..end /\ 6 \in 1..end
      BY <2>4, <2>9
    <2>15. SubSeq(reply, 1, 2) = SubSeq(q, 1, 2)
      <3>1. reply[1] = q[1] /\ reply[2] = q[2]
        BY <2>11, <2>13, <2>14, Zenon
      <3>2. Len(reply) >= 2 /\ Len(q) >= 2
        BY <2>4, <2>9, <2>13
      <3> QED  BY ONLY <2>5, <2>13, <3>1, <3>2, SMTT(30)
    <2>16. SubSeq(reply, 5, Len(reply)) = <<0, 1, 0, 0, 0, 0, 0, 0>> \o question
      <3> DEFINE left == SubSeq(reply, 5, Len(reply))
                 right == <<0, 1, 0, 0, 0, 0, 0, 0>> \o question
      <3>1. left \in Seq(Nat) /\ Len(left) = end - 4 /\ \A i \in 1..(end - 4) : left[i] = reply[i + 4]
        <4>1. 5 \in Nat \ {0} /\ end \in Nat /\ 5 <= end + 1 /\ end <= Len(reply) /\ end - 5 + 1 = end - 4
          BY <2>4, <2>9, <2>13
        <4>2. \A i \in 1..(end - 4) : i + 5 - 1 = i + 4
          OBVIOUS
        <4> DEFINE part == SubSeq(reply, 5, end)
        <4>3. /\ part \in Seq(Nat) /\ Len(part) = end - 5 + 1
              /\ \A i \in 1..(end - 5 + 1) : part[i] = reply[i + 5 - 1]
          BY ONLY <2>13, <4>1, PartOf
        <4>4. left = part
          BY <2>13, Zenon
        <4> HIDE DEF left, part
        <4> QED  BY <4>1, <4>2, <4>3, <4>4, Zenon
      <3>2. question \in Seq(Nat) /\ Len(question) = end - 12 /\ \A i \in 1..(end - 12) : question[i] = q[i + 12]
        <4>1. CASE there
          <5>1. question = SubSeq(q, 13, end) /\ end >= 13
            BY <2>2, <2>3, <4>1 DEF end
          <5>2. 13 \in Nat \ {0} /\ end \in Nat /\ 13 <= end + 1 /\ end <= Len(q) /\ end - 13 + 1 = end - 12
            BY <2>4, <2>9, <5>1
          <5>3. \A i \in 1..(end - 12) : i + 13 - 1 = i + 12
            OBVIOUS
          <5> DEFINE part == SubSeq(q, 13, end)
          <5>4. /\ part \in Seq(Nat) /\ Len(part) = end - 13 + 1
                /\ \A i \in 1..(end - 13 + 1) : part[i] = q[i + 13 - 1]
            BY ONLY <2>5, <5>2, PartOf
          <5>5. question = part
            BY <5>1, Zenon
          <5> HIDE DEF part
          <5> QED  BY <5>2, <5>3, <5>4, <5>5, Zenon
        <4>2. CASE ~there
          <5>1. question = <<>> /\ end = 12
            BY <2>2, <4>2, Zenon DEF end
          <5> HIDE DEF there
          <5> QED  BY <5>1
        <4> QED  BY <4>1, <4>2, Zenon
      <3>3. /\ right \in Seq(Nat) /\ Len(right) = 8 + Len(question)
            /\ right[1] = 0 /\ right[2] = 1 /\ \A i \in 3..8 : right[i] = 0
            /\ \A i \in 9..(8 + Len(question)) : right[i] = question[i - 8]
        BY <3>2, BehindCounts, Zenon
      <3> HIDE DEF left, right, there
      <3>4. ASSUME NEW i \in 1..(end - 4) PROVE left[i] = right[i]
        <4>1. left[i] = at(i + 4)
          <5>1. i + 4 \in 1..end
            BY <2>4, <2>9
          <5> QED  BY <2>13, <3>1, <5>1, Zenon
        <4>2. CASE i = 1 \/ i = 2
          <5>1. 1 + 4 = 5 /\ 2 + 4 = 6
            OBVIOUS
          <5>2. left[i] = IF i = 1 THEN at(5) ELSE at(6)
            BY <4>1, <4>2, <5>1, Zenon
          <5>3. right[i] = IF i = 1 THEN 0 ELSE 1
            BY <3>3, <4>2, Zenon
          <5> QED  BY <2>11, <5>2, <5>3, Zenon
        <4>3. CASE i \in 3..8
          <5>1. i + 4 \in 7..12
            BY <4>3
          <5> QED  BY <2>12, <3>3, <4>1, <4>3, <5>1, Zenon
        <4>4. CASE i \in 9..(end - 4)
          <5>1. i + 4 \in 13..end /\ i \in 9..(8 + (end - 12)) /\ i - 8 \in 1..(end - 12) /\ (i - 8) + 12 = i + 4
            BY <2>4, <2>9, <4>4
          <5>2. left[i] = q[i + 4]
            BY <2>12, <4>1, <5>1, Zenon
          <5>3. right[i] = question[i - 8]
            BY <3>2, <3>3, <5>1, Zenon
          <5>4. question[i - 8] = q[(i - 8) + 12]
            BY <3>2, <5>1, Zenon
          <5> QED  BY <5>1, <5>2, <5>3, <5>4, Zenon
        <4> QED  BY <2>4, <2>9, <4>2, <4>3, <4>4
      <3>5. Len(left) = Len(right)
        BY <2>4, <2>9, <3>1, <3>2, <3>3
      <3>6. left = right
        BY <3>1, <3>3, <3>4, <3>5, SameList, Zenon
      <3> QED  BY <3>6, Zenon DEF left, right
    <2> QED
      BY <2>11, <2>13, <2>14, <2>15, <2>16, Zenon
  <1> QED
    BY <1>1, InputStays, PTL
-----------------------------------------------------------------------------
(* Orders. *)

\* How many elements of S come before x in the order R, a set of pairs.
RankIn(S, R, x) == Cardinality({y \in S : <<y, x>> \in R})

\* R orders S strictly, and any two elements.
Orders(R, S) ==
  /\ \A x \in S : <<x, x>> \notin R
  /\ \A x, y, z \in S : <<x, y>> \in R /\ <<y, z>> \in R => <<x, z>> \in R
  /\ \A x, y \in S : x # y => <<x, y>> \in R \/ <<y, x>> \in R

\* Ranks are in that order, and there is one element for each.
LEMMA Ranked ==
  ASSUME NEW S, IsFiniteSet(S), NEW R, Orders(R, S)
  PROVE  /\ Cardinality(S) \in Nat
         /\ \A x \in S : RankIn(S, R, x) \in 0..(Cardinality(S) - 1)
         /\ \A x, y \in S : <<x, y>> \in R => RankIn(S, R, x) < RankIn(S, R, y)
         /\ \A x, y \in S : x # y => RankIn(S, R, x) # RankIn(S, R, y)
         /\ \A r \in 1..Cardinality(S) : \E x \in S : RankIn(S, R, x) = r - 1
  <1> DEFINE n == Cardinality(S)
             ahead(x) == {y \in S : <<y, x>> \in R}
             rank(x) == RankIn(S, R, x)
             f == [x \in S |-> rank(x)]
  <1>1. n \in Nat
    BY FS_CardinalityType
  <1> HIDE DEF n
  <1>2. IsFiniteSet(0..(n - 1)) /\ Cardinality(0..(n - 1)) = n
    BY <1>1, FS_Interval
  <1>3. \A x \in S : ahead(x) \in SUBSET S /\ rank(x) = Cardinality(ahead(x))
    BY DEF RankIn
  <1>4. ASSUME NEW x \in S PROVE IsFiniteSet(ahead(x)) /\ rank(x) \in Nat
    <2> HIDE DEF ahead
    <2>1. IsFiniteSet(ahead(x))
      BY <1>3, FS_Subset, Zenon
    <2> QED  BY <1>3, <2>1, FS_CardinalityType, Zenon
  <1>5. ASSUME NEW x \in S, NEW y \in S, <<x, y>> \in R
        PROVE  rank(x) < rank(y)
    <2>1. ahead(x) \in SUBSET ahead(y)
      BY <1>5, Zenon DEF Orders
    <2>2. x \in ahead(y) /\ x \notin ahead(x)
      BY <1>5, Zenon DEF Orders
    <2> HIDE DEF ahead, rank
    <2>3. rank(x) <= rank(y) /\ rank(x) # rank(y)
      BY <1>3, <1>4, <2>1, <2>2, FS_Subset
    <2> QED  BY <1>4, <2>3
  <1>6. \A x, y \in S : x # y => rank(x) # rank(y)
    <2>1. \A x, y \in S : <<x, y>> \in R => rank(x) # rank(y)
      <3> SUFFICES ASSUME NEW x \in S, NEW y \in S, <<x, y>> \in R PROVE rank(x) # rank(y)
        OBVIOUS
      <3>1. rank(x) \in Nat /\ rank(y) \in Nat /\ rank(x) < rank(y)
        BY <1>4, <1>5, Zenon
      <3> HIDE DEF rank
      <3> QED  BY <3>1
    <2> HIDE DEF rank
    <2> QED  BY <2>1, Zenon DEF Orders
  <1>7. ASSUME NEW x \in S PROVE rank(x) \in 0..(n - 1)
    <2>1. x \notin ahead(x)
      BY Zenon DEF Orders
    <2> HIDE DEF ahead, rank
    <2>2. rank(x) <= n /\ rank(x) # n
      BY <1>3, <2>1, FS_Subset DEF n
    <2> QED  BY <1>1, <1>4, <2>2
  <1> HIDE DEF rank
  <1>8. f \in Injection(S, 0..(n - 1))
    BY <1>6, <1>7, Zenon DEF Injection, IsInjective
  <1>9. f \in Surjection(S, 0..(n - 1))
    BY <1>2, <1>8, FS_Injection, Zenon DEF n
  <1>10. ASSUME NEW r \in 1..n PROVE \E x \in S : rank(x) = r - 1
    <2>1. r - 1 \in 0..(n - 1)
      BY <1>1
    <2>2. \E x \in S : f[x] = r - 1
      BY <1>9, <2>1, Zenon DEF Surjection
    <2> QED  BY <2>2
  <1> QED
    BY <1>1, <1>5, <1>6, <1>7, <1>10 DEF rank, n
-----------------------------------------------------------------------------
(* The CPUs of the workers.  The positions of a list without repetitions:   *)

Distinct(s) == \A q, r \in 1..Len(s) : q # r => s[q] # s[r]

\* A set of CPUs, in ascending order.
LEMMA AscendingDistinct ==
  ASSUME NEW S \in SUBSET Nat, IsFiniteSet(S)
  PROVE  /\ Ascending(S) \in Seq(Nat) /\ Len(Ascending(S)) = Cardinality(S)
         /\ Distinct(Ascending(S))
         /\ S # {} => Ascending(S) # <<>>
         /\ \A r \in 1..Len(Ascending(S)) : Ascending(S)[r] \in S
  <1> DEFINE n == Cardinality(S)
             R == {p \in S \X S : p[1] < p[2]}
             rank(x) == Cardinality({y \in S : y < x})
             s == [r \in 1..n |-> CHOOSE x \in S : rank(x) = r - 1]
  <1>1. Ascending(S) = s
    BY Zenon DEF Ascending, Sorted
  <1>2. \A x, y \in S : <<x, y>> \in R <=> x < y
    BY Zenon
  <1>3. Orders(R, S)
    <2>1. /\ \A x \in S : ~(x < x)
          /\ \A x, y, z \in S : x < y /\ y < z => x < z
          /\ \A x, y \in S : x # y => x < y \/ y < x
      OBVIOUS
    <2> HIDE DEF R
    <2> QED  BY <1>2, <2>1, Zenon DEF Orders
  <1> HIDE DEF R
  <1>4. \A x \in S : RankIn(S, R, x) = rank(x)
    <2> SUFFICES ASSUME NEW x \in S PROVE RankIn(S, R, x) = rank(x)
      OBVIOUS
    <2>1. {y \in S : <<y, x>> \in R} = {y \in S : y < x}
      BY <1>2, Zenon
    <2> QED  BY <2>1, Zenon DEF RankIn
  <1> HIDE DEF rank
  <1>5. n \in Nat /\ \A r \in 1..n : \E x \in S : rank(x) = r - 1
    <2>1. n \in Nat /\ \A r \in 1..n : \E x \in S : RankIn(S, R, x) = r - 1
      BY <1>3, Ranked, Zenon
    <2> QED  BY <1>4, <2>1, Zenon
  <1> HIDE DEF n
  <1>6. \A r \in 1..n : s[r] \in S /\ rank(s[r]) = r - 1
    BY <1>5, Zenon
  <1>7. s = [r \in 1..n |-> s[r]]
    OBVIOUS
  <1> HIDE DEF s
  <1>8. s \in Seq(Nat) /\ Len(s) = n
    BY <1>5, <1>6, <1>7
  <1>9. Distinct(s)
    <2> SUFFICES ASSUME NEW q \in 1..n, NEW r \in 1..n, s[q] = s[r] PROVE q = r
      BY <1>8, Zenon DEF Distinct
    <2>1. q - 1 = r - 1
      BY <1>6, Zenon
    <2> QED  BY <1>5, <2>1
  <1>10. S # {} => s # <<>>
    <2> SUFFICES ASSUME S # {} PROVE Len(s) # 0
      BY Zenon
    <2> QED  BY <1>8, FS_EmptySet, Zenon DEF n
  <1> QED
    BY <1>1, <1>6, <1>8, <1>9, <1>10, Zenon DEF n

\* The known cores, by package and core.
CoresBefore(c, d) == c[1] < d[1] \/ (c[1] = d[1] /\ c[2] < d[2])
LEMMA CoresDistinct ==
  ASSUME NEW C \in SUBSET (Nat \X Nat), IsFiniteSet(C), C # {}
  PROVE  LET order == Sorted(C, CoresBefore)
         IN /\ order = [r \in 1..Len(order) |-> order[r]]
            /\ Len(order) \in Nat \ {0} /\ Distinct(order)
            /\ \A r \in 1..Len(order) : order[r] \in C
  <1> DEFINE n == Cardinality(C)
             R == {p \in C \X C : CoresBefore(p[1], p[2])}
             rank(x) == Cardinality({y \in C : CoresBefore(y, x)})
             s == [r \in 1..n |-> CHOOSE x \in C : rank(x) = r - 1]
  <1>1. Sorted(C, CoresBefore) = s
    BY Zenon DEF Sorted
  <1>2. \A x, y \in C : <<x, y>> \in R <=> CoresBefore(x, y)
    BY Zenon
  <1>3. Orders(R, C)
    <2>1. \A x \in C : x = <<x[1], x[2]>> /\ x[1] \in Nat /\ x[2] \in Nat
      OBVIOUS
    <2>2. \A x \in C : ~CoresBefore(x, x)
      BY <2>1 DEF CoresBefore
    <2>3. \A x, y, z \in C : CoresBefore(x, y) /\ CoresBefore(y, z) => CoresBefore(x, z)
      BY <2>1 DEF CoresBefore
    <2>4. \A x, y \in C : x # y => CoresBefore(x, y) \/ CoresBefore(y, x)
      <3> SUFFICES ASSUME NEW x \in C, NEW y \in C, ~CoresBefore(x, y), ~CoresBefore(y, x)
                   PROVE  x = y
        OBVIOUS
      <3>1. x[1] = y[1] /\ x[2] = y[2]
        BY <2>1 DEF CoresBefore
      <3> QED  BY <2>1, <3>1, Zenon
    <2> HIDE DEF R
    <2> QED  BY <1>2, <2>2, <2>3, <2>4, Zenon DEF Orders
  <1> HIDE DEF R
  <1>4. \A x \in C : RankIn(C, R, x) = rank(x)
    <2> SUFFICES ASSUME NEW x \in C PROVE RankIn(C, R, x) = rank(x)
      BY Zenon
    <2>1. {y \in C : <<y, x>> \in R} = {y \in C : CoresBefore(y, x)}
      BY <1>2, Zenon
    <2> QED  BY <2>1, Zenon DEF RankIn
  <1> HIDE DEF rank
  <1>5. n \in Nat /\ \A r \in 1..n : \E x \in C : rank(x) = r - 1
    <2>1. n \in Nat /\ \A r \in 1..n : \E x \in C : RankIn(C, R, x) = r - 1
      BY <1>3, Ranked, Zenon
    <2> QED  BY <1>4, <2>1, Zenon
  <1>6. n # 0
    BY FS_EmptySet, Zenon
  <1> HIDE DEF n
  <1>7. \A r \in 1..n : s[r] \in C /\ rank(s[r]) = r - 1
    BY <1>5, Zenon
  <1>8. s = [r \in 1..n |-> s[r]]
    OBVIOUS
  <1> HIDE DEF s
  <1>9. Len(s) = n
    BY <1>5, <1>8
  <1>10. Distinct(s)
    <2> SUFFICES ASSUME NEW q \in 1..n, NEW r \in 1..n, s[q] = s[r] PROVE q = r
      BY <1>9, Zenon DEF Distinct
    <2>1. q - 1 = r - 1
      BY <1>7, Zenon
    <2> QED  BY <1>5, <2>1
  <1>11. n \in Nat \ {0}
    BY <1>5, <1>6
  <1> QED
    BY <1>1, <1>7, <1>8, <1>9, <1>10, <1>11, Zenon

\* What a function takes on a finite set is finite.
LEMMA ImageFinite ==
  ASSUME NEW S, IsFiniteSet(S), NEW f
  PROVE  IsFiniteSet({f[x] : x \in S})
  <1> DEFINE T == {f[x] : x \in S}
             g == [x \in S |-> f[x]]
  <1>1. g \in [S -> T] /\ \A t \in T : \E x \in S : g[x] = t
    BY Zenon
  <1> HIDE DEF g
  <1>2. g \in Surjection(S, T)
    BY <1>1, Zenon DEF Surjection
  <1> HIDE DEF T
  <1> QED
    BY <1>2, FS_Surjection, Zenon DEF T

\* The least of some numbers is one of them.
LEMMA MinIsLeast ==
  ASSUME NEW T \in SUBSET Nat, T # {}
  PROVE  Min(T) \in T /\ \A y \in T : Min(T) <= y
  <1>1. \E k \in T : \A y \in T : k <= y
    BY LeastNatural, Zenon
  <1> QED
    BY <1>1, Zenon DEF Min

\* The known core of a CPU.
CoreOf(entries, c) ==
  {<<e.pkg, e.core>> : e \in {f \in entries : f.cpu = c /\ f.pkg # Unread /\ f.core # Unread}}

\* The CPUs of the cores are there, and no two are the same or of one core.
LEMMA PhysicalOwn ==
  ASSUME NEW entries, IsFiniteSet(entries), \A e, f \in entries : e.cpu = f.cpu => e = f,
         \A e \in entries : /\ e.cpu \in Nat
                            /\ e.pkg \in Nat \cup {Unread} /\ e.core \in Nat \cup {Unread},
         NEW parallelism \in Nat \ {0}
  PROVE  LET pool == physical_cores(entries, parallelism)
         IN /\ pool \in Seq(Nat) /\ pool # <<>> /\ Distinct(pool)
            /\ \A q, r \in 1..Len(pool) :
                 q # r => CoreOf(entries, pool[q]) = {} \/ CoreOf(entries, pool[q]) # CoreOf(entries, pool[r])
  <1> DEFINE known == {e \in entries : e.pkg # Unread /\ e.core # Unread}
             coreOf(e) == <<e.pkg, e.core>>
             cores == {coreOf(e) : e \in known}
             cpus(c) == {e.cpu : e \in {f \in known : <<f.pkg, f.core>> = c}}
             order == Sorted(cores, CoresBefore)
             pool == physical_cores(entries, parallelism)
  <1>1. pool = IF cores # {} THEN [i \in 1..Len(order) |-> Min(cpus(order[i]))]
               ELSE IF entries # {} THEN Ascending({e.cpu : e \in entries})
               ELSE [i \in 1..parallelism |-> i - 1]
    BY Zenon DEF physical_cores, CoresBefore, Sorted
  <1>2. CASE cores # {}
    <2>1. IsFiniteSet(cores)
      <3>1. IsFiniteSet(known)
        BY FS_Subset
      <3> DEFINE h == [e \in known |-> coreOf(e)]
      <3>2. cores = {h[e] : e \in known}
        BY Zenon
      <3> HIDE DEF h, known, cores
      <3>3. IsFiniteSet({h[e] : e \in known})
        BY <3>1, ImageFinite, Zenon
      <3> QED  BY <3>2, <3>3, Zenon
    <2>2. cores \in SUBSET (Nat \X Nat)
      <3>1. \A e \in known : e.pkg \in Nat /\ e.core \in Nat
        BY Zenon
      <3> HIDE DEF known
      <3> QED  BY <3>1
    <2> HIDE DEF cores
    <2>3. /\ Len(order) \in Nat \ {0} /\ Distinct(order)
          /\ \A r \in 1..Len(order) : order[r] \in cores
      BY <1>2, <2>1, <2>2, CoresDistinct, Zenon
    <2> HIDE DEF order
    <2>4. pool = [i \in 1..Len(order) |-> Min(cpus(order[i]))]
      BY <1>1, <1>2, Zenon
    <2> HIDE DEF pool
    <2>5. ASSUME NEW i \in 1..Len(order)
          PROVE  \E e \in known : pool[i] = e.cpu /\ order[i] = coreOf(e)
      <3>1. cpus(order[i]) # {}
        <4>1. PICK e \in known : order[i] = coreOf(e)
          BY <2>3, Zenon DEF cores
        <4>2. e.cpu \in cpus(order[i])
          BY <4>1, Zenon
        <4> QED  BY <4>2, Zenon
      <3>2. cpus(order[i]) \in SUBSET Nat
        BY Zenon
      <3> HIDE DEF cpus
      <3>3. Min(cpus(order[i])) \in cpus(order[i])
        BY <3>1, <3>2, MinIsLeast, Zenon
      <3>4. pool[i] \in cpus(order[i])
        BY <2>4, <3>3, Zenon
      <3> QED  BY <3>4, Zenon DEF cpus
    <2>6. pool \in Seq(Nat) /\ Len(pool) = Len(order) /\ pool # <<>>
      <3>1. \A i \in 1..Len(order) : pool[i] \in Nat
        BY <2>5, Zenon
      <3>2. pool \in [1..Len(order) -> Nat]
        <4> HIDE DEF cpus
        <4> QED  BY <2>4, <3>1, Zenon
      <3>3. Len(order) \in Nat /\ Len(order) # 0
        BY <2>3
      <3>4. pool \in Seq(Nat)
        BY ONLY <3>2, <3>3, IsSeq, Zenon
      <3>5. Len(pool) = Len(order)
        BY ONLY <3>2, <3>3, IsSeq, Zenon
      <3> HIDE DEF known, cpus
      <3> QED  BY <3>3, <3>4, <3>5
    <2>7. ASSUME NEW i \in 1..Len(order) PROVE CoreOf(entries, pool[i]) = {order[i]}
      <3>1. PICK e \in known : pool[i] = e.cpu /\ order[i] = coreOf(e)
        BY <2>5, Zenon
      <3>2. {f \in entries : f.cpu = pool[i] /\ f.pkg # Unread /\ f.core # Unread} = {e}
        BY <3>1, Zenon
      <3>3. CoreOf(entries, pool[i]) = {<<f.pkg, f.core>> : f \in {e}}
        BY <3>2, Zenon DEF CoreOf
      <3> QED  BY <3>1, <3>3, Zenon
    <2>8. ASSUME NEW q \in 1..Len(order), NEW r \in 1..Len(order), q # r
          PROVE  CoreOf(entries, pool[q]) # CoreOf(entries, pool[r])
      <3>1. order[q] # order[r]
        BY <2>3, <2>8, Zenon DEF Distinct
      <3> QED  BY <2>7, <3>1, Zenon
    <2>9. Distinct(pool)
      BY <2>6, <2>8, Zenon DEF Distinct
    <2> QED  BY <2>6, <2>8, <2>9, Zenon DEF pool
  <1>3. CASE cores = {}
    <2>1. known = {}
      <3> SUFFICES ASSUME NEW e \in known PROVE FALSE
        BY Zenon
      <3>1. coreOf(e) \in cores
        BY Zenon
      <3> QED  BY <1>3, <3>1, Zenon
    <2>2. \A c : CoreOf(entries, c) = {}
      BY <2>1, Zenon DEF CoreOf
    <2> HIDE DEF cores, known
    <2>3. CASE entries # {}
      <3> DEFINE S == {e.cpu : e \in entries}
                 h == [e \in entries |-> e.cpu]
      <3>1. S \in SUBSET Nat /\ S # {}
        <4>1. PICK e \in entries : TRUE
          BY <2>3, Zenon
        <4>2. e.cpu \in S
          BY Zenon
        <4>3. \A c \in S : c \in Nat
          BY Zenon
        <4> QED  BY <4>2, <4>3, Zenon
      <3>2. S = {h[e] : e \in entries}
        BY Zenon
      <3>3. pool = Ascending(S)
        BY <1>1, <1>3, <2>3, Zenon
      <3> HIDE DEF S, h, pool
      <3>4. IsFiniteSet({h[e] : e \in entries})
        BY ImageFinite, Zenon
      <3>5. pool \in Seq(Nat) /\ pool # <<>> /\ Distinct(pool)
        <4>1. IsFiniteSet(S)
          BY <3>2, <3>4, Zenon
        <4> QED  BY <3>1, <3>3, <4>1, AscendingDistinct, Zenon
      <3> QED  BY <2>2, <3>5, Zenon DEF pool
    <2>4. CASE entries = {}
      <3>1. pool = [i \in 1..parallelism |-> i - 1]
        BY <1>1, <1>3, <2>4, Zenon
      <3> HIDE DEF pool
      <3>2. pool \in Seq(Nat) /\ pool # <<>> /\ Len(pool) = parallelism
        BY <3>1
      <3>3. Distinct(pool)
        BY <3>1, <3>2 DEF Distinct
      <3> QED  BY <2>2, <3>2, <3>3, Zenon DEF pool
    <2> QED  BY <2>3, <2>4, Zenon
  <1> QED
    BY <1>2, <1>3, Zenon


\* The CPUs of a mask are numbers.
LEMMA MaskCpus ==
  ASSUME NEW groups \in Masks
  PROVE  parse_cpumask(groups) \in Seq(Nat)
  <1> DEFINE H == {h \in 1..Len(groups) : groups[h] # Unread}
             S == UNION {{32 * (Len(groups) - g) + bit : bit \in groups[g]} : g \in H}
             U == (SUBSET (0..31)) \cup {Unread}
  <1>1. Len(groups) \in Nat /\ \A g \in H : groups[g] \in SUBSET (0..31)
    <2>1. groups \in Seq(U)
      BY Zenon DEF Masks
    <2> HIDE DEF U
    <2>2. Len(groups) \in Nat /\ \A g \in 1..Len(groups) : groups[g] \in U
      BY ONLY <2>1
    <2>3. ASSUME NEW g \in H PROVE groups[g] \in SUBSET (0..31)
      <3>1. groups[g] \in U /\ groups[g] # Unread
        BY <2>2, Zenon
      <3> HIDE DEF H
      <3> QED  BY ONLY <3>1, Zenon DEF U
    <2> QED  BY <2>2, <2>3, Zenon
  <1>2. ASSUME NEW c \in S PROVE c \in Nat /\ c <= 32 * Len(groups)
    <2>1. PICK g \in H : c \in {32 * (Len(groups) - g) + bit : bit \in groups[g]}
      BY Zenon
    <2>2. PICK bit \in groups[g] : c = 32 * (Len(groups) - g) + bit
      BY <2>1, Zenon
    <2>3. g \in 1..Len(groups) /\ bit \in 0..31
      BY <1>1, <2>2, Zenon
    <2> HIDE DEF H, S
    <2> QED  BY ONLY <1>1, <2>2, <2>3, SMTT(30)
  <1> HIDE DEF S
  <1>3. S \in SUBSET Nat /\ 32 * Len(groups) \in Nat
    BY <1>1, <1>2
  <1>4. IsFiniteSet(S)
    BY <1>2, <1>3, FS_BoundedSetOfNaturals, Zenon
  <1>5. Ascending(S) \in Seq(Nat)
    BY <1>3, <1>4, AscendingDistinct, Zenon
  <1> QED
    BY <1>5, Zenon DEF parse_cpumask, S

\* Merging lists of CPUs leaves every CPU once.
LEMMA MergedDistinct ==
  ASSUME NEW lists, Len(lists) \in Nat, \A i \in 1..Len(lists) : lists[i] \in Seq(Nat)
  PROVE  Merged(lists) \in Seq(Nat) /\ Distinct(Merged(lists))
  <1> DEFINE I == 1..Len(lists)
             g == [i \in I |-> Range(lists[i])]
             F == {g[i] : i \in I}
             S == UNION {Range(lists[i]) : i \in I}
  <1>1. F = {Range(lists[i]) : i \in I}
    BY Zenon
  <1>2. IsFiniteSet(F)
    <2>1. IsFiniteSet(I)
      BY FS_Interval
    <2> HIDE DEF I, g
    <2> QED  BY <2>1, ImageFinite, Zenon
  <1>3. ASSUME NEW i \in I PROVE Range(lists[i]) \in SUBSET Nat /\ IsFiniteSet(Range(lists[i]))
    <2> DEFINE s == lists[i]
    <2>1. DOMAIN s = 1..Len(s) /\ Len(s) \in Nat /\ \A j \in 1..Len(s) : s[j] \in Nat
      OBVIOUS
    <2> HIDE DEF s
    <2>2. Range(s) = {s[j] : j \in 1..Len(s)}
      BY <2>1, Zenon DEF Range
    <2>3. IsFiniteSet(1..Len(s))
      BY <2>1, FS_Interval
    <2>4. IsFiniteSet({s[j] : j \in 1..Len(s)})
      BY <2>3, ImageFinite, Zenon
    <2>5. Range(s) \in SUBSET Nat
      BY <2>1, <2>2, Zenon
    <2> QED  BY <2>2, <2>4, <2>5, Zenon DEF s
  <1>4. S \in SUBSET Nat
    BY <1>3, Zenon
  <1>5. \A T \in F : IsFiniteSet(T)
    BY <1>3, Zenon
  <1> HIDE DEF F
  <1>6. IsFiniteSet(UNION F)
    BY <1>2, <1>5, FS_UNION, Zenon
  <1>7. IsFiniteSet(S)
    BY <1>1, <1>6, Zenon
  <1> HIDE DEF S
  <1>8. Ascending(S) \in Seq(Nat) /\ Distinct(Ascending(S))
    BY <1>4, <1>7, AscendingDistinct, Zenon
  <1> QED
    BY <1>8, Zenon DEF Merged, S, I

\* The CPUs of the transmit queues of an interface.
LEMMA QueueCpus ==
  ASSUME NEW masks \in Seq(Masks)
  PROVE  xps_cpus_of(masks) \in Seq(Nat)
  <1> DEFINE lists == [i \in 1..Len(masks) |-> parse_cpumask(masks[i])]
  <1>1. Len(masks) \in Nat /\ \A i \in 1..Len(masks) : masks[i] \in Masks
    OBVIOUS
  <1>2. \A i \in 1..Len(masks) : lists[i] \in Seq(Nat)
    BY <1>1, MaskCpus, Zenon
  <1>3. Len(lists) = Len(masks)
    BY <1>1
  <1>4. Len(lists) \in Nat /\ \A i \in 1..Len(lists) : lists[i] \in Seq(Nat)
    BY <1>1, <1>2, <1>3, Zenon
  <1> HIDE DEF lists
  <1>5. Merged(lists) \in Seq(Nat)
    BY <1>4, MergedDistinct, Zenon
  <1> QED
    BY <1>5, Zenon DEF xps_cpus_of, lists


\* The CPUs of --xps-cpus: those of the named interfaces, or of the one of the
\* default route.
LEMMA XpsDistinct ==
  ASSUME NEW x, IsHost(x)
  PROVE  LET pool == xps_worker_cpus(x.cli.ifaces, x.routes, x.queues)
         IN pool \in Seq(Nat) /\ Distinct(pool)
  <1> DEFINE D == DOMAIN x.queues
             ifaces == x.cli.ifaces
             routes == x.routes
             queues == x.queues
             route == default_route_iface(routes)
             chosen == IF ifaces # <<>> THEN ifaces ELSE IF route = Unread THEN <<>> ELSE <<route>>
             lists == [i \in 1..Len(chosen) |-> xps_cpus_of(queues[chosen[i]])]
  <1>1. /\ ifaces \in Seq(D) /\ Len(routes) \in Nat
        /\ \A i \in 1..Len(routes) : Len(routes[i]) \in Nat /\ (Len(routes[i]) >= 2 => routes[i][1] \in D)
        /\ \A d \in D : queues[d] \in Seq(Masks)
    BY Zenon DEF IsHost
  <1>2. xps_worker_cpus(ifaces, routes, queues) = Merged(lists)
    BY Zenon DEF xps_worker_cpus
  <1> HIDE DEF D, ifaces, routes, queues
  <1>3. route \in D \cup {Unread}
    <2> DEFINE stops == {i \in 1..Len(routes) : Len(routes[i]) < 2 \/ (Len(routes[i]) > 2 /\ routes[i][3] = 0)}
               line == routes[Min(stops)]
    <2>1. route = IF stops = {} \/ Len(line) < 2 THEN Unread ELSE line[1]
      BY Zenon DEF default_route_iface
    <2>2. CASE stops = {}
      BY <2>1, <2>2, Zenon
    <2>3. CASE stops # {}
      <3>1. stops \in SUBSET Nat
        BY <1>1
      <3>2. \A i \in stops : i \in 1..Len(routes)
        BY Zenon
      <3> HIDE DEF stops
      <3>3. Min(stops) \in 1..Len(routes)
        BY <2>3, <3>1, <3>2, MinIsLeast, Zenon
      <3> HIDE DEF route
      <3>4. Len(line) \in Nat /\ (Len(line) >= 2 => line[1] \in D)
        BY <1>1, <3>3, Zenon
      <3> HIDE DEF line
      <3>5. Len(line) < 2 \/ Len(line) >= 2
        BY <3>4
      <3> QED  BY <2>1, <3>4, <3>5, Zenon
    <2> QED  BY <2>2, <2>3, Zenon
  <1> HIDE DEF route
  <1>4. Len(chosen) \in Nat /\ \A i \in 1..Len(chosen) : chosen[i] \in D
    <2>1. CASE ifaces # <<>>
      <3>1. chosen = ifaces
        BY <2>1, Zenon
      <3> HIDE DEF chosen
      <3> QED  BY <1>1, <3>1
    <2>2. CASE ifaces = <<>> /\ route = Unread
      <3>1. chosen = <<>>
        BY <2>2, Zenon
      <3> HIDE DEF chosen
      <3> QED  BY <3>1
    <2>3. CASE ifaces = <<>> /\ route # Unread
      <3>1. chosen = <<route>> /\ route \in D
        BY <1>3, <2>3, Zenon
      <3> HIDE DEF chosen
      <3> QED  BY <3>1
    <2> QED  BY <2>1, <2>2, <2>3, Zenon
  <1> HIDE DEF chosen
  <1>5. \A i \in 1..Len(chosen) : lists[i] \in Seq(Nat)
    BY <1>1, <1>4, QueueCpus, Zenon
  <1>6. Len(lists) = Len(chosen)
    BY <1>4
  <1> HIDE DEF lists
  <1>7. Len(lists) \in Nat /\ \A i \in 1..Len(lists) : lists[i] \in Seq(Nat)
    BY <1>4, <1>5, <1>6, Zenon
  <1>8. Merged(lists) \in Seq(Nat) /\ Distinct(Merged(lists))
    BY <1>7, MergedDistinct, Zenon
  <1> QED
    BY <1>2, <1>8, Zenon DEF ifaces, routes, queues

\* There are no more workers than CPUs, and at least one.
LEMMA FirstCpus ==
  ASSUME NEW pool \in Seq(Nat), pool # <<>>, NEW workers \in Nat
  PROVE  LET n == IF workers = 0 THEN Len(pool) ELSE Min({workers, Len(pool)})
             plan == SubSeq(pool, 1, Max({n, 1}))
         IN /\ plan # <<>> /\ Len(plan) \in 1..Len(pool)
            /\ \A i \in 1..Len(plan) : plan[i] = pool[i]
  <1> DEFINE n == IF workers = 0 THEN Len(pool) ELSE Min({workers, Len(pool)})
             m == Max({n, 1})
  <1>1. Len(pool) \in Nat \ {0}
    OBVIOUS
  <1>2. n \in 1..Len(pool)
    <2>1. CASE workers = 0
      BY <1>1, <2>1
    <2>2. CASE workers # 0
      <3> DEFINE T == {workers, Len(pool)}
      <3>1. T \in SUBSET Nat /\ T # {} /\ Len(pool) \in T
        BY <1>1
      <3>2. Min(T) \in T /\ \A y \in T : Min(T) <= y
        BY <3>1, MinIsLeast, Zenon
      <3>3. (Min(T) = workers \/ Min(T) = Len(pool)) /\ Min(T) <= Len(pool)
        BY <3>1, <3>2, Zenon
      <3>4. n = Min(T)
        BY <2>2, Zenon
      <3> HIDE DEF T, n
      <3> QED  BY <1>1, <2>2, <3>3, <3>4
    <2> QED  BY <2>1, <2>2, Zenon
  <1> HIDE DEF n
  <1>3. m \in 1..Len(pool)
    <2>1. \E k \in {n, 1} : \A y \in {n, 1} : k >= y
      <3> WITNESS n \in {n, 1}
      <3> QED  BY <1>1, <1>2
    <2>2. m \in {n, 1}
      BY <2>1, Zenon DEF Max
    <2> HIDE DEF m
    <2> QED  BY <1>1, <1>2, <2>2
  <1> HIDE DEF m
  <1>4. /\ Len(SubSeq(pool, 1, m)) = m
        /\ \A i \in 1..m : SubSeq(pool, 1, m)[i] = pool[i]
    BY <1>1, <1>3
  <1>5. SubSeq(pool, 1, m) # <<>>
    BY <1>1, <1>3, <1>4
  <1> QED
    BY <1>3, <1>4, <1>5, Zenon DEF m, n

\* Whatever the files of sysfs and procfs hold, there is a worker, and but for
\* a list of the command line no two workers are on one CPU nor, without
\* --xps-cpus, on one core (main.rs): main_loop, which knows a worker by its
\* CPU, never sees a CPU twice.
THEOREM OwnCpusHolds == PureSpec => []OwnCpus
  <1>1. ASSUME PureInit PROVE OwnCpus
    <2> DEFINE cli == input.cli
               entries == input.entries
               parallelism == input.parallelism
               xps == xps_worker_cpus(cli.ifaces, input.routes, input.queues)
               from_xps == IF cli.xps THEN xps ELSE <<>>
               cores == physical_cores(entries, parallelism)
               pool == IF from_xps = <<>> THEN cores ELSE from_xps
               n == IF cli.workers = 0 THEN Len(pool) ELSE Min({cli.workers, Len(pool)})
               first == SubSeq(pool, 1, Max({n, 1}))
               plan == WorkerCpus(cli, entries, parallelism, input.routes, input.queues)
               apart(i, j) == /\ plan[i] # plan[j]
                              /\ \/ cli.xps \/ CoreOf(entries, plan[i]) = {}
                                 \/ CoreOf(entries, plan[i]) # CoreOf(entries, plan[j])
    <2> SUFFICES ASSUME Given("host")
                 PROVE  /\ plan # <<>>
                        /\ cli.cpus = Unread => \A i, j \in 1..Len(plan) : i # j => apart(i, j)
      BY Zenon DEF OwnCpus, CoreOf
    <2>1. IsHost(input)
      BY <1>1, InputOf, Zenon
    <2>2. xps \in Seq(Nat) /\ Distinct(xps)
      BY <2>1, XpsDistinct, Zenon
    <2>3. /\ cores \in Seq(Nat) /\ cores # <<>> /\ Distinct(cores)
          /\ \A q, r \in 1..Len(cores) :
               q # r => CoreOf(entries, cores[q]) = {} \/ CoreOf(entries, cores[q]) # CoreOf(entries, cores[r])
      <3>1. IsFiniteSet(entries) /\ \A e, f \in entries : e.cpu = f.cpu => e = f
        BY <2>1, Zenon DEF IsHost
      <3>2. \A e \in entries : e.cpu \in Nat /\ e.pkg \in Nat \cup {Unread} /\ e.core \in Nat \cup {Unread}
        BY <2>1, Zenon DEF IsHost
      <3>3. parallelism \in Nat \ {0}
        BY <2>1, Zenon DEF IsHost
      <3> HIDE DEF entries, parallelism
      <3> QED  BY ONLY <3>1, <3>2, <3>3, PhysicalOwn, Zenon
    <2>4. cli.workers \in Nat /\ cli.xps \in BOOLEAN /\ (cli.cpus # Unread => cli.cpus # <<>>)
      BY <2>1, Zenon DEF IsHost
    <2>5. plan = IF cli.cpus # Unread THEN cli.cpus ELSE first
      BY Zenon DEF WorkerCpus
    <2> HIDE DEF xps, cores, plan
    <2>6. /\ pool \in Seq(Nat) /\ pool # <<>> /\ Distinct(pool)
          /\ ~cli.xps => pool = cores
      BY <2>2, <2>3, Zenon
    <2> HIDE DEF pool
    <2>7. /\ first # <<>> /\ Len(first) \in 1..Len(pool)
          /\ \A i \in 1..Len(first) : first[i] = pool[i]
      BY <2>4, <2>6, FirstCpus, Zenon
    <2> HIDE DEF first
    <2>8. CASE cli.cpus # Unread
      BY <2>4, <2>5, <2>8, Zenon
    <2>9. CASE cli.cpus = Unread
      <3>1. plan = first
        BY <2>5, <2>9, Zenon
      <3>2. ASSUME NEW i \in 1..Len(plan), NEW j \in 1..Len(plan), i # j PROVE apart(i, j)
        <4>1. i \in 1..Len(pool) /\ j \in 1..Len(pool)
          BY <2>6, <2>7, <3>1
        <4>2. plan[i] = pool[i] /\ plan[j] = pool[j]
          BY <2>7, <3>1, Zenon
        <4>3. plan[i] # plan[j]
          BY <2>6, <3>2, <4>1, <4>2, Zenon DEF Distinct
        <4>4. CASE ~cli.xps
          <5>1. /\ plan[i] = cores[i] /\ plan[j] = cores[j]
                /\ i \in 1..Len(cores) /\ j \in 1..Len(cores)
            BY <2>6, <4>1, <4>2, <4>4, Zenon
          <5>2. \/ CoreOf(entries, cores[i]) = {}
                \/ CoreOf(entries, cores[i]) # CoreOf(entries, cores[j])
            BY <2>3, <3>2, <5>1, Zenon
          <5>3. \/ CoreOf(entries, plan[i]) = {}
                \/ CoreOf(entries, plan[i]) # CoreOf(entries, plan[j])
            BY <5>1, <5>2, Zenon
          <5> QED  BY <4>3, <5>3, Zenon
        <4> QED  BY <4>3, <4>4, Zenon
      <3> QED  BY <2>7, <3>1, <3>2, Zenon
    <2> QED  BY <2>8, <2>9, Zenon
  <1> QED
    BY <1>1, InputStays, PTL
=============================================================================
