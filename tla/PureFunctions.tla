--------------------------- MODULE PureFunctions ---------------------------
(***************************************************************************)
(* The code without state of its own: one input of a function per          *)
(* behaviour, and what the function makes of it.  There are several kinds  *)
(* of inputs, told by `of`, and of each kind any set of them.              *)
(***************************************************************************)
EXTENDS DnsWire, Topology, Selection, MdnsAnswer

CONSTANT Inputs    \* Inputs[k]: the inputs of kind k

VARIABLE input
-----------------------------------------------------------------------------
(* The inputs. *)

\* A fleet of workers and the weights of the addresses.
IsSplit(x) == x.weights \in Seq(Nat) /\ x.fleet \in Nat \ {0}

\* A datagram and the question a reader finds in it, who follows the labels of
\* the name: `starts` are the positions in front of them, from the end of the
\* header to the first position that no label of 1 to 63 bytes is at.  There
\* is a question if the name ends there with an empty label and four more bytes
\* follow, type and class.
LabelAt(bytes, pos) == pos < Len(bytes) /\ bytes[pos + 1] \in 1..63
Follows(bytes, starts) ==
  /\ starts \in Seq(Nat) /\ starts # <<>> /\ starts[1] = 12
  /\ \A i \in 1..(Len(starts) - 1) :
       LabelAt(bytes, starts[i]) /\ starts[i + 1] = starts[i] + 1 + bytes[starts[i] + 1]
  /\ ~LabelAt(bytes, starts[Len(starts)])
QuestionAt(bytes, last) ==
  IF last + 5 <= Len(bytes) /\ bytes[last + 1] = 0 THEN SubSeq(bytes, 13, last + 5) ELSE <<>>
IsDatagram(x) ==
  /\ x.bytes \in Seq(0..255)
  /\ Follows(x.bytes, x.starts)
  /\ x.question = QuestionAt(x.bytes, x.starts[Len(x.starts)])

\* A host: a topology entry for every CPU, as far as sysfs tells; the lines of
\* the routing table; the masks of the transmit queues of every interface that
\* a line or the command line names; the command line.
Masks == Seq((SUBSET (0..31)) \cup {Unread})
IsHost(x) ==
  /\ IsFiniteSet(x.entries) /\ \A e, f \in x.entries : e.cpu = f.cpu => e = f
  /\ \A e \in x.entries : /\ e.cpu \in Nat
                          /\ e.pkg \in Nat \cup {Unread} /\ e.core \in Nat \cup {Unread}
  /\ x.parallelism \in Nat \ {0}
  /\ Len(x.routes) \in Nat
  /\ \A i \in 1..Len(x.routes) :
       Len(x.routes[i]) \in Nat /\ (Len(x.routes[i]) >= 2 => x.routes[i][1] \in DOMAIN x.queues)
  /\ \A d \in DOMAIN x.queues : x.queues[d] \in Seq(Masks)
  /\ x.cli.cpus # Unread => x.cli.cpus # <<>>
  /\ x.cli.ifaces \in Seq(DOMAIN x.queues) /\ x.cli.xps \in BOOLEAN /\ x.cli.workers \in Nat

\* An mDNS query to a host of the name `own` with the addresses `ips`.
IsMdns(x) ==
  /\ \A a \in x.ips : a.type \in {"A", "AAAA"} /\ a.scope \in {"global", "link-local", "loopback"}
  /\ x.ttl \in Nat /\ x.legacy \in BOOLEAN
  /\ x.msg.Response \in BOOLEAN /\ x.msg.Truncated \in BOOLEAN
  /\ \A q \in x.msg.Question : q.qu \in BOOLEAN
  /\ \A k \in x.msg.Answer : k.ttl \in Nat

ASSUME InputsAssumption ==
  /\ legacyUnicastMaxTTL \in Nat
  /\ {"split", "datagram", "host", "mdns"} \subseteq DOMAIN Inputs
  /\ \A k \in DOMAIN Inputs : \A x \in Inputs[k] : x.of = k
  /\ \A x \in Inputs["split"] : IsSplit(x)
  /\ \A x \in Inputs["datagram"] : IsDatagram(x)
  /\ \A x \in Inputs["host"] : IsHost(x)
  /\ \A x \in Inputs["mdns"] : IsMdns(x)

PureInit == \E k \in DOMAIN Inputs : input \in Inputs[k]
PureSpec == PureInit /\ [][UNCHANGED input]_input

Given(of) == input.of = of
-----------------------------------------------------------------------------
(* What a reader of base64url makes of a text. *)

Sextet(c) == CASE c \in 65..90 -> c - 65
               [] c \in 97..122 -> c - 71
               [] c \in 48..57 -> c + 4
               [] c = 45 -> 62
               [] c = 95 -> 63

\* Byte j are the upper, middle or lower eight of twelve bits.
Base64Decoded(text) ==
  [j \in 1..((3 * Len(text)) \div 4) |->
     LET a == (8 * (j - 1)) \div 6
     IN ((64 * Sextet(text[a + 1]) + Sextet(text[a + 2]))
           \div <<16, 4, 1>>[((j - 1) % 3) + 1]) % 256]
-----------------------------------------------------------------------------
(* What the functions make of them. *)

\* The SERVFAIL for any query the worker accepts answers that query: its ID,
\* opcode and question, QR, RA and RCODE 2 set, nothing in the other sections;
\* the header alone if the question is malformed.
ServfailEchoes ==
  Given("datagram") /\ validate_query(input.bytes) =>
    LET reply == build_servfail(input.bytes)
        q == input.bytes
    IN /\ SubSeq(reply, 1, 2) = SubSeq(q, 1, 2)
       /\ reply[3] = q[3] + 128
       /\ reply[4] >= 128 /\ reply[4] % 16 = 2
       /\ SubSeq(reply, 5, Len(reply)) = <<0, 1, 0, 0, 0, 0, 0, 0>> \o input.question

\* There is a worker, and but for a list of the command line no two workers are
\* on one CPU nor, without --xps-cpus, on one core: what main_loop needs, which
\* knows a worker by its CPU.
OwnCpus ==
  Given("host") =>
    LET plan == WorkerCpus(input.cli, input.entries, input.parallelism, input.routes, input.queues)
        core(c) == {<<e.pkg, e.core>> : e \in {f \in input.entries :
                                               f.cpu = c /\ f.pkg # Unread /\ f.core # Unread}}
    IN /\ plan # <<>>
       /\ input.cli.cpus = Unread =>
            \A i, j \in 1..Len(plan) : i # j =>
              /\ plan[i] # plan[j]
              /\ input.cli.xps \/ core(plan[i]) = {} \/ core(plan[i]) # core(plan[j])

\* slot_for makes the weights come true: every address gets its exact share of
\* the workers, rounded up or down (3:2:1 over six workers is 3/2/1), and one
\* without weight nobody.
ExactSplit ==
  Given("split") =>
    SplitsExactly([i \in 1..Len(input.weights) |-> [addr |-> i, weight |-> input.weights[i]]],
                  input.fleet)

\* Who asks a running mdns-publisher knows afterwards which addresses of the
\* asked type the host has, beside link-local ones, or which types there are if
\* it has none: from the answer, or because the query named the record with half
\* its TTL, rounded down, at least.  Nothing else is sent, none of it twice
\* known; unicast where asked for, and to a legacy querier short-lived and
\* without the cache-flush bit.
QuerierLearns ==
  Given("mdns") =>
    LET own == input.own
        zone == LET rs == recordsForIPs(own, input.ips, input.ttl)
                IN [records |-> rs, nsec |-> buildNSEC(own, rs, input.ttl)]
        sent == answerQuery(zone, input.msg, input.legacy)
        has == {<<a.type, a.ip>> : a \in {b \in input.ips : b.scope = "global"}}
        types == {h[1] : h \in has}
        named == {<<k.type, k.data>> : k \in {l \in input.msg.Answer :
                     l.name = own /\ l.class = "IN" /\ 2 * l.ttl + 1 >= input.ttl}}
        wanted(q) ==
          IF q.name # own \/ q.class \notin {"IN", "ANY"} THEN {}
          ELSE IF q.type = "ANY" \/ q.type \in types THEN {h \in has : q.type \in {"ANY", h[1]}}
          ELSE IF has # {} /\ q.class = "IN" THEN {<<"NSEC", types>>} ELSE {}
        due(Sel(_)) == IF input.msg.Response \/ input.msg.Truncated THEN {}
                       ELSE (UNION {wanted(q) : q \in {p \in input.msg.Question : Sel(p)}}) \ named
        data(rs) == {<<r.type, r.data>> : r \in rs}
    IN /\ data(sent.multicast) = due(LAMBDA q : ~input.legacy /\ ~q.qu)
       /\ data(sent.unicast) = due(LAMBDA q : input.legacy \/ q.qu)
       /\ \A r \in sent.multicast \cup sent.unicast :
            /\ r.name = own /\ r.class = "IN" /\ r.flush = ~input.legacy
            /\ r.ttl = IF input.legacy THEN LeastOf(input.ttl, legacyUnicastMaxTTL) ELSE input.ttl
=============================================================================
