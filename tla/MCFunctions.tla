---------------------------- MODULE MCFunctions ----------------------------
(***************************************************************************)
(* The code without state of its own, on small inputs.  A behaviour is a   *)
(* stream that arrives, or one input of a pure function.                   *)
(* What a server means by its bytes is given here by encoders written from *)
(* RFC 9114, RFC 9204 and RFC 7541, not from the decoders under check.     *)
(***************************************************************************)
EXTENDS DohRequest, PureFunctions

CONSTANTS MaxWeight,   \* bound: weights of an assignment
          MaxFleet     \* bound: workers
-----------------------------------------------------------------------------
(* What a server sends: parts, encoded and with their meaning. *)

Part(bytes, is, holds) == [bytes |-> bytes, is |-> is, holds |-> holds]
Section(lines) == <<1, 2 + Len(lines), 0, 0>> \o lines
Status(n, lines) == Part(Section(lines), "status", n)

\* ":status" and some statuses in Huffman code.
HStatus == <<184, 132, 141, 54, 163>>
H103 == <<8, 25>>
H200 == <<16, 1>>
H404 == <<104, 13, 127>>

\* A static row; a static name with a plain or Huffman-coded value; a literal
\* name, plain or Huffman coded; other lines before it, and behind it one that
\* is not looked at.
Statuses ==
  {Status(200, l) : l \in
     {<<217>>, <<95, 9, 3, 50, 48, 48>>, <<95, 9, 130>> \o H200,
      <<39, 0, 58, 115, 116, 97, 116, 117, 115, 3, 50, 48, 48>>,
      <<45>> \o HStatus \o <<130>> \o H200,
      <<208, 255, 20, 217>>, <<193, 88, 1, 120, 217>>, <<217, 128>>}}
    \cup {Status(103, <<216>>), Status(103, <<95, 10, 130>> \o H103), Status(421, <<255, 6>>),
          Status(404, <<95, 9, 131>> \o H404), Status(0, <<>>), Status(0, <<208>>)}

\* References to a dynamic table, rows past the end, strings and integers that
\* are cut off or too long, and Huffman strings with a wrong, a missing or too
\* much padding or with EOS in them.
Malformed ==
  {Part(Section(l), "malformed", None) : l \in
     {<<128, 217>>, <<64, 0>>, <<16>>, <<255, 36>>, <<255>>, <<95, 9, 5, 50>>, <<39, 9, 58>>,
      <<255, 128, 128, 128, 1>>, <<95, 9, 130, 16, 0>>, <<95, 9, 131>> \o H200 \o <<255>>,
      <<95, 9, 132, 255, 255, 255, 255>>}}
    \cup {Part(<<1, 0>>, "malformed", None), Part(<<1, 3, 1, 0, 217>>, "malformed", None)}

TwoBytes == Part(<<0, 2, 8, 9>>, "data", <<8, 9>>)
LongForm == Part(<<64, 0, 64, 1, 9>>, "data", <<9>>)
Reserved == Part(<<33, 0>>, "other", None)

\* One part of each kind, in any order; and every status and malformed section
\* before, behind and between others.
Basic == {Status(200, <<217>>), Status(103, <<216>>), Status(0, <<>>),
          Part(Section(<<128>>), "malformed", None), TwoBytes, LongForm, Reserved}
Exchanges ==
  UNION {[1..n -> Basic] : n \in 1..3}
    \cup UNION {{<<s, TwoBytes>>, <<TwoBytes, s>>, <<Status(200, <<217>>), s, LongForm>>} :
                  s \in Statuses \cup Malformed}

BytesOf(parts) == FlattenSeq([i \in 1..Len(parts) |-> parts[i].bytes])
Request(parts) ==
  [kind |-> "request", bytes |-> BytesOf(parts),
   parts |-> [i \in 1..Len(parts) |->
                [end |-> Len(BytesOf(SubSeq(parts, 1, i))), is |-> parts[i].is,
                 holds |-> parts[i].holds]]]

\* A type, then up to three control frames; or what the client itself sends.
Control == {<<7, 1, 0>>, <<4, 0>>, <<64, 7, 1, 0>>}
Unis ==
  {[kind |-> "uni", bytes |-> t \o FlattenSeq(f), parts |-> <<>>] :
     t \in {<<0>>, <<2>>, <<64, 0>>, <<64, 33>>}, f \in UNION {[1..n -> Control] : n \in 0..3}}
    \cup {[kind |-> "uni", bytes |-> client_preamble, parts |-> <<>>]}

AllStreams == {Request(e) : e \in Exchanges} \cup Unis
-----------------------------------------------------------------------------
(* Queries of a client.  opt is None or [size, flags, options], options the
   bytes of an OPT record's data. *)

Wire(m) ==
  m.id \o m.flags \o <<0, 1, 0, 0, 0, 0, 0, IF m.opt = None THEN 0 ELSE 1>>
    \o FlattenSeq([i \in 1..Len(m.labels) |-> <<Len(m.labels[i])>> \o m.labels[i]])
    \o <<0, 0, 28, 0, 1>>
    \o (IF m.opt = None THEN <<>>
        ELSE <<0, 0, 41>> \o m.opt.size \o m.opt.flags \o BE(Len(m.opt.options)) \o m.opt.options)

\* A name of n bytes: labels of at most 63.
Letters(n) == [i \in 1..n |-> 97 + (i % 26)]
Labels(n) == IF n <= 63 THEN <<Letters(n)>> ELSE <<Letters(63), Letters(n - 63)>>

Edns(options) == [size |-> <<4, 208>>, flags |-> <<0, 0, 128, 0>>, options |-> options]
ClientQuery(n, opt) ==
  [id |-> <<171, 205>>, flags |-> <<1, 32>>, labels |-> Labels(n), opt |-> opt]

\* URLs behind "https://" and what they mean: "u.x/q", "u:443/q?x", "[::]:8/q",
\* "[:1]" and "u:8".
Url(text, host, port, authority, path) ==
  [text |-> text, means |-> [host |-> host, port |-> port, authority |-> authority, path |-> path]]
Urls ==
  {Url(<<117, 46, 120, 47, 113>>, <<117, 46, 120>>, 443, <<117, 46, 120>>, <<47, 113>>),
   Url(<<117, 58, 52, 52, 51, 47, 113, 63, 120>>, <<117>>, 443, <<117>>, <<47, 113, 63, 120>>),
   Url(<<91, 58, 58, 93, 58, 56, 47, 113>>, <<58, 58>>, 8, <<91, 58, 58, 93, 58, 56>>, <<47, 113>>),
   Url(<<91, 58, 49, 93>>, <<58, 49>>, 443, <<91, 58, 49, 93>>, <<47>>),
   Url(<<117, 58, 56>>, <<117>>, 8, <<117, 58, 56>>, <<47>>)}

\* Lengths on both sides of what a padded message and a GET may have.
Queries ==
  {[of |-> "query", m |-> ClientQuery(n, opt), url |-> url, pad |-> pad, token |-> token] :
     n \in 1..4 \cup 15..48 \cup 86..106, opt \in {None, Edns(<<>>), Edns(<<0, 10, 0, 1, 7>>)},
     pad \in BOOLEAN, url \in Urls, token \in {None, <<116>>}}

\* Queries with any flags, cut off anywhere, with a pointer for a label or
\* without a question.  The labels a reader follows are those before the cut.
Datagrams ==
  LET question(n) == SubSeq(Wire(ClientQuery(n, None)), 13, Len(Wire(ClientQuery(n, None))))
      whole(n, opt, f) == Wire([ClientQuery(n, opt) EXCEPT !.flags = f])
      starts(n) == IF n <= 63 THEN <<12, 13 + n>> ELSE <<12, 76, 14 + n>>
      reached(n, k) == 1 + Cardinality({i \in 2..Len(starts(n)) : starts(n)[i - 1] < k})
      datagram(w, s, q) == [of |-> "datagram", bytes |-> w, starts |-> s, question |-> q]
      cut(n, w, k) == datagram(SubSeq(w, 1, k), SubSeq(starts(n), 1, reached(n, k)),
                               IF k < 12 + Len(question(n)) THEN <<>> ELSE question(n))
  IN UNION {UNION {
       {cut(n, whole(n, opt, f), k) : k \in 0..(Len(whole(n, opt, f)))}
         \cup {datagram([whole(n, opt, f) EXCEPT ![13] = 192], <<12>>, <<>>),
               datagram([whole(n, opt, f) EXCEPT ![6] = 0], starts(n), question(n))} :
           opt \in {None, Edns(<<>>)}, f \in {<<1, 32>>, <<41, 255>>, <<129, 0>>}} : n \in {1, 64}}

\* Two packages of two cores, a core of two threads; topology missing for some
\* CPUs or for all.  Interfaces share queue CPUs.
Entry(c, p, k) == [cpu |-> c, pkg |-> p, core |-> k]
Sysfs == {{}, {Entry(0, 0, 0), Entry(4, 0, 0), Entry(1, 0, 1), Entry(2, 1, 0), Entry(5, 1, 0)},
          {Entry(3, 1, 0), Entry(2, 0, 7), Entry(0, Unread, 0)},
          {Entry(1, Unread, Unread), Entry(0, 0, Unread)}}
QueueMasks == {<<>>, <<<<{0, 1}>>, <<{1, 2}>>>>, <<<<{3}, {}, {31}>>, <<Unread, {0, 31}>>>>}
Hosts ==
  {[of |-> "host", entries |-> e, parallelism |-> 2, routes |-> r,
    queues |-> [d \in {"eth", "tun"} |-> IF d = "eth" THEN m ELSE n],
    cli |-> [cpus |-> c, xps |-> x, ifaces |-> i, workers |-> w]] :
     e \in Sysfs, m \in QueueMasks, n \in QueueMasks, x \in BOOLEAN, w \in {0, 1, 3}, c \in {Unread, <<1, 1>>},
     r \in {<<>>, <<<<"eth", 7, 0>>>>, <<<<"tun", 0, 9>>, <<"eth", 7, 0>>>>, <<<<"tun">>>>},
     i \in {<<>>, <<"eth">>, <<"eth", "tun">>}}

\* Any weights for up to three addresses, any fleet size.
Splits == {[of |-> "split", weights |-> w, fleet |-> f] :
             w \in UNION {[1..n -> 0..MaxWeight] : n \in 1..3}, f \in 1..MaxFleet}

\* mDNS queries of one or two questions to a host with up to three addresses of
\* its own, from a peer that names records it knows with any TTL.
Own == "host"
Ip(ip, type, scope) == [ip |-> ip, type |-> type, scope |-> scope]
IpSets ==
  {{}, {Ip("fe80", "AAAA", "link-local"), Ip("lo", "A", "loopback")},
   {Ip("a", "A", "global"), Ip("fe80", "AAAA", "link-local"), Ip("b", "A", "global")},
   {Ip("lo", "A", "loopback"), Ip("a", "A", "global"), Ip("c", "AAAA", "global")}}
Asked(name, type, class, qu) == [name |-> name, type |-> type, class |-> class, qu |-> qu]
Questions == {Asked(Own, t, c, qu) : t \in {"A", "AAAA", "TXT", "ANY"}, c \in {"IN", "ANY"}, qu \in BOOLEAN}
               \cup {Asked("other", "A", "IN", FALSE), Asked(Own, "A", "CH", FALSE)}
Knowns(ttl) ==
  {{}} \cup {{RR(Own, "A", d, t)} : d \in {"a", "x"}, t \in 0..ttl}
    \cup {{RR("other", "A", "a", ttl), RR(Own, "A", "b", 0), RR(Own, "A", "b", ttl)},
          {[RR(Own, "AAAA", "c", ttl) EXCEPT !.flush = FALSE], [RR(Own, "A", "a", ttl) EXCEPT !.class = "CH"]},
          {RR(Own, "NSEC", {"A"}, ttl)}, {RR(Own, "NSEC", {"A", "AAAA"}, ttl \div 2)}}
Mdns ==
  {[of |-> "mdns", own |-> Own, ips |-> ips, ttl |-> ttl, legacy |-> legacy,
    msg |-> [Question |-> q, Answer |-> known, Response |-> odd = "response", Truncated |-> odd = "truncated"]] :
     ips \in IpSets, ttl \in {2, 5}, legacy \in BOOLEAN, known \in Knowns(5),
     odd \in {"no", "response", "truncated"},
     q \in {{p} : p \in Questions} \cup
           {{p, p2} : p \in Questions, p2 \in {Asked(Own, "A", "IN", FALSE), Asked(Own, "TXT", "IN", TRUE)}}}
-----------------------------------------------------------------------------
AllInputs == [query |-> Queries, datagram |-> Datagrams, host |-> Hosts, split |-> Splits, mdns |-> Mdns]
Idle == [kind |-> "uni", bytes |-> <<>>, parts |-> <<>>]

MCInit ==
  \/ Init /\ input = [of |-> "stream"]
  \/ /\ PureInit /\ stream = Idle /\ state = Fresh("uni")
     /\ pos = 0 /\ events = <<>> /\ ended = "no" /\ split = FALSE

MCNext == Given("stream") /\ Next /\ UNCHANGED input

MCSpec == MCInit /\ [][MCNext]_<<vars, input>>
-----------------------------------------------------------------------------
(* What a server reads in a request. *)

Frames(buf) ==
  LET all[i \in 1..(Len(buf) + 1)] ==
        LET f == next_frame(From(buf, i)) IN
        IF f = None THEN [frames |-> <<>>, rest |-> From(buf, i)]
        ELSE LET more == all[Len(buf) + 1 - Len(f.rest)]
             IN [frames |-> <<f>> \o more.frames, rest |-> more.rest]
  IN all[1]

Field(lines, name) ==
  LET at == {i \in 1..Len(lines) : lines[i].name = name}
  IN IF at = {} THEN None ELSE lines[CHOOSE i \in at : TRUE].value

\* The DNS message of a request to the path `base`.
Message(base, frames, lines) ==
  IF Field(lines, METHOD) = GET THEN Base64Decoded(From(Field(lines, PATH), Len(base) + 6))
  ELSE frames[2].payload

\* The header fields are those meant, and the message is query m.
Sees(m, cfg, frames, lines, seen) ==
  LET get == Field(lines, METHOD) = GET
      meant == IF get THEN [m EXCEPT !.id = <<0, 0>>] ELSE m
      opt == IF m.opt = None THEN [size |-> <<16, 0>>, flags |-> <<0, 0, 0, 0>>, options |-> <<>>]
             ELSE m.opt
      padding(k) == <<0, 12>> \o BE(k) \o Zeros(k)
      padded(k) == [meant EXCEPT !.opt = [opt EXCEPT !.options = @ \o padding(k)]]
  IN /\ Len(frames) = IF get THEN 1 ELSE 2
     /\ Field(lines, AUTHORITY) = cfg.authority
     /\ Field(lines, AUTHORIZATION) = IF cfg.token = None THEN None ELSE BEARER \o cfg.token
     /\ IsPrefix(cfg.path, Field(lines, PATH))
     /\ SubSeq(Restored(seen, Wire(m)), 1, 2) = m.id
     /\ \/ seen = Wire(meant) /\ (cfg.pad => Len(seen) + 15 >= PAD_BLOCK)
        \/ /\ cfg.pad /\ Len(seen) = PAD_BLOCK
           /\ \/ opt.options # <<>>
              \/ \E k \in 0..PAD_BLOCK : seen = Wire(padded(k))

SeesRequest(m, cfg, sent, lines) ==
  sent.rest = <<>> /\ Sees(m, cfg, sent.frames, lines, Message(cfg.path, sent.frames, lines))

\* A client's query reaches the server as it is but for the ID of a GET, which
\* is zero, and for an option that pads it to a whole block: in the client's
\* OPT record or in a new one that is counted.  Path and authority are those
\* the configured URL means, and the answer gets the client's ID.  Not so, with
\* padding, for an OPT that already has options: the code does not see it.
ServerSeesQuery ==
  Given("query") =>
    LET url == input.url.means
        cfg == [pad |-> input.pad, path |-> url.path, authority |-> url.authority,
                token |-> input.token]
        sent == Frames(RequestBytes(cfg, Wire(input.m)))
    IN /\ ParseUrl(input.url.text) = url
       /\ SeesRequest(input.m, cfg, sent, Lines(sent.frames[1].payload))
=============================================================================
