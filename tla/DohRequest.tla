----------------------------- MODULE DohRequest -----------------------------
(***************************************************************************)
(* How a query of a local client becomes an HTTP/3 request, and the        *)
(* upstream's URL the address of one (worker.rs dispatch_query, url.rs).   *)
(* cfg is [pad, path, authority, token].                                   *)
(***************************************************************************)
EXTENDS H3Stream, DnsWire, SequencesExt

CONSTANTS
  GET_MAX_DNS_LEN,   \* 1400: longer queries are posted
  PAD_BLOCK          \* 128

GET == <<71, 69, 84>>
POST == <<80, 79, 83, 84>>
DNS_PARAM == <<100, 110, 115, 61>>
-----------------------------------------------------------------------------
(* The request as it is written: qpack.rs encode_field_section, literal lines
   with literal names and nothing indexed, in the frames of h3.rs. *)

\* One string after its length.
Literal(bits, first, text) == write_prefix_int(bits, first, Len(text)) \o text

encode_field_section(fields) ==
  <<0, 0>> \o FlattenSeq([i \in 1..Len(fields) |->
                            Literal(3, 32, fields[i].name) \o Literal(7, 0, fields[i].value)])

\* A fixed text, by its length and a letter of its own.
Text(letter, n) == [i \in 1..n |-> letter]
METHOD == Text(77, 7)
SCHEME == Text(83, 7)
AUTHORITY == Text(65, 10)
PATH == Text(80, 5)
ACCEPT == Text(97, 6)
AUTHORIZATION == Text(122, 13)
HTTPS == Text(104, 5)
DNS_MESSAGE == Text(100, 23)
BEARER == Text(66, 7)

\* The body goes into a DATA frame of its own; None for a GET.
encode_request(method, authority, path, token, body) ==
  LET field(n, v) == <<[name |-> n, value |-> v]>>
      fields == field(METHOD, method) \o field(SCHEME, HTTPS) \o field(AUTHORITY, authority)
                  \o field(PATH, path) \o field(ACCEPT, DNS_MESSAGE)
                  \o (IF token = None THEN <<>> ELSE field(AUTHORIZATION, BEARER \o token))
  IN Frame(HEADERS, encode_field_section(fields))
       \o (IF body = None THEN <<>> ELSE Frame(DATA, body))
-----------------------------------------------------------------------------
UseGet(query) == Len(query) <= GET_MAX_DNS_LEN

\* The message that is sent: padded if so configured, its ID zero in a GET.
Prepared(cfg, query) ==
  LET padded == IF cfg.pad THEN pad_query(query, PAD_BLOCK) ELSE query
  IN IF UseGet(query) THEN [padded EXCEPT ![1] = 0, ![2] = 0] ELSE padded

\* In the path, behind what query string it has.
GetPath(path, message) ==
  path \o (IF Contains(path, 63) THEN <<38>> ELSE <<63>>) \o DNS_PARAM \o encode_into(message)

\* The bytes dispatch_query writes to the stream.
RequestBytes(cfg, query) ==
  LET message == Prepared(cfg, query)
  IN IF UseGet(query)
       THEN encode_request(GET, cfg.authority, GetPath(cfg.path, message), cfg.token, None)
       ELSE encode_request(POST, cfg.authority, cfg.path, cfg.token, message)

\* What the client is sent for a response: with its own ID.
Restored(body, query) ==
  IF Len(body) >= 2 THEN [body EXCEPT ![1] = query[1], ![2] = query[2]] ELSE body
-----------------------------------------------------------------------------
(* HttpsUrl::parse of the text behind "https://".  A text is a sequence of
   character codes. *)

COLON == 58
OPEN == 91
First(text, char) == SelectInSeq(text, LAMBDA c : c = char)

\* [host, port] of an authority in brackets, or Bad.
Bracketed(authority) ==
  LET end == First(authority, 93)
      tail == From(authority, end + 1)
      port == IF tail = <<>> THEN 443 ELSE IF tail[1] = COLON THEN ParseU16(Tail(tail)) ELSE Bad
  IN IF end = 0 \/ port = Bad THEN Bad
     ELSE [host |-> SubSeq(authority, 2, end - 1), port |-> port]

\* The same without brackets: what is behind the last colon is the port.
Plain(authority) ==
  LET at == SelectLastInSeq(authority, LAMBDA c : c = COLON)
      port == ParseU16(From(authority, at + 1))
  IN IF at = 0 THEN [host |-> authority, port |-> 443]
     ELSE IF port = Bad THEN Bad
     ELSE [host |-> SubSeq(authority, 1, at - 1), port |-> port]

Decimal(n) ==
  LET digits[m \in Nat] ==
        IF m < 10 THEN <<48 + m>> ELSE digits[m \div 10] \o <<48 + (m % 10)>>
  IN digits[n]

\* The :authority of a host and a port.
Authority(host, port) ==
  (IF Contains(host, COLON) THEN <<OPEN>> \o host \o <<93>> ELSE host)
    \o (IF port = 443 THEN <<>> ELSE <<COLON>> \o Decimal(port))

\* No userinfo, no fragment; everything from the first slash on is the path.
ParseUrl(rest) ==
  LET slash == First(rest, 47)
      authority == IF slash = 0 THEN rest ELSE SubSeq(rest, 1, slash - 1)
      path == IF slash = 0 THEN <<47>> ELSE From(rest, slash)
      where == IF authority[1] = OPEN THEN Bracketed(authority) ELSE Plain(authority)
  IN IF Contains(rest, 64) \/ Contains(rest, 35) \/ authority = <<>> THEN Bad
     ELSE IF where = Bad THEN Bad
     ELSE IF where.host = <<>> THEN Bad
     ELSE [host |-> where.host, port |-> where.port, path |-> path,
           authority |-> Authority(where.host, where.port)]
=============================================================================
