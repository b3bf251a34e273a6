------------------------------ MODULE DnsWire ------------------------------
(***************************************************************************)
(* The DNS messages microdoh3 looks into and makes (dns.rs), and base64url *)
(* (base64url.rs).  A message is a sequence of bytes, from 1.              *)
(***************************************************************************)
EXTENDS Integers, Sequences

CONSTANT NoReply

MIN_DNS_LEN == 12
EDNS0_OPT_PAD == 12
EDNS0_HEADER_LEN == 11
OPT == 41
UDP_PAYLOAD == 4096

\* The 16-bit number at position i, and the bytes of one, which wraps around.
U16(buf, i) == 256 * buf[i] + buf[i + 1]
BE(n) == <<(n \div 256) % 256, n % 256>>

\* Long enough, QR clear, one question.
validate_query(buf) == /\ Len(buf) >= MIN_DNS_LEN
                       /\ buf[3] < 128
                       /\ U16(buf, 5) = 1

\* Mutant: the type and class behind the name are forgotten.
EndOfName(buf) ==
  LET from[pos \in Nat] ==
        IF pos >= Len(buf) THEN 0
        ELSE IF buf[pos + 1] = 0 THEN pos + 1
        ELSE IF buf[pos + 1] >= 64 \/ pos + 1 + buf[pos + 1] > Len(buf) THEN 0
        ELSE from[pos + 1 + buf[pos + 1]]
  IN from[MIN_DNS_LEN]

\* How many bytes header and question take, 0 if the name is cut off or not of
\* plain labels.  The type and class may lie beyond the end.
question_end(buf) ==
  LET from[pos \in Nat] ==
        IF pos >= Len(buf) THEN 0
        ELSE IF buf[pos + 1] = 0 THEN pos + 1 + 4
        ELSE IF buf[pos + 1] >= 64 \/ pos + 1 + buf[pos + 1] > Len(buf) THEN 0
        ELSE from[pos + 1 + buf[pos + 1]]
  IN from[MIN_DNS_LEN]

\* Header and question, or the header alone, with QR, RA and RCODE 2 set; the
\* other counts are zero.
build_servfail(query) ==
  LET whole == question_end(query) \in 1..Len(query)
      end == IF whole THEN question_end(query) ELSE MIN_DNS_LEN
  IN IF ~whole /\ Len(query) < MIN_DNS_LEN THEN NoReply
     ELSE [i \in 1..end |->
             CASE i = 3 -> (query[3] % 128) + 128
               [] i = 4 -> ((query[4] \div 16) % 8) * 16 + 128 + 2
               [] i \in 7..12 -> 0
               [] OTHER -> query[i]]
-----------------------------------------------------------------------------
(* pad_query. *)

Zeros(n) == [i \in 1..n |-> 0]
PadOption(n) == BE(EDNS0_OPT_PAD) \o BE(n) \o Zeros(n)

\* The message ends in an OPT record without options, to look at.
HasEdns0(buf) ==
  LET at == Len(buf) - EDNS0_HEADER_LEN + 1
  IN Len(buf) >= EDNS0_HEADER_LEN + 4 /\ buf[at] = 0 /\ U16(buf, at + 1) = OPT

\* The option goes into that record: its length is the last number.
ExtendOpt(buf, n) ==
  SubSeq(buf, 1, Len(buf) - 2) \o BE(U16(buf, Len(buf) - 1) + 4 + n) \o PadOption(n)

\* Mutant: the new record is not counted.
UncountedOpt(buf, n) ==
  buf \o <<0>> \o BE(OPT) \o BE(UDP_PAYLOAD) \o Zeros(4) \o BE(4 + n) \o PadOption(n)

\* A record of its own for the option.
AddOpt(buf, n) ==
  SubSeq(buf, 1, 10) \o BE(U16(buf, 11) + 1) \o SubSeq(buf, 13, Len(buf))
    \o <<0>> \o BE(OPT) \o BE(UDP_PAYLOAD) \o Zeros(4) \o BE(4 + n) \o PadOption(n)

\* To exactly one block, if the message and the overhead are below it.
pad_query(buf, block_size) ==
  LET current == Len(buf) + (IF HasEdns0(buf) THEN 4 ELSE 11 + 4)
  IN IF current >= block_size THEN buf
     ELSE IF HasEdns0(buf) THEN ExtendOpt(buf, block_size - current)
     ELSE AddOpt(buf, block_size - current)
-----------------------------------------------------------------------------
(* base64url, without padding. *)

ALPHABET == [i \in 0..63 |-> CASE i < 26 -> 65 + i
                               [] i \in 26..51 -> 97 + i - 26
                               [] i \in 52..61 -> 48 + i - 52
                               [] i = 62 -> 45
                               [] i = 63 -> 95]

encoded_len(n) == (n \div 3) * 4 + <<0, 2, 3>>[(n % 3) + 1]

\* Three bytes as one number, and what its shifts by 18, 12, 6 and 0 divide by.
Word(a, b, c) == 65536 * a + 256 * b + c
SHIFTS == <<262144, 4096, 64, 1>>

\* Three bytes make four characters; a rest of one or two is filled with zeros
\* and cut off.
encode_into(input) ==
  LET byte(i) == IF i <= Len(input) THEN input[i] ELSE 0
      word(c) == Word(byte(3 * c + 1), byte(3 * c + 2), byte(3 * c + 3))
  IN [k \in 1..encoded_len(Len(input)) |->
        ALPHABET[(word((k - 1) \div 4) \div SHIFTS[((k - 1) % 4) + 1]) % 64]]
=============================================================================
