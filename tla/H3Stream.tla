------------------------------ MODULE H3Stream ------------------------------
(***************************************************************************)
(* One stream of an HTTP/3 connection as h3.rs parses it: a request stream *)
(* or a unidirectional stream of the server.  Its bytes arrive cut in any  *)
(* way; it ends with a FIN or a reset (worker.rs process_quic_events).     *)
(* Of the other direction there are the frames and the preamble.           *)
(***************************************************************************)
EXTENDS Qpack

CONSTANTS
  None,
  Streams        \* what the server may send: [kind, bytes, parts]; a part is
                 \* [end, is, holds], what the bytes up to `end` mean to it

Byte == 0..255

DATA == 0
HEADERS == 1
SETTINGS == 4
GOAWAY == 7
CONTROL == 0
MAX_TABLE_CAPACITY == 1
BLOCKED_STREAMS == 7

VARIABLES
  stream,        \* the stream the server sends
  pos,           \* bytes delivered
  state,         \* the entry of H3.streams
  events,        \* H3 events so far
  ended,         \* "no", "fin" or "reset"
  split          \* the first chunk of a server's stream ended in its type (history)

vars == <<stream, pos, state, events, ended, split>>
-----------------------------------------------------------------------------
(* Outbound encoding. *)

\* In the shortest class that holds it; no length reaches the class of 2^30.
varint_encode(v) ==
  LET byte(i) == (v \div 256 ^ i) % 256
  IN CASE v < 2 ^ 6 -> <<v>>
       [] v \in (2 ^ 6)..(2 ^ 14 - 1) -> <<64 + byte(1), byte(0)>>
       [] OTHER -> <<128 + byte(3), byte(2), byte(1), byte(0)>>

Frame(ty, payload) == varint_encode(ty) \o varint_encode(Len(payload)) \o payload

client_preamble ==
  varint_encode(CONTROL)
    \o Frame(SETTINGS, varint_encode(MAX_TABLE_CAPACITY) \o varint_encode(0)
                         \o varint_encode(BLOCKED_STREAMS) \o varint_encode(0))
-----------------------------------------------------------------------------
(* varint_decode and FrameParser. *)

\* The bytes of buf from position i on.
From(buf, i) == SubSeq(buf, i, Len(buf))

\* The value of an integer's bytes, without its length class.
Value(bytes) ==
  LET v[i \in 1..Len(bytes)] == IF i = 1 THEN bytes[1] % 64 ELSE 256 * v[i - 1] + bytes[i]
  IN v[Len(bytes)]

\* The length class in the first byte: 1 << (first >> 6).
LengthClass(first) == <<1, 2, 4, 8>>[first \div 64 + 1]

\* [val, len], or None while the buffer holds less than the whole integer.
varint_decode(buf) ==
  IF buf = <<>> THEN None
  ELSE LET n == LengthClass(buf[1])
       IN IF Len(buf) < n THEN None ELSE [val |-> Value(SubSeq(buf, 1, n)), len |-> n]

\* The next complete frame and what follows it, or None.
next_frame(buf) ==
  LET ty == varint_decode(buf) IN
  IF ty = None THEN None
  ELSE LET len == varint_decode(From(buf, ty.len + 1)) IN
       IF len = None THEN None
       ELSE LET start == ty.len + len.len IN
            IF Len(buf) < start + len.val THEN None
            ELSE [ty |-> ty.val, payload |-> SubSeq(buf, start + 1, start + len.val),
                  rest |-> From(buf, start + len.val + 1)]

\* Mutant: a new chunk replaces the unfinished frame.
Overwritten(buf, chunk) == chunk

\* FrameParser::feed
Buffered(buf, chunk) == buf \o chunk
-----------------------------------------------------------------------------
(* feed.  It works on x = [state, events], the stream's entry and the events
   of the connection so far. *)

Gone == [kind |-> "gone"]
Sink == [kind |-> "sink"]
ServerUni(ty, buf) == [kind |-> "uni", ty |-> ty, buf |-> buf]

\* A request stream is registered, a server's stream found on its first bytes.
Fresh(kind) ==
  IF kind = "uni" THEN ServerUni(None, <<>>)
  ELSE [kind |-> "response", buf |-> <<>>, status |-> None, body |-> <<>>,
        got_data |-> FALSE, failed |-> FALSE]

\* str::parse::<u16>: decimal digits, perhaps behind a plus.
ParseU16(text) ==
  LET digits == IF text # <<>> /\ text[1] = 43 THEN Tail(text) ELSE text
      value[i \in 0..Len(digits)] ==
        IF i = 0 THEN 0 ELSE Min({65536, 10 * value[i - 1] + digits[i] - 48})
  IN IF digits = <<>> \/ \E i \in 1..Len(digits) : digits[i] \notin 48..57 THEN Bad
     ELSE IF value[Len(digits)] > 65535 THEN Bad ELSE value[Len(digits)]

\* A status line's text: 0 if it is no number.
Number(text) == IF text = Bad THEN Bad
                ELSE IF ParseU16(text) = Bad THEN 0 ELSE ParseU16(text)

\* The first :status line, 0 without one; lines behind it are not looked at.
StatusIn(lines) ==
  LET at == {i \in 1..Len(lines) : IF lines[i] = Bad THEN TRUE ELSE lines[i].name = STATUS}
      line == lines[Min(at)]
  IN IF at = {} THEN 0
     ELSE IF line = Bad THEN Bad
     ELSE Number(Decoded([raw |-> line.value, huffman |-> line.huffman]))

parse_status(section) == StatusIn(Lines(section))

\* The last status counts; a malformed section fails the response.
Coded(s, code) == IF code = Bad THEN [s EXCEPT !.failed = TRUE] ELSE [s EXCEPT !.status = code]

\* A frame of a response.  Every DATA frame counts, other frames do not.
ResponseFrame(s, f) ==
  CASE f.ty = HEADERS -> Coded(s, parse_status(f.payload))
    [] f.ty = DATA -> [s EXCEPT !.body = @ \o f.payload, !.got_data = TRUE]
    [] OTHER -> s

\* A frame of a control stream.
ControlEvents(f) == IF f.ty = GOAWAY THEN <<[ev |-> "goaway"]>> ELSE <<>>

WithBuf(x, buf) == [state |-> [x.state EXCEPT !.buf = buf], events |-> x.events]

\* A frame f was taken out of the buffer.
Took(x, f) ==
  LET y == WithBuf(x, f.rest)
  IN IF y.state.kind = "response"
     THEN [state |-> ResponseFrame(y.state, f), events |-> y.events]
     ELSE [state |-> y.state, events |-> y.events \o ControlEvents(f)]

\* The loop's body, where there is another frame.
Step(x) == LET f == next_frame(x.state.buf) IN IF f = None THEN x ELSE Took(x, f)

\* `while let Some(..) = parser.next_frame()`.  Every frame takes some bytes, so
\* there are no more rounds than bytes.
Parsed(x) ==
  LET round[n \in 0..Len(x.state.buf)] == IF n = 0 THEN x ELSE Step(round[n - 1])
  IN round[Len(x.state.buf)]

\* The type of a server's stream is known, and what follows it is in buf.
Classified(ty, buf) == IF ty = CONTROL THEN ServerUni(CONTROL, buf) ELSE Sink

\* The type is looked for in the new chunk, then in all that was buffered.
FeedServerUni(s, chunk) ==
  LET buf == Buffered(s.buf, chunk)
      here == varint_decode(chunk)
      buffered == varint_decode(buf)
  IN IF s.ty # None THEN ServerUni(s.ty, buf)
     ELSE IF here # None THEN Classified(here.val, Buffered(s.buf, From(chunk, here.len + 1)))
     ELSE IF buffered # None THEN Classified(buffered.val, From(buf, buffered.len + 1))
     ELSE ServerUni(None, buf)

\* The entry with a chunk in its buffer.
Received(s, chunk) ==
  CASE s.kind = "uni" -> FeedServerUni(s, chunk)
    [] s.kind = "response" -> [s EXCEPT !.buf = Buffered(@, chunk)]
    [] s.kind = "sink" -> s

\* process_server_uni reads the frames of the control stream only.
HasFrames(s) == s.kind = "response" \/ (s.kind = "uni" /\ s.ty = CONTROL)

Fed(x, chunk) ==
  LET y == [state |-> Received(x.state, chunk), events |-> x.events]
  IN IF HasFrames(y.state) THEN Parsed(y) ELSE y
-----------------------------------------------------------------------------
Init ==
  /\ stream \in Streams /\ pos = 0
  /\ state = Fresh(stream.kind) /\ events = <<>> /\ ended = "no"
  /\ split = FALSE

\* A chunk of k bytes is read and fed.
Feed(k) ==
  /\ ended = "no" /\ pos + k <= Len(stream.bytes)
  /\ LET chunk == SubSeq(stream.bytes, pos + 1, pos + k)
     IN /\ \E x \in {Fed([state |-> state, events |-> events], chunk)} :
             state' = x.state /\ events' = x.events
        /\ split' = (split \/ (pos = 0 /\ stream.kind = "uni" /\ varint_decode(chunk) = None))
  /\ pos' = pos + k
  /\ UNCHANGED <<stream, ended>>

\* Mutant: any status counts as 200.
AnyStatus(s) == [ev |-> IF ~s.failed /\ s.got_data THEN "response" ELSE "failed", body |-> s.body]

\* The event finish emits for a request stream.
FinishEvent(s) == [ev |-> IF ~s.failed /\ s.got_data /\ s.status = 200 THEN "response" ELSE "failed",
                   body |-> s.body]

\* EOF, after the last byte or before it: finish removes the stream.
Finish ==
  /\ ended = "no"
  /\ events' = IF state.kind = "response" THEN Append(events, FinishEvent(state)) ELSE events
  /\ state' = Gone /\ ended' = "fin"
  /\ UNCHANGED <<stream, pos, split>>

\* Mutant: a reset is not reported.
SilentReset(s) == <<>>

\* What reset emits: nothing for a stream that has failed.
ResetEvents(s) ==
  IF s.kind = "response" /\ ~s.failed THEN <<[ev |-> "failed", body |-> <<>>]>> ELSE <<>>

\* A read error: reset removes the stream.
Reset ==
  /\ ended = "no"
  /\ events' = events \o ResetEvents(state)
  /\ state' = Gone /\ ended' = "reset"
  /\ UNCHANGED <<stream, pos, split>>

Next == (\E k \in 1..Len(stream.bytes) : Feed(k)) \/ Finish \/ Reset

Spec == Init /\ [][Next]_vars
-----------------------------------------------------------------------------
\* What feed makes of all the bytes in one call.
AtOnce(kind, bytes) == Fed([state |-> Fresh(kind), events |-> <<>>], bytes)

Delivered == SubSeq(stream.bytes, 1, pos)

\* How the network cuts a stream makes no difference: after any chunks the
\* parser has found what it finds in the same bytes fed at once.  Not so for a
\* type split between two chunks, where the second is decoded by itself.
ChunkingIrrelevant ==
  ended = "no" /\ pos > 0 /\ ~split =>
    [state |-> state, events |-> events] = AtOnce(stream.kind, Delivered)

\* Where part i of stream s ends, and the parts in its first k bytes.
End(s, i) == IF i = 0 THEN 0 ELSE s.parts[i].end
WholeParts(s, k) == Max({i \in 0..Len(s.parts) : End(s, i) <= k})

\* The parts of a kind among the first n, and the data in these, in order.
PartsOf(s, n, kind) == {i \in 1..n : s.parts[i].is = kind}
DataOf(s, n) ==
  LET data[i \in 0..Len(s.parts)] ==
        IF i = 0 THEN <<>>
        ELSE IF s.parts[i].is = "data" THEN data[i - 1] \o s.parts[i].holds ELSE data[i - 1]
  IN data[n]

\* The frame of one part, read by itself, is what the server meant.
ReadAsMeant(frame, part) ==
  /\ frame # None
  /\ frame.rest = <<>>
  /\ CASE part.is = "status" ->
           /\ frame.ty = HEADERS
           /\ part.holds \in Nat /\ part.holds # Bad /\ parse_status(frame.payload) = part.holds
       [] part.is = "malformed" -> frame.ty = HEADERS /\ parse_status(frame.payload) = Bad
       [] part.is = "data" -> frame.ty = DATA /\ frame.payload = part.holds
       [] part.is = "other" -> frame.ty \notin {DATA, HEADERS}

ASSUME StreamsAssumption ==
  \A s \in Streams : s.kind \in {"request", "uni"} /\ s.bytes \in Seq(Byte)

\* A request's bytes are its parts, one frame each.
ASSUME PartsAssumption ==
  \A s \in Streams : s.kind = "request" =>
    /\ Len(s.parts) \in Nat /\ End(s, Len(s.parts)) = Len(s.bytes)
    /\ \A i \in 1..Len(s.parts) :
         /\ s.parts[i].is \in {"status", "malformed", "data", "other"}
         /\ End(s, i) \in Nat /\ End(s, i - 1) < End(s, i)
         /\ ReadAsMeant(next_frame(SubSeq(s.bytes, End(s, i - 1) + 1, End(s, i))), s.parts[i])

ASSUME NoneAssumption ==
  /\ None \notin Nat
  /\ None \notin [val : Nat, len : Nat]
  /\ None \notin [ty : Nat, payload : Seq(Byte), rest : Seq(Byte)]

\* The parts of a kind that have arrived whole.
Arrived(kind) == PartsOf(stream, WholeParts(stream, pos), kind)

\* Each request that ends gets one event, so the worker answers its query; but
\* for a malformed header section, never reported when a reset follows it.
OneEventPerRequest ==
  ended # "no" /\ stream.kind = "request" =>
    \/ Len(events) = 1
    \/ events = <<>> /\ ended = "reset" /\ Arrived("malformed") # {}

\* When a request ends, its event is a response just if what the server meant
\* in the parts that arrived whole was a last status of 200, some data and no
\* malformed section, however it encoded the status (a section without one,
\* such as a trailer, counts as status 0); it then holds all the data, in
\* order, and nothing of an unfinished frame.
ResponseComplete ==
  ended = "fin" /\ stream.kind = "request" =>
    LET status == Arrived("status")
        good == /\ Arrived("malformed") = {} /\ Arrived("data") # {} /\ status # {}
                /\ stream.parts[Max(status)].holds = 200
    IN /\ (events[1].ev = "response") = good
       /\ good => events[1].body = DataOf(stream, WholeParts(stream, pos))
=============================================================================
