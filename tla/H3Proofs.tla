------------------------------ MODULE H3Proofs ------------------------------
(***************************************************************************)
(* The properties of H3Stream for every set of streams, in four steps.     *)
(* A varint or frame that is complete reads the same with more bytes       *)
(* behind it.  So the frame loop, run before and after a chunk, comes to   *)
(* what it comes to on the two chunks at once: feed has no memory but the  *)
(* bytes.  The bytes of a request are its parts, one frame each, and what  *)
(* the loop makes of the whole ones is what the server meant.  With that,  *)
(* StreamInv is inductive: an open stream is what its bytes make of it.    *)
(***************************************************************************)
EXTENDS H3Stream, WellFoundedInduction, TLAPS

\* The solver gets more than its 5 seconds, for slow machines.
USE SMTT(30)
-----------------------------------------------------------------------------
\* Every nonempty set of naturals has a least element.
LEMMA LeastNatural == \A T \in SUBSET Nat : T # {} => \E k \in T : \A y \in T : k <= y
  <1> SUFFICES ASSUME NEW T \in SUBSET Nat, T # {} PROVE \E k \in T : \A y \in T : k <= y
    BY Zenon
  <1>1. PICK k \in T : \A y \in T : ~ (<<y, k>> \in OpToRel(<, Nat))
    BY NatLessThanWellFounded, WFMin, Zenon
  <1>2. \A y \in T : ~ (y < k)
    BY <1>1, Zenon DEF OpToRel
  <1> QED
    BY <1>2

\* A set that holds 0 and with each number below N the next holds all to N.
LEMMA UpTo ==
  ASSUME NEW N \in Nat, NEW S, 0 \in S, \A n \in 0..(N - 1) : n \in S => n + 1 \in S
  PROVE  \A n \in 0..N : n \in S
  <1> DEFINE T == {n \in 0..N : n \notin S}
  <1>1. SUFFICES ASSUME T # {} PROVE FALSE
    BY Zenon
  <1>2. PICK k \in T : \A y \in T : k <= y
    <2>1. T \in SUBSET Nat
      OBVIOUS
    <2> HIDE DEF T
    <2> QED  BY <1>1, <2>1, LeastNatural, Zenon
  <1>3. k \in 1..N /\ k \notin S
    BY <1>2
  <1>4. k - 1 \in 0..(N - 1) /\ ~ (k <= k - 1) /\ (k - 1) + 1 = k
    BY <1>3
  <1>5. k - 1 \in S
    BY <1>2, <1>4
  <1> QED
    BY <1>3, <1>4, <1>5, Zenon
-----------------------------------------------------------------------------
(* A prefix of the bytes is decoded as it is with more bytes behind it. *)

\* A concatenation cut behind its first part's position i.
LEMMA FromConcat ==
  ASSUME NEW b \in Seq(Byte), NEW c \in Seq(Byte), NEW i \in 1..(Len(b) + 1)
  PROVE  /\ From(b, i) \in Seq(Byte) /\ Len(From(b, i)) = Len(b) + 1 - i
         /\ From(b \o c, i) = From(b, i) \o c
  BY DEF From

\* What is cut out of its first part.
LEMMA SubSeqConcat ==
  ASSUME NEW b \in Seq(Byte), NEW c \in Seq(Byte), NEW i \in 1..(Len(b) + 1), NEW j \in (i - 1)..Len(b)
  PROVE  SubSeq(b, i, j) \in Seq(Byte) /\ SubSeq(b \o c, i, j) = SubSeq(b, i, j)
  OBVIOUS

\* The lengths of an integer.
LEMMA LengthClassRange == \A first \in Byte : LengthClass(first) \in {1, 2, 4, 8}
  BY DEF LengthClass, Byte

\* The recursion of varint_decode: byte i after those before it.
ValueAt(bytes, v, i) == IF i = 1 THEN bytes[1] % 64 ELSE 256 * v[i - 1] + bytes[i]
IsValue(bytes, n, v) == v = [i \in 1..n |-> ValueAt(bytes, v, i)]

\* It has a solution.
LEMMA ValueExists == \A bytes : \A N \in Nat : \E v : IsValue(bytes, N, v)
  <1> SUFFICES ASSUME NEW bytes, NEW N \in Nat PROVE \E v : IsValue(bytes, N, v)
    BY Zenon
  <1> DEFINE S == {n \in 0..N : \E v : IsValue(bytes, n, v)}
  <1>1. 0 \in S
    <2>1. IsValue(bytes, 0, [i \in 1..0 |-> 0])
      BY \A i : i \notin 1..0, Zenon DEF IsValue
    <2> QED  BY <2>1
  <1>2. ASSUME NEW n \in 0..(N - 1), n \in S PROVE n + 1 \in S
    <2>1. PICK v : IsValue(bytes, n, v)
      BY <1>2, Zenon
    <2> DEFINE next == ValueAt(bytes, v, n + 1)
               w == [i \in 1..(n + 1) |-> IF i = n + 1 THEN next ELSE v[i]]
    <2>2. ASSUME NEW i \in 1..(n + 1) PROVE w[i] = ValueAt(bytes, w, i)
      <3>1. w[i] = IF i = n + 1 THEN next ELSE v[i]
        BY Zenon
      <3>2. i # n + 1 => i \in 1..n /\ v[i] = ValueAt(bytes, v, i)
        BY <2>1 DEF IsValue
      <3>3. i # 1 => i - 1 \in 1..(n + 1) /\ w[i - 1] = v[i - 1]
        <4> HIDE DEF next
        <4> QED  OBVIOUS
      <3> HIDE DEF w
      <3>4. ValueAt(bytes, w, i) = ValueAt(bytes, v, i)
        BY <3>3, Zenon DEF ValueAt
      <3> QED  BY <3>1, <3>2, <3>4, Zenon
    <2>3. w = [i \in 1..(n + 1) |-> w[i]]
      <3> HIDE DEF next
      <3> QED  BY Zenon
    <2>4. IsValue(bytes, n + 1, w)
      <3> HIDE DEF w
      <3> QED  BY <2>2, <2>3, Zenon DEF IsValue
    <2> QED  BY <2>4
  <1>3. N \in S
    <2> HIDE DEF S
    <2> QED  BY <1>1, <1>2, UpTo
  <1> QED
    BY <1>3, Zenon

\* The value of an integer's bytes is a natural number.
LEMMA ValueNatural ==
  ASSUME NEW bytes \in Seq(Byte), bytes # <<>>
  PROVE  Value(bytes) \in Nat
  <1> DEFINE N == Len(bytes)
             v == CHOOSE v : IsValue(bytes, N, v)
  <1>1. N \in Nat /\ N > 0 /\ \A i \in 1..N : bytes[i] \in Nat
    <2>1. N \in Nat /\ N > 0 /\ \A i \in 1..N : bytes[i] \in Byte
      OBVIOUS
    <2>2. Byte \subseteq Nat
      BY DEF Byte
    <2> QED  BY <2>1, <2>2, Zenon
  <1>2. Value(bytes) = v[N]
    BY Zenon DEF Value, IsValue, ValueAt
  <1> HIDE DEF N
  <1>3. IsValue(bytes, N, v)
    BY <1>1, ValueExists, Zenon
  <1> HIDE DEF v
  <1> DEFINE S == {n \in 0..N : n = 0 \/ v[n] \in Nat}
  <1>4. ASSUME NEW n \in 0..(N - 1), n \in S PROVE n + 1 \in S
    <2>1. n + 1 \in 1..N /\ 1 \in 1..N
      BY <1>1
    <2>2. v[n + 1] = ValueAt(bytes, v, n + 1)
      BY <1>3, <2>1, Zenon DEF IsValue
    <2>3. ValueAt(bytes, v, n + 1) \in Nat
      BY <1>1, <1>4, <2>1 DEF ValueAt
    <2> QED  BY <1>1, <2>1, <2>2, <2>3
  <1>5. 0 \in S /\ N \in 0..N
    BY <1>1
  <1>6. N \in S
    <2> HIDE DEF S
    <2> QED  BY <1>1, <1>4, <1>5, UpTo, Zenon
  <1> QED
    BY <1>1, <1>2, <1>6

\* A decoded integer, and the same one with more bytes behind it.
LEMMA VarintPrefix ==
  ASSUME NEW b \in Seq(Byte), varint_decode(b) # None
  PROVE  /\ varint_decode(b) \in [val : Nat, len : Nat]
         /\ varint_decode(b).len \in 1..Len(b)
         /\ \A c \in Seq(Byte) : varint_decode(b \o c) = varint_decode(b)
  <1> DEFINE n == LengthClass(b[1])
  <1>1. b # <<>> /\ Len(b) \in Nat /\ b[1] \in Byte
    BY DEF varint_decode
  <1>2. n \in {1, 2, 4, 8}
    BY <1>1, LengthClassRange, Zenon
  <1>3. n \in 1..Len(b)
    BY <1>1, <1>2 DEF varint_decode
  <1>4. varint_decode(b) = [val |-> Value(SubSeq(b, 1, n)), len |-> n]
    BY <1>1, <1>3, Zenon DEF varint_decode
  <1>5. SubSeq(b, 1, n) \in Seq(Byte) /\ SubSeq(b, 1, n) # <<>>
    <2> HIDE DEF n
    <2> QED  BY <1>3
  <1>6. Value(SubSeq(b, 1, n)) \in Nat
    BY <1>5, ValueNatural, Zenon
  <1>7. ASSUME NEW c \in Seq(Byte) PROVE varint_decode(b \o c) = varint_decode(b)
    <2>1. b \o c # <<>> /\ (b \o c)[1] = b[1] /\ ~ (Len(b \o c) < n)
      <3> HIDE DEF n
      <3> QED  BY <1>1, <1>3
    <2>2. SubSeq(b \o c, 1, n) = SubSeq(b, 1, n)
      <3> HIDE DEF n
      <3> QED  BY <1>3, SubSeqConcat
    <2>3. varint_decode(b \o c) = [val |-> Value(SubSeq(b \o c, 1, n)), len |-> n]
      BY <2>1, Zenon DEF varint_decode
    <2> QED  BY <1>4, <2>2, <2>3, Zenon
  <1> QED
    <2> HIDE DEF n
    <2> QED  BY <1>3, <1>4, <1>6, <1>7

\* Frame f with chunk c behind what follows it.
With(f, c) == [ty |-> f.ty, payload |-> f.payload, rest |-> f.rest \o c]

\* A complete frame, and the same one with more bytes behind it.
LEMMA FramePrefix ==
  ASSUME NEW b \in Seq(Byte), next_frame(b) # None
  PROVE  /\ next_frame(b) \in [ty : Nat, payload : Seq(Byte), rest : Seq(Byte)]
         /\ Len(next_frame(b).rest) < Len(b)
         /\ \A c \in Seq(Byte) : next_frame(b \o c) = With(next_frame(b), c)
  <1> DEFINE ty == varint_decode(b)
             rest == From(b, ty.len + 1)
             len == varint_decode(rest)
             start == ty.len + len.len
             end == start + len.val
  <1>1. ty # None
    BY Zenon DEF next_frame
  <1>2. /\ ty \in [val : Nat, len : Nat] /\ ty.len \in 1..Len(b)
        /\ \A c \in Seq(Byte) : varint_decode(b \o c) = ty
    BY <1>1, VarintPrefix, Zenon
  <1>3. ty.len + 1 \in 1..(Len(b) + 1) /\ Len(b) \in Nat
    <2> HIDE DEF ty
    <2> QED  BY <1>2
  <1>4. /\ rest \in Seq(Byte) /\ Len(rest) = Len(b) - ty.len
        /\ \A c \in Seq(Byte) : From(b \o c, ty.len + 1) = rest \o c
    <2>1. rest \in Seq(Byte) /\ Len(rest) = Len(b) + 1 - (ty.len + 1)
      <3>1. <<>> \in Seq(Byte)
        OBVIOUS
      <3> HIDE DEF ty
      <3> QED  BY <1>3, <3>1, FromConcat, Zenon
    <2>2. \A c \in Seq(Byte) : From(b \o c, ty.len + 1) = rest \o c
      <3> HIDE DEF ty
      <3> QED  BY <1>3, FromConcat, Zenon
    <2> HIDE DEF ty, rest
    <2> QED  BY <1>2, <2>1, <2>2
  <1>5. len # None
    BY <1>1, Zenon DEF next_frame
  <1>6. /\ len \in [val : Nat, len : Nat] /\ len.len \in 1..Len(rest)
        /\ \A c \in Seq(Byte) : varint_decode(rest \o c) = len
    <2> HIDE DEF rest
    <2> QED  BY <1>4, <1>5, VarintPrefix, Zenon
  <1>7. ~ (Len(b) < end)
    BY <1>1, <1>5, Zenon DEF next_frame
  <1>8. /\ start \in 2..Len(b) /\ end \in start..Len(b)
        /\ start + 1 \in 1..(Len(b) + 1) /\ end + 1 \in 3..(Len(b) + 1) /\ end \in ((start + 1) - 1)..Len(b)
    <2>1. ty.len \in 1..Len(b) /\ len.len \in 1..(Len(b) - ty.len) /\ len.val \in Nat
      <3> HIDE DEF ty, len, rest
      <3> QED  BY <1>2, <1>4, <1>6, Zenon
    <2>2. \A m, t, l, v \in Nat :
            t \in 1..m /\ l \in 1..(m - t) /\ ~ (m < t + l + v) =>
              /\ t + l \in 2..m /\ t + l + v \in (t + l)..m
              /\ t + l + 1 \in 1..(m + 1) /\ t + l + v + 1 \in 3..(m + 1)
              /\ t + l + v \in (t + l + 1 - 1)..m
      OBVIOUS
    <2>3. ty.len \in Nat /\ len.len \in Nat
      <3> HIDE DEF ty, len, rest
      <3> QED  BY <1>2, <1>6, Zenon
    <2> HIDE DEF ty, len, rest
    <2> QED  BY <1>3, <1>7, <2>1, <2>2, <2>3, SMTT(60)
  <1>9. next_frame(b) = [ty |-> ty.val, payload |-> SubSeq(b, start + 1, end), rest |-> From(b, end + 1)]
    BY <1>1, <1>5, <1>7, Zenon DEF next_frame
  <1>10. ty.val \in Nat
    <2> HIDE DEF ty
    <2> QED  BY <1>2, Zenon
  <1>11. SubSeq(b, start + 1, end) \in Seq(Byte)
    <2> HIDE DEF start, end
    <2> QED  BY <1>3, <1>8
  <1>12. From(b, end + 1) \in Seq(Byte) /\ Len(From(b, end + 1)) < Len(b)
    <2>1. <<>> \in Seq(Byte) /\ end + 1 \in 1..(Len(b) + 1)
      <3> HIDE DEF start, end
      <3> QED  BY <1>3, <1>8
    <2>2. From(b, end + 1) \in Seq(Byte) /\ Len(From(b, end + 1)) = Len(b) + 1 - (end + 1)
      <3> HIDE DEF end
      <3> QED  BY <2>1, FromConcat, Zenon
    <2> HIDE DEF start, end
    <2> QED  BY <1>3, <1>8, <2>2
  <1>13. ASSUME NEW c \in Seq(Byte) PROVE next_frame(b \o c) = With(next_frame(b), c)
    <2>1. varint_decode(b \o c) = ty /\ From(b \o c, ty.len + 1) = rest \o c /\ varint_decode(rest \o c) = len
      BY <1>2, <1>4, <1>6, Zenon
    <2>2. ~ (Len(b \o c) < end)
      <3> HIDE DEF start, end
      <3> QED  BY <1>3, <1>8
    <2>3. /\ SubSeq(b \o c, start + 1, end) = SubSeq(b, start + 1, end)
          /\ From(b \o c, end + 1) = From(b, end + 1) \o c
      <3>1. end + 1 \in 1..(Len(b) + 1)
        <4> HIDE DEF start, end
        <4> QED  BY <1>3, <1>8
      <3> HIDE DEF start, end
      <3> QED  BY <1>8, <3>1, FromConcat, SubSeqConcat, Zenon
    <2>4. next_frame(b \o c) = [ty |-> ty.val, payload |-> SubSeq(b \o c, start + 1, end),
                                rest |-> From(b \o c, end + 1)]
      <3> HIDE DEF ty, rest, len
      <3> QED  BY <1>1, <1>5, <2>1, <2>2, Zenon DEF next_frame
    <2> HIDE DEF ty, rest, len, start, end
    <2>5. next_frame(b).ty = ty.val /\ next_frame(b).payload = SubSeq(b, start + 1, end)
          /\ next_frame(b).rest = From(b, end + 1)
      <3> DEFINE f == [ty |-> ty.val, payload |-> SubSeq(b, start + 1, end), rest |-> From(b, end + 1)]
      <3>1. f.ty = ty.val
        BY Zenon
      <3>2. f.payload = SubSeq(b, start + 1, end)
        BY Zenon
      <3>3. f.rest = From(b, end + 1)
        BY Zenon
      <3> QED  BY <1>9, <3>1, <3>2, <3>3, Zenon
    <2> QED  BY <2>3, <2>4, <2>5, Zenon DEF With
  <1> HIDE DEF ty, rest, len, start, end
  <1>14. next_frame(b) \in [ty : Nat, payload : Seq(Byte), rest : Seq(Byte)] /\ Len(next_frame(b).rest) < Len(b)
    BY <1>9, <1>10, <1>11, <1>12
  <1> QED
    BY <1>13, <1>14, Zenon
-----------------------------------------------------------------------------
(* A frame is taken alike whatever comes behind it. *)

Resp(buf, status, body, got, failed) ==
  [kind |-> "response", buf |-> buf, status |-> status, body |-> body, got_data |-> got, failed |-> failed]
Conn(s, e) == [state |-> s, events |-> e]

\* The entries whose frames are read, with bytes in their buffer.
IsResponse(x) == \E buf \in Seq(Byte) : \E status, body, got, failed, e :
                   x = Conn(Resp(buf, status, body, got, failed), e)
IsControl(x) == \E buf \in Seq(Byte) : \E e : x = Conn(ServerUni(CONTROL, buf), e)

AFrame(t, p, r) == [ty |-> t, payload |-> p, rest |-> r]

\* Entry x with chunk c in its buffer.
More(x, c) == WithBuf(x, x.state.buf \o c)

\* The fields of the records feed works on, and their updates: a response,
LEMMA RespFields == \A b, st, bd, gd, fl :
  /\ Resp(b, st, bd, gd, fl).kind = "response" /\ Resp(b, st, bd, gd, fl).buf = b
  /\ Resp(b, st, bd, gd, fl).body = bd
  BY Zenon DEF Resp

\* a response with another buffer,
LEMMA RespBuf == \A b, st, bd, gd, fl, v : [Resp(b, st, bd, gd, fl) EXCEPT !.buf = v] = Resp(v, st, bd, gd, fl)
  BY DEF Resp

\* a server's stream,
LEMMA UniFields == \A t, b :
  /\ ServerUni(t, b).kind = "uni" /\ ServerUni(t, b).ty = t /\ ServerUni(t, b).buf = b
  /\ \A v : [ServerUni(t, b) EXCEPT !.buf = v] = ServerUni(t, v)
  BY DEF ServerUni

\* an entry with the events,
LEMMA ConnFields == \A s, e : Conn(s, e).state = s /\ Conn(s, e).events = e
  BY Zenon DEF Conn

\* a frame.
LEMMA FrameFields == \A t, p, r : AFrame(t, p, r).ty = t /\ AFrame(t, p, r).payload = p /\ AFrame(t, p, r).rest = r
  BY Zenon DEF AFrame

\* An entry with another buffer is the same kind of entry.
LEMMA WithBufFields ==
  /\ \A b, v, st, bd, gd, fl, e : WithBuf(Conn(Resp(b, st, bd, gd, fl), e), v) = Conn(Resp(v, st, bd, gd, fl), e)
  /\ \A b, v, t, e : WithBuf(Conn(ServerUni(t, b), e), v) = Conn(ServerUni(t, v), e)
  <1>1. \A x, v : WithBuf(x, v) = Conn([x.state EXCEPT !.buf = v], x.events)
    BY Zenon DEF WithBuf, Conn
  <1>2. ASSUME NEW s, NEW e, NEW v PROVE WithBuf(Conn(s, e), v) = Conn([s EXCEPT !.buf = v], e)
    <2> DEFINE x == Conn(s, e)
    <2>1. x.state = s /\ x.events = e
      BY ConnFields, Zenon
    <2> HIDE DEF x
    <2>2. WithBuf(x, v) = Conn([x.state EXCEPT !.buf = v], x.events)
      BY <1>1, Zenon
    <2>3. WithBuf(x, v) = Conn([s EXCEPT !.buf = v], e)
      BY <2>1, <2>2, Zenon
    <2> QED  BY <2>3, Zenon DEF x
  <1>3. \A b, v, st, bd, gd, fl, e : WithBuf(Conn(Resp(b, st, bd, gd, fl), e), v) = Conn(Resp(v, st, bd, gd, fl), e)
    BY <1>2, RespBuf
  <1>4. \A b, v, t, e : WithBuf(Conn(ServerUni(t, b), e), v) = Conn(ServerUni(t, v), e)
    BY <1>2, UniFields
  <1> QED
    BY <1>3, <1>4, Zenon

\* y is of the kind of x, and a response's events are the same.
Like(x, y) == /\ IsResponse(x) => IsResponse(y) /\ y.events = x.events
              /\ IsControl(x) => IsControl(y)

\* A frame makes x, with any bytes in its buffer, into y, with what follows.
Makes(x, t, p, y) == \A b, r : Took(WithBuf(x, b), AFrame(t, p, r)) = WithBuf(y, r)

\* What a frame makes of a response, with what follows it in the buffer.
FrameMakes(t, p, r, st, bd, gd, fl) ==
  /\ t = HEADERS /\ parse_status(p) = Bad =>
       ResponseFrame(Resp(r, st, bd, gd, fl), AFrame(t, p, r)) = Resp(r, st, bd, gd, TRUE)
  /\ t = HEADERS /\ parse_status(p) # Bad =>
       ResponseFrame(Resp(r, st, bd, gd, fl), AFrame(t, p, r)) = Resp(r, parse_status(p), bd, gd, fl)
  /\ t = DATA => ResponseFrame(Resp(r, st, bd, gd, fl), AFrame(t, p, r)) = Resp(r, st, bd \o p, TRUE, fl)
  /\ t # DATA /\ t # HEADERS => ResponseFrame(Resp(r, st, bd, gd, fl), AFrame(t, p, r)) = Resp(r, st, bd, gd, fl)

\* ResponseFrame: the frame's type and, for a header section, its status decide.
LEMMA FrameOfResponse == \A t, p, r, st, bd, gd, fl : FrameMakes(t, p, r, st, bd, gd, fl)
  <1> SUFFICES ASSUME NEW t, NEW p, NEW r, NEW st, NEW bd, NEW gd, NEW fl
               PROVE  FrameMakes(t, p, r, st, bd, gd, fl)
    BY Zenon
  <1> DEFINE f == AFrame(t, p, r)
             s == Resp(r, st, bd, gd, fl)
  <1>1. f.ty = t /\ f.payload = p
    BY FrameFields
  <1>2. DATA # HEADERS
    BY DEF DATA, HEADERS
  <1>3. ASSUME t = HEADERS PROVE ResponseFrame(s, f) = Coded(s, parse_status(p))
    <2> HIDE DEF f, s
    <2> QED  BY <1>1, <1>2, <1>3, Zenon DEF ResponseFrame
  <1>4. ASSUME t = HEADERS, parse_status(p) = Bad PROVE ResponseFrame(s, f) = Resp(r, st, bd, gd, TRUE)
    <2>1. ASSUME NEW v PROVE [s EXCEPT !.failed = v] = Resp(r, st, bd, gd, v)
      BY DEF Resp
    <2> HIDE DEF f, s
    <2> QED  BY <1>3, <1>4, <2>1, Zenon DEF Coded
  <1>5. ASSUME t = HEADERS, parse_status(p) # Bad PROVE ResponseFrame(s, f) = Resp(r, parse_status(p), bd, gd, fl)
    <2>1. ASSUME NEW v PROVE [s EXCEPT !.status = v] = Resp(r, v, bd, gd, fl)
      BY DEF Resp
    <2> HIDE DEF f, s
    <2> QED  BY <1>3, <1>5, <2>1, Zenon DEF Coded
  <1>6. ASSUME t = DATA PROVE ResponseFrame(s, f) = Resp(r, st, bd \o p, TRUE, fl)
    <2>1. ASSUME NEW v, NEW w PROVE [s EXCEPT !.body = v, !.got_data = w] = Resp(r, st, v, w, fl)
      <3>1. [s EXCEPT !.body = v] = Resp(r, st, v, gd, fl)
        BY DEF Resp
      <3>2. [Resp(r, st, v, gd, fl) EXCEPT !.got_data = w] = Resp(r, st, v, w, fl)
        BY DEF Resp
      <3> HIDE DEF s
      <3> QED  BY <3>1, <3>2, Zenon
    <2>2. s.body = bd
      BY RespFields
    <2> HIDE DEF f, s
    <2>3. ResponseFrame(s, f) = [s EXCEPT !.body = s.body \o p, !.got_data = TRUE]
      BY <1>1, <1>2, <1>6, Zenon DEF ResponseFrame
    <2> QED  BY <2>1, <2>2, <2>3, Zenon
  <1>7. ASSUME t # DATA, t # HEADERS PROVE ResponseFrame(s, f) = s
    <2> HIDE DEF f, s
    <2> QED  BY <1>1, <1>7, Zenon DEF ResponseFrame
  <1> QED
    BY <1>4, <1>5, <1>6, <1>7, Zenon DEF FrameMakes

\* A frame taken out of the buffer of a response.
LEMMA TookFrame ==
  ASSUME NEW b, NEW st, NEW bd, NEW gd, NEW fl, NEW e, NEW t, NEW p, NEW r
  PROVE  Took(Conn(Resp(b, st, bd, gd, fl), e), AFrame(t, p, r))
           = Conn(ResponseFrame(Resp(r, st, bd, gd, fl), AFrame(t, p, r)), e)
  <1> DEFINE y == WithBuf(Conn(Resp(b, st, bd, gd, fl), e), AFrame(t, p, r).rest)
  <1>1. y = Conn(Resp(r, st, bd, gd, fl), e)
    BY FrameFields, WithBufFields
  <1>2. y.state = Resp(r, st, bd, gd, fl) /\ y.events = e
    BY <1>1, ConnFields, Zenon
  <1>3. y.state.kind = "response"
    BY <1>2, RespFields
  <1>4. Took(Conn(Resp(b, st, bd, gd, fl), e), AFrame(t, p, r))
          = [state |-> ResponseFrame(y.state, AFrame(t, p, r)), events |-> y.events]
    BY <1>3, Zenon DEF Took
  <1> HIDE DEF y
  <1> QED
    BY <1>2, <1>4, Zenon DEF Conn

\* What a frame makes of a response does not depend on what follows it, and it
\* makes no event.
LEMMA TookResponse ==
  ASSUME NEW x, IsResponse(x), NEW t, NEW p
  PROVE  \E y : IsResponse(y) /\ y.events = x.events /\ Makes(x, t, p, y)
  <1>1. PICK a \in Seq(Byte) : \E st, bd, gd, fl, e : x = Conn(Resp(a, st, bd, gd, fl), e)
    BY Zenon DEF IsResponse
  <1>2. PICK st, bd, gd, fl, e : x = Conn(Resp(a, st, bd, gd, fl), e)
    BY <1>1, Zenon
  <1>3. ASSUME NEW st2, NEW bd2, NEW gd2, NEW fl2,
               \A r : ResponseFrame(Resp(r, st, bd, gd, fl), AFrame(t, p, r)) = Resp(r, st2, bd2, gd2, fl2)
        PROVE  \E y : IsResponse(y) /\ y.events = x.events /\ Makes(x, t, p, y)
    <2> DEFINE y == Conn(Resp(a, st2, bd2, gd2, fl2), e)
    <2>1. IsResponse(y)
      BY <1>1, Zenon DEF IsResponse
    <2>2. y.events = x.events
      BY <1>2, ConnFields
    <2>3. ASSUME NEW b, NEW r PROVE Took(WithBuf(x, b), AFrame(t, p, r)) = WithBuf(y, r)
      <3>1. WithBuf(x, b) = Conn(Resp(b, st, bd, gd, fl), e)
        BY <1>2, WithBufFields
      <3>2. WithBuf(y, r) = Conn(Resp(r, st2, bd2, gd2, fl2), e)
        BY WithBufFields
      <3>3. Took(Conn(Resp(b, st, bd, gd, fl), e), AFrame(t, p, r))
              = Conn(ResponseFrame(Resp(r, st, bd, gd, fl), AFrame(t, p, r)), e)
        BY TookFrame
      <3> QED  BY <1>3, <3>1, <3>2, <3>3, Zenon
    <2> HIDE DEF y
    <2> QED  BY <2>1, <2>2, <2>3, Zenon DEF Makes
  <1>4. \A r : FrameMakes(t, p, r, st, bd, gd, fl)
    BY FrameOfResponse, Zenon
  <1>5. CASE t = HEADERS /\ parse_status(p) = Bad
    <2>1. ASSUME NEW r PROVE ResponseFrame(Resp(r, st, bd, gd, fl), AFrame(t, p, r)) = Resp(r, st, bd, gd, TRUE)
      BY <1>5, <1>4, Zenon DEF FrameMakes
    <2> QED  BY <1>3, <2>1, Zenon
  <1>6. CASE t = HEADERS /\ parse_status(p) # Bad
    <2>1. ASSUME NEW r PROVE ResponseFrame(Resp(r, st, bd, gd, fl), AFrame(t, p, r)) = Resp(r, parse_status(p), bd, gd, fl)
      BY <1>6, <1>4, Zenon DEF FrameMakes
    <2> QED  BY <1>3, <2>1, Zenon
  <1>7. CASE t = DATA
    <2>1. ASSUME NEW r PROVE ResponseFrame(Resp(r, st, bd, gd, fl), AFrame(t, p, r)) = Resp(r, st, bd \o p, TRUE, fl)
      BY <1>7, <1>4, Zenon DEF FrameMakes
    <2> QED  BY <1>3, <2>1, Zenon
  <1>8. CASE t # DATA /\ t # HEADERS
    <2>1. ASSUME NEW r PROVE ResponseFrame(Resp(r, st, bd, gd, fl), AFrame(t, p, r)) = Resp(r, st, bd, gd, fl)
      BY <1>8, <1>4, Zenon DEF FrameMakes
    <2> QED  BY <1>3, <2>1, Zenon
  <1> QED
    BY <1>5, <1>6, <1>7, <1>8, Zenon

\* Nor does what it makes of a control stream.
LEMMA TookControl ==
  ASSUME NEW x, IsControl(x), NEW t, NEW p
  PROVE  \E y : IsControl(y) /\ Makes(x, t, p, y)
  <1>1. PICK a \in Seq(Byte) : \E e : x = Conn(ServerUni(CONTROL, a), e)
    BY Zenon DEF IsControl
  <1>2. PICK e : x = Conn(ServerUni(CONTROL, a), e)
    BY <1>1, Zenon
  <1> DEFINE e2 == e \o (IF t = GOAWAY THEN <<[ev |-> "goaway"]>> ELSE <<>>)
             y == Conn(ServerUni(CONTROL, a), e2)
  <1>3. IsControl(y)
    <2> HIDE DEF e2
    <2> QED  BY <1>1, Zenon DEF IsControl
  <1>4. ASSUME NEW b, NEW r PROVE Took(WithBuf(x, b), AFrame(t, p, r)) = WithBuf(y, r)
    <2> DEFINE z == WithBuf(Conn(ServerUni(CONTROL, b), e), AFrame(t, p, r).rest)
    <2>1. WithBuf(x, b) = Conn(ServerUni(CONTROL, b), e)
      BY <1>2, WithBufFields
    <2>2. WithBuf(y, r) = Conn(ServerUni(CONTROL, r), e2)
      <3> HIDE DEF e2
      <3> QED  BY WithBufFields
    <2>3. z = Conn(ServerUni(CONTROL, r), e)
      BY FrameFields, WithBufFields
    <2>4. z.state = ServerUni(CONTROL, r) /\ z.events = e
      BY <2>3, ConnFields, Zenon
    <2>5. z.state.kind # "response"
      <3>1. z.state.kind = "uni"
        BY <2>4, UniFields
      <3> HIDE DEF z
      <3> QED  BY <3>1, Zenon
    <2>6. z.events \o ControlEvents(AFrame(t, p, r)) = e2
      <3>1. AFrame(t, p, r).ty = t
        BY FrameFields, Zenon
      <3> HIDE DEF z
      <3> QED  BY <2>4, <3>1, Zenon DEF ControlEvents
    <2>7. Took(Conn(ServerUni(CONTROL, b), e), AFrame(t, p, r))
            = [state |-> z.state, events |-> z.events \o ControlEvents(AFrame(t, p, r))]
      BY <2>5, Zenon DEF Took
    <2> HIDE DEF z, e2, y
    <2>8. Took(Conn(ServerUni(CONTROL, b), e), AFrame(t, p, r)) = Conn(ServerUni(CONTROL, r), e2)
      BY <2>4, <2>6, <2>7, Zenon DEF Conn
    <2> QED  BY <2>1, <2>2, <2>8, Zenon
  <1> HIDE DEF y
  <1> QED
    BY <1>3, <1>4, Zenon DEF Makes

\* An entry is not both.
LEMMA OneKind ==
  ASSUME NEW x
  PROVE  /\ IsResponse(x) => x.state.kind = "response" /\ ~ IsControl(x)
         /\ IsControl(x) => x.state.kind = "uni" /\ ~ IsResponse(x)
  <1>1. IsResponse(x) => x.state.kind = "response"
    BY ConnFields, RespFields DEF IsResponse
  <1>2. IsControl(x) => x.state.kind = "uni"
    BY ConnFields, UniFields DEF IsControl
  <1> QED
    BY <1>1, <1>2, Zenon

\* So it is with any entry whose frames are read.
LEMMA TookFacts ==
  ASSUME NEW x, IsResponse(x) \/ IsControl(x), NEW t, NEW p
  PROVE  \E y : Like(x, y) /\ Makes(x, t, p, y)
  BY TookResponse, TookControl, OneKind, Zenon DEF Like

\* An entry whose frames are read is what it is with any bytes in its buffer.
LEMMA BufFacts ==
  ASSUME NEW x, IsResponse(x) \/ IsControl(x)
  PROVE  /\ x.state.buf \in Seq(Byte) /\ WithBuf(x, x.state.buf) = x
         /\ \A b \in Seq(Byte) :
              /\ WithBuf(x, b).state.buf = b /\ WithBuf(x, b).events = x.events
              /\ IsResponse(x) => IsResponse(WithBuf(x, b))
              /\ IsControl(x) => IsControl(WithBuf(x, b))
              /\ \A c : WithBuf(WithBuf(x, b), c) = WithBuf(x, c)
  <1>1. CASE IsResponse(x)
    <2>1. PICK a \in Seq(Byte) : \E st, bd, gd, fl, e : x = Conn(Resp(a, st, bd, gd, fl), e)
      BY <1>1, Zenon DEF IsResponse
    <2>2. PICK st, bd, gd, fl, e : x = Conn(Resp(a, st, bd, gd, fl), e)
      BY <2>1, Zenon
    <2>3. \A b : WithBuf(x, b) = Conn(Resp(b, st, bd, gd, fl), e)
      BY <2>2, WithBufFields
    <2>4. \A b : Conn(Resp(b, st, bd, gd, fl), e).state.buf = b /\ Conn(Resp(b, st, bd, gd, fl), e).events = e
      BY ConnFields, RespFields
    <2>5. x.state.buf = a /\ x.events = e
      BY <2>2, <2>4, Zenon
    <2>6. WithBuf(x, x.state.buf) = x
      BY <2>2, <2>3, <2>5, Zenon
    <2>7. ASSUME NEW b \in Seq(Byte)
          PROVE  /\ WithBuf(x, b).state.buf = b /\ WithBuf(x, b).events = x.events
                 /\ IsResponse(WithBuf(x, b)) /\ ~ IsControl(x)
                 /\ \A c : WithBuf(WithBuf(x, b), c) = WithBuf(x, c)
      <3>1. WithBuf(x, b).state.buf = b /\ WithBuf(x, b).events = x.events
        BY <2>3, <2>4, <2>5, Zenon
      <3>2. IsResponse(WithBuf(x, b))
        BY <2>3, Zenon DEF IsResponse
      <3>3. ~ IsControl(x)
        BY <1>1, OneKind, Zenon
      <3>4. \A c : WithBuf(WithBuf(x, b), c) = WithBuf(x, c)
        BY <2>3, WithBufFields
      <3> QED  BY <3>1, <3>2, <3>3, <3>4, Zenon
    <2> QED  BY <2>5, <2>6, <2>7, Zenon
  <1>2. CASE IsControl(x)
    <2>1. PICK a \in Seq(Byte) : \E e : x = Conn(ServerUni(CONTROL, a), e)
      BY <1>2, Zenon DEF IsControl
    <2>2. PICK e : x = Conn(ServerUni(CONTROL, a), e)
      BY <2>1, Zenon
    <2>3. \A b : WithBuf(x, b) = Conn(ServerUni(CONTROL, b), e)
      BY <2>2, WithBufFields
    <2>4. \A b : Conn(ServerUni(CONTROL, b), e).state.buf = b /\ Conn(ServerUni(CONTROL, b), e).events = e
      BY ConnFields, UniFields
    <2>5. x.state.buf = a /\ x.events = e
      BY <2>2, <2>4, Zenon
    <2>6. WithBuf(x, x.state.buf) = x
      BY <2>2, <2>3, <2>5, Zenon
    <2>7. ASSUME NEW b \in Seq(Byte)
          PROVE  /\ WithBuf(x, b).state.buf = b /\ WithBuf(x, b).events = x.events
                 /\ IsControl(WithBuf(x, b)) /\ ~ IsResponse(x)
                 /\ \A c : WithBuf(WithBuf(x, b), c) = WithBuf(x, c)
      <3>1. WithBuf(x, b).state.buf = b /\ WithBuf(x, b).events = x.events
        BY <2>3, <2>4, <2>5, Zenon
      <3>2. IsControl(WithBuf(x, b))
        BY <2>3, Zenon DEF IsControl
      <3>3. ~ IsResponse(x)
        BY <1>2, OneKind, Zenon
      <3>4. \A c : WithBuf(WithBuf(x, b), c) = WithBuf(x, c)
        BY <2>3, WithBufFields
      <3> QED  BY <3>1, <3>2, <3>3, <3>4, Zenon
    <2> QED  BY <2>5, <2>6, <2>7, Zenon
  <1> QED
    BY <1>1, <1>2, Zenon

-----------------------------------------------------------------------------
(* The loop over the frames. *)

\* An iteration keeps the entry one whose frames are read, and takes bytes from
\* its buffer if it does anything; with more bytes behind, it does the same.
\* No frame of a response makes an event.
LEMMA StepFacts ==
  ASSUME NEW x, IsResponse(x) \/ IsControl(x)
  PROVE  /\ Like(x, Step(x))
         /\ next_frame(x.state.buf) = None => Step(x) = x
         /\ next_frame(x.state.buf) # None => Len(Step(x).state.buf) < Len(x.state.buf)
         /\ next_frame(x.state.buf) # None =>
              \A c \in Seq(Byte) : Step(More(x, c)) = More(Step(x), c)
  <1> DEFINE b == x.state.buf
  <1>1. b \in Seq(Byte) /\ WithBuf(x, b) = x
    BY BufFacts, Zenon
  <1>2. CASE next_frame(b) = None
    BY <1>2, Zenon DEF Step, Like
  <1>3. CASE next_frame(b) # None
    <2> DEFINE f == next_frame(b)
    <2>1. /\ f \in [ty : Nat, payload : Seq(Byte), rest : Seq(Byte)] /\ Len(f.rest) < Len(b)
          /\ \A c \in Seq(Byte) : next_frame(b \o c) = With(f, c)
      <3> HIDE DEF b
      <3> QED  BY <1>1, <1>3, FramePrefix, Zenon
    <2>2. f = AFrame(f.ty, f.payload, f.rest) /\ f.rest \in Seq(Byte)
      <3> HIDE DEF f
      <3> QED  BY <2>1, Zenon DEF AFrame
    <2>3. PICK y : Like(x, y) /\ Makes(x, f.ty, f.payload, y)
      <3> DEFINE t == f.ty
                 p == f.payload
      <3> HIDE DEF t, p
      <3>1. \E y : Like(x, y) /\ Makes(x, t, p, y)
        BY TookFacts, Zenon
      <3> QED  BY <3>1, Zenon DEF t, p
    <2>4. Step(x) = Took(x, f)
      BY <1>3, Zenon DEF Step
    <2> HIDE DEF b, f
    <2>5. Step(x) = WithBuf(y, f.rest)
      <3>1. Took(WithBuf(x, b), AFrame(f.ty, f.payload, f.rest)) = WithBuf(y, f.rest)
        BY <2>3, Zenon DEF Makes
      <3> QED  BY <1>1, <2>2, <2>4, <3>1, Zenon
    <2>6. /\ WithBuf(y, f.rest).state.buf = f.rest /\ WithBuf(y, f.rest).events = y.events
          /\ IsResponse(y) => IsResponse(WithBuf(y, f.rest))
          /\ IsControl(y) => IsControl(WithBuf(y, f.rest))
          /\ \A c : WithBuf(WithBuf(y, f.rest), c) = WithBuf(y, c)
      BY <2>2, <2>3, BufFacts, Zenon DEF Like
    <2>7. ASSUME NEW c \in Seq(Byte) PROVE Step(More(x, c)) = More(Step(x), c)
      <3>1. b \o c \in Seq(Byte) /\ f.rest \o c \in Seq(Byte)
        BY <1>1, <2>2
      <3>2. More(x, c) = WithBuf(x, b \o c)
        BY Zenon DEF More, b
      <3>3. More(x, c).state.buf = b \o c
        <4>1. \A d \in Seq(Byte) : WithBuf(x, d).state.buf = d
          BY BufFacts, Zenon
        <4> QED  BY <3>1, <3>2, <4>1, Zenon
      <3>4. next_frame(b \o c) = AFrame(f.ty, f.payload, f.rest \o c)
        BY <2>1, Zenon DEF With, AFrame
      <3>5. next_frame(b \o c) # None
        <4>1. f.ty \in Nat /\ f.payload \in Seq(Byte)
          BY <2>1, Zenon
        <4>2. AFrame(f.ty, f.payload, f.rest \o c) \in [ty : Nat, payload : Seq(Byte), rest : Seq(Byte)]
          BY <3>1, <4>1, Zenon DEF AFrame
        <4> QED  BY <3>4, <4>2, NoneAssumption, Zenon
      <3>6. Step(More(x, c)) = Took(WithBuf(x, b \o c), AFrame(f.ty, f.payload, f.rest \o c))
        BY <3>2, <3>3, <3>4, <3>5, Zenon DEF Step
      <3>7. Step(More(x, c)) = WithBuf(y, f.rest \o c)
        BY <2>3, <3>6, Zenon DEF Makes
      <3>8. More(Step(x), c) = WithBuf(y, f.rest \o c)
        BY <2>5, <2>6, Zenon DEF More
      <3> QED  BY <3>7, <3>8, Zenon
    <2>8. Len(Step(x).state.buf) < Len(b)
      BY <2>1, <2>5, <2>6, Zenon
    <2>9. next_frame(b) # None
      BY <1>3, Zenon
    <2>10. Like(x, Step(x))
      BY <2>3, <2>5, <2>6, Zenon DEF Like
    <2> QED  BY <2>7, <2>8, <2>9, <2>10, Zenon DEF b
  <1> QED
    BY <1>2, <1>3, Zenon

\* The rounds of the loop, up to the n-th.
IsRounds(x, n, r) == r = [k \in 0..n |-> IF k = 0 THEN x ELSE Step(r[k - 1])]

\* They exist.
LEMMA RoundsExist == \A x : \A N \in Nat : \E r : IsRounds(x, N, r)
  <1> SUFFICES ASSUME NEW x, NEW N \in Nat PROVE \E r : IsRounds(x, N, r)
    BY Zenon
  <1> DEFINE S == {n \in 0..N : \E r : IsRounds(x, n, r)}
  <1>1. 0 \in S
    <2> DEFINE r == [k \in 0..0 |-> x]
    <2>1. r = [k \in 0..0 |-> IF k = 0 THEN x ELSE Step(r[k - 1])]
      OBVIOUS
    <2> HIDE DEF r
    <2>2. IsRounds(x, 0, r)
      BY <2>1, Zenon DEF IsRounds
    <2> QED  BY <2>2
  <1>2. ASSUME NEW n \in 0..(N - 1), n \in S PROVE n + 1 \in S
    <2>1. PICK r : IsRounds(x, n, r)
      BY <1>2, Zenon
    <2> DEFINE next == Step(r[n])
               w == [k \in 0..(n + 1) |-> IF k = n + 1 THEN next ELSE r[k]]
    <2>2. ASSUME NEW k \in 0..(n + 1) PROVE w[k] = IF k = 0 THEN x ELSE Step(w[k - 1])
      <3>1. w[k] = IF k = n + 1 THEN next ELSE r[k]
        BY Zenon
      <3>2. k # n + 1 => k \in 0..n /\ r[k] = IF k = 0 THEN x ELSE Step(r[k - 1])
        BY <2>1 DEF IsRounds
      <3>3. k # 0 => k - 1 \in 0..(n + 1) /\ w[k - 1] = r[k - 1]
        <4> HIDE DEF next
        <4> QED  OBVIOUS
      <3>4. k = n + 1 => k # 0 /\ k - 1 = n
        OBVIOUS
      <3> HIDE DEF w
      <3> QED  BY <3>1, <3>2, <3>3, <3>4, Zenon
    <2>3. w = [k \in 0..(n + 1) |-> w[k]]
      <3> HIDE DEF next
      <3> QED  BY Zenon
    <2>4. IsRounds(x, n + 1, w)
      <3> HIDE DEF w
      <3> QED  BY <2>2, <2>3, Zenon DEF IsRounds
    <2> QED  BY <2>4
  <1>3. N \in S
    <2> HIDE DEF S
    <2> QED  BY <1>1, <1>2, UpTo
  <1> QED
    BY <1>3, Zenon

\* Round by round.
LEMMA RoundsStep ==
  ASSUME NEW x, NEW N \in Nat, NEW r, IsRounds(x, N, r)
  PROVE  r[0] = x /\ \A k \in 0..(N - 1) : r[k + 1] = Step(r[k])
  <1>1. 0 \in 0..N /\ \A k \in 0..(N - 1) : k + 1 \in 0..N /\ k + 1 # 0 /\ (k + 1) - 1 = k
    OBVIOUS
  <1>2. \A k \in 0..N : r[k] = IF k = 0 THEN x ELSE Step(r[k - 1])
    BY Zenon DEF IsRounds
  <1> QED
    BY <1>1, <1>2, Zenon

\* What the loop returns.
LEMMA ParsedIsLast ==
  ASSUME NEW x, x.state.buf \in Seq(Byte)
  PROVE  \E r : IsRounds(x, Len(x.state.buf), r) /\ Parsed(x) = r[Len(x.state.buf)]
  <1> DEFINE N == Len(x.state.buf)
             r == CHOOSE r : IsRounds(x, N, r)
  <1>1. N \in Nat
    OBVIOUS
  <1>2. Parsed(x) = r[N]
    BY Zenon DEF Parsed, IsRounds
  <1> HIDE DEF N
  <1>3. IsRounds(x, N, r)
    BY <1>1, RoundsExist, Zenon
  <1> HIDE DEF r
  <1> QED
    BY <1>2, <1>3, Zenon DEF N

Stuck(x) == next_frame(x.state.buf) = None

\* Every round's entry is like the first, and there are rounds enough: after as
\* many as there are bytes no frame is left.
LEMMA RoundsFacts ==
  ASSUME NEW x, IsResponse(x) \/ IsControl(x), NEW N \in Nat, NEW r, IsRounds(x, N, r)
  PROVE  /\ \A k \in 0..N : Like(x, r[k])
         /\ Len(x.state.buf) <= N => Stuck(r[N])
  <1>1. r[0] = x /\ \A k \in 0..(N - 1) : r[k + 1] = Step(r[k])
    BY RoundsStep
  <1> DEFINE S == {k \in 0..N : Like(x, r[k])}
  <1>2. \A k \in 0..N : k \in S
    <2>1. 0 \in S
      BY <1>1 DEF Like
    <2>2. ASSUME NEW k \in 0..(N - 1), k \in S PROVE k + 1 \in S
      <3>1. Like(x, r[k]) /\ (IsResponse(r[k]) \/ IsControl(r[k]))
        BY <2>2, Zenon DEF Like
      <3>2. Like(r[k], Step(r[k]))
        BY <3>1, StepFacts, Zenon
      <3>3. Like(x, Step(r[k]))
        BY <3>1, <3>2, Zenon DEF Like
      <3> QED  BY <1>1, <3>3
    <2> HIDE DEF S
    <2> QED  BY <2>1, <2>2, UpTo
  <1>3. \A k \in 0..N : Like(x, r[k])
    BY <1>2, Zenon
  <1> DEFINE L == Len(x.state.buf)
             G == {k \in 0..N : Stuck(r[k]) \/ Len(r[k].state.buf) <= L - k}
  <1>4. \A k \in 0..N : (IsResponse(r[k]) \/ IsControl(r[k])) /\ r[k].state.buf \in Seq(Byte)
    BY <1>3, BufFacts, Zenon DEF Like
  <1>5. \A k \in 0..N : Len(r[k].state.buf) \in Nat
    BY <1>4
  <1>6. L \in Nat
    <2>1. 0 \in 0..N
      OBVIOUS
    <2> QED  BY <1>1, <1>5, <2>1, Zenon
  <1>7. \A k \in 0..N : k \in G
    <2>1. 0 \in G
      BY <1>1, <1>6
    <2>2. ASSUME NEW k \in 0..(N - 1), k \in G PROVE k + 1 \in G
      <3>1. k \in 0..N /\ k + 1 \in 0..N /\ r[k + 1] = Step(r[k])
        BY <1>1
      <3>2. CASE Stuck(r[k])
        <4>1. Step(r[k]) = r[k]
          BY <1>4, <3>1, <3>2, StepFacts, Zenon DEF Stuck
        <4> QED  BY <3>1, <3>2, <4>1
      <3>3. CASE ~ Stuck(r[k])
        <4>1. Len(r[k].state.buf) <= L - k
          BY <2>2, <3>3, Zenon
        <4>2. Len(Step(r[k]).state.buf) < Len(r[k].state.buf)
          BY <1>4, <3>1, <3>3, StepFacts, Zenon DEF Stuck
        <4>3. Len(r[k].state.buf) \in Nat /\ Len(Step(r[k]).state.buf) \in Nat
          BY <1>5, <3>1, Zenon
        <4>4. Len(Step(r[k]).state.buf) <= L - (k + 1)
          <5>1. \A p, q, l \in Nat : p < q /\ q <= l - k => p <= l - (k + 1)
            OBVIOUS
          <5> HIDE DEF L
          <5> QED  BY <1>6, <4>1, <4>2, <4>3, <5>1, Zenon
        <4> QED  BY <3>1, <4>4, Zenon
      <3> QED  BY <3>2, <3>3, Zenon
    <2> HIDE DEF G
    <2> QED  BY <2>1, <2>2, UpTo, Zenon
  <1>8. ASSUME L <= N PROVE Stuck(r[N])
    <2>1. N \in 0..N
      OBVIOUS
    <2>2. Stuck(r[N]) \/ Len(r[N].state.buf) <= L - N
      BY <1>7, <2>1, Zenon
    <2>3. Len(r[N].state.buf) <= L - N => r[N].state.buf = <<>>
      <3>1. r[N].state.buf \in Seq(Byte)
        BY <1>4, <2>1, Zenon
      <3> QED  BY <1>6, <1>8, <3>1
    <2>4. r[N].state.buf = <<>> => Stuck(r[N])
      BY Zenon DEF Stuck, next_frame, varint_decode
    <2> QED  BY <2>2, <2>3, <2>4, Zenon
  <1> QED
    BY <1>3, <1>8, Zenon

\* The loop gets as far from the second round on as from the first.
LEMMA ParsedStep ==
  ASSUME NEW x, IsResponse(x) \/ IsControl(x)
  PROVE  Parsed(Step(x)) = Parsed(x)
  <1>1. CASE Stuck(x)
    BY <1>1, StepFacts, Zenon DEF Stuck
  <1>2. CASE ~ Stuck(x)
    <2> DEFINE y == Step(x)
               N == Len(x.state.buf)
               M == Len(y.state.buf)
    <2>1. Like(x, y) /\ M < N
      BY <1>2, StepFacts, Zenon DEF Stuck
    <2>2. IsResponse(y) \/ IsControl(y)
      BY <2>1, Zenon DEF Like
    <2>3. x.state.buf \in Seq(Byte) /\ y.state.buf \in Seq(Byte)
      <3> HIDE DEF y
      <3> QED  BY <2>2, BufFacts, Zenon
    <2>4. N \in Nat /\ M \in Nat
      <3> HIDE DEF y
      <3> QED  BY <2>3
    <2>5. PICK r : IsRounds(x, N, r) /\ Parsed(x) = r[N]
      BY <2>3, ParsedIsLast, Zenon
    <2>6. PICK g : IsRounds(y, M, g) /\ Parsed(y) = g[M]
      <3> HIDE DEF y
      <3> QED  BY <2>3, ParsedIsLast, Zenon
    <2>7. Stuck(g[M]) /\ Like(y, g[M])
      <3>1. M <= M /\ M \in 0..M
        <4> HIDE DEF M
        <4> QED  BY <2>4
      <3> HIDE DEF y
      <3> QED  BY <2>2, <2>4, <2>6, <3>1, RoundsFacts, Zenon
    <2> HIDE DEF N, M
    <2>8. r[0] = x /\ \A k \in 0..(N - 1) : r[k + 1] = Step(r[k])
      BY <2>4, <2>5, RoundsStep
    <2>9. g[0] = y /\ \A k \in 0..(M - 1) : g[k + 1] = Step(g[k])
      <3> HIDE DEF y
      <3> QED  BY <2>4, <2>6, RoundsStep
    <2>10. \A k \in 0..M : r[k + 1] = g[k]
      <3> DEFINE S == {k \in 0..M : r[k + 1] = g[k]}
      <3>1. 0 \in S
        <4>1. 0 \in 0..(N - 1) /\ 0 \in 0..M /\ 0 + 1 = 1
          BY <2>1, <2>4
        <4>2. r[0 + 1] = g[0]
          BY <2>8, <2>9, <4>1, Zenon
        <4> QED  BY <4>1, <4>2, Zenon
      <3>2. ASSUME NEW k \in 0..(M - 1), k \in S PROVE k + 1 \in S
        <4>1. k + 1 \in 0..(N - 1) /\ k + 1 \in 0..M
          BY <2>1, <2>4
        <4>2. r[(k + 1) + 1] = g[k + 1]
          BY <2>8, <2>9, <3>2, <4>1
        <4> QED  BY <4>1, <4>2, Zenon
      <3>3. \A k \in 0..M : k \in S
        <4> HIDE DEF S
        <4> QED  BY <2>4, <3>1, <3>2, UpTo
      <3> QED  BY <3>3, Zenon
    <2> DEFINE D == N - M - 1
    <2>11. D \in Nat /\ M + 1 + D = N
      BY <2>1, <2>4
    <2>12. Step(g[M]) = g[M]
      <3>1. IsResponse(g[M]) \/ IsControl(g[M])
        BY <2>2, <2>7, Zenon DEF Like
      <3> QED  BY <2>7, <3>1, StepFacts, Zenon DEF Stuck
    <2> HIDE DEF D
    <2>13. \A j \in 0..D : r[M + 1 + j] = g[M]
      <3> DEFINE S == {j \in 0..D : r[M + 1 + j] = g[M]}
      <3>1. 0 \in S
        BY <2>4, <2>10, <2>11
      <3>2. ASSUME NEW j \in 0..(D - 1), j \in S PROVE j + 1 \in S
        <4>1. M + 1 + j \in 0..(N - 1) /\ (M + 1 + j) + 1 = M + 1 + (j + 1) /\ j + 1 \in 0..D
          BY <2>4, <2>11
        <4>2. r[(M + 1 + j) + 1] = Step(r[M + 1 + j])
          BY <2>8, <4>1, Zenon
        <4>3. r[M + 1 + j] = g[M]
          BY <3>2, Zenon
        <4>4. r[M + 1 + (j + 1)] = g[M]
          BY <2>12, <4>1, <4>2, <4>3, Zenon
        <4> QED  BY <4>1, <4>4, Zenon
      <3>3. \A j \in 0..D : j \in S
        <4> HIDE DEF S
        <4> QED  BY <2>11, <3>1, <3>2, UpTo, Zenon
      <3> QED  BY <3>3, Zenon
    <2>14. r[N] = g[M]
      <3>1. D \in 0..D
        BY <2>11
      <3> QED  BY <2>11, <2>13, <3>1, Zenon
    <2> QED  BY <2>5, <2>6, <2>14, Zenon
  <1> QED
    BY <1>1, <1>2, Zenon

\* The heart of it: a chunk fed after the loop is as good as fed before it.
LEMMA ParsedMore ==
  ASSUME NEW x, IsResponse(x) \/ IsControl(x), NEW c \in Seq(Byte)
  PROVE  Like(x, Parsed(x)) /\ Parsed(More(Parsed(x), c)) = Parsed(More(x, c))
  <1> DEFINE N == Len(x.state.buf)
  <1>1. x.state.buf \in Seq(Byte)
    BY BufFacts, Zenon
  <1>2. N \in Nat
    BY <1>1
  <1>3. PICK r : IsRounds(x, N, r) /\ Parsed(x) = r[N]
    BY <1>1, ParsedIsLast, Zenon
  <1> HIDE DEF N
  <1>4. r[0] = x /\ \A k \in 0..(N - 1) : r[k + 1] = Step(r[k])
    BY <1>2, <1>3, RoundsStep
  <1>5. \A k \in 0..N : Like(x, r[k])
    BY <1>2, <1>3, RoundsFacts, Zenon
  <1> DEFINE S == {k \in 0..N : Parsed(More(r[k], c)) = Parsed(More(x, c))}
  <1>6. 0 \in S
    BY <1>2, <1>4
  <1>7. ASSUME NEW k \in 0..(N - 1), k \in S PROVE k + 1 \in S
    <2>1. k \in 0..N /\ k + 1 \in 0..N /\ r[k + 1] = Step(r[k])
      BY <1>2, <1>4
    <2>2. IsResponse(r[k]) \/ IsControl(r[k])
      BY <1>5, <2>1, Zenon DEF Like
    <2>3. Parsed(More(Step(r[k]), c)) = Parsed(More(r[k], c))
      <3>1. CASE Stuck(r[k])
        BY <2>2, <3>1, StepFacts, Zenon DEF Stuck
      <3>2. CASE ~ Stuck(r[k])
        <4>1. Step(More(r[k], c)) = More(Step(r[k]), c)
          BY <2>2, <3>2, StepFacts, Zenon DEF Stuck
        <4>2. IsResponse(More(r[k], c)) \/ IsControl(More(r[k], c))
          <5> DEFINE z == r[k]
          <5> HIDE DEF z
          <5>1. IsResponse(z) \/ IsControl(z)
            BY <2>2, Zenon DEF z
          <5>2. z.state.buf \in Seq(Byte)
            BY <5>1, BufFacts, Zenon
          <5>3. z.state.buf \o c \in Seq(Byte)
            BY <5>2
          <5>4. IsResponse(More(z, c)) \/ IsControl(More(z, c))
            BY <5>1, <5>3, BufFacts, Zenon DEF More
          <5> QED  BY <5>4, Zenon DEF z
        <4>3. Parsed(Step(More(r[k], c))) = Parsed(More(r[k], c))
          BY <4>2, ParsedStep, Zenon
        <4> QED  BY <4>1, <4>3, Zenon
      <3> QED  BY <3>1, <3>2, Zenon
    <2> QED  BY <1>7, <2>1, <2>3, Zenon
  <1>8. \A k \in 0..N : k \in S
    <2> HIDE DEF S
    <2> QED  BY <1>2, <1>6, <1>7, UpTo
  <1>9. N \in 0..N
    BY <1>2
  <1> QED
    BY <1>3, <1>5, <1>8, <1>9, Zenon
-----------------------------------------------------------------------------
(* feed, chunk by chunk. *)

\* A chunk of a response or of a control stream goes behind what is buffered,
\* and the loop runs.
LEMMA FedBuffered ==
  ASSUME NEW x, IsResponse(x) \/ IsControl(x), NEW c \in Seq(Byte)
  PROVE  Fed(x, c) = Parsed(More(x, c))
  <1>1. CASE IsResponse(x)
    <2>1. PICK a \in Seq(Byte) : \E st, bd, gd, fl, e : x = Conn(Resp(a, st, bd, gd, fl), e)
      BY <1>1, Zenon DEF IsResponse
    <2>2. PICK st, bd, gd, fl, e : x = Conn(Resp(a, st, bd, gd, fl), e)
      BY <2>1, Zenon
    <2>3. x.state = Resp(a, st, bd, gd, fl) /\ x.events = e
      BY <2>2, ConnFields, Zenon
    <2>4. x.state.kind = "response" /\ x.state.kind # "uni" /\ x.state.kind # "sink" /\ x.state.buf = a
      BY <2>3, RespFields
    <2>5. Received(x.state, c) = Resp(a \o c, st, bd, gd, fl)
      <3>1. Received(x.state, c) = [x.state EXCEPT !.buf = x.state.buf \o c]
        BY <2>4, Zenon DEF Received, Buffered
      <3>2. [Resp(a, st, bd, gd, fl) EXCEPT !.buf = a \o c] = Resp(a \o c, st, bd, gd, fl)
        <4>1. ASSUME NEW v PROVE [Resp(a, st, bd, gd, fl) EXCEPT !.buf = v] = Resp(v, st, bd, gd, fl)
          BY DEF Resp
        <4> QED  BY <4>1, Zenon
      <3> QED  BY <2>3, <2>4, <3>1, <3>2, Zenon
    <2>6. More(x, c) = Conn(Resp(a \o c, st, bd, gd, fl), e)
      <3>1. More(x, c) = WithBuf(x, a \o c)
        BY <2>4, Zenon DEF More
      <3> QED  BY <2>2, <3>1, WithBufFields
    <2>7. [state |-> Received(x.state, c), events |-> x.events] = More(x, c)
      BY <2>3, <2>5, <2>6, Zenon DEF Conn
    <2>8. HasFrames(Received(x.state, c))
      <3>1. Received(x.state, c).kind = "response"
        BY <2>5, RespFields
      <3> QED  BY <3>1, Zenon DEF HasFrames
    <2> QED  BY <2>7, <2>8, Zenon DEF Fed
  <1>2. CASE IsControl(x)
    <2>1. PICK a \in Seq(Byte) : \E e : x = Conn(ServerUni(CONTROL, a), e)
      BY <1>2, Zenon DEF IsControl
    <2>2. PICK e : x = Conn(ServerUni(CONTROL, a), e)
      BY <2>1, Zenon
    <2>3. x.state = ServerUni(CONTROL, a) /\ x.events = e
      BY <2>2, ConnFields, Zenon
    <2>4. /\ x.state.kind = "uni" /\ x.state.kind # "response" /\ x.state.kind # "sink"
          /\ x.state.buf = a /\ x.state.ty = CONTROL
      BY <2>3, UniFields
    <2>5. CONTROL # None
      BY NoneAssumption DEF CONTROL
    <2>6. Received(x.state, c) = ServerUni(CONTROL, a \o c)
      <3>1. Received(x.state, c) = FeedServerUni(x.state, c)
        BY <2>4, Zenon DEF Received
      <3> QED  BY <2>4, <2>5, <3>1, Zenon DEF FeedServerUni, Buffered
    <2>7. More(x, c) = Conn(ServerUni(CONTROL, a \o c), e)
      <3>1. More(x, c) = WithBuf(x, a \o c)
        BY <2>4, Zenon DEF More
      <3> QED  BY <2>2, <3>1, WithBufFields
    <2>8. [state |-> Received(x.state, c), events |-> x.events] = More(x, c)
      BY <2>3, <2>6, <2>7, Zenon DEF Conn
    <2>9. HasFrames(Received(x.state, c))
      <3>1. Received(x.state, c).kind = "uni" /\ Received(x.state, c).ty = CONTROL
        BY <2>6, UniFields
      <3> QED  BY <3>1, Zenon DEF HasFrames
    <2> QED  BY <2>8, <2>9, Zenon DEF Fed
  <1> QED
    BY <1>1, <1>2, Zenon

\* Two chunks in the buffer are their concatenation.
LEMMA MoreMore ==
  ASSUME NEW x, IsResponse(x) \/ IsControl(x), NEW b \in Seq(Byte), NEW c \in Seq(Byte)
  PROVE  /\ More(More(x, b), c) = More(x, b \o c)
         /\ Like(x, More(x, b))
  <1> DEFINE a == x.state.buf
  <1>1. a \in Seq(Byte)
    BY BufFacts, Zenon
  <1> HIDE DEF a
  <1>2. a \o b \in Seq(Byte) /\ (a \o b) \o c = a \o (b \o c)
    BY <1>1
  <1>3. More(x, b) = WithBuf(x, a \o b) /\ More(x, b \o c) = WithBuf(x, a \o (b \o c))
    BY Zenon DEF More, a
  <1>4. /\ WithBuf(x, a \o b).state.buf = a \o b /\ WithBuf(x, a \o b).events = x.events
        /\ IsResponse(x) => IsResponse(WithBuf(x, a \o b))
        /\ IsControl(x) => IsControl(WithBuf(x, a \o b))
        /\ WithBuf(WithBuf(x, a \o b), (a \o b) \o c) = WithBuf(x, (a \o b) \o c)
    <2> DEFINE d == a \o b
    <2> HIDE DEF d
    <2>1. d \in Seq(Byte)
      BY <1>2, Zenon DEF d
    <2>2. /\ WithBuf(x, d).state.buf = d /\ WithBuf(x, d).events = x.events
          /\ IsResponse(x) => IsResponse(WithBuf(x, d))
          /\ IsControl(x) => IsControl(WithBuf(x, d))
          /\ \A f : WithBuf(WithBuf(x, d), f) = WithBuf(x, f)
      BY <2>1, BufFacts, Zenon
    <2> QED  BY <2>2, Zenon DEF d
  <1>5. More(More(x, b), c) = WithBuf(WithBuf(x, a \o b), (a \o b) \o c)
    BY <1>3, <1>4, Zenon DEF More
  <1> QED
    BY <1>2, <1>3, <1>4, <1>5, Zenon DEF Like

\* A chunk fed behind others is as good as fed with them.
LEMMA ChunkBehind ==
  ASSUME NEW x, IsResponse(x) \/ IsControl(x), NEW b \in Seq(Byte), NEW c \in Seq(Byte)
  PROVE  /\ Like(x, Parsed(More(x, b)))
         /\ Fed(Parsed(More(x, b)), c) = Parsed(More(x, b \o c))
  <1> DEFINE y == More(x, b)
  <1>1. Like(x, y) /\ More(y, c) = More(x, b \o c)
    BY MoreMore, Zenon
  <1> HIDE DEF y
  <1>2. IsResponse(y) \/ IsControl(y)
    BY <1>1, Zenon DEF Like
  <1>3. Like(y, Parsed(y)) /\ Parsed(More(Parsed(y), c)) = Parsed(More(y, c))
    BY <1>2, ParsedMore, Zenon
  <1>4. Like(x, Parsed(y)) /\ (IsResponse(Parsed(y)) \/ IsControl(Parsed(y)))
    BY <1>1, <1>2, <1>3, Zenon DEF Like
  <1>5. Fed(Parsed(y), c) = Parsed(More(Parsed(y), c))
    BY <1>4, FedBuffered, Zenon
  <1> QED
    BY <1>1, <1>3, <1>4, <1>5, Zenon DEF y

\* A request's bytes may be cut anywhere; no chunk makes an event.
LEMMA RequestChunks ==
  ASSUME NEW b \in Seq(Byte), NEW c \in Seq(Byte)
  PROVE  /\ Fed(AtOnce("request", b), c) = AtOnce("request", b \o c)
         /\ IsResponse(AtOnce("request", b)) /\ AtOnce("request", b).events = <<>>
  <1> DEFINE x == Conn(Fresh("request"), <<>>)
  <1>1. Fresh("request") = Resp(<<>>, None, <<>>, FALSE, FALSE) /\ <<>> \in Seq(Byte)
    BY DEF Fresh, Resp
  <1>2. IsResponse(x)
    BY <1>1, Zenon DEF IsResponse
  <1>3. x.events = <<>>
    BY ConnFields, Zenon
  <1>4. b \o c \in Seq(Byte)
    OBVIOUS
  <1>5. \A d : AtOnce("request", d) = Fed(x, d)
    BY Zenon DEF AtOnce, Conn
  <1> HIDE DEF x
  <1>6. AtOnce("request", b) = Parsed(More(x, b)) /\ AtOnce("request", b \o c) = Parsed(More(x, b \o c))
    BY <1>2, <1>4, <1>5, FedBuffered, Zenon
  <1>7. Like(x, Parsed(More(x, b))) /\ Fed(Parsed(More(x, b)), c) = Parsed(More(x, b \o c))
    BY <1>2, ChunkBehind, Zenon
  <1> QED
    BY <1>2, <1>3, <1>6, <1>7, Zenon DEF Like

\* What the first bytes of a server's stream make of it, if its type is in them.
LEMMA UniClassified ==
  ASSUME NEW b \in Seq(Byte), varint_decode(b) # None
  PROVE  /\ varint_decode(b).val # CONTROL => AtOnce("uni", b) = Conn(Sink, <<>>)
         /\ varint_decode(b).val = CONTROL =>
              AtOnce("uni", b) = Parsed(Conn(ServerUni(CONTROL, From(b, varint_decode(b).len + 1)), <<>>))
  <1> DEFINE here == varint_decode(b)
             rest == From(b, here.len + 1)
             x == Conn(Fresh("uni"), <<>>)
  <1>1. x.state = ServerUni(None, <<>>) /\ x.events = <<>>
    BY ConnFields, Zenon DEF Fresh
  <1>2. x.state.kind = "uni" /\ x.state.kind # "response" /\ x.state.kind # "sink" /\ x.state.ty = None /\ x.state.buf = <<>>
    <2>1. ServerUni(None, <<>>).kind = "uni" /\ ServerUni(None, <<>>).ty = None /\ ServerUni(None, <<>>).buf = <<>>
      BY UniFields, Zenon
    <2> HIDE DEF x
    <2> QED  BY <1>1, <2>1, Zenon
  <1>3. AtOnce("uni", b) = Fed(x, b)
    BY Zenon DEF AtOnce, Conn
  <1>4. rest \in Seq(Byte)
    <2>1. here.len \in 1..Len(b)
      BY VarintPrefix, Zenon
    <2>2. here.len + 1 \in 1..(Len(b) + 1) /\ <<>> \in Seq(Byte)
      <3> HIDE DEF here
      <3> QED  BY <2>1
    <2> HIDE DEF here
    <2> QED  BY <2>2, FromConcat, Zenon
  <1>5. <<>> \o rest = rest
    <2> HIDE DEF rest
    <2> QED  BY <1>4
  <1> HIDE DEF rest, x
  <1>6. Received(x.state, b) = Classified(here.val, rest)
    <2>1. Received(x.state, b) = FeedServerUni(x.state, b)
      BY <1>2, Zenon DEF Received
    <2>2. FeedServerUni(x.state, b) = Classified(here.val, x.state.buf \o rest)
      BY <1>2, Zenon DEF FeedServerUni, Buffered, rest
    <2> HIDE DEF here
    <2> QED  BY <1>2, <1>5, <2>1, <2>2, Zenon
  <1> HIDE DEF here
  <1>7. CASE here.val # CONTROL
    <2>1. Received(x.state, b) = Sink
      BY <1>6, <1>7, Zenon DEF Classified
    <2>2. ~ HasFrames(Sink)
      BY Zenon DEF HasFrames, Sink
    <2>3. Fed(x, b) = Conn(Sink, <<>>)
      BY <1>1, <2>1, <2>2, Zenon DEF Fed, Conn
    <2> QED  BY <1>3, <1>7, <2>3, Zenon DEF here
  <1>8. CASE here.val = CONTROL
    <2>1. Received(x.state, b) = ServerUni(CONTROL, rest)
      BY <1>6, <1>8, Zenon DEF Classified
    <2>2. HasFrames(ServerUni(CONTROL, rest))
      BY UniFields, Zenon DEF HasFrames
    <2>3. Fed(x, b) = Parsed(Conn(ServerUni(CONTROL, rest), <<>>))
      BY <1>1, <2>1, <2>2, Zenon DEF Fed, Conn
    <2> QED  BY <1>3, <1>8, <2>3, Zenon DEF here, rest
  <1> QED
    BY <1>7, <1>8, Zenon DEF here

\* So may those of a server's stream, behind its type.
LEMMA UniChunks ==
  ASSUME NEW b \in Seq(Byte), NEW c \in Seq(Byte), varint_decode(b) # None
  PROVE  Fed(AtOnce("uni", b), c) = AtOnce("uni", b \o c) /\ varint_decode(b \o c) # None
  <1> DEFINE here == varint_decode(b)
  <1>1. varint_decode(b \o c) = here /\ here.len \in 1..Len(b)
    BY VarintPrefix, Zenon
  <1>2. b \o c \in Seq(Byte) /\ varint_decode(b \o c) # None
    <2>1. b \o c \in Seq(Byte)
      OBVIOUS
    <2> QED  BY <1>1, <2>1, Zenon
  <1>3. CASE here.val # CONTROL
    <2>1. AtOnce("uni", b) = Conn(Sink, <<>>)
      BY <1>3, UniClassified, Zenon
    <2>2. AtOnce("uni", b \o c) = Conn(Sink, <<>>)
      <3> DEFINE d == b \o c
      <3> HIDE DEF d
      <3>1. d \in Seq(Byte) /\ varint_decode(d) # None /\ varint_decode(d).val # CONTROL
        BY <1>1, <1>2, <1>3, Zenon DEF d
      <3>2. AtOnce("uni", d) = Conn(Sink, <<>>)
        BY <3>1, UniClassified, Zenon
      <3> QED  BY <3>2, Zenon DEF d
    <2>3. Fed(Conn(Sink, <<>>), c) = Conn(Sink, <<>>)
      <3> DEFINE x == Conn(Sink, <<>>)
      <3>1. x.state = Sink /\ x.events = <<>>
        BY ConnFields, Zenon
      <3>2. ~ HasFrames(Sink)
        BY Zenon DEF HasFrames, Sink
      <3>3. Received(Sink, c) = Sink
        BY Zenon DEF Received, Sink
      <3> HIDE DEF x
      <3>4. Fed(x, c) = [state |-> Sink, events |-> <<>>]
        BY <3>1, <3>2, <3>3, Zenon DEF Fed
      <3> QED  BY <3>4, Zenon DEF x, Conn
    <2> QED  BY <1>2, <2>1, <2>2, <2>3, Zenon
  <1>4. CASE here.val = CONTROL
    <2> DEFINE rest == From(b, here.len + 1)
               x == Conn(ServerUni(CONTROL, <<>>), <<>>)
    <2>1. rest \in Seq(Byte) /\ From(b \o c, here.len + 1) = rest \o c /\ <<>> \in Seq(Byte)
      <3>1. here.len + 1 \in 1..(Len(b) + 1) /\ <<>> \in Seq(Byte)
        <4> HIDE DEF here
        <4> QED  BY <1>1
      <3> HIDE DEF here
      <3> QED  BY <3>1, FromConcat, Zenon
    <2>2. IsControl(x)
      BY <2>1, Zenon DEF IsControl
    <2> HIDE DEF rest
    <2>3. \A d \in Seq(Byte) : More(x, d) = Conn(ServerUni(CONTROL, d), <<>>)
      <3>1. x.state.buf = <<>>
        BY ConnFields, UniFields
      <3>2. \A d \in Seq(Byte) : <<>> \o d = d
        OBVIOUS
      <3>3. ASSUME NEW d \in Seq(Byte) PROVE More(x, d) = WithBuf(x, d)
        BY <3>1, <3>2, Zenon DEF More
      <3>4. \A d : WithBuf(x, d) = Conn(ServerUni(CONTROL, d), <<>>)
        BY WithBufFields
      <3> HIDE DEF x
      <3> QED  BY <3>3, <3>4, Zenon
    <2> HIDE DEF x
    <2>4. rest \o c \in Seq(Byte)
      BY <2>1
    <2>5. AtOnce("uni", b) = Parsed(More(x, rest))
      BY <1>4, <2>1, <2>3, UniClassified, Zenon DEF rest
    <2>6. AtOnce("uni", b \o c) = Parsed(More(x, rest \o c))
      <3> DEFINE d == b \o c
      <3> HIDE DEF d
      <3>1. d \in Seq(Byte) /\ varint_decode(d) # None /\ varint_decode(d) = here
        BY <1>1, <1>2, Zenon DEF d
      <3>2. AtOnce("uni", d) = Parsed(Conn(ServerUni(CONTROL, From(d, here.len + 1)), <<>>))
        BY <1>4, <3>1, UniClassified, Zenon
      <3> QED  BY <2>1, <2>3, <2>4, <3>2, Zenon DEF d
    <2>7. Fed(Parsed(More(x, rest)), c) = Parsed(More(x, rest \o c))
      BY <2>1, <2>2, ChunkBehind, Zenon
    <2> QED  BY <1>2, <2>5, <2>6, <2>7, Zenon
  <1> QED
    BY <1>3, <1>4, Zenon

\* The loop leaves an entry alone that has no frame.
LEMMA StuckParsed == \A x : x.state.buf \in Seq(Byte) /\ Stuck(x) => Parsed(x) = x
  <1>0. SUFFICES ASSUME NEW x, x.state.buf \in Seq(Byte) /\ Stuck(x) PROVE Parsed(x) = x
    BY Zenon
  <1> DEFINE N == Len(x.state.buf)
  <1>1. PICK r : IsRounds(x, N, r) /\ Parsed(x) = r[N]
    BY <1>0, ParsedIsLast, Zenon
  <1>2. N \in Nat
    BY <1>0
  <1>3. Step(x) = x
    BY <1>0, Zenon DEF Step, Stuck
  <1> HIDE DEF N
  <1>4. r[0] = x /\ \A k \in 0..(N - 1) : r[k + 1] = Step(r[k])
    BY <1>1, <1>2, RoundsStep
  <1> DEFINE S == {k \in 0..N : r[k] = x}
  <1>5. 0 \in S
    BY <1>2, <1>4
  <1>6. ASSUME NEW k \in 0..(N - 1), k \in S PROVE k + 1 \in S
    <2>1. r[k + 1] = x
      BY <1>3, <1>4, <1>6, Zenon
    <2>2. k + 1 \in 0..N
      BY <1>2
    <2> QED  BY <2>1, <2>2, Zenon
  <1>7. N \in S
    <2>1. \A k \in 0..N : k \in S
      <3> HIDE DEF S
      <3> QED  BY <1>2, <1>5, <1>6, UpTo, Zenon
    <2>2. N \in 0..N
      BY <1>2
    <2> QED  BY <2>1, <2>2, Zenon
  <1> QED
    BY <1>1, <1>7, Zenon

\* Without bytes there is no frame.
LEMMA NoFrame == next_frame(<<>>) = None
  <1>1. varint_decode(<<>>) = None
    BY Zenon DEF varint_decode
  <1> QED
    BY <1>1, Zenon DEF next_frame

\* Nor is there one in a part of a frame's bytes.
LEMMA PartOfFrame ==
  ASSUME NEW b \in Seq(Byte), NEW c \in Seq(Byte), c # <<>>,
         next_frame(b \o c) # None, next_frame(b \o c).rest = <<>>
  PROVE  next_frame(b) = None
  <1> SUFFICES ASSUME next_frame(b) # None PROVE FALSE
    BY Zenon
  <1> DEFINE rest == next_frame(b).rest
  <1>1. rest \in Seq(Byte)
    <2>1. next_frame(b) \in [ty : Nat, payload : Seq(Byte), rest : Seq(Byte)]
      BY FramePrefix, Zenon
    <2> QED  BY <2>1, Zenon
  <1>2. next_frame(b \o c) = With(next_frame(b), c)
    BY FramePrefix, Zenon
  <1>3. With(next_frame(b), c).rest = rest \o c
    BY Zenon DEF With
  <1>4. rest \o c = <<>>
    BY <1>2, <1>3, Zenon
  <1> HIDE DEF rest
  <1> QED
    BY <1>1, <1>4

\* A request stream as it is registered.
LEMMA NothingYet == AtOnce("request", <<>>) = Conn(Fresh("request"), <<>>)
  <1> DEFINE x == Conn(Fresh("request"), <<>>)
  <1>1. Fresh("request") = Resp(<<>>, None, <<>>, FALSE, FALSE) /\ <<>> \in Seq(Byte) /\ <<>> \o <<>> = <<>>
    BY DEF Fresh, Resp
  <1>2. IsResponse(x)
    BY <1>1, Zenon DEF IsResponse
  <1>3. AtOnce("request", <<>>) = Fed(x, <<>>)
    BY Zenon DEF AtOnce, Conn
  <1>4. x.state.buf = <<>>
    <2>1. x.state = Resp(<<>>, None, <<>>, FALSE, FALSE)
      <3>1. x.state = Fresh("request")
        BY ConnFields, Zenon
      <3> QED  BY <1>1, <3>1, Zenon
    <2>2. Resp(<<>>, None, <<>>, FALSE, FALSE).buf = <<>>
      BY Zenon DEF Resp
    <2> HIDE DEF x
    <2> QED  BY <2>1, <2>2, Zenon
  <1> HIDE DEF x
  <1>5. More(x, <<>>) = x
    <2>1. WithBuf(x, x.state.buf) = x
      BY <1>2, BufFacts, Zenon
    <2> QED  BY <1>1, <1>4, <2>1, Zenon DEF More
  <1>6. Parsed(x) = x
    <2>1. Stuck(x) /\ x.state.buf \in Seq(Byte)
      BY <1>1, <1>4, NoFrame, Zenon DEF Stuck
    <2> QED  BY <2>1, StuckParsed, Zenon
  <1> QED
    BY <1>1, <1>2, <1>3, <1>5, <1>6, FedBuffered, Zenon DEF x

\* What feed returns is an entry with events.
LEMMA IsConn ==
  /\ \A x : IsResponse(x) \/ IsControl(x) => x = Conn(x.state, x.events)
  /\ \A b \in Seq(Byte) : AtOnce("request", b) = Conn(AtOnce("request", b).state, AtOnce("request", b).events)
  /\ \A b \in Seq(Byte) : varint_decode(b) # None =>
       AtOnce("uni", b) = Conn(AtOnce("uni", b).state, AtOnce("uni", b).events)
  <1>1. \A s, e : Conn(s, e) = Conn(Conn(s, e).state, Conn(s, e).events)
    BY ConnFields, Zenon
  <1>2. ASSUME NEW x, IsResponse(x) \/ IsControl(x) PROVE x = Conn(x.state, x.events)
    <2>1. \E s, e : x = Conn(s, e)
      BY <1>2, Zenon DEF IsResponse, IsControl
    <2> QED  BY <1>1, <2>1, Zenon
  <1>3. ASSUME NEW b \in Seq(Byte)
        PROVE  AtOnce("request", b) = Conn(AtOnce("request", b).state, AtOnce("request", b).events)
    <2>1. <<>> \in Seq(Byte)
      OBVIOUS
    <2>2. IsResponse(AtOnce("request", b))
      BY <2>1, RequestChunks, Zenon
    <2> QED  BY <1>2, <2>2, Zenon
  <1>4. ASSUME NEW b \in Seq(Byte), varint_decode(b) # None
        PROVE  AtOnce("uni", b) = Conn(AtOnce("uni", b).state, AtOnce("uni", b).events)
    <2>1. CASE varint_decode(b).val # CONTROL
      <3>1. AtOnce("uni", b) = Conn(Sink, <<>>)
        BY <1>4, <2>1, UniClassified, ZenonT(30)
      <3> QED  BY <1>1, <3>1, ZenonT(30)
    <2>2. CASE varint_decode(b).val = CONTROL
      <3> DEFINE rest == From(b, varint_decode(b).len + 1)
                 x == Conn(ServerUni(CONTROL, rest), <<>>)
      <3>1. AtOnce("uni", b) = Parsed(x)
        BY <1>4, <2>2, UniClassified, Zenon
      <3>2. rest \in Seq(Byte) /\ <<>> \in Seq(Byte)
        <4> DEFINE n == varint_decode(b).len
        <4>1. n \in 1..Len(b)
          BY <1>4, VarintPrefix, Zenon
        <4> HIDE DEF n
        <4>2. n + 1 \in 1..(Len(b) + 1) /\ <<>> \in Seq(Byte)
          BY <4>1
        <4> QED  BY <4>2, FromConcat, Zenon DEF n
      <3> HIDE DEF rest
      <3>3. IsControl(x)
        BY <3>2, Zenon DEF IsControl
      <3> HIDE DEF x
      <3>4. IsControl(Parsed(x))
        BY <3>2, <3>3, ParsedMore, Zenon DEF Like
      <3> QED  BY <1>2, <3>1, <3>4, Zenon
    <2> QED  BY <2>1, <2>2, Zenon
  <1> QED
    BY <1>2, <1>3, <1>4, Zenon
-----------------------------------------------------------------------------
(* What the parts of a request are read as. *)

\* The data of the first i parts, from that of the parts before.
DataAt(s, d, i) ==
  IF i = 0 THEN <<>> ELSE IF s.parts[i].is = "data" THEN d[i - 1] \o s.parts[i].holds ELSE d[i - 1]
IsData(s, n, d) == d = [i \in 0..n |-> DataAt(s, d, i)]

\* Each entry depends on the one before it.
LEMMA DataAtLocal == \A s, d, e, i : (i # 0 => d[i - 1] = e[i - 1]) => DataAt(s, d, i) = DataAt(s, e, i)
  BY Zenon DEF DataAt

\* So there is such a sequence of entries.
LEMMA DataExists == \A s : \A N \in Nat : \E d : IsData(s, N, d)
  <1> SUFFICES ASSUME NEW s, NEW N \in Nat PROVE \E d : IsData(s, N, d)
    BY Zenon
  <1> DEFINE S == {n \in 0..N : \E d : IsData(s, n, d)}
  <1>1. 0 \in S
    <2> DEFINE d == [i \in 0..0 |-> <<>>]
    <2>1. \A i \in 0..0 : DataAt(s, d, i) = <<>>
      BY DEF DataAt
    <2>2. IsData(s, 0, d)
      BY <2>1, Zenon DEF IsData
    <2> QED  BY <2>2
  <1>2. ASSUME NEW n \in 0..(N - 1), n \in S PROVE n + 1 \in S
    <2>1. PICK d : IsData(s, n, d)
      BY <1>2, Zenon
    <2> DEFINE next == DataAt(s, d, n + 1)
               w == [i \in 0..(n + 1) |-> IF i = n + 1 THEN next ELSE d[i]]
    <2>2. ASSUME NEW i \in 0..(n + 1) PROVE w[i] = DataAt(s, w, i)
      <3>1. w[i] = IF i = n + 1 THEN next ELSE d[i]
        BY Zenon
      <3>2. i # n + 1 => d[i] = DataAt(s, d, i)
        <4>1. i # n + 1 => i \in 0..n
          OBVIOUS
        <4> QED  BY <2>1, <4>1, Zenon DEF IsData
      <3>3. i # 0 => w[i - 1] = d[i - 1]
        <4> HIDE DEF next
        <4> QED  OBVIOUS
      <3>4. DataAt(s, w, i) = DataAt(s, d, i)
        <4> HIDE DEF w
        <4> QED  BY <3>3, DataAtLocal, Zenon
      <3> HIDE DEF w
      <3> QED  BY <3>1, <3>2, <3>4, Zenon
    <2>3. w = [i \in 0..(n + 1) |-> w[i]]
      <3> HIDE DEF next
      <3> QED  BY Zenon
    <2>4. IsData(s, n + 1, w)
      <3> HIDE DEF w
      <3> QED  BY <2>2, <2>3, Zenon DEF IsData
    <2> QED  BY <2>4
  <1>3. N \in S
    <2> HIDE DEF S
    <2> QED  BY <1>1, <1>2, UpTo
  <1> QED
    BY <1>3, Zenon

\* The data in the first parts, part by part.
LEMMA DataSteps ==
  ASSUME NEW s, Len(s.parts) \in Nat
  PROVE  /\ DataOf(s, 0) = <<>>
         /\ \A i \in 0..(Len(s.parts) - 1) :
              DataOf(s, i + 1) = IF s.parts[i + 1].is = "data" THEN DataOf(s, i) \o s.parts[i + 1].holds
                                 ELSE DataOf(s, i)
  <1> DEFINE N == Len(s.parts)
             d == CHOOSE d : IsData(s, N, d)
  <1>1. \A i : DataOf(s, i) = d[i]
    BY Zenon DEF DataOf, IsData, DataAt
  <1>2. IsData(s, N, d)
    <2> HIDE DEF N
    <2>1. N \in Nat
      BY Zenon DEF N
    <2> QED  BY <2>1, DataExists, Zenon
  <1>3. 0 \in 0..N /\ \A i \in 0..(N - 1) : i + 1 \in 0..N /\ i + 1 # 0 /\ (i + 1) - 1 = i
    OBVIOUS
  <1> HIDE DEF d, N
  <1>4. \A i \in 0..N : d[i] = DataAt(s, d, i)
    BY <1>2, Zenon DEF IsData
  <1>5. d[0] = <<>>
    BY <1>3, <1>4, Zenon DEF DataAt
  <1>6. \A i \in 0..(N - 1) : d[i + 1] = IF s.parts[i + 1].is = "data" THEN d[i] \o s.parts[i + 1].holds ELSE d[i]
    BY <1>3, <1>4, Zenon DEF DataAt
  <1> QED
    BY <1>1, <1>5, <1>6, Zenon DEF N

\* The parts of a kind, and the last of them, part by part.
LEMMA PartsSteps ==
  ASSUME NEW s, NEW kind, NEW n \in Nat
  PROVE  /\ PartsOf(s, 0, kind) = {}
         /\ s.parts[n + 1].is # kind => PartsOf(s, n + 1, kind) = PartsOf(s, n, kind)
         /\ s.parts[n + 1].is = kind => /\ PartsOf(s, n + 1, kind) # {}
                                        /\ Max(PartsOf(s, n + 1, kind)) = n + 1
  <1>1. PartsOf(s, 0, kind) = {}
    BY DEF PartsOf
  <1>2. ASSUME s.parts[n + 1].is # kind PROVE PartsOf(s, n + 1, kind) = PartsOf(s, n, kind)
    BY <1>2 DEF PartsOf
  <1>3. ASSUME s.parts[n + 1].is = kind
        PROVE  PartsOf(s, n + 1, kind) # {} /\ Max(PartsOf(s, n + 1, kind)) = n + 1
    <2> DEFINE T == PartsOf(s, n + 1, kind)
    <2>1. n + 1 \in T /\ \A i \in T : i \in Nat /\ i <= n + 1
      BY <1>3 DEF PartsOf
    <2> HIDE DEF T
    <2>2. Max(T) = n + 1
      BY <2>1 DEF Max
    <2> QED  BY <2>1, <2>2, Zenon DEF T
  <1> QED
    BY <1>1, <1>2, <1>3

\* What the server meant in the first n parts, as the entry of a response.
LastStatus(s, n) ==
  IF PartsOf(s, n, "status") = {} THEN None ELSE s.parts[Max(PartsOf(s, n, "status"))].holds
Meant(s, n, buf) ==
  Resp(buf, LastStatus(s, n), DataOf(s, n), PartsOf(s, n, "data") # {}, PartsOf(s, n, "malformed") # {})

\* A part's frame makes of what was meant before it what was meant with it.
LEMMA MeantStep ==
  ASSUME NEW s, Len(s.parts) \in Nat, NEW n \in 0..(Len(s.parts) - 1), NEW t, NEW p,
         s.parts[n + 1].is \in {"status", "malformed", "data", "other"},
         ReadAsMeant(AFrame(t, p, <<>>), s.parts[n + 1])
  PROVE  ResponseFrame(Meant(s, n, <<>>), AFrame(t, p, <<>>)) = Meant(s, n + 1, <<>>)
  <1> DEFINE st == LastStatus(s, n)
             bd == DataOf(s, n)
             gd == PartsOf(s, n, "data") # {}
             fl == PartsOf(s, n, "malformed") # {}
             is == s.parts[n + 1].is
             y == ResponseFrame(Resp(<<>>, st, bd, gd, fl), AFrame(t, p, <<>>))
  <1>1. AFrame(t, p, <<>>).ty = t /\ AFrame(t, p, <<>>).payload = p
    BY FrameFields
  <1>2. n \in Nat
    OBVIOUS
  <1>3. /\ is # "data" => DataOf(s, n + 1) = bd /\ PartsOf(s, n + 1, "data") = PartsOf(s, n, "data")
        /\ is = "data" => DataOf(s, n + 1) = bd \o s.parts[n + 1].holds /\ PartsOf(s, n + 1, "data") # {}
    BY <1>2, DataSteps, PartsSteps, Zenon
  <1>4. /\ is # "malformed" => PartsOf(s, n + 1, "malformed") = PartsOf(s, n, "malformed")
        /\ is = "malformed" => PartsOf(s, n + 1, "malformed") # {}
    BY <1>2, PartsSteps, Zenon
  <1>5. /\ is # "status" => LastStatus(s, n + 1) = st
        /\ is = "status" => LastStatus(s, n + 1) = s.parts[n + 1].holds
    <2>1. /\ is # "status" => PartsOf(s, n + 1, "status") = PartsOf(s, n, "status")
          /\ is = "status" => PartsOf(s, n + 1, "status") # {} /\ Max(PartsOf(s, n + 1, "status")) = n + 1
      BY <1>2, PartsSteps, ZenonT(30)
    <2> QED  BY <2>1, Zenon DEF LastStatus
  <1>6. FrameMakes(t, p, <<>>, st, bd, gd, fl)
    BY FrameOfResponse, Zenon
  <1>7. Meant(s, n, <<>>) = Resp(<<>>, st, bd, gd, fl)
    BY Zenon DEF Meant
  <1> HIDE DEF st, bd
  <1>8. CASE is = "status"
    <2>1. is # "data" /\ is # "malformed"
      BY <1>8, Zenon
    <2>2. t = HEADERS /\ parse_status(p) # Bad /\ parse_status(p) = s.parts[n + 1].holds
      BY <1>1, <1>8, <2>1, Zenon DEF ReadAsMeant
    <2>3. y = Resp(<<>>, parse_status(p), bd, gd, fl)
      BY <1>6, <2>2, Zenon DEF FrameMakes
    <2> QED  BY <1>3, <1>4, <1>5, <1>7, <1>8, <2>1, <2>2, <2>3, Zenon DEF Meant
  <1>9. CASE is = "malformed"
    <2>1. is # "data" /\ is # "status"
      BY <1>9, Zenon
    <2>2. t = HEADERS /\ parse_status(p) = Bad
      BY <1>1, <1>9, <2>1, Zenon DEF ReadAsMeant
    <2>3. y = Resp(<<>>, st, bd, gd, TRUE)
      BY <1>6, <2>2, Zenon DEF FrameMakes
    <2>4. (PartsOf(s, n + 1, "malformed") # {}) = TRUE
      BY <1>4, <1>9, Zenon
    <2> QED  BY <1>3, <1>5, <1>7, <2>1, <2>3, <2>4, Zenon DEF Meant
  <1>10. CASE is = "data"
    <2>1. is # "malformed" /\ is # "status"
      BY <1>10, Zenon
    <2>2. t = DATA /\ p = s.parts[n + 1].holds
      BY <1>1, <1>10, <2>1, Zenon DEF ReadAsMeant
    <2>3. y = Resp(<<>>, st, bd \o p, TRUE, fl)
      BY <1>6, <2>2, Zenon DEF FrameMakes
    <2>4. (PartsOf(s, n + 1, "data") # {}) = TRUE
      BY <1>3, <1>10, Zenon
    <2> QED  BY <1>3, <1>4, <1>5, <1>7, <1>10, <2>1, <2>2, <2>3, <2>4, Zenon DEF Meant
  <1>11. CASE is = "other"
    <2>1. is # "malformed" /\ is # "status" /\ is # "data"
      BY <1>11, Zenon
    <2>2. t # DATA /\ t # HEADERS
      BY <1>1, <1>11, <2>1, Zenon DEF ReadAsMeant
    <2>3. y = Resp(<<>>, st, bd, gd, fl)
      BY <1>6, <2>2, Zenon DEF FrameMakes
    <2> QED  BY <1>3, <1>4, <1>5, <1>7, <2>1, <2>3, Zenon DEF Meant
  <1> QED
    BY <1>8, <1>9, <1>10, <1>11

\* A chunk behind an empty buffer: one whole frame, or a part of one.
LEMMA ChunkOfOne ==
  ASSUME NEW st, NEW bd, NEW gd, NEW fl, NEW c \in Seq(Byte)
  PROVE  LET x == Conn(Resp(<<>>, st, bd, gd, fl), <<>>)
         IN /\ next_frame(c) = None => Fed(x, c) = Conn(Resp(c, st, bd, gd, fl), <<>>)
            /\ next_frame(c) # None /\ next_frame(c).rest = <<>> =>
                 /\ next_frame(c) = AFrame(next_frame(c).ty, next_frame(c).payload, <<>>)
                 /\ Fed(x, c) = Conn(ResponseFrame(Resp(<<>>, st, bd, gd, fl), next_frame(c)), <<>>)
  <1> DEFINE x == Conn(Resp(<<>>, st, bd, gd, fl), <<>>)
             y == Conn(Resp(c, st, bd, gd, fl), <<>>)
             t == next_frame(c).ty
             p == next_frame(c).payload
             z == Conn(ResponseFrame(Resp(<<>>, st, bd, gd, fl), AFrame(t, p, <<>>)), <<>>)
  <1>1. <<>> \in Seq(Byte) /\ <<>> \o c = c
    OBVIOUS
  <1>2. IsResponse(x) /\ IsResponse(y)
    BY <1>1, Zenon DEF IsResponse
  <1>3. x.state.buf = <<>> /\ y.state.buf = c
    <2>1. \A b : Conn(Resp(b, st, bd, gd, fl), <<>>).state = Resp(b, st, bd, gd, fl)
      BY ConnFields, Zenon
    <2>2. \A b : Resp(b, st, bd, gd, fl).buf = b
      BY Zenon DEF Resp
    <2> QED  BY <2>1, <2>2, Zenon
  <1>4. Fed(x, c) = Parsed(y)
    <2>1. WithBuf(x, c) = y
      BY WithBufFields
    <2> HIDE DEF x, y
    <2>2. More(x, c) = WithBuf(x, c)
      BY <1>1, <1>3, Zenon DEF More
    <2> QED  BY <1>2, <2>1, <2>2, FedBuffered, Zenon
  <1>5. ASSUME next_frame(c) = None PROVE Fed(x, c) = y
    <2> HIDE DEF x, y
    <2>1. Stuck(y)
      BY <1>3, <1>5, Zenon DEF Stuck
    <2> QED  BY <1>3, <1>4, <2>1, StuckParsed, Zenon
  <1>6. ASSUME next_frame(c) # None, next_frame(c).rest = <<>>
        PROVE  next_frame(c) = AFrame(t, p, <<>>) /\ Fed(x, c) = z
    <2>1. next_frame(c) = AFrame(t, p, <<>>)
      <3>1. next_frame(c) \in [ty : Nat, payload : Seq(Byte), rest : Seq(Byte)]
        BY <1>6, FramePrefix, Zenon
      <3> QED  BY <1>6, <3>1 DEF AFrame
    <2>2. Took(y, AFrame(t, p, <<>>)) = z
      <3> HIDE DEF t, p
      <3> QED  BY TookFrame
    <2> HIDE DEF x, y, z, t, p
    <2>3. Step(y) = z
      BY <1>3, <1>6, <2>1, <2>2, Zenon DEF Step
    <2>4. z.state.buf = <<>>
      <3>1. FrameMakes(t, p, <<>>, st, bd, gd, fl)
        BY FrameOfResponse, Zenon
      <3>2. \E st2, bd2, gd2, fl2 : z = Conn(Resp(<<>>, st2, bd2, gd2, fl2), <<>>)
        BY <3>1, Zenon DEF FrameMakes, z
      <3>3. \A st2, bd2, gd2, fl2 : Conn(Resp(<<>>, st2, bd2, gd2, fl2), <<>>).state.buf = <<>>
        BY Zenon DEF Conn, Resp
      <3> QED  BY <3>2, <3>3, Zenon
    <2>5. Parsed(z) = z
      <3>1. Stuck(z)
        BY <2>4, NoFrame, Zenon DEF Stuck
      <3> QED  BY <1>1, <2>4, <3>1, StuckParsed, Zenon
    <2>6. Parsed(Step(y)) = Parsed(y)
      BY <1>2, ParsedStep, Zenon
    <2> QED  BY <1>4, <2>1, <2>3, <2>5, <2>6, Zenon
  <1> QED
    BY <1>5, <1>6, Zenon

\* Bytes cut in two.
LEMMA CutAt ==
  ASSUME NEW b \in Seq(Byte), NEW j \in 0..Len(b), NEW i \in 0..j, NEW h \in 0..i
  PROVE  /\ SubSeq(b, h + 1, j) = SubSeq(b, h + 1, i) \o SubSeq(b, i + 1, j)
         /\ SubSeq(b, h + 1, i) \in Seq(Byte) /\ SubSeq(b, i + 1, j) \in Seq(Byte)
         /\ Len(SubSeq(b, i + 1, j)) = j - i
  OBVIOUS

\* What is known of the parts of a request.
Framed(s) ==
  /\ s.bytes \in Seq(Byte) /\ Len(s.parts) \in Nat /\ End(s, Len(s.parts)) = Len(s.bytes)
  /\ \A i \in 1..Len(s.parts) :
       /\ s.parts[i].is \in {"status", "malformed", "data", "other"}
       /\ End(s, i) \in Nat /\ End(s, i - 1) < End(s, i)
       /\ ReadAsMeant(next_frame(SubSeq(s.bytes, End(s, i - 1) + 1, End(s, i))), s.parts[i])

\* That is what the assumptions say.
LEMMA RequestFramed == \A s \in Streams : s.kind = "request" => Framed(s)
  BY StreamsAssumption, PartsAssumption, Zenon DEF Framed

\* Every part ends in the bytes.
LEMMA EndFacts ==
  ASSUME NEW s, Framed(s)
  PROVE  End(s, 0) = 0 /\ \A i \in 0..Len(s.parts) : End(s, i) \in 0..Len(s.bytes)
  <1> DEFINE N == Len(s.parts)
             S == {n \in 0..N : \A i \in 0..n : End(s, i) \in Nat /\ End(s, i) <= End(s, n)}
  <1>1. N \in Nat /\ Len(s.bytes) \in Nat /\ End(s, N) = Len(s.bytes)
    BY DEF Framed
  <1>2. \A i \in 1..N : End(s, i) \in Nat /\ End(s, i - 1) < End(s, i)
    BY Zenon DEF Framed
  <1>3. End(s, 0) = 0
    BY Zenon DEF End
  <1> HIDE DEF N
  <1>4. 0 \in S
    BY <1>1, <1>3
  <1>5. ASSUME NEW n \in 0..(N - 1), n \in S PROVE n + 1 \in S
    <2>1. n + 1 \in 1..N /\ (n + 1) - 1 = n /\ n \in 0..n
      BY <1>1
    <2>2. End(s, n + 1) \in Nat /\ End(s, n) < End(s, n + 1) /\ End(s, n) \in Nat
      BY <1>2, <1>5, <2>1
    <2>3. ASSUME NEW i \in 0..(n + 1) PROVE End(s, i) \in Nat /\ End(s, i) <= End(s, n + 1)
      <3>1. CASE i = n + 1
        BY <2>2, <3>1
      <3>2. CASE i # n + 1
        <4>1. i \in 0..n
          BY <3>2
        <4> QED  BY <1>5, <2>2, <4>1
      <3> QED  BY <3>1, <3>2
    <2> QED  BY <2>1, <2>3
  <1>6. N \in S
    <2>1. \A n \in 0..N : n \in S
      <3> HIDE DEF S
      <3> QED  BY <1>1, <1>4, <1>5, UpTo, Zenon
    <2>2. N \in 0..N
      BY <1>1
    <2> QED  BY <2>1, <2>2, Zenon
  <1> QED
    BY <1>1, <1>3, <1>6 DEF N

\* The last part that is whole in the first k bytes.
LEMMA WholeFacts ==
  ASSUME NEW s, Framed(s), NEW k \in 0..Len(s.bytes)
  PROVE  LET n == WholeParts(s, k)
         IN /\ n \in 0..Len(s.parts) /\ End(s, n) <= k
            /\ n # Len(s.parts) => n + 1 \in 1..Len(s.parts) /\ k < End(s, n + 1)
            /\ n = Len(s.parts) => End(s, n) = k
  <1> DEFINE N == Len(s.parts)
             W == {i \in 0..N : End(s, i) <= k}
             T == {N - i : i \in W}
  <1>1. N \in Nat /\ k \in Nat /\ Len(s.bytes) \in Nat /\ k <= Len(s.bytes) /\ End(s, N) = Len(s.bytes)
    BY DEF Framed
  <1>2. End(s, 0) = 0 /\ \A i \in 0..N : End(s, i) \in Nat
    BY EndFacts
  <1> HIDE DEF N
  <1>3. 0 \in W /\ W \subseteq 0..N
    BY <1>1, <1>2
  <1>4. PICK m \in W : \A i \in W : i <= m
    <2>1. T \in SUBSET Nat /\ T # {}
      <3> HIDE DEF W
      <3> QED  BY <1>1, <1>3
    <2>2. PICK u \in T : \A v \in T : u <= v
      <3> HIDE DEF T
      <3> QED  BY <2>1, LeastNatural, Zenon
    <2>3. PICK m \in W : u = N - m
      BY <2>2, Zenon
    <2>4. ASSUME NEW i \in W PROVE i <= m
      <3>1. N - i \in T
        BY Zenon
      <3>2. u <= N - i
        <4> HIDE DEF T
        <4> QED  BY <2>2, <3>1, Zenon
      <3>3. i \in Nat /\ m \in Nat
        BY <1>1, <1>3
      <3> HIDE DEF T, W
      <3> QED  BY <1>1, <2>3, <3>2, <3>3
    <2> QED  BY <2>3, <2>4
  <1>5. WholeParts(s, k) = m
    <2>1. WholeParts(s, k) = Max(W)
      BY Zenon DEF WholeParts, N
    <2> HIDE DEF W
    <2>2. \A i \in W : i \in Int
      BY <1>1, <1>3
    <2>3. Max(W) = m
      BY <1>4, <2>2 DEF Max
    <2> QED  BY <2>1, <2>3
  <1>6. m \in 0..N /\ End(s, m) <= k
    BY <1>4, Zenon
  <1>7. ASSUME m # N PROVE m + 1 \in 1..N /\ k < End(s, m + 1)
    <2>1. m + 1 \in 0..N /\ m + 1 \in 1..N /\ ~ (m + 1 <= m)
      BY <1>1, <1>6, <1>7
    <2>2. m + 1 \notin W
      BY <1>4, <2>1, Zenon
    <2> QED  BY <1>1, <1>2, <2>1, <2>2
  <1>8. ASSUME m = N PROVE End(s, m) = k
    BY <1>1, <1>6, <1>8
  <1> QED
    BY <1>5, <1>6, <1>7, <1>8 DEF N

\* The whole parts of a request, fed at once, are read as they were meant.
LEMMA PartsRead ==
  ASSUME NEW s, Framed(s)
  PROVE  \A n \in 0..Len(s.parts) :
           AtOnce("request", SubSeq(s.bytes, 1, End(s, n))) = Conn(Meant(s, n, <<>>), <<>>)
  <1> DEFINE N == Len(s.parts)
             Read(n) == AtOnce("request", SubSeq(s.bytes, 1, End(s, n)))
             S == {n \in 0..N : Read(n) = Conn(Meant(s, n, <<>>), <<>>)}
  <1>1. N \in Nat /\ s.bytes \in Seq(Byte)
    BY Zenon DEF Framed
  <1>2. 0 \in S
    <2>1. SubSeq(s.bytes, 1, End(s, 0)) = <<>>
      BY <1>1, EndFacts
    <2>2. Read(0) = Conn(Fresh("request"), <<>>)
      BY <2>1, NothingYet, Zenon
    <2>3. DataOf(s, 0) = <<>> /\ LastStatus(s, 0) = None
      <3>1. PartsOf(s, 0, "status") = {}
        BY DEF PartsOf
      <3> QED  BY <1>1, <3>1, DataSteps, Zenon DEF LastStatus
    <2>4. (PartsOf(s, 0, "data") # {}) = FALSE /\ (PartsOf(s, 0, "malformed") # {}) = FALSE
      BY DEF PartsOf
    <2>5. Fresh("request") = Resp(<<>>, None, <<>>, FALSE, FALSE)
      BY Zenon DEF Fresh, Resp
    <2>6. Meant(s, 0, <<>>) = Fresh("request")
      BY <2>3, <2>4, <2>5, Zenon DEF Meant
    <2>7. 0 \in 0..N
      BY <1>1
    <2> HIDE DEF Read, N
    <2> QED  BY <2>2, <2>6, <2>7, Zenon
  <1>3. ASSUME NEW n \in 0..(N - 1), n \in S PROVE n + 1 \in S
    <2> DEFINE b == SubSeq(s.bytes, 1, End(s, n))
               c == SubSeq(s.bytes, End(s, n) + 1, End(s, n + 1))
               part == s.parts[n + 1]
               f == next_frame(c)
    <2>1. n + 1 \in 1..N /\ (n + 1) - 1 = n /\ n \in 0..N /\ n + 1 \in 0..N
      BY <1>1
    <2>2. part.is \in {"status", "malformed", "data", "other"} /\ ReadAsMeant(f, part)
          /\ End(s, n + 1) \in Nat /\ End(s, n) < End(s, n + 1)
      BY <2>1, Zenon DEF Framed
    <2>3. End(s, n) \in 0..End(s, n + 1) /\ End(s, n + 1) \in 0..Len(s.bytes)
      <3>1. End(s, n) \in Nat /\ End(s, n + 1) \in 0..Len(s.bytes)
        <4>1. End(s, n) \in 0..Len(s.bytes) /\ End(s, n + 1) \in 0..Len(s.bytes)
          BY <2>1, EndFacts, Zenon
        <4> QED  BY <4>1
      <3> QED  BY <2>2, <3>1
    <2>4. SubSeq(s.bytes, 1, End(s, n + 1)) = b \o c /\ b \in Seq(Byte) /\ c \in Seq(Byte)
      <3>1. 0 + 1 = 1 /\ 0 \in 0..End(s, n)
        BY <2>3
      <3> QED  BY <1>1, <2>3, <3>1, CutAt, Zenon
    <2> HIDE DEF b, c
    <2>5. f # None /\ f.rest = <<>>
      BY <2>2, Zenon DEF ReadAsMeant
    <2>6. Read(n + 1) = Fed(Read(n), c)
      BY <2>4, RequestChunks, Zenon DEF b
    <2> DEFINE bd == DataOf(s, n)
               st == LastStatus(s, n)
               gd == PartsOf(s, n, "data") # {}
               fl == PartsOf(s, n, "malformed") # {}
    <2>7. Read(n) = Conn(Resp(<<>>, st, bd, gd, fl), <<>>)
      BY <1>3, Zenon DEF Meant
    <2>8. f = AFrame(f.ty, f.payload, <<>>)
          /\ Fed(Conn(Resp(<<>>, st, bd, gd, fl), <<>>), c) = Conn(ResponseFrame(Resp(<<>>, st, bd, gd, fl), f), <<>>)
      <3> HIDE DEF st, bd, gd, fl
      <3> QED  BY <2>4, <2>5, ChunkOfOne
    <2>9. ResponseFrame(Meant(s, n, <<>>), f) = Meant(s, n + 1, <<>>)
      <3> DEFINE t == f.ty
                 p == f.payload
      <3>1. f = AFrame(t, p, <<>>)
        BY <2>8, Zenon
      <3> HIDE DEF t, p
      <3>2. ReadAsMeant(AFrame(t, p, <<>>), part)
        BY <2>2, <3>1, Zenon
      <3>3. ResponseFrame(Meant(s, n, <<>>), AFrame(t, p, <<>>)) = Meant(s, n + 1, <<>>)
        <4>1. Len(s.parts) \in Nat /\ n \in 0..(Len(s.parts) - 1)
          BY <1>1
        <4>2. /\ s.parts[n + 1].is \in {"status", "malformed", "data", "other"}
              /\ ReadAsMeant(AFrame(t, p, <<>>), s.parts[n + 1])
          BY <2>2, <3>2, Zenon
        <4> QED  BY <4>1, <4>2, MeantStep
      <3> QED  BY <3>1, <3>3, Zenon
    <2>10. Read(n + 1) = Conn(Meant(s, n + 1, <<>>), <<>>)
      <3> HIDE DEF Read, f
      <3> QED  BY <2>6, <2>7, <2>8, <2>9, Zenon DEF Meant
    <2> HIDE DEF Read, N
    <2> QED  BY <2>1, <2>10, Zenon
  <1>4. \A n \in 0..N : n \in S
    <2> HIDE DEF S, N
    <2> QED  BY <1>1, <1>2, <1>3, UpTo, Zenon
  <1> QED
    BY <1>4, Zenon

\* So are any first bytes: the bytes of an unfinished part wait in the buffer.
LEMMA PrefixRead ==
  ASSUME NEW s, Framed(s), NEW k \in 0..Len(s.bytes)
  PROVE  \E buf : AtOnce("request", SubSeq(s.bytes, 1, k)) = Conn(Meant(s, WholeParts(s, k), buf), <<>>)
  <1> DEFINE n == WholeParts(s, k)
             b == SubSeq(s.bytes, 1, End(s, n))
             c == SubSeq(s.bytes, End(s, n) + 1, k)
  <1>1. s.bytes \in Seq(Byte) /\ Len(s.parts) \in Nat
    BY Zenon DEF Framed
  <1>2. /\ n \in 0..Len(s.parts) /\ End(s, n) <= k
        /\ n # Len(s.parts) => n + 1 \in 1..Len(s.parts) /\ k < End(s, n + 1)
        /\ n = Len(s.parts) => End(s, n) = k
    BY WholeFacts, Zenon
  <1> HIDE DEF n
  <1>3. End(s, n) \in 0..k
    <2>1. End(s, n) \in 0..Len(s.bytes)
      BY <1>2, EndFacts, Zenon
    <2> QED  BY <1>2, <2>1
  <1>4. SubSeq(s.bytes, 1, k) = b \o c /\ b \in Seq(Byte) /\ c \in Seq(Byte) /\ Len(c) = k - End(s, n)
    <2>1. 0 + 1 = 1 /\ 0 \in 0..End(s, n)
      BY <1>3
    <2> QED  BY <1>1, <1>3, <2>1, CutAt, Zenon
  <1>5. AtOnce("request", b) = Conn(Meant(s, n, <<>>), <<>>)
    BY <1>2, PartsRead, Zenon
  <1>6. next_frame(c) = None
    <2>1. CASE n = Len(s.parts)
      <3>1. c = <<>>
        BY <1>2, <1>3, <1>4, <2>1
      <3> QED  BY <3>1, NoFrame, Zenon
    <2>2. CASE n # Len(s.parts)
      <3> DEFINE d == SubSeq(s.bytes, k + 1, End(s, n + 1))
      <3>1. n + 1 \in 1..Len(s.parts) /\ k < End(s, n + 1) /\ (n + 1) - 1 = n /\ n + 1 \in 0..Len(s.parts)
        BY <1>1, <1>2, <2>2
      <3>2. ReadAsMeant(next_frame(SubSeq(s.bytes, End(s, n) + 1, End(s, n + 1))), s.parts[n + 1])
        BY <3>1, Zenon DEF Framed
      <3>3. End(s, n + 1) \in 0..Len(s.bytes)
        BY <3>1, EndFacts, Zenon
      <3>4. k \in 0..End(s, n + 1)
        BY <3>1, <3>3
      <3>5. SubSeq(s.bytes, End(s, n) + 1, End(s, n + 1)) = c \o d /\ d \in Seq(Byte) /\ Len(d) = End(s, n + 1) - k
        BY <1>1, <1>3, <3>3, <3>4, CutAt, Zenon
      <3> HIDE DEF c, d
      <3>6. d # <<>>
        <4>1. End(s, n + 1) - k # 0
          BY <3>1, <3>3
        <4> QED  BY <3>5, <4>1, Zenon
      <3>7. next_frame(c \o d) # None /\ next_frame(c \o d).rest = <<>>
        BY <3>2, <3>5, Zenon DEF ReadAsMeant
      <3> QED  BY <1>4, <3>5, <3>6, <3>7, PartOfFrame, Zenon
    <2> QED  BY <2>1, <2>2
  <1> HIDE DEF b, c
  <1> DEFINE bd == DataOf(s, n)
             st == LastStatus(s, n)
             gd == PartsOf(s, n, "data") # {}
             fl == PartsOf(s, n, "malformed") # {}
  <1>7. Fed(Conn(Resp(<<>>, st, bd, gd, fl), <<>>), c) = Conn(Resp(c, st, bd, gd, fl), <<>>)
    <2> HIDE DEF st, bd, gd, fl
    <2> QED  BY <1>4, <1>6, ChunkOfOne
  <1>8. Fed(AtOnce("request", b), c) = Conn(Meant(s, n, c), <<>>)
    BY <1>5, <1>7, Zenon DEF Meant
  <1>9. AtOnce("request", b \o c) = Conn(Meant(s, n, c), <<>>)
    BY <1>4, <1>8, RequestChunks, Zenon
  <1> QED
    BY <1>4, <1>9, Zenon DEF n
-----------------------------------------------------------------------------
(* The stream. *)

Now == Conn(state, events)

\* The inductive invariant: while a stream is open, its entry is what feed makes
\* of the delivered bytes at once.
StreamInv ==
  /\ stream \in Streams /\ pos \in 0..Len(stream.bytes)
  /\ ended = "no" /\ stream.kind = "request" => Now = AtOnce("request", Delivered)
  /\ ended = "no" /\ stream.kind = "uni" /\ pos = 0 => Now = Conn(Fresh("uni"), <<>>)
  /\ ended = "no" /\ stream.kind = "uni" /\ pos # 0 /\ ~split =>
       varint_decode(Delivered) # None /\ Now = AtOnce("uni", Delivered)
  /\ OneEventPerRequest /\ ResponseComplete

\* A stream as it begins.
LEMMA StreamInit == Init => StreamInv
  <1> SUFFICES ASSUME Init PROVE StreamInv
    BY Zenon
  <1>1. stream \in Streams /\ pos = 0 /\ ended = "no" /\ Now = Conn(Fresh(stream.kind), <<>>)
    BY Zenon DEF Init, Now
  <1>2. stream.bytes \in Seq(Byte)
    BY <1>1, StreamsAssumption, Zenon
  <1>3. pos \in 0..Len(stream.bytes) /\ Delivered = <<>>
    BY <1>1, <1>2 DEF Delivered
  <1>4. ended = "no" /\ stream.kind = "request" => Now = AtOnce("request", Delivered)
    BY <1>1, <1>3, NothingYet, Zenon
  <1>5. ended = "no" /\ stream.kind = "uni" /\ pos = 0 => Now = Conn(Fresh("uni"), <<>>)
    BY <1>1, Zenon
  <1>6. OneEventPerRequest /\ ResponseComplete
    <2>1. ~ (ended # "no") /\ ~ (ended = "fin")
      BY <1>1, Zenon
    <2> QED  BY <2>1, Zenon DEF OneEventPerRequest, ResponseComplete
  <1> QED
    BY <1>1, <1>3, <1>4, <1>5, <1>6, Zenon DEF StreamInv

\* A chunk makes of what the bytes before it came to what all of them come to.
LEMMA StreamFeed == ASSUME StreamInv, NEW k \in 1..Len(stream.bytes), Feed(k) PROVE StreamInv'
  <1> DEFINE c == SubSeq(stream.bytes, pos + 1, pos + k)
             x == Fed(Now, c)
  <1>1. /\ ended = "no" /\ ended' = "no" /\ stream' = stream /\ pos' = pos + k
        /\ pos + k <= Len(stream.bytes)
        /\ stream \in Streams /\ pos \in 0..Len(stream.bytes)
    BY Zenon DEF Feed, StreamInv
  <1>2. stream.bytes \in Seq(Byte) /\ stream.kind \in {"request", "uni"}
    BY <1>1, StreamsAssumption
  <1>3. Now' = Conn(x.state, x.events)
    BY Zenon DEF Feed, Now, Conn
  <1>4. split' = (split \/ (pos = 0 /\ stream.kind = "uni" /\ varint_decode(c) = None))
    BY Zenon DEF Feed
  <1>5. pos' \in 0..Len(stream.bytes) /\ pos' # 0
    BY <1>1, <1>2
  <1>6. Delivered \in Seq(Byte) /\ c \in Seq(Byte) /\ Delivered' = Delivered \o c /\ Delivered' \in Seq(Byte)
    <2>1. Delivered' = SubSeq(stream.bytes, 1, pos + k)
      BY <1>1, Zenon DEF Delivered
    <2> QED  BY <1>1, <1>2, <2>1 DEF Delivered
  <1> HIDE DEF c
  <1>7. CASE stream.kind = "request"
    <2>1. Now = AtOnce("request", Delivered)
      BY <1>1, <1>7, Zenon DEF StreamInv
    <2>2. x = AtOnce("request", Delivered \o c)
      BY <1>6, <2>1, RequestChunks, Zenon
    <2> HIDE DEF x
    <2>3. Now' = AtOnce("request", Delivered')
      <3>1. AtOnce("request", Delivered') = Conn(AtOnce("request", Delivered').state, AtOnce("request", Delivered').events)
        BY <1>6, IsConn, Zenon
      <3> QED  BY <1>3, <1>6, <2>2, <3>1, Zenon
    <2>4. stream.kind # "uni"
      BY <1>7, Zenon
    <2> QED  BY <1>1, <1>5, <2>3, <2>4, Zenon DEF StreamInv, OneEventPerRequest, ResponseComplete
  <1>8. CASE stream.kind = "uni"
    <2>1. ASSUME ~ split' PROVE varint_decode(Delivered') # None /\ Now' = AtOnce("uni", Delivered')
      <3>1. varint_decode(Delivered \o c) # None /\ x = AtOnce("uni", Delivered \o c)
        <4>1. CASE pos = 0
          <5>1. Delivered = <<>> /\ Delivered \o c = c
            BY <1>2, <1>6, <4>1 DEF Delivered
          <5>2. Now = Conn(Fresh("uni"), <<>>)
            BY <1>1, <1>8, <4>1, Zenon DEF StreamInv
          <5>3. x = AtOnce("uni", c)
            BY <5>2, Zenon DEF AtOnce, Conn
          <5>4. varint_decode(c) # None
            BY <1>4, <1>8, <2>1, <4>1, Zenon
          <5> QED  BY <5>1, <5>3, <5>4, Zenon
        <4>2. CASE pos # 0
          <5>1. ~ split
            BY <1>4, <2>1, Zenon
          <5>2. varint_decode(Delivered) # None /\ Now = AtOnce("uni", Delivered)
            BY <1>1, <1>8, <4>2, <5>1, Zenon DEF StreamInv
          <5> QED  BY <1>6, <5>2, UniChunks, Zenon
        <4> QED  BY <4>1, <4>2, Zenon
      <3> HIDE DEF x
      <3>2. AtOnce("uni", Delivered') = Conn(AtOnce("uni", Delivered').state, AtOnce("uni", Delivered').events)
        BY <1>6, <3>1, IsConn, Zenon
      <3> QED  BY <1>3, <1>6, <3>1, <3>2, Zenon
    <2>2. stream.kind # "request"
      BY <1>8, Zenon
    <2> QED  BY <1>1, <1>5, <2>1, <2>2, Zenon DEF StreamInv, OneEventPerRequest, ResponseComplete
  <1> QED
    BY <1>2, <1>7, <1>8

\* What the entry of an open request holds.
LEMMA OpenRequest ==
  ASSUME StreamInv, ended = "no", stream.kind = "request"
  PROVE  /\ events = <<>> /\ state.kind = "response"
         /\ state.failed = (Arrived("malformed") # {})
         /\ state.got_data = (Arrived("data") # {})
         /\ state.status = 200 <=>
              Arrived("status") # {} /\ stream.parts[Max(Arrived("status"))].holds = 200
         /\ state.body = DataOf(stream, WholeParts(stream, pos))
  <1> DEFINE n == WholeParts(stream, pos)
  <1>1. Now = AtOnce("request", Delivered) /\ stream \in Streams /\ pos \in 0..Len(stream.bytes)
    BY Zenon DEF StreamInv
  <1>2. Framed(stream)
    BY <1>1, RequestFramed, Zenon
  <1>3. PICK buf : Now = Conn(Meant(stream, n, buf), <<>>)
    <2>1. \E buf : AtOnce("request", SubSeq(stream.bytes, 1, pos)) = Conn(Meant(stream, n, buf), <<>>)
      BY <1>1, <1>2, PrefixRead, Zenon
    <2> QED  BY <1>1, <2>1, Zenon DEF Delivered
  <1>4. state = Meant(stream, n, buf) /\ events = <<>>
    <2>1. Now.state = state /\ Now.events = events
      BY ConnFields, Zenon DEF Now
    <2>2. Now.state = Meant(stream, n, buf) /\ Now.events = <<>>
      BY <1>3, ConnFields, Zenon
    <2> QED  BY <2>1, <2>2, Zenon
  <1>5. /\ state.kind = "response" /\ state.failed = (Arrived("malformed") # {})
        /\ state.got_data = (Arrived("data") # {}) /\ state.status = LastStatus(stream, n)
        /\ state.body = DataOf(stream, n)
    BY <1>4, Zenon DEF Meant, Resp, Arrived
  <1>6. None # 200
    BY NoneAssumption
  <1>7. LastStatus(stream, n) = 200 <=>
          Arrived("status") # {} /\ stream.parts[Max(Arrived("status"))].holds = 200
    BY <1>6, Zenon DEF LastStatus, Arrived
  <1> HIDE DEF n
  <1>8. (state.status = 200) <=> Arrived("status") # {} /\ stream.parts[Max(Arrived("status"))].holds = 200
    BY <1>5, <1>7, Zenon
  <1> QED
    BY <1>4, <1>5, <1>8, Zenon DEF n

\* At the end with a FIN the event says what the server meant.
LEMMA StreamFinish == ASSUME StreamInv, Finish PROVE StreamInv'
  <1>1. /\ ended = "no" /\ ended' = "fin" /\ stream' = stream /\ pos' = pos
        /\ events' = IF state.kind = "response" THEN Append(events, FinishEvent(state)) ELSE events
    BY Zenon DEF Finish
  <1>2. stream \in Streams /\ pos \in 0..Len(stream.bytes)
    BY Zenon DEF StreamInv
  <1>3. ended' # "no" /\ ended' = "fin"
    BY <1>1, Zenon
  <1>4. ASSUME stream.kind = "request" PROVE OneEventPerRequest' /\ ResponseComplete'
    <2>1. /\ events = <<>> /\ state.kind = "response"
          /\ state.failed = (Arrived("malformed") # {})
          /\ state.got_data = (Arrived("data") # {})
          /\ state.status = 200 <=>
               Arrived("status") # {} /\ stream.parts[Max(Arrived("status"))].holds = 200
          /\ state.body = DataOf(stream, WholeParts(stream, pos))
      BY <1>1, <1>4, OpenRequest, Zenon
    <2>2. events' = <<FinishEvent(state)>>
      <3>1. events' = Append(<<>>, FinishEvent(state))
        BY <1>1, <2>1, Zenon
      <3> QED  BY <3>1
    <2>3. Len(events') = 1 /\ events'[1] = FinishEvent(state)
      BY <2>2, Zenon
    <2>4. \A kind : Arrived(kind)' = Arrived(kind)
      BY <1>1, Zenon DEF Arrived
    <2> DEFINE good == /\ Arrived("malformed") = {} /\ Arrived("data") # {} /\ Arrived("status") # {}
                       /\ stream.parts[Max(Arrived("status"))].holds = 200
    <2>5. (FinishEvent(state).ev = "response") <=> good
      <3>1. (~ state.failed /\ state.got_data /\ state.status = 200) <=> good
        BY <2>1, Zenon
      <3>2. FinishEvent(state).ev = IF ~ state.failed /\ state.got_data /\ state.status = 200 THEN "response" ELSE "failed"
        BY Zenon DEF FinishEvent
      <3>3. "response" # "failed"
        BY Zenon
      <3> HIDE DEF good
      <3> QED  BY <3>1, <3>2, <3>3, Zenon
    <2>6. FinishEvent(state).body = DataOf(stream, WholeParts(stream, pos))
      BY <2>1, Zenon DEF FinishEvent
    <2>7. OneEventPerRequest'
      BY <2>3, Zenon DEF OneEventPerRequest
    <2>8. ResponseComplete'
      BY <1>1, <2>3, <2>4, <2>5, <2>6, Zenon DEF ResponseComplete
    <2> QED  BY <2>7, <2>8
  <1>5. ASSUME stream.kind # "request" PROVE OneEventPerRequest' /\ ResponseComplete'
    BY <1>1, <1>5, Zenon DEF OneEventPerRequest, ResponseComplete
  <1> QED
    BY <1>1, <1>2, <1>3, <1>4, <1>5, Zenon DEF StreamInv

\* At a reset there is one event, or the response has failed.
LEMMA StreamReset == ASSUME StreamInv, Reset PROVE StreamInv'
  <1>1. /\ ended = "no" /\ ended' = "reset" /\ stream' = stream /\ pos' = pos
        /\ events' = events \o ResetEvents(state)
    BY Zenon DEF Reset
  <1>2. stream \in Streams /\ pos \in 0..Len(stream.bytes)
    BY Zenon DEF StreamInv
  <1>3. ended' # "no" /\ ended' # "fin"
    BY <1>1, Zenon
  <1>4. ASSUME stream.kind = "request" PROVE OneEventPerRequest'
    <2>1. /\ events = <<>> /\ state.kind = "response"
          /\ state.failed = (Arrived("malformed") # {})
      BY <1>1, <1>4, OpenRequest, Zenon
    <2>2. Arrived("malformed")' = Arrived("malformed")
      BY <1>1, Zenon DEF Arrived
    <2>3. CASE state.failed
      <3>1. ResetEvents(state) = <<>>
        BY <2>3, Zenon DEF ResetEvents
      <3>2. events' = <<>>
        BY <1>1, <2>1, <3>1
      <3> QED  BY <1>1, <2>1, <2>2, <2>3, <3>2, Zenon DEF OneEventPerRequest
    <2>4. CASE ~ state.failed
      <3>1. ResetEvents(state) = <<[ev |-> "failed", body |-> <<>>]>>
        BY <2>1, <2>4, Zenon DEF ResetEvents
      <3>2. Len(events') = 1
        BY <1>1, <2>1, <3>1
      <3> QED  BY <3>2, Zenon DEF OneEventPerRequest
    <2> QED  BY <2>3, <2>4, Zenon
  <1>5. ASSUME stream.kind # "request" PROVE OneEventPerRequest'
    BY <1>1, <1>5, Zenon DEF OneEventPerRequest
  <1>6. ResponseComplete'
    BY <1>3, Zenon DEF ResponseComplete
  <1> QED
    BY <1>1, <1>2, <1>3, <1>4, <1>5, <1>6, Zenon DEF StreamInv

\* Every step keeps the invariant.
LEMMA StreamStays == StreamInv /\ [Next]_vars => StreamInv'
  <1> SUFFICES ASSUME StreamInv, [Next]_vars PROVE StreamInv'
    BY Zenon
  <1>1. CASE UNCHANGED vars
    <2>1. stream' = stream /\ pos' = pos /\ state' = state /\ events' = events /\ ended' = ended /\ split' = split
      BY <1>1, Zenon DEF vars
    <2> QED  BY <2>1, Zenon DEF StreamInv, Now, Delivered, OneEventPerRequest, ResponseComplete, Arrived
  <1>2. ASSUME NEW k \in 1..Len(stream.bytes), Feed(k) PROVE StreamInv'
    BY <1>2, StreamFeed, Zenon
  <1>3. CASE Finish
    BY <1>3, StreamFinish
  <1>4. CASE Reset
    BY <1>4, StreamReset
  <1> QED
    BY <1>1, <1>2, <1>3, <1>4, Zenon DEF Next

\* So it always holds.
LEMMA StreamAlways == Spec => []StreamInv
  BY StreamInit, StreamStays, PTL DEF Spec

\* It says more of an open stream than ChunkingIrrelevant.
LEMMA StreamChunking == StreamInv => ChunkingIrrelevant
  <1> SUFFICES ASSUME StreamInv, ended = "no", pos > 0, ~ split
               PROVE  Conn(state, events) = AtOnce(stream.kind, Delivered)
    BY Zenon DEF ChunkingIrrelevant, Conn
  <1>1. pos # 0
    BY DEF StreamInv
  <1>2. stream.kind \in {"request", "uni"}
    BY StreamsAssumption, Zenon DEF StreamInv
  <1>3. CASE stream.kind = "request"
    BY <1>3, Zenon DEF StreamInv, Now
  <1>4. CASE stream.kind = "uni"
    BY <1>1, <1>4, Zenon DEF StreamInv, Now
  <1> QED
    BY <1>2, <1>3, <1>4

\* However the network cuts a stream, feed has found in the chunks what it finds
\* in the same bytes at once, but where the type of a server's stream is split.
THEOREM ChunkingIrrelevantHolds == Spec => []ChunkingIrrelevant
  BY StreamAlways, StreamChunking, PTL

\* finish and reset give every request that ends one event; the exception is a
\* reset behind a malformed header section, which process_response kept silent.
THEOREM OneEventPerRequestHolds == Spec => []OneEventPerRequest
  <1>1. StreamInv => OneEventPerRequest
    BY Zenon DEF StreamInv
  <1> QED
    BY <1>1, StreamAlways, PTL

\* finish reports a response just if the whole parts that arrived mean one, for
\* every sequence of frames in which the server may mean something: the last
\* status is 200, there is data, and it is in the event, whole and in order.
THEOREM ResponseCompleteHolds == Spec => []ResponseComplete
  <1>1. StreamInv => ResponseComplete
    BY Zenon DEF StreamInv
  <1> QED
    BY <1>1, StreamAlways, PTL
=============================================================================
