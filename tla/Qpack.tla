------------------------------- MODULE Qpack -------------------------------
(***************************************************************************)
(* The QPACK codec of microdoh3 (qpack.rs): prefix integers, the decoder   *)
(* of field sections without a dynamic table, and Huffman-coded strings.   *)
(* A byte is a number below 256, a string a sequence of bytes; positions   *)
(* count from 1.  A reader returns what it read and the position behind    *)
(* it, or Bad for any error.                                               *)
(***************************************************************************)
EXTENDS Integers, Sequences, FiniteSetsExt, TLC

CONSTANTS
  Bad,          \* every QpackError
  MaxShift      \* 56: the last shift after which a prefix integer may go on

\* The bits of a byte, the most significant first.
Bits(b) == [i \in 1..8 |-> (b \div 2 ^ (8 - i)) % 2]

\* n as three decimal digits, and ":status".
Digits(n) == <<48 + n \div 100, 48 + ((n \div 10) % 10), 48 + (n % 10)>>
STATUS == <<58, 115, 116, 97, 116, 117, 115>>

\* The statuses in the static table.  The other rows matter only in that their
\* name is another one.
StatusRows ==
  [i \in 24..28 |-> <<103, 200, 304, 404, 503>>[i - 23]]
    @@ [i \in 63..71 |-> <<100, 204, 206, 302, 400, 403, 421, 425, 500>>[i - 62]]

STATIC_TABLE ==
  [i \in 0..98 |-> IF i \in DOMAIN StatusRows
                     THEN [name |-> STATUS, value |-> Digits(StatusRows[i])]
                     ELSE [name |-> <<i>>, value |-> <<>>]]
-----------------------------------------------------------------------------
(* Prefix integers.  The low `bits` bits of the first byte, then groups of
   seven, the least significant first. *)

\* The groups of seven bits of v, all but the last marked.
Sevens(v) ==
  LET groups[w \in 0..v] == IF w < 128 THEN <<w>> ELSE <<(w % 128) + 128>> \o groups[w \div 128]
  IN groups[v]

write_prefix_int(bits, first, value) ==
  LET inline == 2 ^ bits - 1
  IN IF value < inline THEN <<first + value>>
     ELSE <<first + inline>> \o Sevens(value - inline)

\* What was read, and `more` in front of it.
Plus(read, more) == IF read = Bad THEN Bad ELSE [read EXCEPT !.val = @ + more]

\* The loop of read_prefix_int with `value` read so far.
ReadSevens(buf, start, value) ==
  LET loop[k \in 0..(MaxShift \div 7 + 1)] ==
        LET at == start + k
            here == (buf[at] % 128) * 2 ^ (7 * k)
        IN IF at > Len(buf) \/ 7 * k > MaxShift THEN Bad
           ELSE IF buf[at] < 128 THEN [val |-> here, pos |-> at + 1]
           ELSE Plus(loop[k + 1], here)
  IN Plus(loop[0], value)

read_prefix_int(buf, pos, bits) ==
  IF pos > Len(buf) THEN Bad
  ELSE LET value == buf[pos] % 2 ^ bits
       IN IF value < 2 ^ bits - 1 THEN [val |-> value, pos |-> pos + 1]
          ELSE ReadSevens(buf, pos + 1, value)
-----------------------------------------------------------------------------
(* huffman_decode.  The accumulator is the sequence of its bits. *)

\* <<code, length>> of the printable characters, from 32 on.
PrintableRows ==
  <<<<20, 6>>, <<1016, 10>>, <<1017, 10>>, <<4090, 12>>, <<8185, 13>>, <<21, 6>>,
    <<248, 8>>, <<2042, 11>>, <<1018, 10>>, <<1019, 10>>, <<249, 8>>, <<2043, 11>>,
    <<250, 8>>, <<22, 6>>, <<23, 6>>, <<24, 6>>, <<0, 5>>, <<1, 5>>, <<2, 5>>,
    <<25, 6>>, <<26, 6>>, <<27, 6>>, <<28, 6>>, <<29, 6>>, <<30, 6>>, <<31, 6>>,
    <<92, 7>>, <<251, 8>>, <<32764, 15>>, <<32, 6>>, <<4091, 12>>, <<1020, 10>>,
    <<8186, 13>>, <<33, 6>>, <<93, 7>>, <<94, 7>>, <<95, 7>>, <<96, 7>>, <<97, 7>>,
    <<98, 7>>, <<99, 7>>, <<100, 7>>, <<101, 7>>, <<102, 7>>, <<103, 7>>,
    <<104, 7>>, <<105, 7>>, <<106, 7>>, <<107, 7>>, <<108, 7>>, <<109, 7>>,
    <<110, 7>>, <<111, 7>>, <<112, 7>>, <<113, 7>>, <<114, 7>>, <<252, 8>>,
    <<115, 7>>, <<253, 8>>, <<8187, 13>>, <<524272, 19>>, <<8188, 13>>,
    <<16380, 14>>, <<34, 6>>, <<32765, 15>>, <<3, 5>>, <<35, 6>>, <<4, 5>>,
    <<36, 6>>, <<5, 5>>, <<37, 6>>, <<38, 6>>, <<39, 6>>, <<6, 5>>, <<116, 7>>,
    <<117, 7>>, <<40, 6>>, <<41, 6>>, <<42, 6>>, <<7, 5>>, <<43, 6>>, <<118, 7>>,
    <<44, 6>>, <<8, 5>>, <<9, 5>>, <<45, 6>>, <<119, 7>>, <<120, 7>>, <<121, 7>>,
    <<122, 7>>, <<123, 7>>, <<32766, 15>>, <<2044, 11>>, <<16381, 14>>,
    <<8189, 13>>>>

\* The symbol of each code; EOS is thirty ones.
EOS == 256
HUFFMAN ==
  LET code(row) == [i \in 1..row[2] |-> (row[1] \div 2 ^ (row[2] - i)) % 2]
      rows == 1..Len(PrintableRows)
  IN [c \in {code(PrintableRows[r]) : r \in rows} |->
        31 + CHOOSE r \in rows : code(PrintableRows[r]) = c]
       @@ ([i \in 1..30 |-> 1] :> EOS)

\* The lengths of the codes the bits begin with: one at most.
Matches(bits) == {n \in 5..30 : n <= Len(bits) /\ SubSeq(bits, 1, n) \in DOMAIN HUFFMAN}

\* The symbols out, then what was decoded behind them.
After(out, decoded) == IF decoded = Bad THEN Bad ELSE [decoded EXCEPT !.out = out \o @]

\* The inner loop: take whole codes off the front of the accumulator.
TakeCodes(bits) ==
  LET n == Len(bits)
      taken[i \in 0..n] ==
        LET rest == SubSeq(bits, n - i + 1, n)
            len == Min(Matches(rest))
            sym == HUFFMAN[SubSeq(rest, 1, len)]
        IN IF Matches(rest) = {} THEN [out |-> <<>>, acc |-> rest]
           ELSE IF sym = EOS THEN Bad
           ELSE After(<<sym>>, taken[i - len])
  IN taken[n]

\* Padding is a prefix of EOS, shorter than a byte.
Padding(acc) == Len(acc) < 8 /\ \A i \in 1..Len(acc) : acc[i] = 1

\* One byte more; the codes of what has arrived are taken at once.
WithByte(decoded, byte) ==
  IF decoded = Bad THEN Bad
  ELSE IF Len(decoded.acc) + 8 > 56 THEN Bad
  ELSE After(decoded.out, TakeCodes(decoded.acc \o Bits(byte)))

\* The end of the data.
Padded(decoded) ==
  IF decoded = Bad THEN Bad ELSE IF Padding(decoded.acc) THEN decoded.out ELSE Bad

huffman_decode(data) ==
  LET upTo[i \in 0..Len(data)] ==
        IF i = 0 THEN [out |-> <<>>, acc |-> <<>>] ELSE WithByte(upTo[i - 1], data[i])
  IN Padded(upTo[Len(data)])
-----------------------------------------------------------------------------
(* The decoder.  A line is [name, value, huffman, pos]: its value is decoded
   when it is asked for. *)

\* The string behind its length, still encoded.
Raw(buf, len, huffman) ==
  IF len = Bad THEN Bad
  ELSE IF len.pos + len.val - 1 > Len(buf) THEN Bad
  ELSE [raw |-> SubSeq(buf, len.pos, len.pos + len.val - 1), pos |-> len.pos + len.val,
        huffman |-> huffman]

\* A string at pos with a length of `bits` bits, and the bit that says how it
\* is encoded in front of them.
ReadRaw(buf, pos, bits) ==
  Raw(buf, read_prefix_int(buf, pos, bits), (buf[pos] \div 2 ^ bits) % 2 = 1)

Decoded(text) == IF text.huffman THEN huffman_decode(text.raw) ELSE text.raw

\* A row of the static table.
Row(index) == IF index = Bad THEN Bad
              ELSE IF index.val \in DOMAIN STATIC_TABLE THEN STATIC_TABLE[index.val] ELSE Bad

\* A line of a name and a literal value.
Line(name, value) ==
  IF name = Bad \/ value = Bad THEN Bad
  ELSE [name |-> name, value |-> value.raw, huffman |-> value.huffman, pos |-> value.pos]

\* 1T: indexed
IndexedLine(buf, pos) ==
  LET index == read_prefix_int(buf, pos, 6)
      row == Row(index)
  IN IF row = Bad THEN Bad
     ELSE [name |-> row.name, value |-> row.value, huffman |-> FALSE, pos |-> index.pos]

\* 01NT: the name is that of a static row
NameRefLine(buf, pos) ==
  LET index == read_prefix_int(buf, pos, 4)
      row == Row(index)
  IN IF row = Bad THEN Bad ELSE Line(row.name, ReadRaw(buf, index.pos, 7))

\* 001NH: a literal name
LiteralLine(buf, pos) ==
  LET name == ReadRaw(buf, pos, 3)
  IN IF name = Bad THEN Bad ELSE Line(Decoded(name), ReadRaw(buf, name.pos, 7))

\* The forms that refer to a dynamic table, T clear, are errors.
next_line(buf, pos) ==
  LET b == buf[pos]
  IN CASE b >= 192 -> IndexedLine(buf, pos)
       [] b \in 64..127 /\ (b \div 16) % 2 = 1 -> NameRefLine(buf, pos)
       [] b \in 32..63 -> LiteralLine(buf, pos)
       [] OTHER -> Bad

\* Decoder::new: the position behind the section prefix.
SectionStart(buf) ==
  LET inserts == read_prefix_int(buf, 1, 8)
      base == IF inserts = Bad THEN Bad ELSE read_prefix_int(buf, inserts.pos, 7)
  IN IF base = Bad THEN Bad ELSE IF inserts.val # 0 THEN Bad ELSE base.pos

\* Decoder::next until the end: the lines, with Bad at the end after an error.
Lines(buf) ==
  LET from[pos \in 1..(Len(buf) + 1)] ==
        LET chain(line) == <<line>> \o (IF line = Bad THEN <<>> ELSE from[line.pos])
        IN IF pos > Len(buf) THEN <<>> ELSE chain(next_line(buf, pos))
      start == SectionStart(buf)
  IN IF start = Bad THEN <<Bad>> ELSE from[start]
=============================================================================
