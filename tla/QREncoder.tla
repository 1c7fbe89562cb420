------------------------------- MODULE QREncoder ------------------------------
(***************************************************************************)
(* The making of a QR symbol, as ISO/IEC 18004 tells it and not as jsQR    *)
(* undoes it: the reference that the decoder is checked against.  Only     *)
(* what jsQR reads is drawn: no finder, alignment and timing patterns.     *)
(***************************************************************************)
EXTENDS GaloisField, QRVersions, FiniteSets

\* All sequences of a sequence, one behind the other: half and half.
Joined(seqs) ==
  LET part[i \in 1..(Len(seqs) + 1), n \in 0..Len(seqs)] ==
        IF n = 0 THEN <<>>
        ELSE IF n = 1 THEN seqs[i]
        ELSE part[i, n \div 2] \o part[i + n \div 2, n - n \div 2]
  IN  part[1, Len(seqs)]

Binary(n, width) == [i \in 1..width |-> (n \div 2^(width - i)) % 2]

FromBinary(bits) ==
  LET value[i \in 0..Len(bits)] ==
        IF i = 0 THEN 0 ELSE 2 * value[i - 1] + bits[i]
  IN  value[Len(bits)]

-----------------------------------------------------------------------------
(* Segments.  A unit is a value and its width.  A segment has a mode, the  *)
(* number of its characters and its units; says is what a reader gets out  *)
(* of it: the mode's name, the characters and the bytes.                   *)

Unit(value, width) == [value |-> value, width |-> width]

Says(mode, characters, octets) ==
  [mode |-> mode, text |-> characters, bytes |-> octets]

SegmentOf(mode, count, units, says) ==
  [mode |-> mode, count |-> count, units |-> units, says |-> says]

Characters(points) == [i \in DOMAIN points |-> <<"unicode", points[i]>>]

\* The digits from place i on, three at most, as one number.
Triple(digits, i) ==
  LET size == IF Len(digits) - i >= 2 THEN 3 ELSE Len(digits) - i + 1
  IN  CASE size = 3 -> Unit(100 * digits[i] + 10 * digits[i + 1] + digits[i + 2], 10)
        [] size = 2 -> Unit(10 * digits[i] + digits[i + 1], 7)
        [] size = 1 -> Unit(digits[i], 4)

Numeric(digits) ==
  LET codes == [i \in DOMAIN digits |-> 48 + digits[i]]
  IN  SegmentOf(1, Len(digits),
                [i \in 1..((Len(digits) + 2) \div 3) |-> Triple(digits, 3 * i - 2)],
                Says("numeric", Characters(codes), codes))

\* The 45 characters that have an alphanumeric value, by their ASCII codes.
AlphanumericSet ==
  [i \in 1..10 |-> 47 + i] \o [i \in 1..26 |-> 64 + i] \o
  <<32, 36, 37, 42, 43, 45, 46, 47, 58>>

Alphanumeric(values) ==
  LET codes == [i \in DOMAIN values |-> AlphanumericSet[values[i] + 1]]
  IN  SegmentOf(2, Len(values),
                [i \in 1..((Len(values) + 1) \div 2) |->
                   IF 2 * i <= Len(values)
                     THEN Unit(45 * values[2 * i - 1] + values[2 * i], 11)
                     ELSE Unit(values[2 * i - 1], 6)],
                Says("alphanumeric", Characters(codes), codes))

Octets(octets, characters) ==
  SegmentOf(4, Len(octets), [i \in DOMAIN octets |-> Unit(octets[i], 8)],
            Says("byte", characters, octets))

\* Bytes that are no UTF-8.
Bytes(octets) == Octets(octets, <<>>)

Utf8(point) ==
  LET follow(shift) == 128 + ((point \div 2^shift) % 64)
  IN  CASE point < 128 -> <<point>>
        [] point \in 128..2047 -> <<192 + point \div 64, follow(0)>>
        [] point \in 2048..65535 -> <<224 + point \div 4096, follow(6), follow(0)>>
        [] point > 65535 ->
             <<240 + point \div 262144, follow(12), follow(6), follow(0)>>

Text(points) ==
  Octets(Joined([i \in DOMAIN points |-> Utf8(points[i])]), Characters(points))

\* A character of JIS X 0208 by row and cell, as Shift JIS puts it in two bytes.
JisCode(row, cell) ==
  LET lead == (row + 1) \div 2 + (IF row <= 62 THEN 128 ELSE 192)
      trail == IF row % 2 = 0 THEN cell + 158
               ELSE IF cell < 64 THEN cell + 63 ELSE cell + 64
  IN  256 * lead + trail

Packed(code) ==
  LET c == IF code < \hE000 THEN code - \h8140 ELSE code - \hC140
  IN  192 * (c \div 256) + (c % 256)

KanjiRow(row, cells) ==
  LET code(i) == JisCode(row, cells[i])
  IN  SegmentOf(8, Len(cells), [i \in DOMAIN cells |-> Unit(Packed(code(i)), 13)],
                Says("kanji", [i \in DOMAIN cells |-> <<"jis", code(i)>>],
                     [k \in 1..(2 * Len(cells)) |->
                        IF k % 2 = 1 THEN code((k + 1) \div 2) \div 256
                                     ELSE code(k \div 2) % 256]))

\* The extended channel interpretation, without a count: a number below 2^7, 2^14
\* or 2^21.
Eci(number) ==
  SegmentOf(7, 0,
            <<IF number < 2^7 THEN Unit(number, 8)
              ELSE IF number < 2^14 THEN Unit(2^15 + number, 16)
              ELSE Unit(3 * 2^22 + number, 24)>>,
            Says("eci", <<>>, <<>>))

\* FNC1 in first position: a mode and nothing else.
FNC1 == SegmentOf(5, 0, <<>>, Says("none", <<>>, <<>>))

\* What a message says: FNC1 is no chunk.
Said(message) ==
  [text |-> Joined([i \in DOMAIN message |-> message[i].says.text]),
   bytes |-> Joined([i \in DOMAIN message |-> message[i].says.bytes]),
   chunks |-> Joined([i \in DOMAIN message |->
                        IF message[i].mode = 5 THEN <<>>
                        ELSE <<message[i].says.mode>>])]

CountWidth(mode, version) ==
  LET small == version <= 9
      large == version >= 27
      of(a, b, c) == IF small THEN a ELSE IF large THEN c ELSE b
  IN  CASE mode = 1 -> of(10, 12, 14)
        [] mode = 2 -> of(9, 11, 13)
        [] mode = 4 -> of(8, 16, 16)
        [] mode = 8 -> of(8, 10, 12)
        [] OTHER -> 0

SegmentBits(segment, version) ==
  Binary(segment.mode, 4) \o
  Binary(segment.count, CountWidth(segment.mode, version)) \o
  Joined([i \in DOMAIN segment.units |->
            Binary(segment.units[i].value, segment.units[i].width)])

\* The message, the terminator, zeros to the end of the codeword, and pads.
DataCodewordsOf(message, version, capacity) ==
  LET raw == Joined([i \in DOMAIN message |-> SegmentBits(message[i], version)])
      left == 8 * capacity - Len(raw)
      closed == raw \o [i \in 1..(IF left < 4 THEN left ELSE 4) |-> 0]
      whole == closed \o [i \in 1..((0 - Len(closed)) % 8) |-> 0]
      used == Len(whole) \div 8
  IN  [i \in 1..capacity |->
         IF i <= used THEN FromBinary(SubSeq(whole, 8 * i - 7, 8 * i))
         ELSE IF (i - used) % 2 = 1 THEN 236 ELSE 17]

-----------------------------------------------------------------------------
(* Check codewords: what is left when the data is divided by the           *)
(* polynomial with the roots 1, 2, 4, ...                                  *)

CheckPolynomial(checks) ==
  LET product[i \in 0..checks] ==
        IF i = 0 THEN One
        ELSE TimesPoly(product[i - 1], <<1, ExpTable[i - 1]>>)
  IN  product[checks]

Divisor == [checks \in 1..30 |-> CheckPolynomial(checks)]

\* Long division: the remainder takes in one codeword after the other.
CheckCodewords(d, checks) ==
  LET remainder[i \in 0..Len(d)] ==
        IF i = 0
          THEN [j \in 1..checks |-> 0]
          ELSE LET before == Append(remainder[i - 1], 0)
                   lead == Plus(d[i], before[1])
               IN  [j \in 1..checks |->
                      Plus(before[j + 1], Times(lead, Divisor[checks][j + 1]))]
  IN  remainder[Len(d)]

\* The data of the blocks one after the other, the short ones first; the codewords
\* of the symbol go through all blocks in turn, first data, then checks.
Interleaved(d, b) ==
  LET n == b.short + b.long
      size(i) == IF i <= b.short THEN b.data ELSE b.data + 1
      start(i) == (i - 1) * b.data + (IF i <= b.short THEN 0 ELSE i - b.short - 1)
      block(i) == SubSeq(d, start(i) + 1, start(i) + size(i))
      row(j) == Joined([i \in 1..n |-> IF j <= size(i) THEN <<d[start(i) + j]>>
                                                       ELSE <<>>])
      checks == Joined([i \in 1..n |-> CheckCodewords(block(i), b.check)])
  IN  Joined([j \in 1..(b.data + 1) |-> row(j)]) \o
      [k \in 1..(n * b.check) |->
         checks[((k - 1) % n) * b.check + ((k - 1) \div n) + 1]]

-----------------------------------------------------------------------------
(* Format and version information: BCH codes.                              *)

\* value and checks check bits, what is left after division by divisor.
Bch(value, width, divisor, checks) ==
  LET first == Binary(value, width) \o [i \in 1..checks |-> 0]
      d == Binary(divisor, checks + 1)
      step[k \in 0..width] ==
        IF k = 0
          THEN first
          ELSE LET before == step[k - 1]
               IN  [i \in 1..(width + checks) |->
                      IF before[k] = 1 /\ i \in k..(k + checks)
                        THEN (before[i] + d[i - k + 1]) % 2
                        ELSE before[i]]
  IN  Binary(value, width) \o SubSeq(step[width], width + 1, width + checks)

\* Levels L, M, Q, H are written 1, 0, 3, 2; a fixed pattern is added.
FormatBits(level, mask) ==
  LET code == Bch(8 * <<1, 0, 3, 2>>[level + 1] + mask, 5, \h537, 10)
      pattern == Binary(\h5412, 15)
  IN  [i \in 1..15 |-> (code[i] + pattern[i]) % 2]

VersionBits(version) == Bch(version, 6, \h1F25, 12)

\* Where bit n, counted from the lowest, is drawn, in the first and second copy.
FormatPlace(n, copy, dimension) ==
  IF copy = 1
    THEN CASE n <= 5 -> <<8, n>>
           [] n = 6 -> <<8, 7>>
           [] n = 7 -> <<8, 8>>
           [] n = 8 -> <<7, 8>>
           [] n >= 9 -> <<14 - n, 8>>
    ELSE IF n <= 7 THEN <<dimension - 1 - n, 8>> ELSE <<8, dimension - 15 + n>>

VersionPlace(n, copy, dimension) ==
  LET along == n \div 3
      across == dimension - 11 + (n % 3)
  IN  IF copy = 1 THEN <<across, along>> ELSE <<along, across>>

\* The black modules of a copy whose bits at the places in flips are wrong.
Drawn(bits, flips, place(_)) ==
  LET wide == Len(bits)
  IN  {place(n) : n \in {m \in 0..(wide - 1) : (bits[wide - m] = 1) # (m \in flips)}}

MaskedModule(mask, x, y) ==
  0 = CASE mask = 0 -> (x + y) % 2
        [] mask = 1 -> y % 2
        [] mask = 2 -> x % 3
        [] mask = 3 -> (x + y) % 3
        [] mask = 4 -> (x \div 3 + y \div 2) % 2
        [] mask = 5 -> ((x * y) % 2) + ((x * y) % 3)
        [] mask = 6 -> (((x * y) % 2) + ((x * y) % 3)) % 2
        [] mask = 7 -> (((x + y) % 2) + ((x * y) % 3)) % 2

\* The place of a data module in the snake of the codewords' bits: two columns up,
\* two columns down, the right one first.
FromRight(dimension, x) == IF x > 6 THEN dimension - 1 - x ELSE dimension - 2 - x

PairOf(dimension, x) == FromRight(dimension, x) \div 2

Along(dimension, x, y) ==
  LET pair == PairOf(dimension, x)
  IN  2 * dimension * pair
        + 2 * (IF pair % 2 = 0 THEN dimension - 1 - y ELSE y)
        + (FromRight(dimension, x) % 2)
=============================================================================
