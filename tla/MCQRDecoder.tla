------------------------------ MODULE MCQRDecoder -----------------------------
(***************************************************************************)
(* Symbols for QRDecoder: drawn by QREncoder, damaged, and seen straight or*)
(* in a mirror.                                                            *)
(***************************************************************************)
EXTENDS QRDecoder, QREncoder

VARIABLE drawn  \* the symbol that decode is called for

\* garbled: codewords received wrong.  flips, infoFlips: the wrong bits of the two
\* copies of the format and of the version information.
Plain == [version |-> 1, level |-> 0, mask |-> 0, message |-> <<>>,
          valid |-> TRUE, mirror |-> FALSE, garbled |-> {},
          flips |-> <<{}, {}>>, infoFlips |-> <<{}, {}>>]

Dimension(v) == 17 + 4 * v

Side(v) == 0..(Dimension(v) - 1)

DataAmong(v, xs, Chosen(_)) ==
  {m \in {<<x, y>> : x \in xs \ {6}, y \in Side(v)} :
     Chosen(m) /\ ~IsFunctionPattern(v, m[1], m[2])}

Each(m) == TRUE

\* The versions that messages are drawn in: without and with alignment patterns,
\* with version information, and one for every width of the character counts.
MessageVersions == {1, 5, 7, 10, 27}

Modules == [v \in MessageVersions |-> DataAmong(v, Side(v), Each)]

AlongModule(v, m) == Along(Dimension(v), m[1], m[2])

\* The places of a pair of columns, and the number of those before it.
PairPlaces ==
  [v \in MessageVersions |->
     [p \in 0..(Dimension(v) \div 2 - 1) |->
        {AlongModule(v, m) :
           m \in DataAmong(v, {x \in Side(v) : PairOf(Dimension(v), x) = p}, Each)}]]

PairStart ==
  [v \in MessageVersions |->
     LET start[p \in DOMAIN PairPlaces[v]] ==
           IF p = 0 THEN 0
                    ELSE start[p - 1] + Cardinality(PairPlaces[v][p - 1])
     IN  [p \in DOMAIN PairPlaces[v] |-> start[p]]]

\* The place of every data module among them: the bit of the codewords that it has.
Snake ==
  [v \in MessageVersions |->
     [m \in Modules[v] |->
        LET p == PairOf(Dimension(v), m[1])
        IN  PairStart[v][p] +
              Cardinality({a \in PairPlaces[v][p] : a < AlongModule(v, m)})]]

Xored(codewords, garbled) ==
  [i \in DOMAIN codewords |->
     IF i \in garbled THEN Plus(codewords[i], 90) ELSE codewords[i]]

BitsOf(c) ==
  LET b == VERSIONS[c.version].levels[c.level + 1]
      capacity == b.short * b.data + b.long * (b.data + 1)
      codewords ==
        Xored(Interleaved(DataCodewordsOf(c.message, c.version, capacity), b),
              c.garbled)
  IN  Joined([i \in DOMAIN codewords |-> Binary(codewords[i], 8)])

\* The union is over one sequence of bits; the modules after the last one are light.
\* The data modules of a blank symbol, whose codewords are all zero, need no snake.
BlackData(c) ==
  LET masked(m) == MaskedModule(c.mask, m[1], m[2])
      place(m) == Snake[c.version][m] + 1
      bit(bits, n) == n <= Len(bits) /\ bits[n] = 1
  IN  IF c.message = <<>>
        THEN DataAmong(c.version, Side(c.version), masked)
        ELSE UNION {{m \in Modules[c.version] : bit(bits, place(m)) # masked(m)} :
                      bits \in {BitsOf(c)}}

Symbol(c) ==
  LET d == Dimension(c.version)
      format(copy) == Drawn(FormatBits(c.level, c.mask), c.flips[copy],
                            LAMBDA n : FormatPlace(n, copy, d))
      info(copy) == Drawn(VersionBits(c.version), c.infoFlips[copy],
                          LAMBDA n : VersionPlace(n, copy, d))
      square == [dimension |-> d,
                 black |-> BlackData(c) \cup format(1) \cup format(2) \cup
                           (IF c.version > 6 THEN info(1) \cup info(2) ELSE {})]
  IN  IF c.mirror THEN Transposed(square) ELSE square

-----------------------------------------------------------------------------
CONSTANT Cases

MCInit == drawn \in Cases /\ Init

\* The set makes TLC draw the symbol once.
Draw ==
  /\ qrPc = "idle"
  /\ \E square \in {Symbol(drawn)} : Decode(square)
  /\ UNCHANGED drawn

MCNext ==
  \/ Draw
  \/ DecoderNext /\ UNCHANGED drawn
  \/ Returned /\ UNCHANGED <<rsVars, qrVars, drawn>>

MCSpec == MCInit /\ [][MCNext]_<<rsVars, qrVars, drawn>>

-----------------------------------------------------------------------------
CheckOf(c) == VERSIONS[c.version].levels[c.level + 1].check

\* At most half as many wrong codewords as every block has check codewords, and
\* three wrong bits in each copy of the format and the version information.
Legible(c) ==
  /\ 2 * Cardinality(c.garbled) <= CheckOf(c)
  /\ \A copy \in 1..2 :
       Cardinality(c.flips[copy]) <= 3 /\ Cardinality(c.infoFlips[copy]) <= 3

\* A symbol that is damaged no more than the code allows for, seen straight or in a
\* mirror, is read as what was encoded; one with a segment that means nothing, or
\* damaged beyond that, is not read at all.  (jsQR.js, decode 797-815.)
DecodesWhatWasEncoded ==
  /\ qrPc = "done" => drawn.valid /\ result = Said(drawn.message)
  /\ qrPc = "failed" /\ mirrored => ~(drawn.valid /\ Legible(drawn))

\* The forty versions' function patterns leave room for as many codewords as their
\* tables of blocks say, at every level, so no block is cut short or moved.  There is
\* a blank symbol of each version.
\* (jsQR.js, VERSIONS 8284-9587, buildFunctionPatternMask, getDataBlocks.)
LayoutFits == qrPc = "symbol" /\ drawn.message = <<>> => Fits(drawn.version)

-----------------------------------------------------------------------------
Greeting == <<Numeric(<<8, 6, 7, 5>>), Text(<<72, 105>>)>>

Garbled(level) == {3 * i - 2 : i \in 1..(<<3, 5, 6, 8>>[level + 1])}

EveryLevelAndMask ==
  {[Plain EXCEPT !.level = level, !.mask = mask, !.mirror = (level + mask) % 2 = 1,
                 !.message = Greeting, !.garbled = Garbled(level)] :
     level \in 0..3, mask \in 0..7}

EveryVersion ==
  {[Plain EXCEPT !.version = v, !.level = v % 4, !.mask = v % 8] : v \in 1..40}

\* Digits left over, characters left over, bytes of every length of UTF-8, bytes
\* that are none, and the modes without a count.
Messages ==
  {<<Numeric([i \in 1..n |-> (7 * i) % 10])>> : n \in 1..4} \cup
  {<<Alphanumeric([i \in 1..n |-> (17 * i) % 45])>> : n \in {1, 2, 5}} \cup
  { <<Text(<<0, 127, 128, 2047>>)>>, <<Text(<<2048, 55295, 57344, 65535>>)>>,
    <<Text(<<65536, 1114111>>)>>, <<Bytes(<<195>>)>>, <<Bytes(<<192, 128>>)>>,
    <<Bytes(<<237, 160, 128>>)>>, <<Bytes(<<72, 255>>), Text(<<72>>)>>,
    <<Eci(26), Text(<<233>>)>>, <<Eci(1000), Numeric(<<1>>)>>,
    <<Eci(811799), Numeric(<<2>>)>>, <<FNC1, Alphanumeric(<<10, 44>>)>>,
    <<KanjiRow(16, <<1, 94>>), Numeric(<<0>>), Alphanumeric(<<36>>)>> }

EveryMessage == {[Plain EXCEPT !.message = message] : message \in Messages}

\* 71 bits of 72, and all of them: no terminator, or half of one, at the end.
Full ==
  { [Plain EXCEPT !.level = 3, !.message = message] :
      message \in { <<Numeric([i \in 1..17 |-> i % 10])>>,
                    <<Numeric([i \in 1..12 |-> 9]), FNC1, FNC1, FNC1, FNC1>>,
                    <<Text([i \in 1..7 |-> 64 + i])>> } }

\* The widths of the character counts change after versions 9 and 26.
Large ==
  { [Plain EXCEPT !.version = v, !.level = 2, !.mask = 5, !.garbled = {1, 2, 30},
       !.message = Greeting \o
                   <<Alphanumeric(<<10, 11, 12>>), KanjiRow(20, <<7>>)>>] :
      v \in {5, 10, 27} }

\* The cells of JIS X 0208 that have a character.
JisCells ==
  [row \in (1..8) \cup (16..84) |->
     CASE row = 2 -> (1..14) \cup (26..33) \cup (42..48) \cup (60..74) \cup
                     (82..89) \cup {94}
       [] row = 3 -> (16..25) \cup (33..58) \cup (65..90)
       [] row = 4 -> 1..83
       [] row = 5 -> 1..86
       [] row = 6 -> (1..24) \cup (33..56)
       [] row = 7 -> (1..33) \cup (49..81)
       [] row = 8 -> 1..32
       [] row = 47 -> 1..51
       [] row = 84 -> 1..6
       [] OTHER -> 1..94]

JisRow ==
  [row \in DOMAIN JisCells |->
     SelectSeq([i \in 1..94 |-> i], LAMBDA i : i \in JisCells[row])]

\* Of two bytes the decoder's table has a character for each of them and no other.
ASSUME TableAssumption ==
  {c \in shiftJISTable : c > 255} = UNION {{JisCode(row, cell) : cell \in JisCells[row]} :
                                             row \in DOMAIN JisCells}

\* Rows with gaps, odd and even ones, at the ends and where the first byte jumps.
KanjiRows == (1..8) \cup {16, 17, 47, 48, 61, 62, 63, 64, 83, 84}

KanjiOfRows ==
  {[Plain EXCEPT !.version = 7, !.mask = row % 8,
                 !.message = <<KanjiRow(row, JisRow[row])>>] : row \in KanjiRows}

Format(first, second) ==
  [Plain EXCEPT !.message = Greeting, !.mask = 2, !.flips = <<first, second>>]

Info(first, second) ==
  [Plain EXCEPT !.version = 7, !.message = Greeting, !.infoFlips = <<first, second>>]

\* Format and version information at and over the limit.
Smudged ==
  { Format({0, 7, 14}, {}), Format({}, {1, 2, 3}), Format({0, 1, 2}, {12, 13, 14}),
    Format({3, 8, 9}, {3, 8, 9}), Format({0, 1, 2, 3}, {4, 5, 6, 7}),
    Info({0, 8, 17}, {}), Info({}, {1, 2, 3}), Info({4, 5, 6}, {15, 16, 17}),
    Info({0, 1, 2, 3}, {0, 1, 2, 3}), Info({0, 5, 10, 15}, {2, 7, 12, 16}) }

TooGarbled ==
  {[Plain EXCEPT !.message = Greeting, !.garbled = 1..n] : n \in {4, 8, 19, 26}}

\* A segment of mode and count whose units no encoder writes.
Nonsense(mode, count, unit) ==
  [Plain EXCEPT !.valid = FALSE,
     !.message = <<SegmentOf(mode, count, <<unit>>, Says("none", <<>>, <<>>))>>]

Senseless ==
  { Nonsense(1, 3, Unit(1000, 10)), Nonsense(1, 2, Unit(100, 7)),
    Nonsense(1, 1, Unit(10, 4)), Nonsense(2, 2, Unit(2025, 11)),
    Nonsense(2, 1, Unit(45, 6)), Nonsense(4, 200, Unit(65, 8)),
    Nonsense(8, 200, Unit(0, 13)),
    [Nonsense(1, 17, Unit(1, 1)) EXCEPT !.level = 3, !.message =
       <<[Numeric([i \in 1..17 |-> 1]) EXCEPT !.units[6] = Unit(23, 8)]>>] }

AllCases ==
  EveryLevelAndMask \cup EveryVersion \cup EveryMessage \cup Full \cup Large \cup
  KanjiOfRows \cup Smudged \cup TooGarbled \cup Senseless
=============================================================================
