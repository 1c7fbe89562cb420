------------------------------- MODULE QRSymbol -------------------------------
(***************************************************************************)
(* How jsQR reads the codewords out of a square of modules: the format and *)
(* version information with their tolerance, the function patterns, the    *)
(* order of the data modules, the masks and the interleaving of blocks.    *)
(*                                                                         *)
(* A BitMatrix is a record of its dimension and the set of its black       *)
(* modules, pairs <<x, y>> from 0; a module outside of it is white.        *)
(***************************************************************************)
EXTENDS QRVersions, FiniteSets

NoMatrix == [dimension |-> 0, black |-> {}]

Black(matrix, x, y) == <<x, y>> \in matrix.black

Transposed(matrix) ==
  [matrix EXCEPT !.black = {<<m[2], m[1]>> : m \in matrix.black}]

\* The number that a sequence of modules spells, the first one its highest bit.
Spelled(matrix, modules) ==
  LET value[i \in 0..Len(modules)] ==
        IF i = 0 THEN 0
        ELSE 2 * value[i - 1]
               + (IF Black(matrix, modules[i][1], modules[i][2]) THEN 1 ELSE 0)
  IN  value[Len(modules)]

numBitsDiffering(x, y) ==
  Cardinality({i \in 0..17 : (x \div 2^i) % 2 # (y \div 2^i) % 2})

Tolerated(difference) == difference <= 3

-----------------------------------------------------------------------------
FORMAT_INFO_TABLE ==
  << \h5412, \h5125, \h5E7C, \h5B4B, \h45F9, \h40CE, \h4F97, \h4AA0,
     \h77C4, \h72F3, \h7DAA, \h789D, \h662F, \h6318, \h6C41, \h6976,
     \h1689, \h13BE, \h1CE7, \h19D0, \h0762, \h0255, \h0D0C, \h083B,
     \h355F, \h3068, \h3F31, \h3A06, \h24B4, \h2183, \h2EDA, \h2BED >>

\* Eight masks of one error correction level after those of another.
FormatInfo(i) ==
  [level |-> <<1, 0, 3, 2>>[((i - 1) \div 8) + 1], mask |-> (i - 1) % 8]

NoFormat == [level |-> -1, mask |-> -1]

\* Around the top left finder pattern, without the timing patterns.
TopLeftFormat ==
  [i \in 1..8 |-> <<IF i <= 6 THEN i - 1 ELSE i, 8>>] \o
  [i \in 1..7 |-> <<8, IF i = 1 THEN 7 ELSE 7 - i>>]

\* Beside the two other finder patterns.
OtherFormat(dimension) ==
  [i \in 1..7 |-> <<8, dimension - i>>] \o
  [i \in 1..8 |-> <<dimension - 9 + i, 8>>]

\* The first entry that a copy equals, or else the first of the nearest ones.
readFormatInformation(matrix) ==
  LET one == Spelled(matrix, TopLeftFormat)
      two == Spelled(matrix, OtherFormat(matrix.dimension))
      entries == DOMAIN FORMAT_INFO_TABLE
      exact == {i \in entries : FORMAT_INFO_TABLE[i] \in {one, two}}
      off == [i \in entries |->
                LET a == numBitsDiffering(one, FORMAT_INFO_TABLE[i])
                    b == numBitsDiffering(two, FORMAT_INFO_TABLE[i])
                IN  IF a <= b THEN a ELSE b]
      near == {i \in entries : \A j \in entries : off[i] <= off[j]}
      first(S) == CHOOSE i \in S : \A j \in S : i <= j
  IN  IF exact # {} THEN FormatInfo(first(exact))
      ELSE IF Tolerated(off[first(near)]) THEN FormatInfo(first(near))
      ELSE NoFormat

-----------------------------------------------------------------------------
NoVersion == 0

\* Six rows of three modules, and the same mirrored.
TopRightVersion(dimension) ==
  [i \in 1..18 |-> <<dimension - 9 - ((i - 1) % 3), 5 - (i - 1) \div 3>>]

BottomLeftVersion(dimension) ==
  [i \in 1..18 |-> <<5 - (i - 1) \div 3, dimension - 9 - ((i - 1) % 3)>>]

\* A version without information counts as zero when the bits are compared.
ComparedInfo(v) ==
  IF VERSIONS[v].infoBits = NoInfo THEN 0 ELSE VERSIONS[v].infoBits

readVersion(matrix) ==
  LET provisional == (matrix.dimension - 17) \div 4
      one == Spelled(matrix, TopRightVersion(matrix.dimension))
      two == Spelled(matrix, BottomLeftVersion(matrix.dimension))
      versions == DOMAIN VERSIONS
      exact == {v \in versions : VERSIONS[v].infoBits \in {one, two}}
      off == [v \in versions |->
                LET a == numBitsDiffering(one, ComparedInfo(v))
                    b == numBitsDiffering(two, ComparedInfo(v))
                IN  IF a <= b THEN a ELSE b]
      near == {v \in versions : \A w \in versions : off[v] <= off[w]}
      first(S) == CHOOSE v \in S : \A w \in S : v <= w
  IN  IF provisional <= 6 THEN provisional
      ELSE IF exact # {} THEN first(exact)
      ELSE IF Tolerated(off[first(near)]) THEN first(near)
      ELSE NoVersion

-----------------------------------------------------------------------------
InRegion(x, y, left, top, width, height) ==
  x \in left..(left + width - 1) /\ y \in top..(top + height - 1)

\* Slip: an alignment pattern also in the corner of the third finder pattern.
AlignmentAtThree(cx, cy, dimension) ==
  <<cx, cy>> \notin {<<6, 6>>, <<6, dimension - 7>>}

\* No alignment pattern where a finder pattern is.
AlignmentAt(cx, cy, dimension) ==
  <<cx, cy>> \notin {<<6, 6>>, <<6, dimension - 7>>, <<dimension - 7, 6>>}

\* The modules that buildFunctionPatternMask sets.
IsFunctionPattern(version, x, y) ==
  LET dimension == 17 + 4 * version
      centers == VERSIONS[version].centers
  IN  \/ InRegion(x, y, 0, 0, 9, 9)
      \/ InRegion(x, y, dimension - 8, 0, 8, 9)
      \/ InRegion(x, y, 0, dimension - 8, 9, 8)
      \/ \E cx \in centers :
           /\ x \in (cx - 2)..(cx + 2)
           /\ \E cy \in centers : /\ y \in (cy - 2)..(cy + 2)
                                  /\ AlignmentAt(cx, cy, dimension)
      \/ InRegion(x, y, 6, 9, 1, dimension - 17)
      \/ InRegion(x, y, 9, 6, dimension - 17, 1)
      \/ /\ version > 6
         /\ \/ InRegion(x, y, dimension - 11, 0, 3, 6)
            \/ InRegion(x, y, 0, dimension - 11, 6, 3)

\* Pairs of columns from the right, upwards and downwards in turn, without the
\* column of the vertical timing pattern.
ReadingOrder(version) ==
  LET dimension == 17 + 4 * version
      column(n) == IF dimension - 1 - 2 * n > 6
                     THEN dimension - 1 - 2 * n
                     ELSE dimension - 2 - 2 * n
      module(k) ==
        LET n == k \div (2 * dimension)
            i == (k % (2 * dimension)) \div 2
        IN  <<column(n) - (k % 2), IF n % 2 = 0 THEN dimension - 1 - i ELSE i>>
      all == [k \in 1..(dimension * (dimension - 1)) |-> module(k - 1)]
  IN  SelectSeq(all, LAMBDA m : ~IsFunctionPattern(version, m[1], m[2]))

DATA_MASKS(mask, x, y) ==
  CASE mask = 0 -> (y + x) % 2 = 0
    [] mask = 1 -> y % 2 = 0
    [] mask = 2 -> x % 3 = 0
    [] mask = 3 -> (y + x) % 3 = 0
    [] mask = 4 -> ((y \div 2) + (x \div 3)) % 2 = 0
    [] mask = 5 -> ((x * y) % 2) + ((x * y) % 3) = 0
    [] mask = 6 -> (((y * x) % 2) + ((y * x) % 3)) % 2 = 0
    [] mask = 7 -> (((y + x) % 2) + ((y * x) % 3)) % 2 = 0

\* Modules left over at the end are no whole codeword.
readCodewords(matrix, version, mask) ==
  LET order == ReadingOrder(version)
      bit(m) == IF Black(matrix, m[1], m[2]) # DATA_MASKS(mask, m[1], m[2])
                  THEN 1 ELSE 0
      byte(k) == LET value[i \in 0..8] ==
                       IF i = 0 THEN 0
                                ELSE 2 * value[i - 1] + bit(order[8 * k + i])
                 IN  value[8]
  IN  [k \in 1..(Len(order) \div 8) |-> byte(k - 1)]

-----------------------------------------------------------------------------
\* errorCorrectionLevels[ecLevel].
Level(version, level) == VERSIONS[version].levels[level + 1]

NumBlocks(b) == b.short + b.long

DataCodewords(b, i) == IF i <= b.short THEN b.data ELSE b.data + 1

TotalCodewords(b) == b.short * b.data + b.long * (b.data + 1)
                       + NumBlocks(b) * b.check

NoBlocks == <<>>

\* Slip: the check codewords follow one codeword too early in a long block.
ShortOffset(b) == b.short * b.data + b.long * b.data

\* The number of data codewords that are interleaved.
CheckOffset(b) == b.short * b.data + b.long * (b.data + 1)

\* Codeword j of block i: first the codewords of all blocks in turn, then the last
\* ones of the long blocks, then the check codewords in turn.
getDataBlocks(codewords, version, level) ==
  LET b == Level(version, level)
      n == NumBlocks(b)
      data(i) == [j \in 1..b.data |-> codewords[(j - 1) * n + i]]
      last(i) == IF i > b.short THEN <<codewords[b.data * n + i - b.short]>>
                                ELSE <<>>
      check(i) == [j \in 1..b.check |-> codewords[CheckOffset(b) + (j - 1) * n + i]]
  IN  IF Len(codewords) < TotalCodewords(b)
        THEN NoBlocks
        ELSE [i \in 1..n |->
                [data |-> DataCodewords(b, i),
                 codewords |-> data(i) \o last(i) \o check(i)]]
=============================================================================
