-------------------------------- MODULE QRText --------------------------------
(***************************************************************************)
(* How jsQR reads a text out of corrected data bytes: segments of a mode,  *)
(* a character count and the characters, until a terminator.               *)
(*                                                                         *)
(* A segment is read at a bit offset of the data.  Its result is a record  *)
(* of the offset behind it, the bytes and the characters that it adds;     *)
(* Failed stands for an exception.  A character is <<"unicode", n>>, or    *)
(* <<"jis", c>> for the one that shiftJISTable has for the code c.         *)
(***************************************************************************)
EXTENDS Integers, Sequences, ShiftJIS

Failed == [offset |-> -1, bytes |-> <<>>, text |-> <<>>]

Available(data, offset) == 8 * Len(data) - offset

\* BitStream.readBits, which throws when fewer bits are left.
CanRead(data, offset, numBits) == numBits <= Available(data, offset)

readBits(data, offset, numBits) ==
  LET bit(i) == (data[(i \div 8) + 1] \div 2^(7 - (i % 8))) % 2
      value[n \in 0..numBits] ==
        IF n = 0 THEN 0 ELSE 2 * value[n - 1] + bit(offset + n - 1)
  IN  value[numBits]

Unicode(bytes) == [i \in DOMAIN bytes |-> <<"unicode", bytes[i]>>]

\* Versions 1 to 9, 10 to 26, 27 to 40.
SizeClass(version) == IF version <= 9 THEN 1 ELSE IF version <= 26 THEN 2 ELSE 3

CountBits(widths, version) == widths[SizeClass(version)]

\* Characters in groups of bits: a group is a record of its number of bits, the
\* bound that its value must stay under, and the number of bytes that the value
\* stands for.  All but the last are alike.  The first group that cannot be read or
\* is out of bounds fails the segment.
ReadGroups(data, offset, groups, Bytes(_, _)) ==
  LET count == Len(groups)
      at(i) == offset + (i - 1) * groups[1].bits
      group(i) == readBits(data, at(i), groups[i].bits)
      bad == \E i \in DOMAIN groups : \/ ~CanRead(data, at(i), groups[i].bits)
                                      \/ group(i) >= groups[i].bound
      bytesOf(i) == Bytes(groups[i], group(i))
      size == groups[1].size
      byte(k) == bytesOf((k - 1) \div size + 1)[((k - 1) % size) + 1]
      bytes == [k \in 1..((count - 1) * size + groups[count].size) |-> byte(k)]
  IN  IF count = 0 THEN [offset |-> offset, bytes |-> <<>>, text |-> <<>>]
      ELSE IF bad THEN Failed
      ELSE [offset |-> at(count) + groups[count].bits, bytes |-> bytes,
            text |-> Unicode(bytes)]

\* The count of a segment, then its groups.
ReadSegment(data, offset, countBits, Groups(_), Bytes(_, _)) ==
  IF CanRead(data, offset, countBits)
    THEN ReadGroups(data, offset + countBits,
                    Groups(readBits(data, offset, countBits)), Bytes)
    ELSE Failed

-----------------------------------------------------------------------------
\* Three digits in ten bits; two or one at the end in seven or four.
Digits(n) == [bits |-> <<4, 7, 10>>[n], bound |-> 10^n, size |-> n]

NumericGroups(length) ==
  [i \in 1..(length \div 3) |-> Digits(3)] \o
  (IF length % 3 = 0 THEN <<>> ELSE <<Digits(length % 3)>>)

NumericBytes(group, value) ==
  [i \in 1..group.size |-> 48 + ((value \div 10^(group.size - i)) % 10)]

decodeNumeric(data, offset, version) ==
  ReadSegment(data, offset, CountBits(<<10, 12, 14>>, version),
              NumericGroups, NumericBytes)

\* Digits, capitals and nine signs, by their codes.
AlphanumericCharacterCodes ==
  [i \in 1..45 |->
     IF i <= 10 THEN 47 + i
     ELSE IF i <= 36 THEN 54 + i
     ELSE <<32, 36, 37, 42, 43, 45, 46, 47, 58>>[i - 36]]

\* Two characters in eleven bits, one in six.  A value past the table is an
\* exception when a method of the missing character is called.
Pair == [bits |-> 11, bound |-> 45 * 45, size |-> 2]
Single == [bits |-> 6, bound |-> 45, size |-> 1]

AlphanumericGroups(length) ==
  [i \in 1..(length \div 2) |-> Pair] \o
  (IF length % 2 = 0 THEN <<>> ELSE <<Single>>)

AlphanumericBytes(group, value) ==
  IF group.size = 2
    THEN <<AlphanumericCharacterCodes[(value \div 45) + 1],
           AlphanumericCharacterCodes[(value % 45) + 1]>>
    ELSE <<AlphanumericCharacterCodes[value + 1]>>

decodeAlphanumeric(data, offset, version) ==
  ReadSegment(data, offset, CountBits(<<9, 11, 13>>, version),
              AlphanumericGroups, AlphanumericBytes)

-----------------------------------------------------------------------------
\* decodeURIComponent on the bytes, escaped: a function of the browser that reads
\* UTF-8.  The length of a character by its first byte; 0 where none can begin.
Utf8Length(b) ==
  IF b < 128 THEN 1
  ELSE IF b \in 194..223 THEN 2
  ELSE IF b \in 224..239 THEN 3
  ELSE IF b \in 240..244 THEN 4
  ELSE 0

Utf8Char(bytes, i, n) ==
  LET b(j) == bytes[i + j] % 64
  IN  CASE n = 1 -> bytes[i]
        [] n = 2 -> (bytes[i] % 32) * 64 + b(1)
        [] n = 3 -> (bytes[i] % 16) * 4096 + b(1) * 64 + b(2)
        [] n = 4 -> (bytes[i] % 8) * 262144 + b(1) * 4096 + b(2) * 64 + b(3)

\* Neither too long a form, nor a surrogate, nor past the last code point.
Utf8Valid(n, char) ==
  /\ n = 3 => char >= 2048 /\ char \notin 55296..57343
  /\ n = 4 => char \in 65536..1114111

\* The characters from byte i on, up to the first malformed sequence.
Malformed == <<"malformed", 0>>

decodeURIComponent(bytes) ==
  LET from[i \in 1..(Len(bytes) + 1)] ==
        IF i > Len(bytes) THEN <<>>
        ELSE LET n == Utf8Length(bytes[i])
                 whole == /\ n > 0
                          /\ i + n - 1 <= Len(bytes)
                          /\ \A j \in 1..(n - 1) : bytes[i + j] \in 128..191
                          /\ Utf8Valid(n, Utf8Char(bytes, i, n))
             IN  IF whole THEN <<<<"unicode", Utf8Char(bytes, i, n)>>>> \o from[i + n]
                          ELSE <<Malformed>>
  IN  from[1]

Octet == [bits |-> 8, bound |-> 256, size |-> 1]

OctetBytes(group, value) == <<value>>

\* Bytes that are no UTF-8 are kept as bytes, but add nothing to the text.
decodeByte(data, offset, version) ==
  LET segment == ReadSegment(data, offset, CountBits(<<8, 16, 16>>, version),
                             LAMBDA length : [i \in 1..length |-> Octet],
                             OctetBytes)
      text == decodeURIComponent(segment.bytes)
      malformed == \E i \in DOMAIN text : text[i] = Malformed
  IN  IF segment = Failed
        THEN Failed
        ELSE [segment EXCEPT !.text = IF malformed THEN <<>> ELSE text]

-----------------------------------------------------------------------------
\* Codes from 8140 to 9FFC, and from E040 to EBBF.
Offset(c) == IF c < \h1F00 THEN c + \h8140 ELSE c + \hC140

KanjiCode(k) == Offset(256 * (k \div \hC0) + (k % \hC0))

\* fromCharCode of a code without an entry is the character 0.
KanjiChar(c) == IF c \in shiftJISTable THEN <<"jis", c>> ELSE <<"unicode", 0>>

Kanji == [bits |-> 13, bound |-> 2^13, size |-> 2]

KanjiBytes(group, value) ==
  <<KanjiCode(value) \div 256, KanjiCode(value) % 256>>

decodeKanji(data, offset, version) ==
  LET segment == ReadSegment(data, offset, CountBits(<<8, 10, 12>>, version),
                             LAMBDA length : [i \in 1..length |-> Kanji],
                             KanjiBytes)
      char(i) == KanjiChar(256 * segment.bytes[2 * i - 1] + segment.bytes[2 * i])
  IN  IF segment = Failed THEN Failed
      ELSE [segment EXCEPT !.text =
              [i \in 1..(Len(segment.bytes) \div 2) |-> char(i)]]

\* An assignment number of 7, 14 or 21 bits behind 0, 10 or 110, or none behind
\* 111; it adds nothing to the bytes and the text.
decodeECI(data, offset) ==
  LET one(i) == readBits(data, offset + i, 1) = 1
      isOne(i) == CanRead(data, offset + i, 1) /\ one(i)
      ones == CHOOSE n \in 0..3 : /\ \A i \in 0..(n - 1) : isOne(i)
                                  /\ n = 3 \/ ~isOne(n)
      end == offset + (IF ones = 3 THEN 3 ELSE ones + 1 + 7 * (ones + 1))
  IN  IF CanRead(data, offset, end - offset)
        THEN [offset |-> end, bytes |-> <<>>, text |-> <<>>]
        ELSE Failed
=============================================================================
