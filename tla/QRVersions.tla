------------------------------ MODULE QRVersions ------------------------------
(***************************************************************************)
(* The forty versions of a QR symbol, jsQR's table VERSIONS: the bits of   *)
(* the version information, the coordinates of the alignment patterns and, *)
(* for the error correction levels 0 (L), 1 (M), 2 (Q) and 3 (H), how the  *)
(* codewords are cut into blocks.                                          *)
(***************************************************************************)
EXTENDS Integers, Sequences

\* infoBits of the versions that have no version information.
NoInfo == -1

\* short blocks of data codewords each, then long ones of one more; every block
\* has check codewords besides.
Blocks(check, short, data, long) ==
  [check |-> check, short |-> short, data |-> data, long |-> long]

Version(infoBits, centers, low, medium, quartile, high) ==
  [infoBits |-> infoBits, centers |-> centers, levels |-> <<low, medium, quartile, high>>]

VersionsOneToFour ==
  <<
    Version(NoInfo, {},
      Blocks(7, 1, 19, 0), Blocks(10, 1, 16, 0),
      Blocks(13, 1, 13, 0), Blocks(17, 1, 9, 0)),
    Version(NoInfo, {6, 18},
      Blocks(10, 1, 34, 0), Blocks(16, 1, 28, 0),
      Blocks(22, 1, 22, 0), Blocks(28, 1, 16, 0)),
    Version(NoInfo, {6, 22},
      Blocks(15, 1, 55, 0), Blocks(26, 1, 44, 0),
      Blocks(18, 2, 17, 0), Blocks(22, 2, 13, 0)),
    Version(NoInfo, {6, 26},
      Blocks(20, 1, 80, 0), Blocks(18, 2, 32, 0),
      Blocks(26, 2, 24, 0), Blocks(16, 4, 9, 0)) >>

VersionsFiveToEight ==
  <<
    Version(NoInfo, {6, 30},
      Blocks(26, 1, 108, 0), Blocks(24, 2, 43, 0),
      Blocks(18, 2, 15, 2), Blocks(22, 2, 11, 2)),
    Version(NoInfo, {6, 34},
      Blocks(18, 2, 68, 0), Blocks(16, 4, 27, 0),
      Blocks(24, 4, 19, 0), Blocks(28, 4, 15, 0)),
    Version(\h07C94, {6, 22, 38},
      Blocks(20, 2, 78, 0), Blocks(18, 4, 31, 0),
      Blocks(18, 2, 14, 4), Blocks(26, 4, 13, 1)),
    Version(\h085BC, {6, 24, 42},
      Blocks(24, 2, 97, 0), Blocks(22, 2, 38, 2),
      Blocks(22, 4, 18, 2), Blocks(26, 4, 14, 2)) >>

VersionsNineToTwelve ==
  <<
    Version(\h09A99, {6, 26, 46},
      Blocks(30, 2, 116, 0), Blocks(22, 3, 36, 2),
      Blocks(20, 4, 16, 4), Blocks(24, 4, 12, 4)),
    Version(\h0A4D3, {6, 28, 50},
      Blocks(18, 2, 68, 2), Blocks(26, 4, 43, 1),
      Blocks(24, 6, 19, 2), Blocks(28, 6, 15, 2)),
    Version(\h0BBF6, {6, 30, 54},
      Blocks(20, 4, 81, 0), Blocks(30, 1, 50, 4),
      Blocks(28, 4, 22, 4), Blocks(24, 3, 12, 8)),
    Version(\h0C762, {6, 32, 58},
      Blocks(24, 2, 92, 2), Blocks(22, 6, 36, 2),
      Blocks(26, 4, 20, 6), Blocks(28, 7, 14, 4)) >>

VersionsThirteenToSixteen ==
  <<
    Version(\h0D847, {6, 34, 62},
      Blocks(26, 4, 107, 0), Blocks(22, 8, 37, 1),
      Blocks(24, 8, 20, 4), Blocks(22, 12, 11, 4)),
    Version(\h0E60D, {6, 26, 46, 66},
      Blocks(30, 3, 115, 1), Blocks(24, 4, 40, 5),
      Blocks(20, 11, 16, 5), Blocks(24, 11, 12, 5)),
    Version(\h0F928, {6, 26, 48, 70},
      Blocks(22, 5, 87, 1), Blocks(24, 5, 41, 5),
      Blocks(30, 5, 24, 7), Blocks(24, 11, 12, 7)),
    Version(\h10B78, {6, 26, 50, 74},
      Blocks(24, 5, 98, 1), Blocks(28, 7, 45, 3),
      Blocks(24, 15, 19, 2), Blocks(30, 3, 15, 13)) >>

VersionsSeventeenToTwenty ==
  <<
    Version(\h1145D, {6, 30, 54, 78},
      Blocks(28, 1, 107, 5), Blocks(28, 10, 46, 1),
      Blocks(28, 1, 22, 15), Blocks(28, 2, 14, 17)),
    Version(\h12A17, {6, 30, 56, 82},
      Blocks(30, 5, 120, 1), Blocks(26, 9, 43, 4),
      Blocks(28, 17, 22, 1), Blocks(28, 2, 14, 19)),
    Version(\h13532, {6, 30, 58, 86},
      Blocks(28, 3, 113, 4), Blocks(26, 3, 44, 11),
      Blocks(26, 17, 21, 4), Blocks(26, 9, 13, 16)),
    Version(\h149A6, {6, 34, 62, 90},
      Blocks(28, 3, 107, 5), Blocks(26, 3, 41, 13),
      Blocks(30, 15, 24, 5), Blocks(28, 15, 15, 10)) >>

VersionsTwentyOneToTwentyFour ==
  <<
    Version(\h15683, {6, 28, 50, 72, 94},
      Blocks(28, 4, 116, 4), Blocks(26, 17, 42, 0),
      Blocks(28, 17, 22, 6), Blocks(30, 19, 16, 6)),
    Version(\h168C9, {6, 26, 50, 74, 98},
      Blocks(28, 2, 111, 7), Blocks(28, 17, 46, 0),
      Blocks(30, 7, 24, 16), Blocks(24, 34, 13, 0)),
    Version(\h177EC, {6, 30, 54, 74, 102},
      Blocks(30, 4, 121, 5), Blocks(28, 4, 47, 14),
      Blocks(30, 11, 24, 14), Blocks(30, 16, 15, 14)),
    Version(\h18EC4, {6, 28, 54, 80, 106},
      Blocks(30, 6, 117, 4), Blocks(28, 6, 45, 14),
      Blocks(30, 11, 24, 16), Blocks(30, 30, 16, 2)) >>

VersionsTwentyFiveToTwentyEight ==
  <<
    Version(\h191E1, {6, 32, 58, 84, 110},
      Blocks(26, 8, 106, 4), Blocks(28, 8, 47, 13),
      Blocks(30, 7, 24, 22), Blocks(30, 22, 15, 13)),
    Version(\h1AFAB, {6, 30, 58, 86, 114},
      Blocks(28, 10, 114, 2), Blocks(28, 19, 46, 4),
      Blocks(28, 28, 22, 6), Blocks(30, 33, 16, 4)),
    Version(\h1B08E, {6, 34, 62, 90, 118},
      Blocks(30, 8, 122, 4), Blocks(28, 22, 45, 3),
      Blocks(30, 8, 23, 26), Blocks(30, 12, 15, 28)),
    Version(\h1CC1A, {6, 26, 50, 74, 98, 122},
      Blocks(30, 3, 117, 10), Blocks(28, 3, 45, 23),
      Blocks(30, 4, 24, 31), Blocks(30, 11, 15, 31)) >>

VersionsTwentyNineToThirtyTwo ==
  <<
    Version(\h1D33F, {6, 30, 54, 78, 102, 126},
      Blocks(30, 7, 116, 7), Blocks(28, 21, 45, 7),
      Blocks(30, 1, 23, 37), Blocks(30, 19, 15, 26)),
    Version(\h1ED75, {6, 26, 52, 78, 104, 130},
      Blocks(30, 5, 115, 10), Blocks(28, 19, 47, 10),
      Blocks(30, 15, 24, 25), Blocks(30, 23, 15, 25)),
    Version(\h1F250, {6, 30, 56, 82, 108, 134},
      Blocks(30, 13, 115, 3), Blocks(28, 2, 46, 29),
      Blocks(30, 42, 24, 1), Blocks(30, 23, 15, 28)),
    Version(\h209D5, {6, 34, 60, 86, 112, 138},
      Blocks(30, 17, 115, 0), Blocks(28, 10, 46, 23),
      Blocks(30, 10, 24, 35), Blocks(30, 19, 15, 35)) >>

VersionsThirtyThreeToThirtySix ==
  <<
    Version(\h216F0, {6, 30, 58, 86, 114, 142},
      Blocks(30, 17, 115, 1), Blocks(28, 14, 46, 21),
      Blocks(30, 29, 24, 19), Blocks(30, 11, 15, 46)),
    Version(\h228BA, {6, 34, 62, 90, 118, 146},
      Blocks(30, 13, 115, 6), Blocks(28, 14, 46, 23),
      Blocks(30, 44, 24, 7), Blocks(30, 59, 16, 1)),
    Version(\h2379F, {6, 30, 54, 78, 102, 126, 150},
      Blocks(30, 12, 121, 7), Blocks(28, 12, 47, 26),
      Blocks(30, 39, 24, 14), Blocks(30, 22, 15, 41)),
    Version(\h24B0B, {6, 24, 50, 76, 102, 128, 154},
      Blocks(30, 6, 121, 14), Blocks(28, 6, 47, 34),
      Blocks(30, 46, 24, 10), Blocks(30, 2, 15, 64)) >>

VersionsThirtySevenToForty ==
  <<
    Version(\h2542E, {6, 28, 54, 80, 106, 132, 158},
      Blocks(30, 17, 122, 4), Blocks(28, 29, 46, 14),
      Blocks(30, 49, 24, 10), Blocks(30, 24, 15, 46)),
    Version(\h26A64, {6, 32, 58, 84, 110, 136, 162},
      Blocks(30, 4, 122, 18), Blocks(28, 13, 46, 32),
      Blocks(30, 48, 24, 14), Blocks(30, 42, 15, 32)),
    Version(\h27541, {6, 26, 54, 82, 110, 138, 166},
      Blocks(30, 20, 117, 4), Blocks(28, 40, 47, 7),
      Blocks(30, 43, 24, 22), Blocks(30, 10, 15, 67)),
    Version(\h28C69, {6, 30, 58, 86, 114, 142, 170},
      Blocks(30, 19, 118, 6), Blocks(28, 18, 47, 31),
      Blocks(30, 34, 24, 34), Blocks(30, 20, 15, 61)) >>

VERSIONS ==
  VersionsOneToFour \o
  VersionsFiveToEight \o
  VersionsNineToTwelve \o
  VersionsThirteenToSixteen \o
  VersionsSeventeenToTwenty \o
  VersionsTwentyOneToTwentyFour \o
  VersionsTwentyFiveToTwentyEight \o
  VersionsTwentyNineToThirtyTwo \o
  VersionsThirtyThreeToThirtySix \o
  VersionsThirtySevenToForty
===============================================================================
