------------------------------- MODULE ShiftJIS -------------------------------
(***************************************************************************)
(* jsQR's table from Shift JIS codes to Unicode.  No two codes have the    *)
(* same character, so a character is known by its code, and all that is    *)
(* left of the table is which codes have an entry.                         *)
(***************************************************************************)
EXTENDS Integers

\* The codes lead * 256 + trail, over an interval of trail bytes.
Cells(lead, first, last) == {256 * lead + trail : trail \in first..last}

\* A full row of two times 94 characters: 7F is not a trail byte.
FullRow(lead) == Cells(lead, \h40, \h7E) \cup Cells(lead, \h80, \hFC)

FirstHalf(lead) == Cells(lead, \h40, \h7E) \cup Cells(lead, \h80, \h9E)

SecondHalf(lead) == Cells(lead, \h9F, \hFC)

Latin == \h20..\h7E

HalfWidthKatakana == \hA1..\hDF

Punctuation ==
  Cells(\h81, \h40, \h7E) \cup Cells(\h81, \h80, \hAC) \cup
  Cells(\h81, \hB8, \hBF) \cup Cells(\h81, \hC8, \hCE) \cup
  Cells(\h81, \hDA, \hE8) \cup Cells(\h81, \hF0, \hF7) \cup {\h81FC}

AlphabetAndHiragana ==
  Cells(\h82, \h4F, \h58) \cup Cells(\h82, \h60, \h79) \cup
  Cells(\h82, \h81, \h9A) \cup Cells(\h82, \h9F, \hF1)

KatakanaAndGreek ==
  Cells(\h83, \h40, \h7E) \cup Cells(\h83, \h80, \h96) \cup
  Cells(\h83, \h9F, \hB6) \cup Cells(\h83, \hBF, \hD6)

CyrillicAndLines ==
  Cells(\h84, \h40, \h60) \cup Cells(\h84, \h70, \h7E) \cup
  Cells(\h84, \h80, \h91) \cup Cells(\h84, \h9F, \hBE)

KanjiLevel1 ==
  SecondHalf(\h88) \cup UNION {FullRow(lead) : lead \in \h89..\h97} \cup
  Cells(\h98, \h40, \h72)

KanjiLevel2To9F ==
  SecondHalf(\h98) \cup UNION {FullRow(lead) : lead \in \h99..\h9F}

KanjiLevel2FromE0 ==
  UNION {FullRow(lead) : lead \in \hE0..\hE9} \cup FirstHalf(\hEA) \cup
  Cells(\hEA, \h9F, \hA4)

shiftJISTable ==
  Latin \cup HalfWidthKatakana \cup Punctuation \cup AlphabetAndHiragana \cup
  KatakanaAndGreek \cup CyrillicAndLines \cup KanjiLevel1 \cup
  KanjiLevel2To9F \cup KanjiLevel2FromE0
=============================================================================
