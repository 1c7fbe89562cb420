------------------------------- MODULE QRDecoder ------------------------------
(***************************************************************************)
(* jsQR's decoder.decode: from a square of modules to a text, or null.     *)
(* decodeMatrix reads version, format and codewords, corrects the blocks   *)
(* one after the other with ReedSolomon, and reads the segments; whatever  *)
(* goes wrong on the way, decode transposes the square and tries once more *)
(* in case the symbol was seen in a mirror.                                *)
(*                                                                         *)
(* qrPc                                                                    *)
(*   "idle"    before the call of decode                                   *)
(*   "symbol"  decodeMatrix is called                                      *)
(*   "block"   before the correction of the next block                     *)
(*   "rs"      in reedsolomon.decode                                       *)
(*   "text"    decodeData.decode, before the next segment                  *)
(*   "failed"  decodeMatrix has returned nothing                           *)
(*   "done"    decode has returned                                         *)
(***************************************************************************)
EXTENDS ReedSolomon, QRSymbol, QRText

VARIABLES
  qrPc,
  symbol,         \* the square, changed in place by the mirroring
  mirrored,       \* whether it was
  symbolVersion,  \* readVersion's
  blocks,         \* dataBlocks
  corrected,      \* number of blocks corrected
  resultBytes,    \* the data of the corrected blocks
  position,       \* bits of it read
  result          \* its text, bytes and, of the chunks, the modes

readVars == <<symbolVersion, blocks>>
textVars == <<position, result>>
qrVars == <<qrPc, symbol, mirrored, readVars, corrected, resultBytes, textVars>>

NoResult == [text |-> <<>>, bytes |-> <<>>, chunks |-> <<>>]

Init ==
  /\ qrPc = "idle"
  /\ symbol = NoMatrix
  /\ mirrored = FALSE
  /\ symbolVersion = NoVersion
  /\ blocks = NoBlocks
  /\ corrected = 0
  /\ resultBytes = <<>>
  /\ position = 0
  /\ result = NoResult
  /\ Called(<<>>, 0)

\* decode(m) is called.
Decode(m) ==
  /\ qrPc = "idle"
  /\ symbol' = m
  /\ qrPc' = "symbol"
  /\ UNCHANGED <<mirrored, readVars, corrected, resultBytes, textVars, rsVars>>

ReadSymbol ==
  LET v == readVersion(symbol)
      f == readFormatInformation(symbol)
      read == getDataBlocks(readCodewords(symbol, v, f.mask), v, f.level)
  IN  /\ qrPc = "symbol"
      /\ \/ /\ v = NoVersion \/ f = NoFormat
            /\ qrPc' = "failed"
            /\ UNCHANGED readVars
         \/ /\ v # NoVersion /\ f # NoFormat
            /\ symbolVersion' = v
            /\ blocks' = read
            /\ qrPc' = IF read = NoBlocks THEN "failed" ELSE "block"
      /\ UNCHANGED <<symbol, mirrored, corrected, resultBytes, textVars, rsVars>>

CorrectBlock ==
  LET b == blocks[corrected + 1]
  IN  /\ qrPc = "block"
      /\ corrected < Len(blocks)
      /\ Call(b.codewords, Len(b.codewords) - b.data)
      /\ qrPc' = "rs"
      /\ UNCHANGED <<symbol, mirrored, readVars, corrected, resultBytes, textVars>>

RSStep ==
  /\ qrPc = "rs"
  /\ RSNext
  /\ UNCHANGED qrVars

TakeBlock ==
  LET b == blocks[corrected + 1]
  IN  /\ qrPc = "rs"
      /\ \/ /\ rsPc = "ok"
            /\ resultBytes' = resultBytes \o SubSeq(word, 1, b.data)
            /\ corrected' = corrected + 1
            /\ qrPc' = "block"
         \/ /\ rsPc = "null"
            /\ qrPc' = "failed"
            /\ UNCHANGED <<resultBytes, corrected>>
      /\ UNCHANGED <<symbol, mirrored, readVars, textVars, rsVars>>

AllCorrected ==
  /\ qrPc = "block"
  /\ corrected = Len(blocks)
  /\ qrPc' = "text"
  /\ UNCHANGED <<symbol, mirrored, readVars, corrected, resultBytes, textVars, rsVars>>

-----------------------------------------------------------------------------
(* decodeData.decode                                                       *)

HasMode == Available(resultBytes, position) >= 4

NextMode == readBits(resultBytes, position, 4)

ModeName == [m \in {1, 2, 4, 7, 8} |->
               CASE m = 1 -> "numeric" [] m = 2 -> "alphanumeric"
                 [] m = 4 -> "byte" [] m = 7 -> "eci" [] m = 8 -> "kanji"]

ReadMode(m, at) ==
  CASE m = 1 -> decodeNumeric(resultBytes, at, symbolVersion)
    [] m = 2 -> decodeAlphanumeric(resultBytes, at, symbolVersion)
    [] m = 4 -> decodeByte(resultBytes, at, symbolVersion)
    [] m = 7 -> decodeECI(resultBytes, at)
    [] m = 8 -> decodeKanji(resultBytes, at, symbolVersion)

Segment ==
  LET m == NextMode
      segment == ReadMode(m, position + 4)
  IN  /\ qrPc = "text"
      /\ HasMode
      /\ m \in DOMAIN ModeName
      /\ \/ /\ segment = Failed
            /\ qrPc' = "failed"
            /\ UNCHANGED textVars
         \/ /\ segment # Failed
            /\ position' = segment.offset
            /\ result' = [text |-> result.text \o segment.text,
                          bytes |-> result.bytes \o segment.bytes,
                          chunks |-> Append(result.chunks, ModeName[m])]
            /\ UNCHANGED qrPc
      /\ UNCHANGED <<symbol, mirrored, readVars, corrected, resultBytes, rsVars>>

\* A mode that no branch knows: its bits are skipped.
UnknownMode ==
  /\ qrPc = "text"
  /\ HasMode
  /\ NextMode \notin DOMAIN ModeName \cup {0}
  /\ position' = position + 4
  /\ UNCHANGED <<qrPc, symbol, mirrored, readVars, corrected, resultBytes,
                 result, rsVars>>

\* A terminator; or less than a mode is left, and all of it zero.
Ends ==
  IF HasMode
    THEN NextMode = 0
    ELSE readBits(resultBytes, position, Available(resultBytes, position)) = 0

EndText ==
  /\ qrPc = "text"
  /\ HasMode => NextMode = 0
  /\ qrPc' = IF Ends THEN "done" ELSE "failed"
  /\ UNCHANGED <<symbol, mirrored, readVars, corrected, resultBytes, textVars, rsVars>>

-----------------------------------------------------------------------------
\* The second call of decodeMatrix starts afresh.
Mirror ==
  /\ qrPc = "failed"
  /\ ~mirrored
  /\ symbol' = Transposed(symbol)
  /\ mirrored' = TRUE
  /\ qrPc' = "symbol"
  /\ blocks' = NoBlocks
  /\ corrected' = 0
  /\ resultBytes' = <<>>
  /\ position' = 0
  /\ result' = NoResult
  /\ UNCHANGED <<symbolVersion, rsVars>>

\* decode has returned: null, or the text, the bytes and the modes.
Returned ==
  \/ qrPc = "done"
  \/ qrPc = "failed" /\ mirrored

DecoderNext ==
  \/ ReadSymbol \/ CorrectBlock \/ RSStep \/ TakeBlock \/ AllCorrected
  \/ Segment \/ UnknownMode \/ EndText \/ Mirror

\* Every codeword of a block is one of the symbol, and every codeword of the symbol
\* is in a block: the modules that are no function pattern make as many codewords
\* as the table of blocks says, at each error correction level.
Fits(v) ==
  \E n \in {Len(ReadingOrder(v)) \div 8} :
    \A level \in 0..3 : n = TotalCodewords(Level(v, level))
=============================================================================
