\* The field of eight elements: every pattern of up to two errors in words of seven
\* symbols and of one error in words of five, and some of three errors.
SPECIFICATION Spec
CONSTANTS
  Primitive = 11
  Size = 8
  GeneratorBase = 0
  Codes <- SmallCodes
  Messages <- SmallMessages
INVARIANTS
  KeyEquation
  CorrectsUpToHalf
