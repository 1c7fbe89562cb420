SPECIFICATION MCSpec
CONSTANTS
  Primitive = 285
  Size = 256
  GeneratorBase = 0
  Cases <- AllCases
INVARIANTS
  DecodesWhatWasEncoded
  LayoutFits
