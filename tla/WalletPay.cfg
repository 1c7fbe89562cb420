\* Every wallet and bill of a 4-bit int.
SPECIFICATION FairSpec
CONSTANT MaxInt = 7
INVARIANTS
  TypeOK
  MoneyConserved
  AgreesWithClosedForm
PROPERTY Terminates
CHECK_DEADLOCK FALSE
