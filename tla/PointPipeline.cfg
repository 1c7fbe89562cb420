\* Two events of two shoppers, four executions, two crashes of the consumer and
\* one lost grid node.
SPECIFICATION Spec
CONSTANTS
  Shopper = {s1, s2}
  First = s1
  Amount = {100, 250}
  StartPoints = 10
  MaxEvents = 2
  MaxRuns = 4
  MaxCrashes = 2
  MaxOwnerLost = 1
INVARIANTS
  NoneSkipped
  CreditedOnce
PROPERTIES
  ImplementsLedger
CHECK_DEADLOCK FALSE
