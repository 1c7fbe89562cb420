\* Two requests of two shoppers, one of whom can run out of money; one fault, a node of
\* the grid that dies under a payment or an event that the broker refuses; a crash of the
\* point application and a lost node of its task.  A second try is only the
\* re-execution after a crash.  The second shopper has an entry for points, or has none.
SPECIFICATION MCSpec
CONSTANTS
  MaxInt = 1023
  Shopper = {s1, s2}
  TokenId = {t1}
  Request = {r1, r2}
  NoRequest = NoRequest
  Amount = {250}
  AutoCharge <- FirstCharges
  InitBalance <- OthersHold
  Registered = {s1, s2}
  WalletOwner = {s1, s2}
  MaxRetry = 1
  FaultKinds = {"nack", "crash"}
  MaxFaults = 1
  MaxIssues = 1
  First = s1
  StartPoints = 10
  MaxEvents = 2
  MaxRuns = 3
  MaxCrashes = 1
  MaxOwnerLost = 1
INVARIANTS
  PointsMatchSpending
  NoEventForNothing
PROPERTY PaidIsRewarded
CHECK_DEADLOCK FALSE
