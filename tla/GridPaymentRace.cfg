\* Three requests of one shopper for the same or for different tokens, each of which is
\* issued up to twice; two tries, the smallest number that conflicts can use up.
SPECIFICATION Spec
CONSTANTS
  MaxInt = 7
  Shopper = {s1}
  TokenId = {t1, t2}
  Request = {r1, r2, r3}
  NoRequest = NoRequest
  Amount = {3}
  AutoCharge <- AutoTwo
  InitBalance <- BalanceOne
  Registered = {s1}
  WalletOwner = {s1}
  MaxRetry = 2
  FaultKinds = {}
  MaxFaults = 0
  MaxIssues = 2
INVARIANTS
  TypeOK
  Conservation
  AllOrNothing
  ReplyTellsTheTruth
  ConflictsMeanProgress
PROPERTY ImplementsLedger
SYMMETRY RequestSymmetry
CHECK_DEADLOCK FALSE
