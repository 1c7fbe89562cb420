\* One request, and a full notification buffer.
SPECIFICATION Spec
CONSTANTS
  MaxInt = 7
  Shopper = {s1}
  TokenId = {t1}
  Request = {r1, r2}
  NoRequest = NoRequest
  Amount = {2}
  AutoCharge <- AutoTwo
  InitBalance <- BalanceOne
  Registered = {s1}
  WalletOwner = {s1}
  MaxRetry = 3
  FaultKinds = {"overflow"}
  MaxFaults = 1
  MaxIssues = 1
INVARIANTS
  FailedMeansNotCharged
CHECK_DEADLOCK FALSE
