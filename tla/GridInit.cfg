\* Two payments of one shopper with the same token, one initialisation at any time,
\* one crash of a node or one lock timeout.  A second try is only the re-execution
\* after a crash: with retries of its own the instance is out of reach of five minutes.
SPECIFICATION FairSpecI
CONSTANTS
  MaxInt = 15
  Shopper = {s1}
  TokenId = {t1}
  Request = {r1, r2}
  NoRequest = NoRequest
  Amount = {3}
  AutoCharge <- AutoTwo
  InitBalance <- BalanceOne
  Registered = {s1}
  WalletOwner = {s1}
  MaxRetry = 1
  FaultKinds = {"crash", "timeout"}
  MaxFaults = 1
  MaxIssues = 1
INVARIANTS
  RefillConserves
PROPERTIES
  Refilled
  Answered
CHECK_DEADLOCK FALSE
