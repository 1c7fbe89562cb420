\* Two requests for the same token with up to two faults of any kind: a crash
\* and the re-execution of the task, evictions, lock timeouts, a full buffer.
SPECIFICATION Spec
CONSTANTS
  MaxInt = 7
  Shopper = {s1, s2}
  TokenId = {t1}
  Request = {r1, r2}
  NoRequest = NoRequest
  Amount = {3}
  AutoCharge <- AutoTwo
  InitBalance <- BalanceOne
  Registered = {s1}
  WalletOwner = {s1, s2}
  MaxRetry = 3
  FaultKinds = {"crash", "evict", "timeout", "overflow"}
  MaxFaults = 2
  MaxIssues = 2
INVARIANTS
  ChargedOncePerIssue
  ReplyIsOwn
PROPERTIES
  TokenLifecycle
SYMMETRY RequestSymmetry
CHECK_DEADLOCK FALSE
