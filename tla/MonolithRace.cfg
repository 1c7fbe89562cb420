\* Two payments of one shopper for one or two tokens, two creations of tokens
\* that may collide, one initialisation at any time and one lost connection.
SPECIFICATION FairSpec
CONSTANTS
  MaxInt = 7
  Shopper = {s1}
  TokenId = {t1, t2}
  Request = {r1, r2}
  Creator = {c1, c2}
  Admin = Admin
  NoTx = NoTx
  Amount = {2}
  AutoCharge <- NoAutoCharge
  InitBalance <- BalanceThree
  Registered = {s1}
  InitPoints = 20
  MaxLost = 1
INVARIANTS
  TypeOK
  Conservation
  ChargedOncePerIssue
  AllOrNothing
  ReplyTellsTheTruth
PROPERTIES
  TokenLifecycle
  ImplementsLedger
  Answered
  Initialized
CHECK_DEADLOCK FALSE
