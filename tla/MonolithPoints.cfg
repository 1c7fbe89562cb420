\* A payment of 100 yen, which is worth a point.
SPECIFICATION Spec
CONSTANTS
  MaxInt = 1023
  Shopper = {s1}
  TokenId = {t1}
  Request = {r1}
  Creator = {c1}
  Admin = Admin
  NoTx = NoTx
  Amount = {100}
  AutoCharge <- NoAutoCharge
  InitBalance <- Balance300
  Registered = {s1}
  InitPoints = 20
  MaxLost = 0
INVARIANTS
  PointsAdded
CHECK_DEADLOCK FALSE
