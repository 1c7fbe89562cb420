SPECIFICATION MCSpec
CONSTANTS
  isAndroid = TRUE
  MaxInvocations = 3
  Notification = {n1, n2}
  Handler = {h1, h2}
  MaxDeliveries = 4
  None = None
  User = {u1, u2}
  Device = Device
  Absent = Absent
  Offered <- MCOffered
  MaxPosts = 3
  MaxReloads = 1
INVARIANTS OneDrains Coherent MineOfTheSession
PROPERTIES LatestPushDelivered EveryPostSettles
CHECK_DEADLOCK FALSE
