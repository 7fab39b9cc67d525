SPECIFICATION FairSpec
CONSTANTS
  i1 = i1  i2 = i2  i3 = i3  u1 = u1  u2 = u2  u3 = u3  n1 = n1  n2 = n2
  Item = {i1, i2, i3}
  User = {u1, u2, u3}
  Instance = {n1, n2}
  Handler = {h1}
  ActionId = {a1}
  Owner <- ThreeOwners
  Home <- OneRemote
  Minor = {}
  Status = {"created", "accepted", "rejected", "cancelled"}
  Requestable = {"accepted", "cancelled"}
  AcceptBucket = {"accepted"}
  RejectBucket = {"rejected"}
  CancelBucket = {"cancelled"}
  RevealStatus = {"accepted"}
  Cap = 1
  PauseEnabled = TRUE
  MayFail = FALSE
  MaxCount = 1
  Endpoints = {"perform", "update", "pause", "unpause", "retire", "delete"}
  NoItem = NoItem
  NoAction = NoAction
CHECK_DEADLOCK FALSE
INVARIANTS RetiredHasNoOpenConnections
PROPERTIES TransitionArrives
