SPECIFICATION Spec
CONSTANTS
  i1 = i1  i2 = i2  i3 = i3  u1 = u1  u2 = u2  u3 = u3  n1 = n1  n2 = n2
  Item = {i1, i2}
  User = {u1, u2}
  Instance = {n1, n2}
  Handler = {h1, h2}
  ActionId = {a1}
  Owner <- MCOwner
  Home <- OneHome
  Minor = {}
  Status = {"created", "accepted", "rejected", "cancelled"}
  Requestable = {"accepted", "rejected", "cancelled"}
  AcceptBucket = {"accepted"}
  RejectBucket = {"rejected"}
  CancelBucket = {"cancelled"}
  RevealStatus = {"accepted"}
  Cap = 1
  PauseEnabled = TRUE
  MayFail = TRUE
  MaxCount = 2
  Endpoints = {"perform", "update", "retire"}
  NoItem = NoItem
  NoAction = NoAction
SYMMETRY Symmetry
CHECK_DEADLOCK FALSE
PROPERTIES CancelledIsFinal
