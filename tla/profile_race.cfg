SPECIFICATION Spec
CONSTANTS
  u1 = u1
  Item = {i1, i2}
  User = {u1}
  Domain = {d1, d2}
  Handler = {h1, h2}
  Told <- MinorsTell
  ConsentDomain = {d2}
  GuardianDomain = {d1}
  Limit = 1
  MayFail = TRUE
  Endpoints = {"create", "domains", "update", "accept", "guardian", "participant", "pause", "unpause", "delete"}
  NoItem = NoItem
  NoUser = NoUser
  NoDomain = NoDomain
SYMMETRY Symmetry
CHECK_DEADLOCK FALSE
INVARIANTS TypeOK ProfileLimit OneDomain LiveBehindGates
