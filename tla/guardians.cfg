SPECIFICATION Spec
CONSTANTS
  w1 = w1
  w2 = w2
  Ward = {w1, w2}
  Contact = {c1}
  Code = {k1, k2}
  Handler = {h1, h2}
  Asks <- Mixed
  MaxWards = 1
  SendMax = 1
  ContactMax = 1
  VerifyMax = 1
  Counted = {"contact"}
  Expires = {"code", "token", "pending", "counter"}
  MayFail = TRUE
  NoContact = NoContact
  NoCode = NoCode
  NoWard = NoWard
  NoKey = NoKey
SYMMETRY Symmetry
CHECK_DEADLOCK FALSE
INVARIANTS TypeOK WardLimit OneEffectPerCode OnlyWhatWasAsked VerifiedIsBacked CountersExpire
