SPECIFICATION Spec
CONSTANTS
  w1 = w1
  w2 = w2
  Ward = {w1}
  Contact = {c1, c2}
  Code = {k1}
  Handler = {h1}
  Asks <- SigningUp
  MaxWards = 1
  SendMax = 1
  ContactMax = 1
  VerifyMax = 1
  Counted = {"send"}
  Expires = {}
  MayFail = FALSE
  NoContact = NoContact
  NoCode = NoCode
  NoWard = NoWard
  NoKey = NoKey
SYMMETRY Symmetry
CHECK_DEADLOCK FALSE
INVARIANTS VerifiedGuardianAnswered
