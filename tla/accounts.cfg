SPECIFICATION Spec
CONSTANTS
  Id = {i1, i2}
  e1 = e1
  e2 = e2
  p1 = p1
  p2 = p2
  d1 = d1
  d2 = d2
  Email = {e1, e2}
  Phone = {p1, p2}
  Domain = {d1, d2}
  Org = {o1}
  Form <- Forms
  DefaultDomain = d2
  Handler = {h1, h2}
  Open = TRUE
  MaxFaults = 1
  NoId = NoId
  NoEmail = NoEmail
  NoPhone = NoPhone
  NoDomain = NoDomain
  NoOrg = NoOrg
SYMMETRY Symmetry
CHECK_DEADLOCK FALSE
INVARIANTS TypeOK SingleDomain OwnerFitsDomain ExtrasUsedOnce LoginlessOwnsItems
PROPERTY OwnerWriteOnce
