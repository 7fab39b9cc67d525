SPECIFICATION Spec
CONSTANTS
  Browser = {b1, b2}
  Flow = {f1, f2}
  Session = {s1, s2}
  Pod = {p1, p2}
  Handler = {h1, h2}
  MaxGen = 2
  Rotates = TRUE
  MaxFaults = 1
  Calls = {"me", "logout"}
  NoBrowser = NoBrowser
  NoFlow = NoFlow
  NoSession = NoSession
  NoPod = NoPod
SYMMETRY Symmetry
CHECK_DEADLOCK FALSE
INVARIANTS TypeOK OneSessionPerLogin FirstLoginOnce WaitersHaveLeader LossIsExplained
