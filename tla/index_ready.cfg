SPECIFICATION Spec
CONSTANTS
  Players = {p1}
  Gates = {g1, g2}
  MaxWrites = 2
  NoSession = NoSession
  Leaders = {l1, l2}
  Audits = FALSE
  ShortLived = FALSE
  MaxLegacy = 1
  MaxFaults = 1
  NoPlayer = NoPlayer
  NoGate = NoGate
SYMMETRY Symmetric
INVARIANT ReadyMeansIndexed
CHECK_DEADLOCK FALSE
