SPECIFICATION LiveSpec
CONSTANTS
  Players = {p1}
  Gates = {g1, g2}
  MaxWrites = 3
  NoSession = NoSession
  Leaders = {l1}
  Audits = TRUE
  ShortLived = TRUE
  MaxLegacy = 1
  MaxFaults = 1
  NoPlayer = NoPlayer
  NoGate = NoGate
PROPERTY MissingIndexed
PROPERTY ReadyReturns
CHECK_DEADLOCK FALSE
