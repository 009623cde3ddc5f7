SPECIFICATION Spec
CONSTANTS
  g1 = g1
  g2 = g2
  unboundSessionID = 99
  Players = {p1}
  Gates = {g1, g2}
  Conns <- TwoGatesOneId
  Calls = {r1}
  Workers = {w1}
  Tokens = {t1, t2}
  MaxGen = 2
  NoSession = NoSession
  NoGate = NoGate
  NoToken = NoToken
  NoLocation = NoLocation
  Idle = Idle
  LockExpires = FALSE
  ReadFaults = TRUE
  HandlerFaults = FALSE
INVARIANTS
  NoGhostLocation
CHECK_DEADLOCK FALSE
