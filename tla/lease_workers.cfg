SPECIFICATION LiveSpec
CONSTANTS
  g1 = g1
  g2 = g2
  unboundSessionID = 99
  Players = {p1}
  Gates = {g1}
  Conns <- OneConn
  Calls = {r1}
  Workers = {w1, w2}
  Tokens = {t1, t2}
  MaxGen = 2
  NoSession = NoSession
  NoGate = NoGate
  NoToken = NoToken
  NoLocation = NoLocation
  Idle = Idle
  LockExpires = FALSE
  ReadFaults = FALSE
  HandlerFaults = FALSE
INVARIANTS
  DisconnectingHasLease
  NoGhostLocation
PROPERTIES
  LiveLocationKept
  PlayerSettles
CHECK_DEADLOCK FALSE
