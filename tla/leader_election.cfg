CONSTANTS
  Replicas = {r1, r2}
  Tokens = {t1, t2, t3}
  NoToken = NoToken
  TTL = 3
  RenewTimeout = 0
  SocketBound = 0
  Jitter = 0
  StartDelay = 3
  MaxLate = 1
  MaxFaults = 1
SPECIFICATION FairSpec
INVARIANTS StaleTermEnds LeaderHoldsKey AtMostOneLeader
PROPERTIES BlipTolerated LeaderEmerges
