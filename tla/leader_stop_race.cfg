CONSTANTS
  Replicas = {r1}
  Tokens = {t1, t2, t3}
  NoToken = NoToken
  TTL = 6
  RenewTimeout = 1
  SocketBound = 0
  Jitter = 0
  StartDelay = 1
  MaxLate = 1
  MaxFaults = 0
SPECIFICATION FairSpec
PROPERTY StopEndsRun
