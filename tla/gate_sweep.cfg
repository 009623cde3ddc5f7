SPECIFICATION LiveSpec
CONSTANTS
  Players = {p1}
  Gates = {g1, g2}
  MaxWrites = 2
  NoSession = NoSession
  Replicas = {r1, r2}
  MinKnown = 2
  MaxFailures = 2
  Legacy = TRUE
  Overlap = FALSE
  Broken = {r1}
  MaxFaults = 1
  NoGate = NoGate
INVARIANT SteadyGateNotSuspected
INVARIANT IndexCovers
PROPERTY SweepOnlyDead
PROPERTY DeadGateSwept
CHECK_DEADLOCK FALSE
