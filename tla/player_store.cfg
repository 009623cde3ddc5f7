SPECIFICATION Spec
CONSTANTS
  Nodes = {n1, n2}
  NoNode = NoNode
  FirstSeq = 1
  TooLarge = {3}
  ClocksAhead = TRUE
  MaxResave = 1
  MaxEpoch = 3
  MaxVersion = 3
  MaxOps = 5
  MaxFaults = 1
INVARIANTS
  ConsistentRows
  PublishedDurable
  LiveSaveNeverOlder
  HolderUpToDate
PROPERTIES
  ReleaseSparesReclaimed
  ExitKeepsProgress
SYMMETRY Symmetric
CHECK_DEADLOCK FALSE
