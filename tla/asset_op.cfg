SPECIFICATION Spec
CONSTANTS
  Workers = {w1, w2}
  Nodes = {n1, n2}
  MaxEvents = 3
  Budget = 0
  Lease = 1
  Life = 1
  SaveLag = 1
  Gap = 2
  AbandonAfter = 1
  Deadline = 6
  MaxTime = 6
  MaxEpoch = 2
INVARIANTS
  RefundedNeverApplied
  BookedIsStored
PROPERTIES
  OutcomeFixed
  ImplementsTransfer
SYMMETRY Symmetric
CHECK_DEADLOCK FALSE
