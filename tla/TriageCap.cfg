CONSTANTS
  NoTime = NoTime
  NoRecord = NoRecord
  ProposalIds = {1, 2, 3, 4}
  ProposalBodies <- CapBodies
  SnapshotIds = {1}
  SnapshotInputs <- NoSnapshots
  Times = {1}
  MaxBatch = 3
  MaxRequests = 2
SPECIFICATION Spec
INVARIANT ActiveInterventionsWithinCap
CHECK_DEADLOCK FALSE
