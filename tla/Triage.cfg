CONSTANTS
  NoTime = NoTime
  NoRecord = NoRecord
  ProposalIds = {1, 2}
  ProposalBodies <- LifecycleBodies
  SnapshotIds = {1}
  SnapshotInputs <- LifecycleSnapshots
  Times = {1, 2}
  MaxBatch = 2
  MaxRequests = 3
SPECIFICATION Spec
INVARIANTS TypeOK RecordsHaveTheirOrigin AuditTrail AnsweredRequestIsWhole DecisionsFollowRule
PROPERTY VersionsAdvance
CHECK_DEADLOCK FALSE
