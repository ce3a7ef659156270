CONSTANTS
  NoTime = NoTime
  NoRecord = NoRecord
  Keep = Keep
  Activities = {1, 2}
  Changes <- AllChanges
  Items <- AllItems
  RunNames = {}
  ProposalIds <- AuditIds
  ProposalBodies <- AuditBodies
  SnapshotIds = {0}
  SnapshotInputs <- AuditSnapshots
  Times = {1, 2}
  MaxBatch = 1
  MaxRequests = 4
  MaxCalls = 4
SPECIFICATION FairAuditorSpec
INVARIANTS AuditorTypeOK OutcomeHasEvidence RunIsWhole
PROPERTIES Spec AuditEnds
CHECK_DEADLOCK FALSE
