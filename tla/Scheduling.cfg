CONSTANTS
  Day = 96
  WorkStart = 36
  WorkEnd = 68
  NoTime = NoTime
  NoSet = NoSet
  NoId = NoId
  CommitmentIds = {c1, c2}
  CommitmentSpans <- MCSpans
  CandidateIds = {t1, t2}
  CandidateBodies <- MCTasks
  WindowIds = {"window"}
  WindowSpans <- MCWindows
  SetIds = {"set"}
  SetBodies <- MCSets
  Asked <- MCAsked
  MaxRequests = 5
  Origin = 92
  Horizon = 100
  MaxBlocks = 2
  Durations = {0, 1, 2}
  Buffers = {0, 1}
  GapChoices = {0, 1}
  Interventions = {i1, i2}
  DaysOfMonth = {5, 28, 30}
  FreeIds = {"open"}
  Bodies <- MCBodies
  MaxRuns = 6
SPECIFICATION MCSpec
SYMMETRY MCSymmetry
INVARIANTS TypeOK PlacementIsRight OffersFollowInterventions NoDoubleBooking NoSilentOverlap CommitLeavesEvidence
PROPERTY CommittedIsFinal
CHECK_DEADLOCK FALSE
