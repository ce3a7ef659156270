CONSTANTS
  Day = 96
  WorkStart = 36
  WorkEnd = 68
  NoTime = NoTime
  NoSet = NoSet
  NoId = NoId
  CommitmentIds = {1}
  CommitmentSpans <- MCSpans
  CandidateIds = {"t1", "t2"}
  CandidateBodies <- MCTasks
  WindowIds = {"window"}
  WindowSpans <- MCWindows
  SetIds = {"set"}
  SetBodies <- MCSets
  Asked <- MCAsked
  MaxRequests = 5
  Origin = 92
  Horizon = 100
  MaxBlocks = 0
  Durations = {1}
  Buffers = {0}
  GapChoices = {0}
  Interventions = {"i1", "i2"}
  DaysOfMonth = {5, 28, 30}
  FreeIds = {"open"}
  Bodies <- MCBodies
  MaxRuns = 0
SPECIFICATION MCSpec
PROPERTY CommitKeepsGap
CHECK_DEADLOCK FALSE
