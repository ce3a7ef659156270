CONSTANTS
  UpsertLayers = {}
  DedupLayers = {"proposal"}
  Ids = {"a"}
  LenientLayers = {}
  Shorter <- MCShorter
  Stray = "stray"
  Stamps = {1, 2}
  Faults = {"refuse"}
  FaultyLayers = {"proposal"}
  MaxWrites = 3
SPECIFICATION Spec
INVARIANT AcknowledgedSurvives
CHECK_DEADLOCK FALSE
