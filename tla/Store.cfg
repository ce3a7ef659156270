CONSTANTS
  UpsertLayers = {"activity", "candidate"}
  DedupLayers = {"proposal"}
  Ids = {"a", "ab"}
  LenientLayers = {"candidate"}
  Shorter <- MCShorter
  Stray = "stray"
  Stamps = {1, 2}
  Faults = {"refuse", "cut", "event", "text"}
  FaultyLayers = {"candidate", "proposal"}
  MaxWrites = 3
SPECIFICATION Spec
INVARIANTS TypeOK MemoryIsReplay DamageIsContained
PROPERTY IsDurable
CHECK_DEADLOCK FALSE
