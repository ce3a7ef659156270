CONSTANTS
  Modules = {"auditor", "triage", "rival", "twin", "nameless", "blank"}
  Descriptor <- MCDescriptor
  Calls <- MCCalls
  CallTier = 1
  RequestIds = {"r"}
  Capabilities = {"audit", "triage", "state", "other"}
  Tiers = {0, 1}
  NoId = NoId
  NoCapability = NoCapability
  Outcomes = {"Succeeded", "Failed"}
  Throws = TRUE
  MaxRequests = 3
SPECIFICATION FairSpec
INVARIANTS TypeOK OwnershipIsExact NoSilentEscalation LogIsTrue
PROPERTY EveryDispatchEnds
CHECK_DEADLOCK FALSE
