CONSTANTS
  Modules = {"auditor", "triage"}
  Descriptor <- MCDescriptor
  Calls <- MCCalls
  CallTier = 1
  RequestIds = {"r"}
  Capabilities = {"audit", "triage", "state", "other"}
  Tiers = {0, 1}
  NoId = NoId
  NoCapability = NoCapability
  Outcomes = {"Succeeded", "Failed"}
  Throws = TRUE
  MaxRequests = 3
SPECIFICATION Spec
INVARIANT StartedDispatchesEnd
CHECK_DEADLOCK FALSE
