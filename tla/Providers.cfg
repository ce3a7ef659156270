SPECIFICATION ProviderSpec
CONSTANTS
  OpenAi = "openai"
  Providers = {"openai", "local"}
  Callers = {"cli", "console", "window"}
  Console = "console"
  Window = "window"
  DefaultEndpoint <- MCEndpoint
  BadEndpoints <- MCBadEndpoints
  TestKeys = {1}
  BlankTexts <- MCBlankTexts
  CannedText <- MCCannedText
  Requests <- MCRequests
  SetVariables <- MCSetVariables
  Typed <- MCTyped
  Outcomes <- MCOutcomes
  MaxCalls = 2
  MaxEdits = 2
INVARIANT ProviderTypeOK
INVARIANT KeyFitsRecord
INVARIANT ReferencesSurvive
INVARIANT AttemptsAreTold
PROPERTY SaveKeepsTheRest
CHECK_DEADLOCK FALSE
