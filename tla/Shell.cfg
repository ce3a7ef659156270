SPECIFICATION MCSpec
CONSTANTS
  w1 = w1
  w2 = w2
  Windows <- MCWindows
  Tokens <- MCTokens
  Commands <- MCCommands
  HighRisk = {"remove"}
  SelfContained = {"list"}
  Required <- MCRequired
  Renamed <- MCRenamed
  ParserNames <- MCParserNames
  NoCommand = "none"
  Answers <- MCAnswers
  MaxClock = 1
  MaxTurns = 3
  Vocabulary <- MCVocabulary
  Texts <- MCTexts
  MaxWords = 4
SYMMETRY MCSymmetry
INVARIANT TypeOK
INVARIANT TranscriptKept
INVARIANT ShownIsResolvable
INVARIANT AcceptRunsShown
INVARIANT StatusNeverUnderreports
INVARIANT NarrationFitsDeed
INVARIANT RoutedRunsAreGuarded
INVARIANT LinesAreObeyed
CHECK_DEADLOCK FALSE
