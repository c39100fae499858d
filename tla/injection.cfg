SPECIFICATION FairSpec
CONSTANTS
  Bad = Bad
  Bodies <- MCBodies
  Literal <- MCLiteral
  NoLiteral = NoLiteral
  EscapeQuotes <- MCEscapeQuotes
  MaxReads = 2
  MaxNoise = 1
CHECK_DEADLOCK FALSE
INVARIANTS TypeOK AnswersAreReal ConfiguredIsSeen
PROPERTIES SettingsSurvive SendCommandsReturns
