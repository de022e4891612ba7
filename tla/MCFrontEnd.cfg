CONSTANTS
  Code <- MCCode
  Letter <- MCLetter
  Digit <- MCDigit
  Space <- MCSpace
  KEYWORDS <- MCKEYWORDS
  MaxLength = 4
  MaxFString = 4
SPECIFICATION Spec
INVARIANTS
  NoNodeIsLost
  ExpressionsFollowGrammar
  DeclarationsKeepTheirParts
  PositionsAreTrue
  TokensAreLongest
  NothingIsLost
PROPERTIES
  FailureIsReported
  EveryStepReads
