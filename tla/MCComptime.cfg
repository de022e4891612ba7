CONSTANTS
  Programs <- MCPrograms
  PlainPrograms <- MCPlainPrograms
  Nodes <- MCNodes
  Statements <- MCStatements
  ReadAs <- MCReadAs
  Strcmp <- MCStrcmp
  DoubleOp <- MCDoubleOp
  CastOfNonFinite = 0
  Exponents <- MCExponents
  MAX_RECURSION_DEPTH = 3
  MaxRules = 40

SPECIFICATION Spec
INVARIANTS
  CallsBalance
  LiteralsAreOwned
  ResultIsMeaning
PROPERTIES
  TypesPredictResults
  EvaluationEnds
