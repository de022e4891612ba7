CONSTANTS
  Expr <- MCExpr
  Statement <- MCStatement
  Height <- MCHeight
  Word <- MCWord
  ShortWord <- MCShortWord
  Cut <- MCCut
  Leftovers <- MCLeftovers
  NoExpr = NoExpr
  NoNode = NoNode
  NoType = NoType
  MaxNesting = 3
  MaxSymbols = 3

SPECIFICATION Spec
INVARIANTS
  ContextMatchesNesting
  NamesAreUnambiguous
  TypesForgetBuffers

\* A visit that is over does nothing more.
CHECK_DEADLOCK FALSE
