CONSTANTS
  Expr <- MCExpr
  Statement <- MCStatement
  Height <- MCHeight
  Word <- MCWord
  ShortWord <- MCShortWord
  Cut <- MCCut
  Leftovers <- MCLeftovers
  NoExpr = NoExpr
  NoNode = NoNode
  NoType = NoType
  MaxNesting = 3
  MaxSymbols = 3

SPECIFICATION Spec
INVARIANT AssignmentsAgree

CHECK_DEADLOCK FALSE
