CONSTANTS
  Block = {b1, b2, b3}
  Function = {f}
  NoFunction = NoFunction
  Name = {n1}
  NoName = NoName
  SplitName <- MCSplitName
  Instr = {}
  OpOf <- MCOpOf
  DefOf <- MCNoVars
  UseOf <- MCNoVars
  Var = {}
  Labels = {}
  MaxInstrs = 0
  MaxBlocks = 3
SYMMETRY Symmetry
SPECIFICATION Spec
CHECK_DEADLOCK FALSE
PROPERTIES
  ImplementsFlowGraph
  EliminationIsExact
