CONSTANTS
  Block = {b1, b2}
  Function = {f, g}
  NoFunction = NoFunction
  Name = {n1}
  NoName = NoName
  SplitName <- MCSplitName
  Instr = {}
  OpOf <- MCOpOf
  DefOf <- MCNoVars
  UseOf <- MCNoVars
  Var = {}
  Labels = {}
  MaxInstrs = 0
  MaxBlocks = 2
SYMMETRY Symmetry
SPECIFICATION Spec
CHECK_DEADLOCK FALSE
PROPERTY RemovalKeepsOtherParents
