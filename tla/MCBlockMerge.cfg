CONSTANTS
  Block = {b1, b2, b3}
  Function = {}
  NoFunction = NoFunction
  Name = {n1}
  NoName = NoName
  SplitName <- MCSplitName
  Branches = {br}
  CondBranches = {}
  Phis = {}
  Computations = {add}
  Instr <- MCInstr
  OpOf <- MCOpOf
  DefOf <- MCDefOf
  UseOf <- MCUseOf
  Var <- MCVar
  Labels = {}
  MaxInstrs = 2
SYMMETRY Symmetry
SPECIFICATION BlockSpec
CHECK_DEADLOCK FALSE
PROPERTIES
  MergeKeepsTerminatorsLast
  MergeKeepsSingleDefinitions
  MergeRunsBothBodies
