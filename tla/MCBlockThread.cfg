CONSTANTS
  Block = {b1, b2, b3}
  Function = {}
  NoFunction = NoFunction
  Name = {n1, n2}
  NoName = NoName
  SplitName <- MCSplitName
  Branches = {br1, br2}
  CondBranches = {}
  Phis = {}
  Computations = {}
  Instr <- MCInstr
  OpOf <- MCOpOf
  DefOf <- MCDefOf
  UseOf <- MCUseOf
  Var <- MCVar
  Labels = {n1, n2}
  MaxInstrs = 1
SYMMETRY Symmetry
SPECIFICATION BlockSpec
CHECK_DEADLOCK FALSE
PROPERTIES
  ThreadingKeepsBranchesInStep
  ThreadingKeepsPaths
