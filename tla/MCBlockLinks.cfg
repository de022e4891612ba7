CONSTANTS
  Block = {b1, b2, b3, b4}
  Function = {}
  NoFunction = NoFunction
  Name = {n1}
  NoName = NoName
  SplitName <- MCSplitName
  Branches = {br}
  CondBranches = {}
  Phis = {}
  Computations = {}
  Instr <- MCInstr
  OpOf <- MCOpOf
  DefOf <- MCDefOf
  UseOf <- MCUseOf
  Var <- MCVar
  Labels = {}
  MaxInstrs = 1
SYMMETRY Symmetry
SPECIFICATION BlockSpec
CHECK_DEADLOCK FALSE
INVARIANTS
  LinkSymmetry
PROPERTIES
  ImplementsFlowGraph
  SplitLeavesNoCriticalEdge
