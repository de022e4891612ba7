\* Three blocks: loops of one, two and three blocks, dead ends that two paths
\* lead to, predecessors that are not reached, more than one sweep.
CONSTANT
  Block = {b1, b2, b3}
SPECIFICATION CallSpec
INVARIANTS
  ReturnsDiscoveryOrder
  SearchIsExact
  CycleMembersAreFound
  CyclesAreListed
  DominanceIsSound
  DominatesIsComplete
  FrontierBoundsDominance
PROPERTIES
  WorkListRunsOut
  TraversalReturns
  ComputationReturns
\* A call that has returned does nothing more.
CHECK_DEADLOCK FALSE
