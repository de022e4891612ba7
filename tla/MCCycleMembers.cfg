\* Two blocks are enough: a loop, and a block that leads into it.
CONSTANT
  Block = {b1, b2}

SPECIFICATION Spec
INVARIANT OnlyCycleMembersAnswer

\* A call that has returned does nothing more.
CHECK_DEADLOCK FALSE
