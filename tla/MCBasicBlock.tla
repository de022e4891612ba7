---------------------------- MODULE MCBasicBlock ----------------------------
(***************************************************************************)
(* Instances of ZIRBasicBlock for TLC.  The instruction objects of a run   *)
(* are given by opcode; a computation updates the variable v, the others   *)
(* neither define nor use a variable.                                      *)
(***************************************************************************)
EXTENDS ZIRBasicBlock

CONSTANTS Branches, CondBranches, Phis, Computations

MCInstr == Branches \cup CondBranches \cup Phis \cup Computations

MCOpOf ==
  [i \in MCInstr |-> IF i \in Branches THEN "BR"
                     ELSE IF i \in CondBranches THEN "BR_COND"
                     ELSE IF i \in Phis THEN "PHI" ELSE "ADD"]

MCVar == {"v"}
MCDefOf == [i \in MCInstr |-> IF i \in Computations THEN {"v"} ELSE {}]
MCUseOf == [i \in MCInstr |-> IF i \in Computations THEN {"v"} ELSE {}]

\* Names are told apart, not taken apart: a split block is named like its source.
MCSplitName(m, n) == m

Symmetry ==
  Permutations(Block) \cup Permutations(Name)
    \cup Permutations(Branches) \cup Permutations(Computations)
=============================================================================
