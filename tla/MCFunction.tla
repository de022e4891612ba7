----------------------------- MODULE MCFunction -----------------------------
(***************************************************************************)
(* Instances of ZIRFunction for TLC.  The instructions of a run are        *)
(* unconditional branches.                                                 *)
(***************************************************************************)
EXTENDS ZIRFunction

MCOpOf == [i \in Instr |-> "BR"]
MCNoVars == [i \in Instr |-> {}]
MCSplitName(m, n) == m

Symmetry == Permutations(Block) \cup Permutations(Function)
=============================================================================
