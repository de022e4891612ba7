------------------------------ MODULE ZIRGraph ------------------------------
(***************************************************************************)
(* Pure operators on a control-flow graph given by an adjacency function   *)
(* next, where next[b] is the set of blocks that b links to.  The code     *)
(* stores one such function in the successors sets of its blocks and       *)
(* its transpose in their predecessors sets.                               *)
(*                                                                         *)
(* Nothing here is recursive, so that modules with proofs can use it.      *)
(***************************************************************************)
EXTENDS Naturals, Sequences

(***************************************************************************)
(* S is closed: no link leaves it.  This is what the visited sets of the   *)
(* code's traversals are when their work list or call stack runs empty.    *)
(***************************************************************************)
Closed(next, S) == \A b \in S : next[b] \subseteq S

(***************************************************************************)
(* The blocks a traversal from a visits: the least closed set around a.    *)
(* The code computes it three times over, always reflexively: by DFS in    *)
(* canReach and in isReachableFrom, by BFS in getReachableBlocks.          *)
(***************************************************************************)
Reachable(next, a) ==
  {b \in DOMAIN next :
     \A S \in SUBSET DOMAIN next : a \in S /\ Closed(next, S) => b \in S}

CanReach(next, a, b) == b \in Reachable(next, a)

(***************************************************************************)
(* s lists what a reaches, each block once, a first, and every other block *)
(* after one that links to it: what clients of getReachableBlocks, the     *)
(* dominator computation among them, get.                                  *)
(***************************************************************************)
IsDiscoveryOrder(next, a, s) ==
  /\ s # << >> /\ s[1] = a
  /\ {s[k] : k \in DOMAIN s} = Reachable(next, a)
  /\ \A j, k \in DOMAIN s : s[j] = s[k] => j = k
  /\ \A k \in DOMAIN s \ {1} : \E j \in 1..(k - 1) : s[k] \in next[s[j]]

\* Adjacency updates, used by every operation that links or unlinks blocks.
\* They nest, so they are written pointwise: a proof that expands nested
\* EXCEPTs on one argument cannot be trusted to the SMT backend.
With(next, a, b) ==
  [v \in DOMAIN next |-> IF v = a THEN next[v] \cup {b} ELSE next[v]]
Without(next, a, b) ==
  [v \in DOMAIN next |-> IF v = a THEN next[v] \ {b} ELSE next[v]]

\* A set with more than one element (size() > 1 in the code).
Several(S) == \E x, y \in S : x # y

(***************************************************************************)
(* An edge from a block with several successors to a block with several    *)
(* predecessors.                                                           *)
(***************************************************************************)
IsCriticalEdge(succ, pred, a, b) ==
  /\ b \in succ[a]
  /\ Several(succ[a])
  /\ Several(pred[b])

CriticalSuccessors(succ, pred, a) ==
  {b \in succ[a] : IsCriticalEdge(succ, pred, a, b)}
=============================================================================
