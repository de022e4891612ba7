------------------------ MODULE ZIRBasicBlock_proofs ------------------------
(***************************************************************************)
(* Theorems about ZIRBasicBlock and, at the end, about ZIRFunction, for    *)
(* any number of blocks, functions, names and instructions and any length  *)
(* of the block lists.                                                     *)
(*                                                                         *)
(* BlockTypeOK and LinkSymmetry need each other: the mirror set of a block *)
(* that does not exist yet is empty only because no existing block links   *)
(* to it.  Their conjunction is inductive.                                 *)
(***************************************************************************)
EXTENDS ZIRFunction, SequenceTheorems, FiniteSetTheorems, TLAPS

BlockInv == BlockTypeOK /\ LinkSymmetry

\* A pair of link functions over the blocks in V, mirror images of each other.
Mirrored(s, p, V) ==
  /\ s \in [Block -> SUBSET V]
  /\ p \in [Block -> SUBSET V]
  /\ \A b, c \in Block : c \in s[b] <=> b \in p[c]

-----------------------------------------------------------------------------
(***************************************************************************)
(* Facts about reachability.  None needs induction: Reachable is a least   *)
(* closed set, so a claim about it is shown by giving one closed set.      *)
(***************************************************************************)
LEMMA ReachableContains ==
  ASSUME NEW B, NEW next \in [B -> SUBSET B], NEW a \in B
  PROVE  a \in Reachable(next, a)
BY DEF Reachable

LEMMA ReachableIsClosed ==
  ASSUME NEW B, NEW next \in [B -> SUBSET B], NEW a \in B
  PROVE  Closed(next, Reachable(next, a))
BY DEF Reachable, Closed

LEMMA ReachableIsLeast ==
  ASSUME NEW B, NEW next \in [B -> SUBSET B], NEW a \in B,
         NEW S \in SUBSET B, a \in S, Closed(next, S)
  PROVE  Reachable(next, a) \subseteq S
BY DEF Reachable

\* The links of an adjacency function that lead into V do not leave V.
LEMMA ReachableStays ==
  ASSUME NEW B, NEW V \in SUBSET B, NEW next \in [B -> SUBSET V], NEW a \in V
  PROVE  Reachable(next, a) \subseteq V
<1>1. next \in [B -> SUBSET B] /\ Closed(next, V)
  BY DEF Closed
<1> QED
  BY <1>1, ReachableIsLeast

(***************************************************************************)
(* A graph that every closed set of another one is closed in reaches no    *)
(* more than the other.                                                    *)
(***************************************************************************)
LEMMA ReachableShrinks ==
  ASSUME NEW B, NEW old \in [B -> SUBSET B], NEW new \in [B -> SUBSET B],
         NEW a \in B,
         \A S \in SUBSET B : Closed(old, S) => Closed(new, S)
  PROVE  Reachable(new, a) \subseteq Reachable(old, a)
<1>1. Reachable(old, a) \in SUBSET B
  BY DEF Reachable
<1> QED
  BY <1>1, ReachableContains, ReachableIsClosed, ReachableIsLeast

(***************************************************************************)
(* The way a pass that adds vertices is shown to keep the paths among the  *)
(* old ones, V.  extra(S) is what is added to a closed set of the old      *)
(* graph to make it closed in the new one; the other way round the new     *)
(* vertices are just taken out of the set.                                 *)
(***************************************************************************)
LEMMA ReachableKept ==
  ASSUME NEW B, NEW V \in SUBSET B,
         NEW old \in [B -> SUBSET V], NEW new \in [B -> SUBSET B],
         NEW a \in V,
         NEW grown \in SUBSET B,
         Reachable(old, a) \subseteq grown,
         grown \cap V \subseteq Reachable(old, a),
         Closed(new, grown),
         Closed(old, Reachable(new, a) \cap V)
  PROVE  Reachable(new, a) \cap V = Reachable(old, a)
<1>1. old \in [B -> SUBSET B] /\ a \in B
  OBVIOUS
<1>2. a \in Reachable(old, a) /\ a \in Reachable(new, a)
  BY <1>1, ReachableContains
<1>3. Reachable(new, a) \subseteq grown
  BY <1>1, <1>2, ReachableIsLeast
<1>4. Reachable(new, a) \cap V \in SUBSET B /\ a \in Reachable(new, a) \cap V
  BY <1>2
<1>5. Reachable(old, a) \subseteq Reachable(new, a) \cap V
  BY <1>1, <1>4, ReachableIsLeast
<1> QED
  BY <1>3, <1>5

-----------------------------------------------------------------------------
(***************************************************************************)
(* The operations on sequences of instructions stay in their type.         *)
(***************************************************************************)
LEMMA RemoveAtType ==
  ASSUME NEW S, NEW s \in Seq(S), NEW k \in DOMAIN s
  PROVE  RemoveAt(s, k) \in Seq(S)
BY SubSeqProperties, ConcatProperties DEF RemoveAt

LEMMA FrontConcatType ==
  ASSUME NEW S, NEW s \in Seq(S), NEW t \in Seq(S), s # << >>
  PROVE  Front(s) \o t \in Seq(S)
BY SubSeqProperties, ConcatProperties DEF Front

-----------------------------------------------------------------------------
(***************************************************************************)
(* A block that does not exist has no links.                               *)
(***************************************************************************)
LEMMA UnbornUnlinked ==
  ASSUME BlockInv, NEW n \in Block, n \notin live
  PROVE  succ[n] = {} /\ pred[n] = {}
BY DEF BlockInv, BlockTypeOK, LinkSymmetry

LEMMA BlockInitInv == BlockInit => BlockInv
<1> SUFFICES ASSUME BlockInit PROVE BlockInv
  OBVIOUS
<1>1. BlockTypeOK
  <2>1. << >> \in Seq(Instr)
    OBVIOUS
  <2> QED
    BY <2>1 DEF BlockInit, BlockTypeOK
<1>2. LinkSymmetry
  BY DEF BlockInit, LinkSymmetry
<1> QED
  BY <1>1, <1>2 DEF BlockInv

(***************************************************************************)
(* The four linking operations, called on existing blocks.                 *)
(***************************************************************************)
LEMMA LinkStep ==
  ASSUME BlockInv, NEW b \in live, NEW c \in live,
         \/ AddPredecessor(b, c)
         \/ AddSuccessor(b, c)
         \/ RemovePredecessor(b, c)
         \/ RemoveSuccessor(b, c)
  PROVE  BlockInv'
<1>1. CASE AddPredecessor(b, c)
  BY <1>1 DEF AddPredecessor, With, BlockInv, BlockTypeOK, LinkSymmetry, code
<1>2. CASE AddSuccessor(b, c)
  BY <1>2 DEF AddSuccessor, With, BlockInv, BlockTypeOK, LinkSymmetry, code
<1>3. CASE RemovePredecessor(b, c)
  BY <1>3 DEF RemovePredecessor, Without, BlockInv, BlockTypeOK, LinkSymmetry, code
<1>4. CASE RemoveSuccessor(b, c)
  BY <1>4 DEF RemoveSuccessor, Without, BlockInv, BlockTypeOK, LinkSymmetry, code
<1> QED
  BY <1>1, <1>2, <1>3, <1>4

LEMMA MergeStep ==
  ASSUME BlockInv, NEW b \in live, NEW o \in live, NEW m \in Block,
         MergeWith(b, o, m)
  PROVE  BlockInv'
<1> USE DEF BlockInv, BlockTypeOK, MergeWith, code, links
<1>1. Front(instrs[b]) \o instrs[o] \in Seq(Instr)
  BY FrontConcatType
<1>2. /\ live' \subseteq Block
      /\ name' \in [Block -> Name \cup {NoName}]
      /\ parent' \in [Block -> Function \cup {NoFunction}]
      /\ label' \in [Instr -> Name \cup {NoName}]
      /\ crashed' \in BOOLEAN
  OBVIOUS
<1>3. instrs' \in [Block -> Seq(Instr)]
  BY <1>1
<1>4. succ' \in [Block -> SUBSET live'] /\ pred' \in [Block -> SUBSET live']
  OBVIOUS
<1>5. LinkSymmetry'
  <2>1. succ[m] = {} /\ pred[m] = {}
    BY UnbornUnlinked
  <2> QED
    BY <2>1 DEF LinkSymmetry
<1> QED
  BY <1>2, <1>3, <1>4, <1>5

LEMMA SplitStep ==
  ASSUME BlockInv, NEW b \in live, NEW s \in live, NEW n \in Block,
         SplitCriticalEdge(b, s, n)
  PROVE  BlockInv'
<1> USE DEF BlockInv, BlockTypeOK, SplitCriticalEdge, code, With, Without
<1>1. succ' \in [Block -> SUBSET live'] /\ pred' \in [Block -> SUBSET live']
  OBVIOUS
<1>2. LinkSymmetry'
  <2>1. succ[n] = {} /\ pred[n] = {}
    BY UnbornUnlinked
  <2> QED
    BY <2>1 DEF LinkSymmetry
<1> QED
  BY <1>1, <1>2, NameAssumption

LEMMA SplitAllStep ==
  ASSUME BlockInv, NEW b \in live, SplitAllCriticalEdges(b)
  PROVE  BlockInv'
<1> DEFINE critical == CriticalSuccessors(succ, pred, b)
<1>1. PICK at \in [critical -> Block \ live] :
        /\ \A s, t \in critical : at[s] = at[t] => s = t
        /\ LET new == {at[s] : s \in critical}
               end(n) == CHOOSE s \in critical : at[s] = n
           IN  /\ live' = live \cup new
               /\ name' = [x \in Block |->
                             IF x \in new
                             THEN SplitName(name[b], name[end(x)])
                             ELSE name[x]]
               /\ parent' = [x \in Block |->
                               IF x \in new THEN parent[b] ELSE parent[x]]
               /\ succ' = [x \in Block |->
                             IF x \in new THEN {end(x)}
                             ELSE IF x = b THEN (succ[b] \ critical) \cup new
                             ELSE succ[x]]
               /\ pred' = [x \in Block |->
                             IF x \in new THEN {b}
                             ELSE IF x \in critical
                                  THEN (pred[x] \ {b}) \cup {at[x]}
                             ELSE pred[x]]
  BY DEF SplitAllCriticalEdges
<1> DEFINE new == {at[s] : s \in critical}
           end(n) == CHOOSE s \in critical : at[s] = n
<1>2. critical \subseteq succ[b] /\ succ[b] \subseteq live
  BY DEF CriticalSuccessors, BlockInv, BlockTypeOK
<1>3. \A s \in critical : at[s] \in new /\ end(at[s]) = s
  BY <1>1
<1>4. \A n \in new : end(n) \in critical /\ at[end(n)] = n
  BY <1>1
<1>5. new \subseteq Block /\ new \cap live = {} /\ live \subseteq Block
  BY <1>1 DEF BlockInv, BlockTypeOK
<1>6. /\ live' = live \cup new
      /\ name' = [x \in Block |->
                    IF x \in new THEN SplitName(name[b], name[end(x)])
                                 ELSE name[x]]
      /\ parent' = [x \in Block |->
                      IF x \in new THEN parent[b] ELSE parent[x]]
      /\ succ' = [x \in Block |->
                    IF x \in new THEN {end(x)}
                    ELSE IF x = b THEN (succ[b] \ critical) \cup new
                    ELSE succ[x]]
      /\ pred' = [x \in Block |->
                    IF x \in new THEN {b}
                    ELSE IF x \in critical
                         THEN (pred[x] \ {b}) \cup {at[x]}
                    ELSE pred[x]]
  BY <1>1
<1>7. UNCHANGED <<instrs, label, crashed>>
  BY DEF SplitAllCriticalEdges, code
<1> HIDE DEF critical, new, end
<1>8. /\ succ' \in [Block -> SUBSET live']
      /\ pred' \in [Block -> SUBSET live']
      /\ parent' \in [Block -> Function \cup {NoFunction}]
      /\ live' \subseteq Block
  BY <1>2, <1>3, <1>4, <1>5, <1>6 DEF BlockInv, BlockTypeOK
<1>9. name' \in [Block -> Name \cup {NoName}]
  BY <1>2, <1>4, <1>5, <1>6, NameAssumption DEF BlockInv, BlockTypeOK
<1>10. BlockTypeOK'
  BY <1>7, <1>8, <1>9 DEF BlockInv, BlockTypeOK
<1>11. \A x \in new : succ[x] = {} /\ pred[x] = {}
  BY <1>5, UnbornUnlinked
<1>12. \A x, y \in Block : y \in succ'[x] <=> x \in pred'[y]
  BY <1>2, <1>3, <1>4, <1>5, <1>6, <1>11 DEF BlockInv, LinkSymmetry, BlockTypeOK
<1> QED
  BY <1>10, <1>12 DEF BlockInv, LinkSymmetry

(***************************************************************************)
(* Linking or unlinking one pair of blocks at both ends keeps the mirror.  *)
(***************************************************************************)
LEMMA MirrorWith ==
  ASSUME NEW s, NEW p, NEW V \in SUBSET Block, Mirrored(s, p, V),
         NEW b \in V, NEW c \in V
  PROVE  Mirrored(With(s, b, c), With(p, c, b), V)
BY DEF Mirrored, With

LEMMA MirrorWithout ==
  ASSUME NEW s, NEW p, NEW V \in SUBSET Block, Mirrored(s, p, V),
         NEW b \in V, NEW c \in V
  PROVE  Mirrored(Without(s, b, c), Without(p, c, b), V)
BY DEF Mirrored, Without

LEMMA ThreadStep ==
  ASSUME BlockInv, NEW b \in live, NEW from \in live, NEW to \in live,
         PerformJumpThreading(b, from, to)
  PROVE  BlockInv'
<1>1. label' \in [Instr -> Name \cup {NoName}]
  BY DEF RetargetBranch, PerformJumpThreading, BlockInv, BlockTypeOK
<1>2. Mirrored(succ, pred, live) /\ live \in SUBSET Block
  BY DEF BlockInv, BlockTypeOK, LinkSymmetry, Mirrored
<1>3. Mirrored(succ', pred', live)
  <2>1. CASE StillChained(b, from, to)
    <3>1. Mirrored(Without(succ, from, b), Without(pred, b, from), live)
      BY <1>2, MirrorWithout
    <3>2. Mirrored(Without(Without(succ, from, b), b, to),
                   Without(Without(pred, b, from), to, b), live)
      BY <1>2, <3>1, MirrorWithout
    <3> QED
      BY <1>2, <2>1, <3>2, MirrorWith DEF PerformJumpThreading
  <2>2. CASE ~ StillChained(b, from, to)
    BY <1>2, <2>2, MirrorWith DEF PerformJumpThreading
  <2> QED
    BY <2>1, <2>2
<1> QED
  BY <1>1, <1>3
     DEF PerformJumpThreading, BlockInv, BlockTypeOK, LinkSymmetry, Mirrored

(***************************************************************************)
(* The operations that leave the links alone.                              *)
(***************************************************************************)
LEMMA PlainStep ==
  ASSUME BlockInv,
         \/ \E b \in Block, n \in Name : CreateBlock(b, n)
         \/ \E i \in Instr, n \in Labels : SetTargetLabel(i, n)
         \/ \E b \in live :
              \/ \E n \in Name : SetName(b, n)
              \/ \E f \in Function \cup {NoFunction} : SetParentFunction(b, f)
              \/ \E i \in Instr : AddInstruction(b, i)
              \/ \E k \in 1..MaxInstrs : RemoveInstruction(b, k)
         \/ \E b, o \in live : MergeEmptyBlock(b, o)
  PROVE  BlockInv'
<1> USE DEF BlockInv, BlockTypeOK, LinkSymmetry, code, links
<1>1. CASE \E b \in Block, n \in Name : CreateBlock(b, n)
  BY <1>1 DEF CreateBlock
<1>2. CASE \E i \in Instr, n \in Labels : SetTargetLabel(i, n)
  BY <1>2, InstrAssumption DEF SetTargetLabel
<1>3. CASE \E b \in live, n \in Name : SetName(b, n)
  BY <1>3 DEF SetName
<1>4. CASE \E b \in live, f \in Function \cup {NoFunction} : SetParentFunction(b, f)
  BY <1>4 DEF SetParentFunction
<1>5. CASE \E b \in live, i \in Instr : AddInstruction(b, i)
  BY <1>5 DEF AddInstruction
<1>6. ASSUME NEW b \in live, NEW k \in 1..MaxInstrs, RemoveInstruction(b, k)
      PROVE  BlockInv'
  <2>1. RemoveAt(instrs[b], k) \in Seq(Instr)
    BY <1>6, RemoveAtType DEF RemoveInstruction
  <2> QED
    BY <1>6, <2>1 DEF RemoveInstruction
<1>7. CASE \E b, o \in live : MergeEmptyBlock(b, o)
  BY <1>7 DEF MergeEmptyBlock
<1> QED
  BY <1>1, <1>2, <1>3, <1>4, <1>5, <1>6, <1>7

LEMMA BlockStep == BlockInv /\ [BlockNext]_blockVars => BlockInv'
<1> SUFFICES ASSUME BlockInv, [BlockNext]_blockVars PROVE BlockInv'
  OBVIOUS
<1>1. CASE UNCHANGED blockVars
  BY <1>1 DEF BlockInv, BlockTypeOK, LinkSymmetry, blockVars
<1>2. CASE BlockNext
  BY <1>2, PlainStep, LinkStep, MergeStep, SplitStep, SplitAllStep, ThreadStep
     DEF BlockNext
<1> QED
  BY <1>1, <1>2

-----------------------------------------------------------------------------
(***************************************************************************)
(* In every reachable state the variables of the blocks have their types,  *)
(* and links join constructed blocks only.                                 *)
(***************************************************************************)
THEOREM BlockTypeCorrect == BlockSpec => []BlockTypeOK
<1>1. BlockSpec => []BlockInv
  BY BlockInitInv, BlockStep, PTL DEF BlockSpec
<1>2. BlockInv => BlockTypeOK
  BY DEF BlockInv
<1> QED
  BY <1>1, <1>2, PTL

(***************************************************************************)
(* In every reachable state the successors and the predecessors of the     *)
(* blocks are mirror images, whatever sequence of links, merges, splits    *)
(* and jump threadings led there.                                          *)
(***************************************************************************)
THEOREM LinksMirrored == BlockSpec => []LinkSymmetry
<1>1. BlockSpec => []BlockInv
  BY BlockInitInv, BlockStep, PTL DEF BlockSpec
<1>2. BlockInv => LinkSymmetry
  BY DEF BlockInv
<1> QED
  BY <1>1, <1>2, PTL

-----------------------------------------------------------------------------
(***************************************************************************)
(* What the passes on blocks promise.                                      *)
(***************************************************************************)
LEMMA AlwaysBlockInv == BlockSpec => []BlockInv
BY BlockInitInv, BlockStep, PTL DEF BlockSpec

-----------------------------------------------------------------------------
(***************************************************************************)
(* Edge splitting.                                                         *)
(***************************************************************************)
LEMMA SplitAllLinks ==
  ASSUME BlockInv, NEW b \in live, SplitAllCriticalEdges(b)
  PROVE  \E new \in SUBSET (Block \ live) :
           \E at \in [CriticalSuccessors(succ, pred, b) -> new] :
             /\ CriticalSuccessors(succ, pred, b) # {}
             /\ \A n \in new : pred'[n] = {b}
             /\ succ'[b] = (succ[b] \ CriticalSuccessors(succ, pred, b)) \cup new
             /\ \A x \in live \ {b} : succ'[x] = succ[x]
             /\ \A x \in live : pred'[x] =
                  IF x \in CriticalSuccessors(succ, pred, b)
                  THEN (pred[x] \ {b}) \cup {at[x]} ELSE pred[x]
<1> DEFINE critical == CriticalSuccessors(succ, pred, b)
<1>1. PICK at \in [critical -> Block \ live] :
        LET new == {at[s] : s \in critical}
            end(n) == CHOOSE s \in critical : at[s] = n
        IN  /\ succ' = [x \in Block |->
                          IF x \in new THEN {end(x)}
                          ELSE IF x = b THEN (succ[b] \ critical) \cup new
                          ELSE succ[x]]
            /\ pred' = [x \in Block |->
                          IF x \in new THEN {b}
                          ELSE IF x \in critical
                               THEN (pred[x] \ {b}) \cup {at[x]}
                          ELSE pred[x]]
  BY DEF SplitAllCriticalEdges
<1> DEFINE new == {at[s] : s \in critical}
<1>2. critical # {}
  BY DEF SplitAllCriticalEdges
<1>3. new \in SUBSET (Block \ live) /\ at \in [critical -> new]
  BY <1>1
<1>4. live \subseteq Block
  BY DEF BlockInv, BlockTypeOK
<1>5. /\ \A n \in new : pred'[n] = {b}
      /\ succ'[b] = (succ[b] \ critical) \cup new
      /\ \A x \in live \ {b} : succ'[x] = succ[x]
      /\ \A x \in live : pred'[x] = IF x \in critical
                                    THEN (pred[x] \ {b}) \cup {at[x]}
                                    ELSE pred[x]
  BY <1>1, <1>3, <1>4
<1> HIDE DEF critical, new
<1> QED
  BY <1>2, <1>3, <1>5 DEF critical

LEMMA SplitAllExhausts ==
  ASSUME BlockInv, NEW b \in live, SplitAllCriticalEdges(b)
  PROVE  /\ CriticalSuccessors(succ', pred', b) = {}
         /\ \A x \in live \ {b} :
              CriticalSuccessors(succ', pred', x) = CriticalSuccessors(succ, pred, x)
<1> DEFINE critical == CriticalSuccessors(succ, pred, b)
<1>0. PICK new \in SUBSET (Block \ live) :
        \E at \in [critical -> new] :
          /\ critical # {}
          /\ \A n \in new : pred'[n] = {b}
          /\ succ'[b] = (succ[b] \ critical) \cup new
          /\ \A x \in live \ {b} : succ'[x] = succ[x]
          /\ \A x \in live : pred'[x] = IF x \in critical
                                        THEN (pred[x] \ {b}) \cup {at[x]}
                                        ELSE pred[x]
  BY SplitAllLinks
<1>1. PICK at \in [critical -> new] :
        /\ critical # {}
        /\ \A n \in new : pred'[n] = {b}
        /\ succ'[b] = (succ[b] \ critical) \cup new
        /\ \A x \in live \ {b} : succ'[x] = succ[x]
        /\ \A x \in live : pred'[x] = IF x \in critical
                                      THEN (pred[x] \ {b}) \cup {at[x]}
                                      ELSE pred[x]
  BY <1>0
<1>2. /\ Several(succ[b])
      /\ \A y \in succ[b] : y \in critical <=> Several(pred[y])
  BY <1>1 DEF CriticalSuccessors, IsCriticalEdge
<1>3. critical \subseteq succ[b]
  BY DEF CriticalSuccessors
<1> HIDE DEF critical
<1>4. \A x \in live : succ[x] \subseteq live /\ pred[x] \subseteq live
  BY DEF BlockInv, BlockTypeOK
<1>5. ASSUME NEW y \in succ'[b]
      PROVE  ~ Several(pred'[y])
  <2>1. CASE y \in new
    BY <1>1, <2>1 DEF Several
  <2>2. CASE y \in succ[b] \ critical
    BY <1>1, <1>2, <1>4, <2>2
  <2> QED
    BY <1>1, <2>1, <2>2
<1>6. ASSUME NEW y \in live
      PROVE  Several(pred'[y]) <=> Several(pred[y])
  <2>1. CASE y \notin critical
    BY <1>1, <2>1
  <2>2. CASE y \in critical
    <3>1. PICK z \in pred[y] : z # b
      BY <1>2, <1>3, <2>2 DEF Several
    <3>2. pred'[y] = (pred[y] \ {b}) \cup {at[y]}
      BY <1>1, <2>2
    <3>3. z \in live /\ at[y] \notin live
      BY <1>1, <1>4, <2>2, <3>1
    <3> QED
      BY <1>2, <1>3, <2>2, <3>1, <3>2, <3>3 DEF Several
  <2> QED
    BY <2>1, <2>2
<1>7. \A x \in live \ {b} :
        CriticalSuccessors(succ', pred', x) = CriticalSuccessors(succ, pred, x)
  BY <1>1, <1>4, <1>6 DEF CriticalSuccessors, IsCriticalEdge
<1> QED
  BY <1>5, <1>7 DEF CriticalSuccessors, IsCriticalEdge

LEMMA SplitsExhaust == []BlockInv => SplitLeavesNoCriticalEdge
<1>1. BlockInv =>
        [\A b \in live : SplitAllCriticalEdges(b) =>
           /\ CriticalSuccessors(succ', pred', b) = {}
           /\ \A x \in live \ {b} :
                CriticalSuccessors(succ', pred', x)
                  = CriticalSuccessors(succ, pred, x)]_live
  BY SplitAllExhausts
<1> QED
  BY <1>1, PTL DEF SplitLeavesNoCriticalEdge

(***************************************************************************)
(* splitAllCriticalEdges leaves its block without a critical edge, and     *)
(* makes and unmakes none of any other block.                              *)
(***************************************************************************)
THEOREM SplittingExhaustive == BlockSpec => SplitLeavesNoCriticalEdge
BY SplitsExhaust, AlwaysBlockInv, PTL

-----------------------------------------------------------------------------
(***************************************************************************)
(* Merging.  With l + 1 instructions in the first block, position k of the *)
(* merged one holds instruction k of the first block up to l, and          *)
(* instruction k - l of the second from there on.                          *)
(***************************************************************************)
Merged(s, t) == Front(s) \o t

Joins(u, s, t, l) ==
  /\ Len(s) = l + 1 /\ Len(t) \in Nat /\ Len(u) = l + Len(t)
  /\ DOMAIN s = 1..(l + 1) /\ DOMAIN t = 1..Len(t)
  /\ DOMAIN u = 1..(l + Len(t))
  /\ \A k \in 1..l : u[k] = s[k]
  /\ \A k \in (l + 1)..(l + Len(t)) : u[k] = t[k - l]

LEMMA MergedInstructions ==
  ASSUME NEW s \in Seq(Instr), NEW t \in Seq(Instr), s # << >>
  PROVE  \E l \in Nat : Joins(Merged(s, t), s, t, l)
<1>1. PICK l \in Nat : Len(s) = l + 1
  <2>1. Len(s) \in Nat /\ Len(s) # 0
    OBVIOUS
  <2> QED
    BY <2>1, Len(s) - 1 \in Nat, Len(s) = (Len(s) - 1) + 1
<1>2. Len(t) \in Nat /\ DOMAIN s = 1..(l + 1) /\ DOMAIN t = 1..Len(t)
  BY <1>1, LenProperties
<1>3. Front(s) = SubSeq(s, 1, l)
  BY <1>1 DEF Front
<1>4. 1 \in Int /\ l \in Int /\ \A k \in 1..l : s[k] \in Instr
  BY <1>1
<1>5. /\ SubSeq(s, 1, l) \in Seq(Instr)
      /\ Len(SubSeq(s, 1, l)) = IF 1 <= l THEN l - 1 + 1 ELSE 0
      /\ \A k \in 1..(l - 1 + 1) : SubSeq(s, 1, l)[k] = s[1 + k - 1]
  BY <1>4, SubSeqProperties
<1>6. PICK v : v = Front(s)
  OBVIOUS
<1>7. v \in Seq(Instr) /\ Len(v) = l /\ \A k \in 1..l : v[k] = s[k]
  BY <1>1, <1>3, <1>5, <1>6
<1>8. /\ v \o t \in Seq(Instr)
      /\ Len(v \o t) = Len(v) + Len(t)
      /\ \A k \in 1..(Len(v) + Len(t)) :
           (v \o t)[k] = IF k <= Len(v) THEN v[k] ELSE t[k - Len(v)]
  BY <1>7, ConcatProperties
<1>9. PICK u : u = Merged(s, t)
  OBVIOUS
<1>10. u = v \o t
  BY <1>6, <1>9 DEF Merged
<1>11. /\ u \in Seq(Instr) /\ Len(u) = l + Len(t)
       /\ \A k \in 1..(l + Len(t)) : u[k] = IF k <= l THEN v[k] ELSE t[k - l]
  BY <1>7, <1>8, <1>10
<1>12. DOMAIN u = 1..(l + Len(t))
  BY <1>11, LenProperties
<1>13. ASSUME NEW k \in 1..l PROVE u[k] = s[k]
  <2>1. k \in 1..(l + Len(t)) /\ k <= l
    BY <1>2
  <2>2. u[k] = v[k]
    BY <1>11, <2>1
  <2> QED
    BY <1>7, <2>2
<1>14. ASSUME NEW k \in (l + 1)..(l + Len(t)) PROVE u[k] = t[k - l]
  <2>1. k \in 1..(l + Len(t)) /\ ~ (k <= l)
    BY <1>2
  <2> QED
    BY <1>11, <2>1
<1> QED
  BY <1>1, <1>2, <1>9, <1>11, <1>12, <1>13, <1>14 DEF Joins

LEMMA ConcatTerminatorsLast ==
  ASSUME NEW s \in Seq(Instr), NEW t \in Seq(Instr), s # << >>,
         IsInjective(s),
         \A k \in DOMAIN s : IsTerminator(s[k]) => s[k] = s[Len(s)],
         TerminatorsLast(t)
  PROVE  TerminatorsLast(Merged(s, t))
<1>1. PICK l \in Nat : Joins(Merged(s, t), s, t, l)
  BY MergedInstructions
<1>u. PICK u : u = Merged(s, t)
  OBVIOUS
<1>2. /\ Len(s) = l + 1 /\ Len(t) \in Nat /\ Len(u) = l + Len(t)
      /\ DOMAIN s = 1..(l + 1) /\ DOMAIN t = 1..Len(t)
      /\ DOMAIN u = 1..(l + Len(t))
      /\ \A k \in 1..l : u[k] = s[k]
      /\ \A k \in (l + 1)..(l + Len(t)) : u[k] = t[k - l]
  BY <1>1, <1>u DEF Joins
<1>3. ASSUME NEW k \in 1..l PROVE ~ IsTerminator(u[k])
  <2>1. Len(s) = l + 1 /\ k \in DOMAIN s /\ Len(s) \in DOMAIN s /\ k # Len(s)
    BY <1>1, <1>2
  <2>2. ~ IsTerminator(s[k])
    BY <2>1 DEF IsInjective
  <2> QED
    BY <1>2, <2>2
<1>4. ASSUME NEW k \in (l + 1)..(l + Len(t)), IsTerminator(u[k])
      PROVE  k = l + Len(t)
  <2>1. k - l \in DOMAIN t /\ u[k] = t[k - l]
    BY <1>2
  <2>2. k - l = Len(t)
    BY <1>4, <2>1 DEF TerminatorsLast
  <2> QED
    BY <1>2, <2>2
<1>5. ASSUME NEW k \in DOMAIN u PROVE k \in 1..l \/ k \in (l + 1)..(l + Len(t))
  BY <1>2
<1>6. \A k \in DOMAIN u : IsTerminator(u[k]) => k = Len(u)
  BY <1>2, <1>3, <1>4, <1>5
<1> QED
  BY <1>u, <1>6 DEF TerminatorsLast

LEMMA ConcatDefinesOnce ==
  ASSUME NEW s \in Seq(Instr), NEW t \in Seq(Instr), s # << >>,
         DefinesOnce(s), DefinesOnce(t),
         \A i \in DOMAIN s, j \in DOMAIN t : DefOf[s[i]] \cap DefOf[t[j]] = {}
  PROVE  DefinesOnce(Merged(s, t))
<1>1. PICK l \in Nat : Joins(Merged(s, t), s, t, l)
  BY MergedInstructions
<1>u. PICK u : u = Merged(s, t)
  OBVIOUS
<1>2. /\ Len(s) = l + 1 /\ Len(t) \in Nat /\ Len(u) = l + Len(t)
      /\ DOMAIN s = 1..(l + 1) /\ DOMAIN t = 1..Len(t)
      /\ DOMAIN u = 1..(l + Len(t))
      /\ \A k \in 1..l : u[k] = s[k]
      /\ \A k \in (l + 1)..(l + Len(t)) : u[k] = t[k - l]
  BY <1>1, <1>u DEF Joins
<1>3. ASSUME NEW i \in 1..l, NEW j \in 1..l, i # j
      PROVE  DefOf[u[i]] \cap DefOf[u[j]] = {}
  <2>1. i \in DOMAIN s /\ j \in DOMAIN s
    BY <1>2
  <2>2. DefOf[s[i]] \cap DefOf[s[j]] = {}
    BY <1>3, <2>1 DEF DefinesOnce
  <2> QED
    BY <1>2, <2>2
<1>4. ASSUME NEW i \in 1..l, NEW j \in (l + 1)..(l + Len(t))
      PROVE  DefOf[u[i]] \cap DefOf[u[j]] = {}
  <2>1. i \in DOMAIN s /\ j - l \in DOMAIN t
    BY <1>2
  <2>2. DefOf[s[i]] \cap DefOf[t[j - l]] = {}
    BY <2>1
  <2> QED
    BY <1>2, <2>2
<1>5. ASSUME NEW i \in (l + 1)..(l + Len(t)), NEW j \in (l + 1)..(l + Len(t)),
             i # j
      PROVE  DefOf[u[i]] \cap DefOf[u[j]] = {}
  <2>1. i - l \in DOMAIN t /\ j - l \in DOMAIN t /\ i - l # j - l
    BY <1>2, <1>5
  <2>2. DefOf[t[i - l]] \cap DefOf[t[j - l]] = {}
    BY <2>1 DEF DefinesOnce
  <2> QED
    BY <1>2, <2>2
<1>6. \A k \in DOMAIN u : k \in 1..l \/ k \in (l + 1)..(l + Len(t))
  BY <1>2
<1>7. ASSUME NEW i \in DOMAIN u, NEW j \in DOMAIN u, i # j
      PROVE  DefOf[u[i]] \cap DefOf[u[j]] = {}
  <2>1. CASE i \in 1..l /\ j \in 1..l
    BY <1>3, <1>7, <2>1
  <2>2. CASE i \in 1..l /\ j \in (l + 1)..(l + Len(t))
    BY <1>4, <2>2
  <2>3. CASE j \in 1..l /\ i \in (l + 1)..(l + Len(t))
    <3>1. DefOf[u[j]] \cap DefOf[u[i]] = {}
      BY <1>4, <2>3
    <3> QED
      BY <3>1
  <2>4. CASE i \in (l + 1)..(l + Len(t)) /\ j \in (l + 1)..(l + Len(t))
    BY <1>5, <1>7, <2>4
  <2> QED
    BY <1>6, <2>1, <2>2, <2>3, <2>4
<1> QED
  BY <1>u, <1>7 DEF DefinesOnce

LEMMA MergeInstrs ==
  ASSUME BlockInv, NEW b \in live, NEW o \in live, NEW m \in Block,
         MergeWith(b, o, m)
  PROVE  /\ instrs'[m] = Merged(instrs[b], instrs[o])
         /\ instrs[b] \in Seq(Instr) /\ instrs[o] \in Seq(Instr)
         /\ instrs[b] # << >>
         /\ IsSafeMergeWith(b, o)
<1>1. /\ instrs[b] # << >>
      /\ IsSafeMergeWith(b, o)
      /\ instrs' = [instrs EXCEPT ![m] = Front(instrs[b]) \o instrs[o]]
  BY DEF MergeWith
<1>2. instrs \in [Block -> Seq(Instr)] /\ b \in Block /\ o \in Block
  BY DEF BlockInv, BlockTypeOK
<1>3. instrs'[m] = Merged(instrs[b], instrs[o])
  BY <1>1, <1>2 DEF Merged
<1> QED
  BY <1>1, <1>2, <1>3

LEMMA MergedTerminatorsLast ==
  ASSUME BlockInv, NEW b \in live, NEW o \in live, NEW m \in Block,
         MergeWith(b, o, m), IsInjective(instrs[b]), TerminatorsLast(instrs[o])
  PROVE  TerminatorsLast(instrs'[m])
<1>1. \A k \in DOMAIN instrs[b] :
        IsTerminator(instrs[b][k]) => instrs[b][k] = instrs[b][Len(instrs[b])]
  <2>1. IsSafeMergeWith(b, o)
    BY DEF MergeWith
  <2>2. \A i \in InstrsOf(b) : IsTerminator(i) => i = instrs[b][Len(instrs[b])]
    BY <2>1 DEF IsSafeMergeWith
  <2>3. \A k \in DOMAIN instrs[b] : instrs[b][k] \in InstrsOf(b)
    BY DEF InstrsOf
  <2> QED
    BY <2>2, <2>3
<1> QED
  BY <1>1, MergeInstrs, ConcatTerminatorsLast

LEMMA MergedDefinesOnce ==
  ASSUME BlockInv, NEW b \in live, NEW o \in live, NEW m \in Block,
         MergeWith(b, o, m), DefinesOnce(instrs[b]), DefinesOnce(instrs[o])
  PROVE  DefinesOnce(instrs'[m])
<1>1. \A j \in DOMAIN instrs[o] : DefOf[instrs[o][j]] \cap Defs(b) = {}
  <2>1. IsSafeMergeWith(b, o)
    BY DEF MergeWith
  <2>2. \A i \in InstrsOf(o) : DefOf[i] \cap Defs(b) = {}
    BY <2>1 DEF IsSafeMergeWith
  <2>3. \A j \in DOMAIN instrs[o] : instrs[o][j] \in InstrsOf(o)
    BY DEF InstrsOf
  <2> QED
    BY <2>2, <2>3
<1>2. \A i \in DOMAIN instrs[b] : DefOf[instrs[b][i]] \subseteq Defs(b)
  BY DEF Defs, InstrsOf
<1>3. \A i \in DOMAIN instrs[b], j \in DOMAIN instrs[o] :
        DefOf[instrs[b][i]] \cap DefOf[instrs[o][j]] = {}
  BY <1>1, <1>2
<1> QED
  BY <1>3, MergeInstrs, ConcatDefinesOnce

LEMMA MergesKeepTerminators == []BlockInv => MergeKeepsTerminatorsLast
<1>1. BlockInv =>
        [\A b, o \in live, m \in Block :
           MergeWith(b, o, m) /\ IsInjective(instrs[b]) /\ TerminatorsLast(instrs[o])
             => TerminatorsLast(instrs'[m])]_live
  BY MergedTerminatorsLast
<1> QED
  BY <1>1, PTL DEF MergeKeepsTerminatorsLast

(***************************************************************************)
(* The object comparison in isSafeMergeWith is enough for terminators to   *)
(* stay last, as long as no object is in the first block twice.            *)
(***************************************************************************)
THEOREM MergingKeepsTerminators == BlockSpec => MergeKeepsTerminatorsLast
BY MergesKeepTerminators, AlwaysBlockInv, PTL

LEMMA MergesKeepDefinitions == []BlockInv => MergeKeepsSingleDefinitions
<1>1. BlockInv =>
        [\A b, o \in live, m \in Block :
           MergeWith(b, o, m) /\ DefinesOnce(instrs[b]) /\ DefinesOnce(instrs[o])
             => DefinesOnce(instrs'[m])]_live
  BY MergedDefinesOnce
<1> QED
  BY <1>1, PTL DEF MergeKeepsSingleDefinitions

(***************************************************************************)
(* The redefinition check in isSafeMergeWith is enough for definitions to  *)
(* stay single.                                                            *)
(***************************************************************************)
THEOREM MergingKeepsDefinitions == BlockSpec => MergeKeepsSingleDefinitions
BY MergesKeepDefinitions, AlwaysBlockInv, PTL

-----------------------------------------------------------------------------
(***************************************************************************)
(* What a merged block computes.  Computing is a recursive function; what  *)
(* holds of it is shown by looking at the least position that would be an  *)
(* exception.                                                              *)
(***************************************************************************)
LEMMA LeastNat ==
  ASSUME NEW S, S \subseteq Nat, S # {}
  PROVE  \E x \in S : \A y \in S : x <= y
<1> DEFINE Under(x) == {y \in Nat : y < x}
           F == {Under(x) : x \in S}
<1>1. PICK top \in S : TRUE
  OBVIOUS
<1>2. top \in Nat
  BY <1>1
<1> DEFINE Upto == 0..top
           Low == {x \in S : x <= top}
           G == {Under(x) : x \in Low}
<1>3. IsFiniteSet(Upto)
  BY <1>2, FS_Interval
<1>4. IsWellFoundedOn(StrictSubsetOrdering(Upto), FiniteSubsetsOf(Upto))
  BY FS_StrictSubsetOrderingWellFounded
<1>5. G \subseteq FiniteSubsetsOf(Upto) /\ G # {}
  <2>1. \A x \in Low : Under(x) \subseteq Upto
    BY <1>2
  <2>2. \A x \in Low : IsFiniteSet(Under(x))
    <3> HIDE DEF Under, Upto, Low
    <3> QED
      BY <1>3, <2>1, FS_Subset
  <2>3. top \in Low
    BY <1>1, <1>2
  <2> HIDE DEF Under, Upto, Low
  <2> QED
    BY <2>1, <2>2, <2>3 DEF FiniteSubsetsOf
<1>6. PICK X \in G : \A Y \in G : ~ (<<Y, X>> \in StrictSubsetOrdering(Upto))
  <2> HIDE DEF G, Upto
  <2> QED
    BY <1>4, <1>5, WFMin
<1>7. PICK x \in Low : X = Under(x)
  BY <1>6
<1>8. x \in S /\ x \in Nat /\ x <= top
  BY <1>7
<1>9. ASSUME NEW y \in S PROVE x <= y
  <2> SUFFICES ASSUME y < x PROVE FALSE
    BY <1>8
  <2>1. y \in Nat /\ y \in Low
    BY <1>2, <1>8
  <2>2. /\ Under(y) \subseteq Under(x) /\ y \in Under(x) /\ y \notin Under(y)
        /\ Under(x) \subseteq Upto /\ Under(y) \subseteq Upto
    BY <1>2, <1>8, <2>1
  <2>3. Under(y) \in G
    BY <2>1
  <2> HIDE DEF Under, Upto, Low, G
  <2>4. <<Under(y), Under(x)>> \in StrictSubsetOrdering(Upto)
    BY <2>2 DEF StrictSubsetOrdering
  <2> QED
    BY <1>6, <1>7, <2>3, <2>4
<1> QED
  BY <1>8, <1>9

LEMMA Upwards ==
  ASSUME NEW S, NEW n \in Nat, 0 \in S,
         \A k \in 0..n : k # n /\ k \in S => k + 1 \in S
  PROVE  \A k \in 0..n : k \in S
<1> DEFINE Out == {k \in 0..n : k \notin S}
<1> SUFFICES ASSUME Out # {} PROVE FALSE
  OBVIOUS
<1>1. Out \subseteq Nat
  OBVIOUS
<1>2. PICK k \in Out : \A j \in Out : k <= j
  <2> HIDE DEF Out
  <2> QED
    BY <1>1, LeastNat
<1>3. k \in 0..n /\ k \notin S /\ k # 0
  BY <1>2
<1>4. k - 1 \in 0..n /\ k - 1 # n /\ (k - 1) + 1 = k /\ ~ (k <= k - 1)
  BY <1>3
<1>5. k - 1 \in S
  BY <1>2, <1>4
<1> QED
  BY <1>3, <1>4, <1>5

\* f[k] holds the computing instructions among the first k of s.
Keeps(f, s, n) ==
  f = [k \in 0..n |->
         IF k = 0 THEN << >>
         ELSE IF IsTerminator(s[k]) THEN f[k - 1]
         ELSE Append(f[k - 1], s[k])]

LEMMA KeepsFacts ==
  ASSUME NEW f, NEW s, NEW n \in Nat, Keeps(f, s, n)
  PROVE  /\ f[0] = << >>
         /\ \A k \in 0..n : k # n =>
              f[k + 1] = IF IsTerminator(s[k + 1]) THEN f[k]
                                                   ELSE Append(f[k], s[k + 1])
<1>1. \A k \in 0..n :
        f[k] = IF k = 0 THEN << >>
               ELSE IF IsTerminator(s[k]) THEN f[k - 1]
               ELSE Append(f[k - 1], s[k])
  BY DEF Keeps
<1>2. 0 \in 0..n /\ \A k \in 0..n : k # n =>
        k + 1 \in 0..n /\ k + 1 # 0 /\ (k + 1) - 1 = k
  OBVIOUS
<1> QED
  BY <1>1, <1>2

LEMMA KeepsExist ==
  ASSUME NEW s, NEW n \in Nat
  PROVE  \E f : Keeps(f, s, n)
<1> DEFINE S == {k \in 0..n : \E f : Keeps(f, s, k)}
<1>1. 0 \in S
  <2>1. Keeps([k \in 0..0 |-> << >>], s, 0)
    BY DEF Keeps
  <2> QED
    BY <2>1
<1>2. ASSUME NEW k \in 0..n, k # n, k \in S PROVE k + 1 \in S
  <2>1. PICK f : Keeps(f, s, k)
    BY <1>2
  <2> DEFINE last == IF IsTerminator(s[k + 1]) THEN f[k] ELSE Append(f[k], s[k + 1])
             g == [j \in 0..(k + 1) |-> IF j = k + 1 THEN last ELSE f[j]]
  <2>2. \A j \in 0..k :
          f[j] = IF j = 0 THEN << >>
                 ELSE IF IsTerminator(s[j]) THEN f[j - 1]
                 ELSE Append(f[j - 1], s[j])
    BY <2>1 DEF Keeps
  <2>3. ASSUME NEW j \in 0..(k + 1)
        PROVE  g[j] = IF j = 0 THEN << >>
                      ELSE IF IsTerminator(s[j]) THEN g[j - 1]
                      ELSE Append(g[j - 1], s[j])
    <3>1. CASE j = k + 1
      <4>1. j # 0 /\ j - 1 = k /\ j - 1 \in 0..(k + 1) /\ j - 1 # k + 1
        BY <3>1
      <4>2. g[j] = last /\ g[j - 1] = f[k]
        BY <3>1, <4>1
      <4> QED
        BY <3>1, <4>1, <4>2
    <3>2. CASE j # k + 1 /\ j # 0
      <4>1. /\ j \in 0..k /\ j - 1 \in 0..k
            /\ j - 1 \in 0..(k + 1) /\ j - 1 # k + 1
        BY <3>2
      <4>2. g[j] = f[j] /\ g[j - 1] = f[j - 1]
        BY <3>2, <4>1
      <4> QED
        BY <2>2, <3>2, <4>1, <4>2
    <3>3. CASE j = 0
      <4>1. j \in 0..k /\ j # k + 1
        BY <3>3
      <4> QED
        BY <2>2, <3>3, <4>1
    <3> QED
      BY <3>1, <3>2, <3>3
  <2>4. Keeps(g, s, k + 1)
    <3>1. g = [j \in 0..(k + 1) |-> g[j]]
      OBVIOUS
    <3> HIDE DEF g
    <3> QED
      BY <2>3, <3>1 DEF Keeps
  <2> QED
    BY <1>2, <2>4
<1>3. n \in S
  <2> HIDE DEF S
  <2> QED
    BY <1>1, <1>2, Upwards
<1> QED
  BY <1>3

LEMMA KeepsType ==
  ASSUME NEW s \in Seq(Instr), NEW f, Keeps(f, s, Len(s))
  PROVE  \A k \in 0..Len(s) : f[k] \in Seq(Instr)
<1>1. PICK n \in Nat : n = Len(s)
  OBVIOUS
<1>2. \A k \in 0..n : k # n => k + 1 \in 0..n /\ s[k + 1] \in Instr
  BY <1>1
<1>3. /\ f[0] = << >>
      /\ \A k \in 0..n : k # n =>
           f[k + 1] = IF IsTerminator(s[k + 1]) THEN f[k] ELSE Append(f[k], s[k + 1])
  BY <1>1, KeepsFacts
<1> DEFINE S == {k \in 0..n : f[k] \in Seq(Instr)}
<1>4. 0 \in S
  <2>1. << >> \in Seq(Instr) /\ 0 \in 0..n
    OBVIOUS
  <2> QED
    BY <1>3, <2>1
<1>5. ASSUME NEW k \in 0..n, k # n, k \in S PROVE k + 1 \in S
  <2>1. k + 1 \in 0..n /\ s[k + 1] \in Instr /\ f[k] \in Seq(Instr)
    BY <1>2, <1>5
  <2>2. f[k + 1] = f[k] \/ f[k + 1] = Append(f[k], s[k + 1])
    BY <1>3, <1>5
  <2>3. Append(f[k], s[k + 1]) \in Seq(Instr)
    BY <2>1, AppendProperties
  <2> QED
    BY <2>1, <2>2, <2>3
<1> HIDE DEF S
<1>6. \A k \in 0..n : k \in S
  BY <1>4, <1>5, Upwards
<1> QED
  BY <1>1, <1>6 DEF S

LEMMA ComputingIs ==
  ASSUME NEW s \in Seq(Instr)
  PROVE  \E f : Keeps(f, s, Len(s)) /\ Computing(s) = f[Len(s)]
<1>1. Len(s) \in Nat
  OBVIOUS
<1>2. \E f : Keeps(f, s, Len(s))
  BY <1>1, KeepsExist
<1> DEFINE g == CHOOSE f : Keeps(f, s, Len(s))
<1>3. Keeps(g, s, Len(s))
  BY <1>2
<1>4. Computing(s) = g[Len(s)]
  BY DEF Computing, Keeps
<1> QED
  BY <1>3, <1>4

LEMMA AppendToJoined ==
  ASSUME NEW p \in Seq(Instr), NEW q \in Seq(Instr), NEW i \in Instr
  PROVE  Append(p \o q, i) = p \o Append(q, i)
<1>1. /\ <<i>> \in Seq(Instr) /\ p \o q \in Seq(Instr)
      /\ Append(q, i) = q \o <<i>>
      /\ Append(p \o q, i) = (p \o q) \o <<i>>
  BY AppendIsConcat, ConcatProperties
<1> QED
  BY <1>1, ConcatAssociative

IsConcat(w, p, q) == w = p \o q

LEMMA MergedKeeps ==
  ASSUME NEW s \in Seq(Instr), NEW t \in Seq(Instr), NEW u \in Seq(Instr),
         NEW l \in Nat, NEW f, NEW g, NEW h,
         Joins(u, s, t, l),
         Keeps(f, s, Len(s)), Keeps(g, t, Len(t)), Keeps(h, u, Len(u))
  PROVE  IsConcat(h[Len(u)], f[l], g[Len(t)])
<1>1. /\ Len(s) = l + 1 /\ Len(t) \in Nat /\ Len(u) = l + Len(t)
      /\ \A k \in 1..l : u[k] = s[k]
      /\ \A k \in (l + 1)..(l + Len(t)) : u[k] = t[k - l]
  BY DEF Joins
<1>2. PICK n \in Nat : n = Len(t)
  BY <1>1
<1>3. Len(s) = l + 1 /\ Len(u) = l + n /\ l + 1 \in Nat /\ l + n \in Nat
  BY <1>1, <1>2
<1>4. /\ f[0] = << >>
      /\ \A k \in 0..(l + 1) : k # l + 1 =>
           f[k + 1] = IF IsTerminator(s[k + 1]) THEN f[k] ELSE Append(f[k], s[k + 1])
  BY <1>3, KeepsFacts
<1>5. /\ g[0] = << >>
      /\ \A k \in 0..n : k # n =>
           g[k + 1] = IF IsTerminator(t[k + 1]) THEN g[k] ELSE Append(g[k], t[k + 1])
  BY <1>2, KeepsFacts
<1>6. /\ h[0] = << >>
      /\ \A k \in 0..(l + n) : k # l + n =>
           h[k + 1] = IF IsTerminator(u[k + 1]) THEN h[k] ELSE Append(h[k], u[k + 1])
  BY <1>3, KeepsFacts
<1>7. f[l] \in Seq(Instr) /\ \A k \in 0..n : g[k] \in Seq(Instr)
  <2>1. l \in 0..(l + 1)
    OBVIOUS
  <2> QED
    BY <1>2, <1>3, <2>1, KeepsType
<1>8. h[l] = f[l]
  <2> DEFINE S == {k \in 0..l : h[k] = f[k]}
  <2>1. 0 \in S
    BY <1>4, <1>6
  <2>2. ASSUME NEW k \in 0..l, k # l, k \in S PROVE k + 1 \in S
    <3>1. /\ k + 1 \in 0..l /\ k + 1 \in 1..l
          /\ k \in 0..(l + 1) /\ k # l + 1
          /\ k \in 0..(l + n) /\ k # l + n
      BY <2>2
    <3>2. u[k + 1] = s[k + 1] /\ h[k] = f[k]
      BY <1>1, <2>2, <3>1
    <3>3. h[k + 1] = f[k + 1]
      BY <1>4, <1>6, <3>1, <3>2
    <3> QED
      BY <3>1, <3>3
  <2>3. l \in S
    <3>1. l \in 0..l
      OBVIOUS
    <3> HIDE DEF S
    <3> QED
      BY <2>1, <2>2, <3>1, Upwards
  <2> QED
    BY <2>3
<1>9. h[l + n] = f[l] \o g[n]
  <2> DEFINE S == {j \in 0..n : h[l + j] = f[l] \o g[j]}
  <2>1. 0 \in S
    <3>1. f[l] \o << >> = f[l]
      BY <1>7, ConcatEmptySeq
    <3>2. h[l + 0] = f[l] \o g[0]
      <4>1. l + 0 = l
        OBVIOUS
      <4>2. g[0] = << >>
        BY <1>5
      <4> QED
        BY <1>8, <3>1, <4>1, <4>2, Zenon
    <3>3. 0 \in 0..n
      OBVIOUS
    <3> QED
      BY <3>2, <3>3
  <2>2. ASSUME NEW j \in 0..n, j # n, j \in S PROVE j + 1 \in S
    <3>1. /\ j + 1 \in 0..n
          /\ l + j \in 0..(l + n) /\ l + j # l + n
          /\ (l + j) + 1 = l + (j + 1)
          /\ l + (j + 1) \in (l + 1)..(l + n) /\ (l + (j + 1)) - l = j + 1
      BY <2>2
    <3>2. u[l + (j + 1)] = t[j + 1] /\ h[l + j] = f[l] \o g[j]
      BY <1>1, <1>2, <2>2, <3>1
    <3>3. g[j] \in Seq(Instr) /\ t[j + 1] \in Instr
      BY <1>2, <1>7, <3>1
    <3>4. h[l + (j + 1)] = f[l] \o g[j + 1]
      <4>1. h[l + (j + 1)] = IF IsTerminator(t[j + 1]) THEN f[l] \o g[j]
                             ELSE Append(f[l] \o g[j], t[j + 1])
        BY <1>6, <3>1, <3>2
      <4>2. g[j + 1] = IF IsTerminator(t[j + 1]) THEN g[j]
                                                 ELSE Append(g[j], t[j + 1])
        BY <1>5, <2>2
      <4>3. Append(f[l] \o g[j], t[j + 1]) = f[l] \o Append(g[j], t[j + 1])
        BY <1>7, <3>3, AppendToJoined
      <4> QED
        BY <4>1, <4>2, <4>3
    <3> QED
      BY <3>1, <3>4
  <2>3. n \in S
    <3>1. n \in 0..n
      OBVIOUS
    <3> HIDE DEF S
    <3> QED
      BY <2>1, <2>2, <3>1, Upwards
  <2> QED
    BY <2>3
<1> QED
  BY <1>2, <1>3, <1>9, Zenon DEF IsConcat

LEMMA MergedComputing ==
  ASSUME NEW s \in Seq(Instr), NEW t \in Seq(Instr), s # << >>,
         IsTerminator(Last(s))
  PROVE  Computing(Merged(s, t)) = Computing(s) \o Computing(t)
<1>1. PICK l \in Nat : Joins(Merged(s, t), s, t, l)
  BY MergedInstructions
<1>2. PICK u : u = Merged(s, t)
  OBVIOUS
<1>3. u \in Seq(Instr) /\ Joins(u, s, t, l)
  BY <1>1, <1>2, FrontConcatType DEF Merged
<1>4. PICK f : Keeps(f, s, Len(s)) /\ Computing(s) = f[Len(s)]
  BY ComputingIs
<1>5. PICK g : Keeps(g, t, Len(t)) /\ Computing(t) = g[Len(t)]
  BY ComputingIs
<1>6. PICK h : Keeps(h, u, Len(u)) /\ Computing(u) = h[Len(u)]
  BY <1>3, ComputingIs
<1>7. Len(s) = l + 1 /\ l + 1 \in Nat /\ l \in 0..(l + 1) /\ l # l + 1
  BY <1>1 DEF Joins
<1>8. f[Len(s)] = f[l]
  BY <1>4, <1>7, KeepsFacts DEF Last
<1>9. IsConcat(h[Len(u)], f[l], g[Len(t)])
  <2>1. /\ s \in Seq(Instr) /\ t \in Seq(Instr) /\ u \in Seq(Instr)
        /\ l \in Nat /\ Joins(u, s, t, l)
    BY <1>3
  <2>2. Keeps(f, s, Len(s)) /\ Keeps(g, t, Len(t)) /\ Keeps(h, u, Len(u))
    BY <1>4, <1>5, <1>6
  <2> QED
    BY <2>1, <2>2, MergedKeeps
<1> QED
  BY <1>2, <1>4, <1>5, <1>6, <1>8, <1>9 DEF IsConcat

LEMMA MergesRunBothBodies == []BlockInv => MergeRunsBothBodies
<1>1. ASSUME BlockInv, NEW b \in live, NEW o \in live, NEW m \in Block,
             MergeWith(b, o, m), IsTerminator(Last(instrs[b]))
      PROVE  Computing(instrs'[m]) = Computing(instrs[b]) \o Computing(instrs[o])
  <2>1. /\ instrs'[m] = Merged(instrs[b], instrs[o])
        /\ instrs[b] \in Seq(Instr) /\ instrs[o] \in Seq(Instr)
        /\ instrs[b] # << >>
    BY <1>1, MergeInstrs
  <2> QED
    BY <1>1, <2>1, MergedComputing
<1>2. BlockInv =>
        [\A b, o \in live, m \in Block :
           MergeWith(b, o, m) /\ IsTerminator(Last(instrs[b]))
             => Computing(instrs'[m]) = Computing(instrs[b]) \o Computing(instrs[o])]_live
  BY <1>1
<1> QED
  BY <1>2, PTL DEF MergeRunsBothBodies

(***************************************************************************)
(* Merging loses no computation and makes none: mergeWith drops the last   *)
(* instruction of the first block, and when that is a terminator the rest  *)
(* of the first block and all of the second follow each other.             *)
(***************************************************************************)
THEOREM MergingRunsBothBodies == BlockSpec => MergeRunsBothBodies
BY MergesRunBothBodies, AlwaysBlockInv, PTL

-----------------------------------------------------------------------------
(***************************************************************************)
(* Jump threading.  Only from gets a new link or a new label; a label that *)
(* another block sees change belongs to a shared instruction.              *)
(***************************************************************************)
LEMMA ThreadedLinks ==
  ASSUME BlockInv, NEW b \in live, NEW from \in live, NEW to \in live,
         PerformJumpThreading(b, from, to)
  PROVE  /\ to \in succ'[from]
         /\ \A x \in Block \ {b, from} : succ'[x] = succ[x]
<1>1. CASE StillChained(b, from, to)
  <2> DEFINE cut == Without(Without(succ, from, b), b, to)
  <2>1. Without(succ, from, b) =
          [x \in Block |-> IF x = from THEN succ[x] \ {b} ELSE succ[x]]
    BY DEF Without, BlockInv, BlockTypeOK
  <2>2. cut = [x \in Block |->
                 IF x = b THEN Without(succ, from, b)[x] \ {to}
                          ELSE Without(succ, from, b)[x]]
    BY <2>1 DEF Without
  <2>3. DOMAIN cut = Block /\ \A x \in Block \ {b, from} : cut[x] = succ[x]
    BY <2>1, <2>2
  <2>4. succ' = With(cut, from, to)
    BY <1>1 DEF PerformJumpThreading
  <2> HIDE DEF cut
  <2> QED
    BY <2>3, <2>4 DEF With, BlockInv, BlockTypeOK
<1>2. CASE ~ StillChained(b, from, to)
  BY <1>2 DEF PerformJumpThreading, With, BlockInv, BlockTypeOK
<1> QED
  BY <1>1, <1>2

LEMMA ThreadedInStep ==
  ASSUME BlockInv, NEW b \in live, NEW from \in live, NEW to \in live,
         PerformJumpThreading(b, from, to),
         NEW x \in live \ {b},
         x = from \/ InStep(x, label, succ),
         \A i \in InstrsOf(x) : ~ Shared(i)
  PROVE  InStep(x, label', succ')
<1> SUFFICES ASSUME NEW i \in Instr, IsFirstBranch(i, x), label'[i] # NoName
             PROVE  \E c \in succ'[x] : name[c] = label'[i]
  BY DEF InStep
<1>1. label'[i] = IF IsFirstBranch(i, from) /\ label[i] # NoName
                  THEN name[to] ELSE label[i]
  BY DEF PerformJumpThreading, RetargetBranch
<1>2. CASE IsFirstBranch(i, from) /\ label[i] # NoName
  <2>1. i \in InstrsOf(x) /\ i \in InstrsOf(from)
    BY <1>2 DEF IsFirstBranch, InstrsOf
  <2>2. x = from
    BY <2>1 DEF Shared
  <2> QED
    BY <1>1, <1>2, <2>2, ThreadedLinks
<1>3. CASE ~ (IsFirstBranch(i, from) /\ label[i] # NoName)
  <2>1. label'[i] = label[i] /\ label[i] # NoName /\ x # from
    BY <1>1, <1>3
  <2>2. \E c \in succ[x] : name[c] = label[i]
    BY <2>1 DEF InStep
  <2>3. succ'[x] = succ[x]
    BY <2>1, ThreadedLinks DEF BlockInv, BlockTypeOK
  <2> QED
    BY <2>1, <2>2, <2>3
<1> QED
  BY <1>2, <1>3

LEMMA ThreadingsStayInStep == []BlockInv => ThreadingKeepsBranchesInStep
<1>1. BlockInv =>
        [\A b \in {x \in live : CanThreadJumpThrough(x)}, from, to \in live :
           PerformJumpThreading(b, from, to) =>
             \A x \in live \ {b} :
               /\ x = from \/ InStep(x, label, succ)
               /\ \A i \in InstrsOf(x) : ~ Shared(i)
               => InStep(x, label', succ')]_<<succ, label>>
  BY ThreadedInStep
<1> QED
  BY <1>1, PTL DEF ThreadingKeepsBranchesInStep

(***************************************************************************)
(* Jump threading keeps branches and links in step in every block but the  *)
(* one it bypasses, through all the cases its check lets through.          *)
(***************************************************************************)
THEOREM ThreadingInStep == BlockSpec => ThreadingKeepsBranchesInStep
BY ThreadingsStayInStep, AlwaysBlockInv, PTL

-----------------------------------------------------------------------------
(***************************************************************************)
(* The blocks implement FlowGraph: one directed graph, of which a pass     *)
(* changes no more than the paths its abstract step allows.                *)
(*                                                                         *)
(* The mapping is the identity on live and succ; pred is the redundant     *)
(* copy.  The steps that need an argument are the passes.  For merging and *)
(* splitting it is always the same one: a set closed under the old links   *)
(* becomes closed under the new ones by adding the new blocks, as soon as  *)
(* it contains the block the pass was called on.                           *)
(***************************************************************************)
\* Reachability in the instance is reachability here.
LEMMA SameReachable ==
  ASSUME NEW n, NEW a
  PROVE  FG!Reachable(n, a) = Reachable(n, a)
BY DEF FG!Reachable, Reachable, FG!Closed, Closed

\* Links join live blocks, in the forms the reachability lemmas ask for.
LEMMA LinksAmongLive ==
  ASSUME BlockInv
  PROVE  /\ live \in SUBSET Block
         /\ succ \in [Block -> SUBSET live]
         /\ succ \in [Block -> SUBSET Block]
         /\ \A b \in Block \ live : succ[b] = {}
BY UnbornUnlinked DEF BlockInv, BlockTypeOK

(***************************************************************************)
(* Merging: the new block is reached when the first of the two is.         *)
(***************************************************************************)
LEMMA MergeExpands ==
  ASSUME BlockInv, NEW b \in live, NEW o \in live, NEW m \in Block,
         MergeWith(b, o, m)
  PROVE  FG!Expand
<1>1. BlockInv'
  BY MergeStep
<1>2. /\ m \notin live
      /\ live' = live \cup {m}
      /\ succ[b] = {o}
      /\ \A x \in live : x \in pred[b] <=> b \in succ[x]
  BY DEF MergeWith, IsSafeMergeWith, IsMergeableWith, BlockInv, LinkSymmetry,
         BlockTypeOK
<1>3. /\ \A x \in live : succ'[x] = IF b \in succ[x] THEN succ[x] \cup {m}
                                                     ELSE succ[x]
      /\ succ'[m] = succ'[o]
  BY <1>2 DEF MergeWith, BlockInv, BlockTypeOK
<1>4. ASSUME NEW a \in live
      PROVE  Reachable(succ', a) \cap live = Reachable(succ, a)
  <2> DEFINE R == Reachable(succ, a)
             grown == R \cup (IF b \in R THEN {m} ELSE {})
             kept == Reachable(succ', a) \cap live
  <2>1. R \subseteq live /\ Closed(succ, R)
    BY LinksAmongLive, ReachableStays, ReachableIsClosed
  <2>2. succ' \in [Block -> SUBSET Block]
    BY <1>1, LinksAmongLive DEF BlockInv, BlockTypeOK
  <2>3. Closed(succ', Reachable(succ', a))
    BY <2>2, LinksAmongLive, ReachableIsClosed
  <2>4. Closed(succ', grown)
    <3>1. ASSUME NEW x \in R PROVE succ'[x] \subseteq grown
      <4>1. x \in live /\ succ[x] \subseteq R
        BY <2>1 DEF Closed
      <4>2. CASE b \in succ[x]
        <5>1. b \in R
          BY <4>1, <4>2
        <5> QED
          BY <1>3, <4>1, <4>2, <5>1
      <4>3. CASE b \notin succ[x]
        BY <1>3, <4>1, <4>3
      <4> QED
        BY <4>2, <4>3
    <3>2. b \in R => o \in R
      BY <1>2, <2>1 DEF Closed
    <3> QED
      BY <1>3, <3>1, <3>2 DEF Closed
  <2>5. Closed(succ, kept)
    <3>1. ASSUME NEW x \in kept, NEW c \in succ[x]
          PROVE  c \in kept
      <4>1. c \in live /\ c \in succ'[x]
        BY <1>3, <3>1, LinksAmongLive
      <4> QED
        BY <2>3, <4>1 DEF Closed
    <3> QED
      BY <3>1 DEF Closed
  <2>6. grown \in SUBSET Block /\ grown \cap live \subseteq R /\ R \subseteq grown
    BY <1>2, <2>1, LinksAmongLive
  <2> HIDE DEF grown
  <2> QED
    BY <2>2, <2>4, <2>5, <2>6, LinksAmongLive, ReachableKept
<1>5. \A v \in Block \ live' : succ'[v] = {}
  BY <1>2, UnbornUnlinked DEF MergeWith, BlockInv, BlockTypeOK
<1> QED
  BY <1>1, <1>2, <1>4, <1>5, SameReachable DEF FG!Expand, BlockInv, BlockTypeOK

(***************************************************************************)
(* Splitting: the new blocks are reached from b, where they stand for some *)
(* of its successors, each for one.                                        *)
(***************************************************************************)
LEMMA DetoursExpand ==
  ASSUME BlockInv, BlockInv', NEW b \in live,
         NEW new \in SUBSET (Block \ live),
         NEW end \in [new -> succ[b]],
         live' = live \cup new,
         \A x \in Block \ new : x # b => succ'[x] = succ[x],
         succ'[b] \subseteq succ[b] \cup new,
         new \subseteq succ'[b],
         \A c \in succ[b] : c \in succ'[b] \/ \E n \in new : c = end[n],
         \A n \in new : succ'[n] = {end[n]}
  PROVE  FG!Expand
<1>1. succ' \in [Block -> SUBSET Block] /\ succ' \in [Block -> SUBSET live']
  BY DEF BlockInv, BlockTypeOK
<1>2. ASSUME NEW a \in live
      PROVE  Reachable(succ', a) \cap live = Reachable(succ, a)
  <2> DEFINE R == Reachable(succ, a)
             grown == R \cup (IF b \in R THEN new ELSE {})
             kept == Reachable(succ', a) \cap live
  <2>1. R \subseteq live /\ Closed(succ, R)
    BY LinksAmongLive, ReachableStays, ReachableIsClosed
  <2>2. Closed(succ', Reachable(succ', a))
    BY <1>1, LinksAmongLive, ReachableIsClosed
  <2>3. Closed(succ', grown)
    <3> HIDE DEF R
    <3>1. ASSUME NEW x \in R PROVE succ'[x] \subseteq grown
      <4>1. x \in live /\ succ[x] \subseteq R
        BY <2>1 DEF Closed
      <4>2. CASE x = b
        BY <4>1, <4>2
      <4>3. CASE x # b
        BY <4>1, <4>3, LinksAmongLive
      <4> QED
        BY <4>2, <4>3
    <3>2. b \in R => succ[b] \subseteq R
      BY <2>1 DEF Closed
    <3>3. ASSUME b \in R, NEW n \in new PROVE succ'[n] \subseteq grown
      BY <3>2, <3>3
    <3> QED
      BY <3>1, <3>3 DEF Closed
  <2>4. Closed(succ, kept)
    <3>1. ASSUME NEW x \in kept, NEW c \in succ[x]
          PROVE  c \in Reachable(succ', a)
      <4>1. CASE c \in succ'[x]
        BY <2>2, <3>1, <4>1 DEF Closed
      <4>2. CASE c \notin succ'[x]
        <5>1. x = b
          BY <3>1, <4>2, LinksAmongLive
        <5>2. PICK n \in new : c = end[n]
          BY <3>1, <4>2, <5>1
        <5>3. n \in Reachable(succ', a)
          BY <2>2, <3>1, <5>1 DEF Closed
        <5> QED
          BY <2>2, <5>2, <5>3 DEF Closed
      <4> QED
        BY <4>1, <4>2
    <3>2. \A x \in kept : succ[x] \subseteq live
      BY LinksAmongLive
    <3> QED
      BY <3>1, <3>2 DEF Closed
  <2>5. grown \in SUBSET Block /\ grown \cap live \subseteq R /\ R \subseteq grown
    BY <2>1, LinksAmongLive
  <2>6. kept = Reachable(succ', a) \cap live
    OBVIOUS
  <2> HIDE DEF grown, kept
  <2>7. /\ R \subseteq grown
        /\ grown \cap live \subseteq R
        /\ Closed(succ', grown)
        /\ Closed(succ, Reachable(succ', a) \cap live)
    BY <2>3, <2>4, <2>5, <2>6
  <2> QED
    BY <1>1, <2>5, <2>7, LinksAmongLive, ReachableKept
<1>3. \A v \in Block \ live' : succ'[v] = {}
  BY LinksAmongLive
<1> QED
  BY <1>1, <1>2, <1>3, SameReachable DEF FG!Expand

LEMMA SplitExpands ==
  ASSUME BlockInv, NEW b \in live, NEW s \in live, NEW n \in Block,
         SplitCriticalEdge(b, s, n)
  PROVE  FG!Expand
<1> DEFINE new == {n}
           end == [x \in new |-> s]
<1>1. BlockInv'
  BY SplitStep
<1>2. s \in succ[b] /\ n \notin live /\ live' = live \cup new
  BY DEF SplitCriticalEdge, IsCriticalEdge
<1>3. succ[n] = {}
  BY <1>2, LinksAmongLive
<1>4. succ' = [x \in Block |-> IF x = n THEN {s}
                               ELSE IF x = b THEN (succ[b] \ {s}) \cup {n}
                               ELSE succ[x]]
  BY <1>2, <1>3, LinksAmongLive DEF SplitCriticalEdge, With, Without
<1>5. new \in SUBSET (Block \ live) /\ end \in [new -> succ[b]]
  BY <1>2
<1>6. /\ \A x \in Block \ new : x # b => succ'[x] = succ[x]
      /\ succ'[b] = (succ[b] \ {s}) \cup new
      /\ succ'[n] = {s}
  BY <1>2, <1>4, LinksAmongLive
<1>7. \A c \in succ[b] : c \in succ'[b] \/ \E x \in new : c = end[x]
  BY <1>6
<1>8. \A x \in new : succ'[x] = {end[x]}
  BY <1>6
<1> HIDE DEF new, end
<1> QED
  BY <1>1, <1>2, <1>5, <1>6, <1>7, <1>8, DetoursExpand

LEMMA SplitAllExpands ==
  ASSUME BlockInv, NEW b \in live, SplitAllCriticalEdges(b)
  PROVE  FG!Expand
<1> DEFINE critical == CriticalSuccessors(succ, pred, b)
<1>1. PICK at \in [critical -> Block \ live] :
        LET new == {at[s] : s \in critical}
            end(n) == CHOOSE s \in critical : at[s] = n
        IN  /\ live' = live \cup new
            /\ succ' = [x \in Block |->
                          IF x \in new THEN {end(x)}
                          ELSE IF x = b THEN (succ[b] \ critical) \cup new
                          ELSE succ[x]]
            /\ \A s, t \in critical : at[s] = at[t] => s = t
  BY DEF SplitAllCriticalEdges
<1> DEFINE new == {at[s] : s \in critical}
           end == [n \in new |-> CHOOSE s \in critical : at[s] = n]
<1>2. critical \subseteq succ[b]
  BY DEF CriticalSuccessors
<1>3. \A n \in new : end[n] \in critical
  BY <1>1
<1>4. \A s \in critical : at[s] \in new /\ end[at[s]] = s
  BY <1>1
<1>5. /\ live' = live \cup new
      /\ new \in SUBSET (Block \ live)
      /\ succ' = [x \in Block |->
                    IF x \in new THEN {end[x]}
                    ELSE IF x = b THEN (succ[b] \ critical) \cup new
                    ELSE succ[x]]
  BY <1>1
<1>6. end \in [new -> succ[b]]
  BY <1>2, <1>3
<1> HIDE DEF new, end
<1>7. BlockInv'
  BY SplitAllStep
<1>8. /\ \A x \in Block \ new : x # b => succ'[x] = succ[x]
      /\ succ'[b] = (succ[b] \ critical) \cup new
      /\ \A n \in new : succ'[n] = {end[n]}
  BY <1>5, LinksAmongLive
<1>9. \A c \in succ[b] : c \in succ'[b] \/ \E n \in new : c = end[n]
  BY <1>4, <1>8
<1> QED
  BY <1>5, <1>6, <1>7, <1>8, <1>9, DetoursExpand

(***************************************************************************)
(* Jump threading: to lies behind from already, whichever way the check    *)
(* let it through, so a set closed under the old links is closed under the *)
(* new ones.                                                               *)
(***************************************************************************)
LEMMA ThreadTargetBehind ==
  ASSUME BlockInv, NEW b \in live, NEW from \in live, NEW to \in live,
         IsJumpThreadingSafe(b, from, to),
         NEW S \in SUBSET Block, Closed(succ, S), from \in S
  PROVE  to \in S
<1>1. CASE to \in succ[from]
  BY <1>1 DEF Closed
<1>2. CASE from \in pred[b]
  <2>1. b \in succ[from]
    BY <1>2 DEF BlockInv, BlockTypeOK, LinkSymmetry
  <2>2. succ[b] \subseteq S
    BY <2>1 DEF Closed
  <2>3. CASE to \in succ[b]
    BY <2>2, <2>3
  <2>4. ASSUME NEW t \in succ[b], CanReach(succ, t, to)
        PROVE  to \in S
    <3>1. t \in Block /\ t \in S
      BY <2>2
    <3> QED
      BY <2>4, <3>1, LinksAmongLive, ReachableIsLeast DEF CanReach
  <2> QED
    BY <1>2, <2>3, <2>4 DEF IsJumpThreadingSafe
<1> QED
  BY <1>1, <1>2 DEF IsJumpThreadingSafe

LEMMA ThreadBypasses ==
  ASSUME BlockInv, NEW b \in live, NEW from \in live, NEW to \in live,
         PerformJumpThreading(b, from, to)
  PROVE  FG!Bypass(from, b, to) \/ FG!AddEdge(from, to)
<1>1. CASE ~ StillChained(b, from, to)
  BY <1>1 DEF PerformJumpThreading, FG!AddEdge, FG!With, With
<1>2. CASE StillChained(b, from, to)
  <2> DEFINE cut == Without(Without(succ, from, b), b, to)
  <2>1. /\ Without(succ, from, b) =
             [x \in Block |-> IF x = from THEN succ[x] \ {b} ELSE succ[x]]
        /\ succ' = With(cut, from, to)
    BY <1>2, LinksAmongLive DEF PerformJumpThreading, Without
  <2>2. /\ cut \in [Block -> SUBSET live]
        /\ \A x \in Block : cut[x] \subseteq succ[x]
        /\ \A x, y \in Block : y \in succ[x] \ cut[x] =>
             (x = from /\ y = b) \/ (x = b /\ y = to)
    BY <2>1, LinksAmongLive DEF Without
  <2> HIDE DEF cut
  <2>3. /\ succ' \in [Block -> SUBSET live]
        /\ \A x \in Block : /\ succ'[x] \subseteq succ[x] \cup {to}
                            /\ x # from => succ'[x] \subseteq succ[x]
                            /\ cut[x] \subseteq succ'[x]
        /\ to \in succ'[from]
    BY <2>1, <2>2, LinksAmongLive DEF With
  <2>4. \A x, y \in Block :
          y \in succ[x] \ succ'[x] => <<x, y>> \in {<<from, b>>, <<b, to>>}
    BY <2>2, <2>3
  <2>5. ASSUME NEW S \in SUBSET Block, Closed(succ, S)
        PROVE  Closed(succ', S)
    <3>1. from \in S => to \in S
      BY <2>5, ThreadTargetBehind DEF PerformJumpThreading
    <3>2. ASSUME NEW x \in S PROVE succ'[x] \subseteq S
      <4>1. succ[x] \subseteq S
        BY <2>5 DEF Closed
      <4> QED
        BY <2>3, <3>1, <4>1
    <3> QED
      BY <3>2 DEF Closed
  <2>6. succ' \in [Block -> SUBSET Block]
    BY <2>3, LinksAmongLive
  <2>7. \A x \in live : Reachable(succ', x) \subseteq Reachable(succ, x)
    BY <2>5, <2>6, LinksAmongLive, ReachableShrinks
  <2>8. UNCHANGED live
    BY DEF PerformJumpThreading
  <2> QED
    BY <2>3, <2>4, <2>7, <2>8, SameReachable, LinksAmongLive DEF FG!Bypass
<1> QED
  BY <1>1, <1>2

(***************************************************************************)
(* Bypassing b for its only predecessor.  Nothing links to b afterwards,   *)
(* so b is not among what another block reaches then; and what is reached  *)
(* then, with b put back if its predecessor is reached, was closed before. *)
(***************************************************************************)
LEMMA BypassKeepsPaths ==
  ASSUME BlockInv, NEW b \in live, NEW from \in live, NEW to \in live,
         pred[b] = {from}, to \in succ[b], PerformJumpThreading(b, from, to),
         NEW x \in live, x # b
  PROVE  Reachable(succ, x) \ {b} = Reachable(succ', x) \ {b}
<1>1. /\ succ \in [Block -> SUBSET Block] /\ b \in Block /\ from \in Block /\ to \in Block
      /\ x \in Block
  BY LinksAmongLive
<1>2. \A y \in Block : b \in succ[y] <=> y = from
  BY <1>1 DEF BlockInv, LinkSymmetry
<1>3. succ[b] = {to}
  BY DEF PerformJumpThreading, IsJumpThreadingSafe, CanThreadJumpThrough
<1> DEFINE cut == Without(Without(succ, from, b), b, to)
<1>4. StillChained(b, from, to) /\ succ' = With(cut, from, to)
  <2>1. StillChained(b, from, to)
    BY <1>1, <1>2, <1>3 DEF StillChained, BlockInv, LinkSymmetry
  <2> QED
    BY <2>1 DEF PerformJumpThreading
<1>5. CASE from = b
  <2>1. to = b
    BY <1>1, <1>2, <1>3, <1>5
  <2>2. \A y \in Block : succ'[y] = succ[y]
    <3>1. Without(succ, b, b) = [y \in Block |-> IF y = b THEN succ[y] \ {b} ELSE succ[y]]
      BY <1>1 DEF Without
    <3>2. cut = [y \in Block |-> IF y = b THEN Without(succ, b, b)[y] \ {b}
                                          ELSE Without(succ, b, b)[y]]
      BY <1>5, <2>1, <3>1 DEF Without
    <3>3. succ'[b] = cut[b] \cup {b} /\ cut[b] = {}
      BY <1>1, <1>3, <1>4, <1>5, <2>1, <3>1, <3>2 DEF With
    <3>4. \A y \in Block \ {b} : succ'[y] = succ[y]
      BY <1>4, <1>5, <2>1, <3>1, <3>2 DEF With
    <3> QED
      BY <1>3, <2>1, <3>3, <3>4
  <2>3. succ' = succ
    <3>1. DOMAIN succ' = Block
      BY <1>1, <1>4 DEF With, Without
    <3>2. succ' = [y \in Block |-> succ'[y]]
      BY <1>4, <3>1 DEF With
    <3> QED
      BY <1>1, <2>2, <3>2
  <2> QED
    BY <2>3
<1>6. CASE from # b
  <2>1. Without(succ, from, b) = [y \in Block |-> IF y = from THEN succ[y] \ {b} ELSE succ[y]]
    BY <1>1 DEF Without
  <2>2. cut = [y \in Block |-> IF y = b THEN Without(succ, from, b)[y] \ {to}
                                        ELSE Without(succ, from, b)[y]]
    BY <2>1 DEF Without
  <2>3. /\ succ' = [y \in Block |-> IF y = from THEN cut[y] \cup {to} ELSE cut[y]]
        /\ cut[b] = {} /\ cut[from] = succ[from] \ {b}
        /\ \A y \in Block \ {b, from} : cut[y] = succ[y]
    <3>1. succ' = [y \in Block |-> IF y = from THEN cut[y] \cup {to} ELSE cut[y]]
      BY <1>4, <2>2 DEF With
    <3> HIDE DEF cut
    <3>2. cut[b] = {} /\ cut[from] = succ[from] \ {b}
      BY <1>1, <1>3, <1>6, <2>1, <2>2
    <3>3. \A y \in Block \ {b, from} : cut[y] = succ[y]
      BY <2>1, <2>2
    <3> QED
      BY <3>1, <3>2, <3>3
  <2> HIDE DEF cut
  <2>4. /\ succ' \in [Block -> SUBSET Block] /\ succ'[b] = {}
        /\ succ'[from] = (succ[from] \ {b}) \cup {to}
        /\ \A y \in Block \ {b, from} : succ'[y] = succ[y]
    BY <1>1, <1>6, <2>3
  <2>5. to # b
    BY <1>1, <1>2, <1>3, <1>6
  <2>6. Reachable(succ', x) \subseteq Reachable(succ, x)
    <3>1. ASSUME NEW S \in SUBSET Block, Closed(succ, S) PROVE Closed(succ', S)
      <4>1. ASSUME NEW y \in S PROVE succ'[y] \subseteq S
        <5>1. succ[y] \subseteq S
          BY <3>1 DEF Closed
        <5>2. CASE y = from
          <6>1. b \in S
            BY <1>1, <1>2, <5>1, <5>2
          <6>2. to \in S
            BY <1>3, <3>1, <6>1 DEF Closed
          <6> QED
            BY <2>4, <5>1, <5>2, <6>2
        <5> QED
          BY <2>4, <5>1, <5>2
      <4> QED
        BY <4>1 DEF Closed
    <3> QED
      BY <1>1, <2>4, <3>1, ReachableShrinks
  <2> DEFINE S == Reachable(succ', x)
             G == IF from \in S THEN S \cup {b} ELSE S
  <2>7. x \in S /\ S \in SUBSET Block /\ Closed(succ', S)
    BY <1>1, <2>4, ReachableContains, ReachableIsClosed DEF Reachable
  <2>8. b \notin S
    <3>1. ASSUME NEW y \in S \ {b} PROVE succ'[y] \subseteq S \ {b}
      <4>1. succ'[y] \subseteq S
        BY <2>7 DEF Closed
      <4>2. b \notin succ'[y]
        BY <1>2, <2>4, <2>5, <2>7
      <4> QED
        BY <4>1, <4>2
    <3>2. Closed(succ', S \ {b}) /\ x \in S \ {b}
      BY <2>7, <3>1 DEF Closed
    <3>3. S \subseteq S \ {b}
      <4>1. S \ {b} \in SUBSET Block
        BY <2>7
      <4> QED
        BY <1>1, <2>4, <3>2, <4>1, ReachableIsLeast
    <3> QED
      BY <3>3
  <2>9. Closed(succ, G)
    <3>1. ASSUME NEW y \in G PROVE succ[y] \subseteq G
      <4>1. CASE y = b
        <5>1. from \in S /\ to \in succ'[from]
          BY <2>4, <2>8, <4>1
        <5> QED
          BY <1>3, <2>7, <4>1, <5>1 DEF Closed
      <4>2. CASE y = from /\ y # b
        <5>1. succ'[from] \subseteq S /\ b \in G
          BY <2>7, <4>2 DEF Closed
        <5> QED
          BY <2>4, <4>2, <5>1
      <4>3. CASE y \notin {b, from}
        <5>1. y \in S /\ succ'[y] = succ[y]
          BY <2>4, <2>7, <4>3
        <5> QED
          BY <2>7, <5>1 DEF Closed
      <4> QED
        BY <4>1, <4>2, <4>3
    <3> QED
      BY <3>1 DEF Closed
  <2>10. Reachable(succ, x) \subseteq S \cup {b}
    <3>1. G \in SUBSET Block /\ x \in G /\ G \subseteq S \cup {b}
      BY <1>1, <2>7
    <3> HIDE DEF G, S
    <3>2. Reachable(succ, x) \subseteq G
      BY <1>1, <2>9, <3>1, ReachableIsLeast
    <3> QED
      BY <3>1, <3>2
  <2> QED
    BY <2>6, <2>10
<1> QED
  BY <1>5, <1>6

LEMMA ThreadingsKeepPaths == []BlockInv => ThreadingKeepsPaths
<1>1. BlockInv =>
        [\A b, from, to \in live :
           pred[b] = {from} /\ to \in succ[b] /\ PerformJumpThreading(b, from, to) =>
             \A x \in live \ {b} : Reachable(succ, x) \ {b} = Reachable(succ', x) \ {b}]_succ
  BY BypassKeepsPaths
<1> QED
  BY <1>1, PTL DEF ThreadingKeepsPaths

(***************************************************************************)
(* Bypassing a block for its only predecessor keeps every path between the *)
(* other blocks and makes none, in any graph.                              *)
(***************************************************************************)
THEOREM ThreadingPaths == BlockSpec => ThreadingKeepsPaths
BY ThreadingsKeepPaths, AlwaysBlockInv, PTL

(***************************************************************************)
(* Construction adds a vertex, a link call one edge or none, and the rest  *)
(* leaves the graph alone.                                                 *)
(***************************************************************************)
LEMMA LinkCallsOnEdges ==
  ASSUME BlockInv, NEW b \in live, NEW c \in live,
         \/ AddPredecessor(b, c)
         \/ AddSuccessor(b, c)
         \/ RemovePredecessor(b, c)
         \/ RemoveSuccessor(b, c)
  PROVE  \/ FG!AddEdge(c, b) \/ FG!AddEdge(b, c)
         \/ FG!RemoveEdge(c, b) \/ FG!RemoveEdge(b, c)
         \/ UNCHANGED <<live, succ>>
BY DEF AddPredecessor, AddSuccessor, RemovePredecessor, RemoveSuccessor,
       FG!AddEdge, FG!RemoveEdge, FG!With, FG!Without, With, Without

LEMMA BlockStepRefines ==
  ASSUME BlockInv, [BlockNext]_blockVars
  PROVE  [FG!Next]_(FG!vars)
<1> USE DEF FG!vars, code, links
<1>1. CASE UNCHANGED blockVars
  BY <1>1 DEF blockVars
<1>2. ASSUME NEW b \in Block, NEW n \in Name, CreateBlock(b, n)
      PROVE  FG!Next
  <2>1. FG!AddVertex(b)
    BY <1>2 DEF CreateBlock, FG!AddVertex
  <2> QED
    BY <2>1 DEF FG!Next
<1>3. CASE \/ \E i \in Instr, n \in Labels : SetTargetLabel(i, n)
           \/ \E b \in live :
                \/ \E n \in Name : SetName(b, n)
                \/ \E f \in Function \cup {NoFunction} : SetParentFunction(b, f)
                \/ \E i \in Instr : AddInstruction(b, i)
                \/ \E k \in 1..MaxInstrs : RemoveInstruction(b, k)
           \/ \E b, o \in live : MergeEmptyBlock(b, o)
  BY <1>3 DEF SetTargetLabel, SetName, SetParentFunction, AddInstruction,
              RemoveInstruction, MergeEmptyBlock
<1>4. ASSUME NEW b \in live, NEW c \in live,
             \/ AddPredecessor(b, c)
             \/ AddSuccessor(b, c)
             \/ RemovePredecessor(b, c)
             \/ RemoveSuccessor(b, c)
      PROVE  FG!Next \/ UNCHANGED <<live, succ>>
  BY <1>4, LinkCallsOnEdges, LinksAmongLive DEF FG!Next
<1>5. ASSUME NEW b \in live, SplitAllCriticalEdges(b)
      PROVE  FG!Next
  BY <1>5, SplitAllExpands DEF FG!Next
<1>6. ASSUME NEW b \in live, NEW c \in live, NEW n \in Block,
             MergeWith(b, c, n) \/ SplitCriticalEdge(b, c, n)
      PROVE  FG!Next
  BY <1>6, MergeExpands, SplitExpands DEF FG!Next
<1>7. ASSUME NEW b \in live, NEW from \in live, NEW to \in live,
             PerformJumpThreading(b, from, to)
      PROVE  FG!Next
  BY <1>7, ThreadBypasses, LinksAmongLive DEF FG!Next
<1> QED
  BY <1>1, <1>2, <1>3, <1>4, <1>5, <1>6, <1>7 DEF BlockNext

(***************************************************************************)
(* The blocks implement one directed graph: every operation and every pass *)
(* changes vertices, edges and paths only as FlowGraph allows.             *)
(***************************************************************************)
THEOREM BlocksImplementFlowGraph == BlockSpec => ImplementsFlowGraph
<1>1. BlockInit => FG!Init
  BY DEF BlockInit, FG!Init
<1>2. BlockInv /\ [BlockNext]_blockVars => [FG!Next]_(FG!vars)
  BY BlockStepRefines
<1> QED
  BY <1>1, <1>2, BlockInitInv, BlockStep, PTL
     DEF BlockSpec, ImplementsFlowGraph, FG!Spec

-----------------------------------------------------------------------------
(***************************************************************************)
(* Functions: every step is one of the blocks or changes block lists.      *)
(***************************************************************************)
Inv == TypeOK /\ LinkSymmetry

LEMMA InvHasBlockInv == Inv => BlockInv
BY DEF Inv, TypeOK, BlockInv

LEMMA InitInv == Init => Inv
<1>1. Init => BlockInv
  BY BlockInitInv DEF Init
<1>2. << >> \in Seq(live)
  OBVIOUS
<1> QED
  BY <1>1, <1>2 DEF Init, Inv, TypeOK, BlockInv

\* Blocks are constructed, never destroyed.
LEMMA BlocksStayLive == BlockNext => live \subseteq live'
<1>1. ASSUME NEW b, NEW c, NEW n,
             \/ CreateBlock(b, n)
             \/ MergeWith(b, c, n)
             \/ SplitCriticalEdge(b, c, n)
             \/ SplitAllCriticalEdges(b)
      PROVE  live \subseteq live'
  BY <1>1 DEF CreateBlock, MergeWith, SplitCriticalEdge, SplitAllCriticalEdges
<1>2. ASSUME NEW b, NEW c, NEW n,
             \/ SetName(b, n) \/ SetParentFunction(b, n) \/ SetTargetLabel(b, n)
             \/ AddInstruction(b, n) \/ RemoveInstruction(b, n)
             \/ AddPredecessor(b, c) \/ AddSuccessor(b, c)
             \/ RemovePredecessor(b, c) \/ RemoveSuccessor(b, c)
             \/ MergeEmptyBlock(b, c) \/ PerformJumpThreading(b, c, n)
      PROVE  live \subseteq live'
  BY <1>2 DEF SetName, SetParentFunction, SetTargetLabel, AddInstruction,
              RemoveInstruction, AddPredecessor, AddSuccessor,
              RemovePredecessor, RemoveSuccessor, MergeEmptyBlock,
              PerformJumpThreading
<1> QED
  BY <1>1, <1>2 DEF BlockNext

LEMMA ListsStayTyped ==
  ASSUME blocks \in [Function -> Seq(live)], live \subseteq live',
         UNCHANGED blocks
  PROVE  (blocks \in [Function -> Seq(live)])'
<1>1. ASSUME NEW s \in Seq(live) PROVE s \in Seq(live')
  BY SeqDef
<1> QED
  BY <1>1

(***************************************************************************)
(* Dead block elimination.                                                 *)
(***************************************************************************)

\* The links that removing the dead blocks of f one after the other cuts.
Cut(f, b, c) ==
  /\ b # c
  /\ {b, c} \subseteq Listed(f)
  /\ b \in DeadBlocks(f) \/ c \in DeadBlocks(f)

LEMMA EliminationLinks ==
  ASSUME Inv, NEW f \in Function, RemoveDeadBlocks(f)
  PROVE  /\ succ' = [b \in Block |-> {c \in succ[b] : ~ Cut(f, b, c)}]
         /\ pred' = [b \in Block |-> {c \in pred[b] : ~ Cut(f, c, b)}]
BY DEF RemoveDeadBlocks, Cut

LEMMA ListedLive ==
  ASSUME Inv, NEW f \in Function
  PROVE  Listed(f) \subseteq live
BY DEF Inv, TypeOK, Listed

LEMMA EliminationList ==
  ASSUME Inv, NEW f \in Function, RemoveDeadBlocks(f)
  PROVE  \E n \in 0..Len(blocks[f]) :
           \E rest \in [1..n -> Listed(f) \ DeadBlocks(f)] :
             /\ IsRemainder(rest, blocks[f], DeadBlocks(f))
             /\ blocks' = [blocks EXCEPT ![f] = rest]
BY DEF RemoveDeadBlocks

LEMMA EliminationStep ==
  ASSUME Inv, NEW f \in Function, RemoveDeadBlocks(f)
  PROVE  Inv'
<1>1. /\ live' = live
      /\ name' = name /\ instrs' = instrs /\ label' = label
      /\ crashed' = crashed
      /\ parent' \in [Block -> Function \cup {NoFunction}]
  BY DEF RemoveDeadBlocks, code, Inv, TypeOK, BlockTypeOK
<1>2. succ' \in [Block -> SUBSET live] /\ pred' \in [Block -> SUBSET live]
  BY EliminationLinks DEF Inv, TypeOK, BlockTypeOK
<1>3. LinkSymmetry'
  BY EliminationLinks DEF Inv, LinkSymmetry
<1>4. blocks' \in [Function -> Seq(live)]
  <2>1. PICK n \in 0..Len(blocks[f]) :
          \E rest \in [1..n -> Listed(f) \ DeadBlocks(f)] :
            blocks' = [blocks EXCEPT ![f] = rest]
    BY EliminationList
  <2>2. PICK rest \in [1..n -> Listed(f) \ DeadBlocks(f)] :
          blocks' = [blocks EXCEPT ![f] = rest]
    BY <2>1
  <2>3. n \in Nat
    BY DEF Inv, TypeOK
  <2>4. rest \in Seq(live)
    BY <2>3, ListedLive, SeqDef
  <2> QED
    BY <2>2, <2>4 DEF Inv, TypeOK
<1> QED
  BY <1>1, <1>2, <1>3, <1>4 DEF Inv, TypeOK, BlockTypeOK

LEMMA AddBlockStep ==
  ASSUME Inv, NEW f \in Function, NEW b \in live, AddBlock(f, b)
  PROVE  Inv'
BY DEF AddBlock, Inv, TypeOK, BlockTypeOK, LinkSymmetry, code, links

LEMMA RemoveBlockStep ==
  ASSUME Inv, NEW f \in Function, NEW b \in live, RemoveBlock(f, b)
  PROVE  Inv'
<1>1. PICK k \in DOMAIN blocks[f] :
        blocks' = [blocks EXCEPT ![f] = RemoveAt(blocks[f], k)]
  BY DEF RemoveBlock, TakenOff
<1>2. RemoveAt(blocks[f], k) \in Seq(live)
  BY RemoveAtType DEF Inv, TypeOK
<1> QED
  BY <1>1, <1>2 DEF RemoveBlock, Inv, TypeOK, BlockTypeOK, LinkSymmetry, code, links

LEMMA ApiRemoveBlockStep ==
  ASSUME Inv, NEW f \in Function, NEW b \in live, ApiRemoveBlock(f, b)
  PROVE  Inv'
<1>1. blocks' \in [Function -> Seq(live)]
  <2>1. CASE TakenOff(f, b)
    <3>1. PICK k \in DOMAIN blocks[f] :
            blocks' = [blocks EXCEPT ![f] = RemoveAt(blocks[f], k)]
      BY <2>1 DEF TakenOff
    <3>2. RemoveAt(blocks[f], k) \in Seq(live)
      BY RemoveAtType DEF Inv, TypeOK
    <3> QED
      BY <3>1, <3>2 DEF Inv, TypeOK
  <2>2. CASE UNCHANGED blocks
    BY <2>2 DEF Inv, TypeOK
  <2> QED
    BY <2>1, <2>2 DEF ApiRemoveBlock
<1> QED
  BY <1>1 DEF ApiRemoveBlock, Inv, TypeOK, BlockTypeOK, LinkSymmetry, code, links

LEMMA DestroyFunctionStep ==
  ASSUME Inv, NEW f \in Function, DestroyFunction(f)
  PROVE  Inv'
<1>1. << >> \in Seq(live)
  OBVIOUS
<1> QED
  BY <1>1 DEF DestroyFunction, Inv, TypeOK, BlockTypeOK, LinkSymmetry, code, links

LEMMA Step == Inv /\ [Next]_vars => Inv'
<1> SUFFICES ASSUME Inv, [Next]_vars PROVE Inv'
  OBVIOUS
<1>1. CASE UNCHANGED vars
  BY <1>1 DEF Inv, TypeOK, BlockTypeOK, LinkSymmetry, vars, blockVars
<1>2. CASE FunctionNext
  BY <1>2, AddBlockStep, RemoveBlockStep, ApiRemoveBlockStep, EliminationStep,
     DestroyFunctionStep DEF FunctionNext
<1>3. CASE BlockNext /\ UNCHANGED blocks
  <2>1. BlockInv'
    BY <1>3, InvHasBlockInv, BlockStep
  <2>2. (blocks \in [Function -> Seq(live)])'
    BY <1>3, BlocksStayLive, ListsStayTyped DEF Inv, TypeOK
  <2> QED
    BY <2>1, <2>2 DEF BlockInv, Inv, TypeOK
<1> QED
  BY <1>1, <1>2, <1>3 DEF Next

(***************************************************************************)
(* In every reachable state the block lists hold constructed blocks only,  *)
(* and the variables of the blocks keep their types.                       *)
(***************************************************************************)
THEOREM TypeCorrect == Spec => []TypeOK
<1>1. Inv => TypeOK
  BY DEF Inv
<1> QED
  BY <1>1, InitInv, Step, PTL DEF Spec

(***************************************************************************)
(* Dead block elimination too leaves the two link sets mirrored.           *)
(***************************************************************************)
THEOREM FunctionLinksMirrored == Spec => []LinkSymmetry
<1>1. Inv => LinkSymmetry
  BY DEF Inv
<1> QED
  BY <1>1, InitInv, Step, PTL DEF Spec

(***************************************************************************)
(* The passes keep their promises on graphs that dead block elimination    *)
(* and changes of the block lists left, too.                               *)
(***************************************************************************)
THEOREM PassesAmongFunctions ==
  Spec => /\ SplitLeavesNoCriticalEdge
          /\ MergeKeepsTerminatorsLast /\ MergeKeepsSingleDefinitions
          /\ MergeRunsBothBodies
          /\ ThreadingKeepsBranchesInStep /\ ThreadingKeepsPaths
<1>1. Spec => []BlockInv
  BY InvHasBlockInv, InitInv, Step, PTL DEF Spec
<1> QED
  BY <1>1, SplitsExhaust, MergesKeepTerminators, MergesKeepDefinitions,
     MergesRunBothBodies, ThreadingsStayInStep,
     ThreadingsKeepPaths

-----------------------------------------------------------------------------
(***************************************************************************)
(* What elimination does to the graph: nothing it cuts lies on a way from  *)
(* the entry, because whatever the entry reaches is not dead, and what a   *)
(* reached block links to is reached.                                      *)
(***************************************************************************)
LEMMA EntryLive ==
  ASSUME Inv, NEW f \in Function, RemoveDeadBlocks(f)
  PROVE  /\ 1 \in DOMAIN blocks[f]
         /\ Entry(f) \in Listed(f)
         /\ Entry(f) \in live
         /\ DeadBlocks(f) = Listed(f) \ Reachable(succ, Entry(f))
<1>1. blocks[f] # << >> /\ DeadBlocks(f) = Listed(f) \ Reachable(succ, Entry(f))
  BY DEF RemoveDeadBlocks, DeadBlocks
<1>2. 1 \in DOMAIN blocks[f]
  BY <1>1 DEF Inv, TypeOK
<1> QED
  BY <1>1, <1>2, ListedLive DEF Entry, Listed

LEMMA ReachedKeepLinks ==
  ASSUME Inv, NEW f \in Function, RemoveDeadBlocks(f),
         NEW b \in Reachable(succ, Entry(f))
  PROVE  succ'[b] = succ[b] /\ succ[b] \subseteq Reachable(succ, Entry(f))
<1>1. Closed(succ, Reachable(succ, Entry(f)))
  BY EntryLive, InvHasBlockInv, LinksAmongLive, ReachableIsClosed
<1>2. b \in Block
  BY EntryLive, InvHasBlockInv, LinksAmongLive, ReachableStays
<1>3. succ[b] \subseteq Reachable(succ, Entry(f))
  BY <1>1 DEF Closed
<1>4. b \notin DeadBlocks(f) /\ \A c \in succ[b] : c \notin DeadBlocks(f)
  BY <1>3, EntryLive
<1>5. \A c \in succ[b] : ~ Cut(f, b, c)
  BY <1>4 DEF Cut
<1>6. succ'[b] = {c \in succ[b] : ~ Cut(f, b, c)}
  BY <1>2, EliminationLinks
<1> QED
  BY <1>3, <1>5, <1>6

LEMMA ReachedStayReached ==
  ASSUME Inv, NEW f \in Function, RemoveDeadBlocks(f)
  PROVE  Reachable(succ', Entry(f)) = Reachable(succ, Entry(f))
<1> DEFINE R == Reachable(succ, Entry(f))
           T == Reachable(succ', Entry(f))
<1>1. /\ succ \in [Block -> SUBSET Block]
      /\ succ' \in [Block -> SUBSET Block]
      /\ Entry(f) \in Block
  BY EliminationLinks, EntryLive, InvHasBlockInv, LinksAmongLive
<1>2. R \in SUBSET Block /\ Entry(f) \in R /\ Entry(f) \in T
  BY <1>1, ReachableContains DEF Reachable
<1>3. Closed(succ', R)
  BY ReachedKeepLinks DEF Closed
<1>4. T \subseteq R
  BY <1>1, <1>2, <1>3, ReachableIsLeast
<1>5. Closed(succ', T)
  BY <1>1, ReachableIsClosed
<1>6. Closed(succ, T)
  BY <1>4, <1>5, ReachedKeepLinks DEF Closed
<1>7. R \subseteq T
  BY <1>1, <1>2, <1>4, <1>6, ReachableIsLeast
<1> QED
  BY <1>4, <1>7

LEMMA EliminationPrunes ==
  ASSUME Inv, NEW f \in Function, RemoveDeadBlocks(f)
  PROVE  FG!Prune(Entry(f))
<1>1. live' = live /\ succ' \in [Block -> SUBSET live]
  BY EliminationLinks, InvHasBlockInv, LinksAmongLive DEF RemoveDeadBlocks
<1>2. \A w \in Block : succ'[w] \subseteq succ[w]
  BY EliminationLinks
<1> QED
  BY <1>1, <1>2, EntryLive, ReachedKeepLinks, SameReachable DEF FG!Prune

(***************************************************************************)
(* What elimination does to the list.  The position of the entry, 1, is    *)
(* picked, and nothing can be picked before it.                            *)
(***************************************************************************)
LEMMA RemainderElements ==
  ASSUME NEW s, NEW t, NEW drop, IsRemainder(t, s, drop)
  PROVE  {t[k] : k \in DOMAIN t} = {s[j] : j \in DOMAIN s} \ drop
<1>1. PICK pick \in [DOMAIN t -> DOMAIN s] :
        /\ {pick[k] : k \in DOMAIN t} = {j \in DOMAIN s : s[j] \notin drop}
        /\ \A k \in DOMAIN t : t[k] = s[pick[k]]
  BY DEF IsRemainder
<1>2. ASSUME NEW j \in DOMAIN s, s[j] \notin drop
      PROVE  \E k \in DOMAIN t : t[k] = s[j]
  BY <1>1, <1>2
<1>3. ASSUME NEW k \in DOMAIN t
      PROVE  t[k] \notin drop /\ \E j \in DOMAIN s : t[k] = s[j]
  BY <1>1
<1> QED
  BY <1>2, <1>3

LEMMA RemainderFirst ==
  ASSUME NEW s, NEW n \in Nat, NEW t, DOMAIN t = 1..n, NEW drop,
         NEW l \in Nat, DOMAIN s = 1..l, 1 \in DOMAIN s, s[1] \notin drop,
         IsRemainder(t, s, drop)
  PROVE  1 \in DOMAIN t /\ t[1] = s[1]
<1>1. PICK pick \in [DOMAIN t -> DOMAIN s] :
        /\ \A j, k \in DOMAIN t : j < k => pick[j] < pick[k]
        /\ {pick[k] : k \in DOMAIN t} = {j \in DOMAIN s : s[j] \notin drop}
        /\ \A k \in DOMAIN t : t[k] = s[pick[k]]
  BY DEF IsRemainder
<1>2. PICK k \in DOMAIN t : pick[k] = 1
  BY <1>1
<1>3. 1 \in DOMAIN t /\ pick[1] \in 1..l
  BY <1>1, <1>2
<1>4. k = 1
  <2>1. k \in 1..n
    OBVIOUS
  <2>2. CASE 1 < k
    <3>1. pick[1] < pick[k]
      BY <1>1, <1>3, <2>2
    <3> QED
      BY <1>2, <1>3, <3>1
  <2> QED
    BY <2>1, <2>2
<1> QED
  BY <1>1, <1>2, <1>3, <1>4

LEMMA EliminationLeaves ==
  ASSUME Inv, NEW f \in Function, RemoveDeadBlocks(f)
  PROVE  /\ 1 \in DOMAIN blocks'[f]
         /\ blocks'[f][1] = Entry(f)
         /\ {blocks'[f][k] : k \in DOMAIN blocks'[f]}
              = Listed(f) \cap Reachable(succ, Entry(f))
<1>1. PICK n \in 0..Len(blocks[f]) :
        \E rest \in [1..n -> Listed(f) \ DeadBlocks(f)] :
          /\ IsRemainder(rest, blocks[f], DeadBlocks(f))
          /\ blocks' = [blocks EXCEPT ![f] = rest]
  BY EliminationList
<1>2. PICK rest \in [1..n -> Listed(f) \ DeadBlocks(f)] :
        /\ IsRemainder(rest, blocks[f], DeadBlocks(f))
        /\ blocks' = [blocks EXCEPT ![f] = rest]
  BY <1>1
<1>3. blocks'[f] = rest /\ DOMAIN rest = 1..n
  BY <1>2 DEF Inv, TypeOK
<1>4. {rest[k] : k \in DOMAIN rest} = Listed(f) \ DeadBlocks(f)
  BY <1>2, RemainderElements DEF Listed
<1>5. blocks[f][1] \notin DeadBlocks(f)
  BY EntryLive, InvHasBlockInv, LinksAmongLive, ReachableContains DEF Entry
<1>6. n \in Nat /\ Len(blocks[f]) \in Nat /\ DOMAIN blocks[f] = 1..Len(blocks[f])
  BY DEF Inv, TypeOK
<1>7. 1 \in DOMAIN rest /\ rest[1] = blocks[f][1]
  BY <1>2, <1>3, <1>5, <1>6, EntryLive, RemainderFirst
<1> QED
  BY <1>3, <1>4, <1>7, EntryLive DEF Entry

LEMMA EliminationExact ==
  ASSUME Inv, NEW f \in Function, RemoveDeadBlocks(f)
  PROVE  LET left == {blocks'[f][k] : k \in DOMAIN blocks'[f]}
             gone == Listed(f) \ left
         IN  /\ blocks'[f] # << >>
             /\ blocks'[f][1] = Entry(f)
             /\ Reachable(succ', Entry(f)) = Reachable(succ, Entry(f))
             /\ left = Listed(f) \cap Reachable(succ, Entry(f))
             /\ \A b \in left : succ'[b] \cap gone = {} /\ pred'[b] \cap gone = {}
<1> DEFINE left == {blocks'[f][k] : k \in DOMAIN blocks'[f]}
           gone == Listed(f) \ left
<1>1. /\ blocks'[f] # << >>
      /\ blocks'[f][1] = Entry(f)
      /\ left = Listed(f) \cap Reachable(succ, Entry(f))
  BY EliminationLeaves
<1> HIDE DEF left
<1>2. gone = DeadBlocks(f) /\ left \subseteq Block
  BY <1>1, EntryLive, ListedLive, InvHasBlockInv, LinksAmongLive
<1>3. ASSUME NEW b \in left, NEW c \in gone
      PROVE  c \notin succ'[b] /\ c \notin pred'[b]
  <2>1. Cut(f, b, c) /\ Cut(f, c, b)
    BY <1>1, <1>2 DEF Cut
  <2> QED
    BY <1>2, <2>1, EliminationLinks
<1> QED
  BY <1>1, <1>3, ReachedStayReached DEF left

-----------------------------------------------------------------------------
(***************************************************************************)
(* Dead block elimination removes exactly the blocks that cannot be        *)
(* reached from the entry, which stays first and keeps all it reaches, on  *)
(* any list: with repeated blocks, with blocks of other functions, with    *)
(* loops among the dead.                                                   *)
(***************************************************************************)
THEOREM EliminationCorrect == Spec => EliminationIsExact
<1>1. ASSUME Inv
      PROVE  [\A f \in Function : RemoveDeadBlocks(f) =>
               LET left == {blocks'[f][k] : k \in DOMAIN blocks'[f]}
                   gone == Listed(f) \ left
               IN  /\ blocks'[f] # << >>
                   /\ blocks'[f][1] = Entry(f)
                   /\ Reachable(succ', Entry(f)) = Reachable(succ, Entry(f))
                   /\ left = Listed(f) \cap Reachable(succ, Entry(f))
                   /\ \A b \in left :
                        succ'[b] \cap gone = {} /\ pred'[b] \cap gone = {}
             ]_<<succ, blocks>>
  BY <1>1, EliminationExact
<1> QED
  BY <1>1, InitInv, Step, PTL DEF Spec, EliminationIsExact

(***************************************************************************)
(* Blocks and functions together implement the graph: elimination is a     *)
(* Prune from the entry of its function.                                   *)
(***************************************************************************)
THEOREM FunctionsImplementFlowGraph == Spec => ImplementsFlowGraph
<1>1. Init => FG!Init
  BY DEF Init, BlockInit, FG!Init
<1>2. ASSUME Inv, [Next]_vars
      PROVE  [FG!Next]_(FG!vars)
  <2>1. CASE UNCHANGED vars
    BY <2>1 DEF vars, blockVars, FG!vars
  <2>2. CASE BlockNext
    BY <1>2, <2>2, InvHasBlockInv, BlockStepRefines
  <2>3. ASSUME NEW f \in Function, RemoveDeadBlocks(f)
        PROVE  FG!Next
    <3>1. Entry(f) \in Block
      BY <1>2, <2>3, EntryLive, InvHasBlockInv, LinksAmongLive
    <3> QED
      BY <1>2, <2>3, <3>1, EliminationPrunes DEF FG!Next
  <2>4. ASSUME NEW f \in Function, NEW b \in live,
               AddBlock(f, b) \/ RemoveBlock(f, b) \/ ApiRemoveBlock(f, b)
        PROVE  UNCHANGED FG!vars
    BY <2>4 DEF AddBlock, RemoveBlock, ApiRemoveBlock, links, FG!vars
  <2>5. ASSUME NEW f \in Function, DestroyFunction(f)
        PROVE  UNCHANGED FG!vars
    BY <2>5 DEF DestroyFunction, links, FG!vars
  <2> QED
    BY <1>2, <2>1, <2>2, <2>3, <2>4, <2>5 DEF Next, FunctionNext
<1>3. Inv /\ [Next]_vars => [FG!Next]_(FG!vars)
  BY <1>2
<1> QED
  BY <1>1, <1>3, InitInv, Step, PTL DEF Spec, ImplementsFlowGraph, FG!Spec
=============================================================================
