--------------------------- MODULE ZIRBasicBlock ----------------------------
(***************************************************************************)
(* Basic blocks of the ZIR control-flow graph: class ZIRBasicBlockImpl.    *)
(*                                                                         *)
(* A block holds a name, the instructions it executes, a parent pointer    *)
(* and two sets of links that mirror each other, successors and            *)
(* predecessors.  Blocks are shared objects: an element of Block is the    *)
(* identity of one, live once it has been constructed.  Instructions are   *)
(* shared objects too: two blocks may hold the same instruction, and       *)
(* retargeting its label is then seen by both.                             *)
(*                                                                         *)
(* One action per operation that changes state, taken to its end: the      *)
(* compiler is sequential, so callers never see a half-done operation.     *)
(***************************************************************************)
EXTENDS ZIRGraph, SequencesExt

CONSTANTS
  Block,            \* identities of block objects
  Function,         \* identities of function objects
  NoFunction,       \* the null parent pointer
  Name,             \* non-empty names of blocks
  NoName,           \* the empty string
  SplitName(_, _),  \* name of the block put on the edge between two blocks
  Instr,            \* identities of instruction objects
  OpOf,             \* opcode of an instruction
  DefOf,            \* variables an instruction defines
  UseOf,            \* variables an instruction uses
  Var,              \* variable names
  Labels,           \* bound: target labels a client gives to instructions
  MaxInstrs         \* bound: instructions in a block

Opcode == {"NOP", "ADD", "SUB", "MUL", "DIV", "LOAD", "STORE",
           "BR", "BR_COND", "PHI", "RET"}

ASSUME FunctionAssumption == NoFunction \notin Function
ASSUME NameAssumption ==
  /\ NoName \notin Name
  /\ \A m, n \in Name \cup {NoName} : SplitName(m, n) \in Name \cup {NoName}
ASSUME InstrAssumption ==
  /\ OpOf \in [Instr -> Opcode]
  /\ DefOf \in [Instr -> SUBSET Var]
  /\ UseOf \in [Instr -> SUBSET Var]
  /\ Labels \subseteq Name \cup {NoName}
ASSUME BoundAssumption == MaxInstrs \in Nat

VARIABLES
  live,      \* blocks that have been constructed
  name,      \* name[b]: the name of block b
  parent,    \* parent[b]: the function b believes it belongs to
  instrs,    \* instrs[b]: the instructions of b, in order
  label,     \* label[i]: the target label of instruction i
  succ,      \* succ[b]: the successors of b
  pred,      \* pred[b]: the predecessors of b
  crashed    \* the process ran into undefined behaviour and is gone

blockVars == <<live, name, parent, instrs, label, succ, pred, crashed>>

links == <<succ, pred>>
code == <<instrs, label>>

\* Links only lead to blocks that have been constructed.
BlockTypeOK ==
  /\ live \subseteq Block
  /\ name \in [Block -> Name \cup {NoName}]
  /\ parent \in [Block -> Function \cup {NoFunction}]
  /\ instrs \in [Block -> Seq(Instr)]
  /\ label \in [Instr -> Name \cup {NoName}]
  /\ succ \in [Block -> SUBSET live]
  /\ pred \in [Block -> SUBSET live]
  /\ crashed \in BOOLEAN

BlockInit ==
  /\ live = {}
  /\ name = [b \in Block |-> NoName]
  /\ parent = [b \in Block |-> NoFunction]
  /\ instrs = [b \in Block |-> << >>]
  /\ label = [i \in Instr |-> NoName]
  /\ succ = [b \in Block |-> {}]
  /\ pred = [b \in Block |-> {}]
  /\ crashed = FALSE

-----------------------------------------------------------------------------
(***************************************************************************)
(* Construction and the plain setters.                                     *)
(***************************************************************************)
CreateBlock(b, n) ==
  /\ b \notin live
  /\ live' = live \cup {b}
  /\ name' = [name EXCEPT ![b] = n]
  /\ UNCHANGED <<parent, code, links, crashed>>

SetName(b, n) ==
  /\ name' = [name EXCEPT ![b] = n]
  /\ UNCHANGED <<live, parent, code, links, crashed>>

SetParentFunction(b, f) ==
  /\ parent' = [parent EXCEPT ![b] = f]
  /\ UNCHANGED <<live, name, code, links, crashed>>

AddInstruction(b, i) ==
  /\ Len(instrs[b]) < MaxInstrs
  /\ instrs' = [instrs EXCEPT ![b] = Append(@, i)]
  /\ UNCHANGED <<live, name, parent, label, links, crashed>>

RemoveInstruction(b, k) ==
  /\ k \in DOMAIN instrs[b]
  /\ instrs' = [instrs EXCEPT ![b] = RemoveAt(@, k)]
  /\ UNCHANGED <<live, name, parent, label, links, crashed>>

SetTargetLabel(i, n) ==
  /\ label' = [label EXCEPT ![i] = n]
  /\ UNCHANGED <<live, name, parent, instrs, links, crashed>>

-----------------------------------------------------------------------------
(***************************************************************************)
(* Linking.  Each call updates its own set and reaches over to the mirror  *)
(* set of the other block only when its own set really changed.            *)
(***************************************************************************)
AddPredecessor(b, p) ==
  /\ pred' = With(pred, b, p)
  /\ succ' = IF p \in pred[b] THEN succ ELSE With(succ, p, b)
  /\ UNCHANGED <<live, name, parent, code, crashed>>

AddSuccessor(b, s) ==
  /\ succ' = With(succ, b, s)
  /\ pred' = IF s \in succ[b] THEN pred ELSE With(pred, s, b)
  /\ UNCHANGED <<live, name, parent, code, crashed>>

\* Mutant: the call forgets to reach over to the successors of p.
RemovePredecessorOneSided(b, p) ==
  /\ pred' = Without(pred, b, p)
  /\ UNCHANGED <<live, name, parent, code, succ, crashed>>

RemovePredecessor(b, p) ==
  /\ pred' = Without(pred, b, p)
  /\ succ' = IF p \in pred[b] THEN Without(succ, p, b) ELSE succ
  /\ UNCHANGED <<live, name, parent, code, crashed>>

RemoveSuccessor(b, s) ==
  /\ succ' = Without(succ, b, s)
  /\ pred' = IF s \in succ[b] THEN Without(pred, s, b) ELSE pred
  /\ UNCHANGED <<live, name, parent, code, crashed>>

-----------------------------------------------------------------------------
(***************************************************************************)
(* What the passes ask about instructions.                                 *)
(***************************************************************************)
IsTerminator(i) == OpOf[i] \in {"BR", "BR_COND", "RET"}

InstrsOf(b) == {instrs[b][k] : k \in DOMAIN instrs[b]}

HasOpcode(b, op) == \E i \in InstrsOf(b) : OpOf[i] = op

Defs(b) == UNION {DefOf[i] : i \in InstrsOf(b)}
Uses(b) == UNION {UseOf[i] : i \in InstrsOf(b)}

(***************************************************************************)
(* Block merging.  The merged block is a third one: b and o stay as they   *)
(* are, linked and listed, and it is for the caller to drop them.          *)
(***************************************************************************)
IsMergeableWith(b, o) ==
  /\ succ[b] = {o}
  /\ pred[o] = {b}

\* Mutants: the check without its test for terminators inside the first
\* block, and without its test for variables defined in both.
IsSafeMergeWithBuriedTerminator(b, o) ==
  /\ IsMergeableWith(b, o)
  /\ ~ HasOpcode(o, "PHI")
  /\ \A i \in InstrsOf(b) : label[i] # name[o]
  /\ \A i \in InstrsOf(o) :
        /\ label[i] # name[b]
        /\ DefOf[i] \cap Defs(b) = {}
        /\ UseOf[i] \cap Uses(b) \subseteq Defs(b)

IsSafeMergeWithRedefinition(b, o) ==
  /\ IsMergeableWith(b, o)
  /\ ~ HasOpcode(o, "PHI")
  /\ \A i \in InstrsOf(b) :
        /\ IsTerminator(i) => i = instrs[b][Len(instrs[b])]
        /\ label[i] # name[o]
  /\ \A i \in InstrsOf(o) :
        /\ label[i] # name[b]
        /\ UseOf[i] \cap Uses(b) \subseteq Defs(b)

IsSafeMergeWith(b, o) ==
  /\ IsMergeableWith(b, o)
  /\ ~ HasOpcode(o, "PHI")
  /\ \A i \in InstrsOf(b) :
        /\ IsTerminator(i) => i = instrs[b][Len(instrs[b])]
        /\ label[i] # name[o]
  /\ \A i \in InstrsOf(o) :
        /\ label[i] # name[b]
        /\ DefOf[i] \cap Defs(b) = {}
        /\ UseOf[i] \cap Uses(b) \subseteq Defs(b)

\* Mutant: the terminator of the second block is dropped as well.
MergeWithoutTerminators(b, o, m) ==
  /\ m \notin live
  /\ IsSafeMergeWith(b, o)
  /\ instrs[b] # << >> /\ instrs[o] # << >>
  /\ Len(instrs[b]) + Len(instrs[o]) - 1 <= MaxInstrs
  /\ live' = live \cup {m}
  /\ instrs' = [instrs EXCEPT ![m] = Front(instrs[b]) \o Front(instrs[o])]
  /\ UNCHANGED <<name, parent, label, links, crashed>>

(***************************************************************************)
(* The predecessors are linked before the successors of o are read: when   *)
(* o is a predecessor of b, the merged block is then among them, and       *)
(* becomes its own successor.                                              *)
(***************************************************************************)
MergeWith(b, o, m) ==
  /\ m \notin live
  /\ IsSafeMergeWith(b, o)
  /\ instrs[b] # << >>
  /\ Len(instrs[b]) + Len(instrs[o]) - 1 <= MaxInstrs
  /\ live' = live \cup {m}
  /\ name' = [name EXCEPT ![m] = name[b]]
  /\ parent' = [parent EXCEPT ![m] = parent[b]]
  /\ instrs' = [instrs EXCEPT ![m] = Front(instrs[b]) \o instrs[o]]
  /\ LET linked == [x \in Block |->
                      IF x \in pred[b] THEN succ[x] \cup {m} ELSE succ[x]]
         entered == [pred EXCEPT ![m] = pred[b]]
     IN  /\ succ' = [linked EXCEPT ![m] = linked[o]]
         /\ pred' = [x \in Block |->
                       IF x \in linked[o] THEN entered[x] \cup {m}
                                          ELSE entered[x]]
  /\ UNCHANGED <<label, crashed>>

(***************************************************************************)
(* With no instruction in b the copy loop runs to instructions.size() - 1, *)
(* which wraps around, and reads past the end of the vector until the      *)
(* process dies.                                                           *)
(***************************************************************************)
MergeEmptyBlock(b, o) ==
  /\ IsSafeMergeWith(b, o)
  /\ instrs[b] = << >>
  /\ crashed' = TRUE
  /\ UNCHANGED <<live, name, parent, code, links>>

-----------------------------------------------------------------------------
(***************************************************************************)
(* Jump threading.  Block b holds nothing but an unconditional branch, and *)
(* its predecessor from is to jump to its target to directly.              *)
(***************************************************************************)
IsJumpThreadableBlock(b) ==
  /\ Len(instrs[b]) = 1
  /\ OpOf[instrs[b][1]] = "BR"

CanThreadJumpThrough(b) ==
  /\ \E t \in Block : succ[b] = {t}
  /\ IsJumpThreadableBlock(b)

(***************************************************************************)
(* Besides the plain case (the last disjunct), the check accepts a from    *)
(* that no longer precedes b but already has an edge to to, and a to       *)
(* further down the graph than the successor of b: both are meant for      *)
(* chains of threadings already under way.                                 *)
(***************************************************************************)
IsJumpThreadingSafe(b, from, to) ==
  /\ CanThreadJumpThrough(b)
  /\ \/ from \notin pred[b] /\ to \in succ[from]
     \/ /\ from \in pred[b] /\ to \notin succ[b]
        /\ \E t \in succ[b] : CanReach(succ, t, to)
     \/ /\ from \in pred[b] /\ to \in succ[b]
        /\ ~ HasOpcode(to, "PHI")
        /\ ~ HasOpcode(from, "BR_COND")

\* Instruction i is the first unconditional branch of block b.
IsFirstBranch(i, b) ==
  \E k \in DOMAIN instrs[b] :
     /\ i = instrs[b][k]
     /\ OpOf[i] = "BR"
     /\ \A j \in 1..(k - 1) : OpOf[instrs[b][j]] # "BR"

\* Mutant: the links are rewired and the branch still names the bypassed block.
RetargetNothing(from, to) == UNCHANGED label

RetargetBranch(from, to) ==
  label' = [i \in Instr |->
              IF IsFirstBranch(i, from) /\ label[i] # NoName
              THEN name[to] ELSE label[i]]

\* Mutant: the links of the old way are cut and the new one is not made.
PerformJumpCutting(b, from, to) ==
  /\ IsJumpThreadingSafe(b, from, to)
  /\ RetargetBranch(from, to)
  /\ succ' = Without(Without(succ, from, b), b, to)
  /\ pred' = Without(Without(pred, b, from), to, b)
  /\ UNCHANGED <<live, name, parent, instrs, crashed>>

StillChained(b, from, to) ==
  b \in succ[from] /\ from \in pred[b] /\ to \in succ[b] /\ b \in pred[to]

PerformJumpThreading(b, from, to) ==
  /\ IsJumpThreadingSafe(b, from, to)
  /\ RetargetBranch(from, to)
  /\ IF StillChained(b, from, to)
     THEN /\ succ' = With(Without(Without(succ, from, b), b, to), from, to)
          /\ pred' = With(Without(Without(pred, b, from), to, b), to, from)
     ELSE /\ succ' = With(succ, from, to)
          /\ pred' = With(pred, to, from)
  /\ UNCHANGED <<live, name, parent, instrs, crashed>>

-----------------------------------------------------------------------------
(***************************************************************************)
(* Critical edge splitting.  The new block n is empty: no branch is put in *)
(* it, and the branch of b that names s is left as it is.                  *)
(***************************************************************************)
\* Mutant: the new block is never linked to s.
SplitCriticalEdgeHalf(b, s, n) ==
  /\ n \notin live
  /\ IsCriticalEdge(succ, pred, b, s)
  /\ live' = live \cup {n}
  /\ name' = [name EXCEPT ![n] = SplitName(name[b], name[s])]
  /\ parent' = [parent EXCEPT ![n] = parent[b]]
  /\ succ' = With(Without(succ, b, s), b, n)
  /\ pred' = With(Without(pred, s, b), n, b)
  /\ UNCHANGED <<code, crashed>>

SplitCriticalEdge(b, s, n) ==
  /\ n \notin live
  /\ IsCriticalEdge(succ, pred, b, s)
  /\ live' = live \cup {n}
  /\ name' = [name EXCEPT ![n] = SplitName(name[b], name[s])]
  /\ parent' = [parent EXCEPT ![n] = parent[b]]
  /\ succ' = With(With(Without(succ, b, s), b, n), n, s)
  /\ pred' = With(With(Without(pred, s, b), n, b), s, n)
  /\ UNCHANGED <<code, crashed>>

\* Mutant: returns after the first split.
SplitFirstCriticalEdge(b) ==
  \E s, n \in Block : SplitCriticalEdge(b, s, n)

(***************************************************************************)
(* Splits the edges that are critical when the call starts, one after the  *)
(* other; none stops being critical on the way.  at[s] is the block put on *)
(* the edge to s.                                                          *)
(***************************************************************************)
SplitAllCriticalEdges(b) ==
  LET critical == CriticalSuccessors(succ, pred, b)
  IN  /\ critical # {}
      /\ \E at \in [critical -> Block \ live] :
            /\ \A s, t \in critical : at[s] = at[t] => s = t
            /\ LET new == {at[s] : s \in critical}
                   end(n) == CHOOSE s \in critical : at[s] = n
               IN  /\ live' = live \cup new
                   /\ name' = [x \in Block |->
                                 IF x \in new
                                 THEN SplitName(name[b], name[end(x)])
                                 ELSE name[x]]
                   /\ parent' = [x \in Block |->
                                   IF x \in new THEN parent[b] ELSE parent[x]]
                   /\ succ' = [x \in Block |->
                                 IF x \in new THEN {end(x)}
                                 ELSE IF x = b THEN (succ[b] \ critical) \cup new
                                 ELSE succ[x]]
                   /\ pred' = [x \in Block |->
                                 IF x \in new THEN {b}
                                 ELSE IF x \in critical
                                      THEN (pred[x] \ {b}) \cup {at[x]}
                                 ELSE pred[x]]
      /\ UNCHANGED <<code, crashed>>

-----------------------------------------------------------------------------
BlockNext ==
  /\ ~ crashed
  /\ \/ \E b \in Block, n \in Name : CreateBlock(b, n)
     \/ \E i \in Instr, n \in Labels : SetTargetLabel(i, n)
     \/ \E b \in live :
          \/ \E n \in Name : SetName(b, n)
          \/ \E f \in Function \cup {NoFunction} : SetParentFunction(b, f)
          \/ \E i \in Instr : AddInstruction(b, i)
          \/ \E k \in 1..MaxInstrs : RemoveInstruction(b, k)
          \/ SplitAllCriticalEdges(b)
     \/ \E b, c \in live :
          \/ AddPredecessor(b, c)
          \/ AddSuccessor(b, c)
          \/ RemovePredecessor(b, c)
          \/ RemoveSuccessor(b, c)
          \/ MergeEmptyBlock(b, c)
          \/ \E n \in Block : MergeWith(b, c, n) \/ SplitCriticalEdge(b, c, n)
     \/ \E b, from, to \in live : PerformJumpThreading(b, from, to)

BlockSpec == BlockInit /\ [][BlockNext]_blockVars
-----------------------------------------------------------------------------
(***************************************************************************)
(* Properties.                                                             *)
(***************************************************************************)

(***************************************************************************)
(* The two link sets mirror each other after every operation, whichever    *)
(* side it was called on and however many blocks a pass rewired.           *)
(***************************************************************************)
LinkSymmetry == \A b, c \in Block : c \in succ[b] <=> b \in pred[c]

(***************************************************************************)
(* The blocks implement one directed graph: pred is an index of succ, and  *)
(* splitting and merging keep the paths among the blocks that were there,  *)
(* while jump threading adds none and drops no link but those of the way   *)
(* it shortens.                                                            *)
(***************************************************************************)
FG == INSTANCE FlowGraph WITH Vertex <- Block, vertices <- live, next <- succ

ImplementsFlowGraph == FG!Spec

(***************************************************************************)
(* splitAllCriticalEdges works off a list made before the first split.     *)
(* Still no edge of the block is critical when it returns, not even an     *)
(* edge to itself, and no other block has gained or lost a critical edge.  *)
(***************************************************************************)
SplitLeavesNoCriticalEdge ==
  [][\A b \in live : SplitAllCriticalEdges(b) =>
       /\ CriticalSuccessors(succ', pred', b) = {}
       /\ \A x \in live \ {b} :
            CriticalSuccessors(succ', pred', x) = CriticalSuccessors(succ, pred, x)
    ]_live

TerminatorsLast(is) ==
  \A k \in DOMAIN is : IsTerminator(is[k]) => k = Len(is)

DefinesOnce(is) ==
  \A j, k \in DOMAIN is : j # k => DefOf[is[j]] \cap DefOf[is[k]] = {}

(***************************************************************************)
(* Merging cannot bury a terminator in the middle of a block: whatever the *)
(* first block looks like, as long as it does not hold one instruction     *)
(* object twice (the check compares objects, not positions), and the       *)
(* second keeps its terminator last.                                       *)
(***************************************************************************)
MergeKeepsTerminatorsLast ==
  [][\A b, o \in live, m \in Block :
       MergeWith(b, o, m) /\ IsInjective(instrs[b]) /\ TerminatorsLast(instrs[o])
         => TerminatorsLast(instrs'[m])]_live

(***************************************************************************)
(* Merging two blocks that each define a variable at most once gives a     *)
(* block that does.                                                        *)
(***************************************************************************)
MergeKeepsSingleDefinitions ==
  [][\A b, o \in live, m \in Block :
       MergeWith(b, o, m) /\ DefinesOnce(instrs[b]) /\ DefinesOnce(instrs[o])
         => DefinesOnce(instrs'[m])]_live

\* The first branch of b, if it has a label, names a successor of b.
InStep(b, l, s) ==
  \A i \in Instr : IsFirstBranch(i, b) /\ l[i] # NoName =>
     \E c \in s[b] : name[c] = l[i]

Shared(i) == \E b, c \in live : b # c /\ i \in InstrsOf(b) /\ i \in InstrsOf(c)

(***************************************************************************)
(* Jump threading rewrites a branch label and several links in one call.   *)
(* Wherever the branch of a block named one of its successors it still     *)
(* does, and the branch it rewrote now does; only the bypassed block is    *)
(* left out, and instruction objects held by two blocks.                   *)
(***************************************************************************)
ThreadingKeepsBranchesInStep ==
  [][\A b \in {x \in live : CanThreadJumpThrough(x)}, from, to \in live :
       PerformJumpThreading(b, from, to) =>
         \A x \in live \ {b} :
           /\ x = from \/ InStep(x, label, succ)
           /\ \A i \in InstrsOf(x) : ~ Shared(i)
           => InStep(x, label', succ')]_<<succ, label>>

\* The instructions of a list that are not terminators, in order.
Computing(is) ==
  LET upto[k \in 0..Len(is)] ==
        IF k = 0 THEN << >>
        ELSE IF IsTerminator(is[k]) THEN upto[k - 1]
        ELSE Append(upto[k - 1], is[k])
  IN  upto[Len(is)]

(***************************************************************************)
(* The merged block does the work of both, in order: of a first block that *)
(* ends with a terminator only this one is left out.  (mergeWith drops the *)
(* last instruction of the first block whatever it is.)                    *)
(***************************************************************************)
MergeRunsBothBodies ==
  [][\A b, o \in live, m \in Block :
       MergeWith(b, o, m) /\ IsTerminator(Last(instrs[b]))
         => Computing(instrs'[m]) = Computing(instrs[b]) \o Computing(instrs[o])]_live

(***************************************************************************)
(* Bypassing a block for its only predecessor leaves every path between    *)
(* the other blocks, and makes none.  (With a second predecessor the link  *)
(* from the bypassed block to its target is gone, and this one is cut off  *)
(* from it.)                                                               *)
(***************************************************************************)
ThreadingKeepsPaths ==
  [][\A b, from, to \in live :
       pred[b] = {from} /\ to \in succ[b] /\ PerformJumpThreading(b, from, to) =>
         \A x \in live \ {b} : Reachable(succ, x) \ {b} = Reachable(succ', x) \ {b}]_succ
=============================================================================
