---------------------------- MODULE ZIRFunction -----------------------------
(***************************************************************************)
(* Functions of ZIR, class ZIRFunctionImpl, over the basic blocks.         *)
(*                                                                         *)
(* A function lists its blocks in order; the first is its entry.  The list *)
(* and the parent pointers of the blocks are two records of one relation   *)
(* that drift apart in legal use: a block moved to a second function stays *)
(* on the list of the first, a block can be listed twice, and the blocks   *)
(* that splitting and merging create have a parent that does not list      *)
(* them.  Links may lead to blocks of no function or of another one.       *)
(***************************************************************************)
EXTENDS ZIRBasicBlock

CONSTANT MaxBlocks   \* bound: entries in the list of a function

ASSUME MaxBlocksAssumption == MaxBlocks \in Nat

VARIABLE blocks      \* blocks[f]: the block list of function f

vars == <<blockVars, blocks>>

TypeOK ==
  /\ BlockTypeOK
  /\ blocks \in [Function -> Seq(live)]

Init ==
  /\ BlockInit
  /\ blocks = [f \in Function |-> << >>]

Listed(f) == {blocks[f][k] : k \in DOMAIN blocks[f]}

Entry(f) == blocks[f][1]

-----------------------------------------------------------------------------
(***************************************************************************)
(* The new function becomes the parent; the list of a previous one is left *)
(* alone.                                                                  *)
(***************************************************************************)
AddBlock(f, b) ==
  /\ Len(blocks[f]) < MaxBlocks
  /\ blocks' = [blocks EXCEPT ![f] = Append(@, b)]
  /\ parent' = [parent EXCEPT ![b] = f]
  /\ UNCHANGED <<live, name, code, links, crashed>>

\* The first entry of b goes off the list.
TakenOff(f, b) ==
  \E k \in DOMAIN blocks[f] :
     /\ blocks[f][k] = b
     /\ \A j \in 1..(k - 1) : blocks[f][j] # b
     /\ blocks' = [blocks EXCEPT ![f] = RemoveAt(@, k)]

\* The links of the block are left alone.
RemoveBlock(f, b) ==
  /\ TakenOff(f, b)
  /\ parent' = [parent EXCEPT ![b] = IF @ = f THEN NoFunction ELSE @]
  /\ UNCHANGED <<live, name, code, links, crashed>>

(***************************************************************************)
(* zir_function_remove_block: clears the parent pointer whoever it names,  *)
(* and also when the block is not on the list.                             *)
(***************************************************************************)
ApiRemoveBlock(f, b) ==
  /\ TakenOff(f, b) \/ (b \notin Listed(f) /\ UNCHANGED blocks)
  /\ parent' = [parent EXCEPT ![b] = NoFunction]
  /\ UNCHANGED <<live, name, code, links, crashed>>

(***************************************************************************)
(* zir_destroy_function: the list dies with the function, the blocks do    *)
(* not, and their parent pointers still hold its address.  The next        *)
(* function may be created at that address: f then stands for it.          *)
(***************************************************************************)
DestroyFunction(f) ==
  /\ blocks' = [blocks EXCEPT ![f] = << >>]
  /\ UNCHANGED <<live, name, parent, code, links, crashed>>

\* Mutant: only the entry and the blocks it links to are looked at.
DeadBlocksOneStep(f) ==
  IF blocks[f] = << >> THEN {}
  ELSE Listed(f) \ (succ[Entry(f)] \cup {Entry(f)})

\* Reachability is over all links, through blocks of other functions too.
DeadBlocks(f) ==
  IF blocks[f] = << >> THEN {}
  ELSE Listed(f) \ Reachable(succ, Entry(f))

\* t is what is left of s when the elements in drop are taken out.
IsRemainder(t, s, drop) ==
  \E pick \in [DOMAIN t -> DOMAIN s] :
     /\ \A j, k \in DOMAIN t : j < k => pick[j] < pick[k]
     /\ {pick[k] : k \in DOMAIN t} = {j \in DOMAIN s : s[j] \notin drop}
     /\ \A k \in DOMAIN t : t[k] = s[pick[k]]

\* Mutant: the other blocks drop the dead one from their successors only.
RemoveDeadBlocksHalfUnlinked(f) ==
  LET dead == DeadBlocks(f)
      cut(b, c) == /\ b # c
                   /\ {b, c} \subseteq Listed(f)
                   /\ c \in dead
  IN  /\ dead # {}
      /\ succ' = [b \in Block |-> {c \in succ[b] : ~ cut(b, c)}]
      /\ pred' = [b \in Block |-> {c \in pred[b] : ~ cut(c, b)}]
      /\ parent' = [b \in Block |->
                      IF b \in dead /\ parent[b] = f THEN NoFunction
                                                     ELSE parent[b]]
      /\ blocks' = [blocks EXCEPT ![f] = SelectSeq(@, LAMBDA b : b \notin dead)]
      /\ UNCHANGED <<live, name, code, crashed>>

(***************************************************************************)
(* Each dead block in turn is unlinked, both ways, from every other block  *)
(* still on the list, and taken off it.  Its links to itself and to blocks *)
(* that are not on the list stay.                                          *)
(***************************************************************************)
RemoveDeadBlocks(f) ==
  LET dead == DeadBlocks(f)
      cut(b, c) == /\ b # c
                   /\ {b, c} \subseteq Listed(f)
                   /\ b \in dead \/ c \in dead
  IN  /\ dead # {}
      /\ succ' = [b \in Block |-> {c \in succ[b] : ~ cut(b, c)}]
      /\ pred' = [b \in Block |-> {c \in pred[b] : ~ cut(c, b)}]
      /\ parent' = [b \in Block |->
                      IF b \in dead /\ parent[b] = f THEN NoFunction
                                                     ELSE parent[b]]
      /\ \E n \in 0..Len(blocks[f]) : \E rest \in [1..n -> Listed(f) \ dead] :
           /\ IsRemainder(rest, blocks[f], dead)
           /\ blocks' = [blocks EXCEPT ![f] = rest]
      /\ UNCHANGED <<live, name, code, crashed>>

-----------------------------------------------------------------------------
FunctionNext ==
  /\ ~ crashed
  /\ \E f \in Function :
       \/ \E b \in live : AddBlock(f, b) \/ RemoveBlock(f, b) \/ ApiRemoveBlock(f, b)
       \/ RemoveDeadBlocks(f)
       \/ DestroyFunction(f)

Next == FunctionNext \/ (BlockNext /\ UNCHANGED blocks)

Spec == Init /\ [][Next]_vars

-----------------------------------------------------------------------------
(***************************************************************************)
(* Properties.                                                             *)
(***************************************************************************)

(***************************************************************************)
(* Dead block elimination removes exactly the blocks the entry cannot      *)
(* reach, although it cuts links while the list shrinks: the entry stays   *)
(* first and reaches what it reached before, every block left on the list  *)
(* is reachable, every block taken off was not, and no link joins a block  *)
(* that is left with one that is gone.                                     *)
(***************************************************************************)
EliminationIsExact ==
  [][\A f \in Function : RemoveDeadBlocks(f) =>
       LET left == {blocks'[f][k] : k \in DOMAIN blocks'[f]}
           gone == Listed(f) \ left
       IN  /\ blocks'[f] # << >>
           /\ blocks'[f][1] = Entry(f)
           /\ Reachable(succ', Entry(f)) = Reachable(succ, Entry(f))
           /\ left = Listed(f) \cap Reachable(succ, Entry(f))
           /\ \A b \in left : succ'[b] \cap gone = {} /\ pred'[b] \cap gone = {}
    ]_<<succ, blocks>>

(***************************************************************************)
(* "Only clear parent if we are the parent": a step that takes a block off *)
(* the list of one function leaves the parent pointer of a block that      *)
(* another function lists and owns.                                        *)
(***************************************************************************)
RemovalKeepsOtherParents ==
  [][\A f, g \in Function, b \in live :
       /\ f # g
       /\ Len(blocks'[f]) < Len(blocks[f])
       /\ parent[b] = g /\ b \in Listed(g)
       => parent'[b] = g]_blocks
=============================================================================
