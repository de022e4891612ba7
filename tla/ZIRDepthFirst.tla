--------------------------- MODULE ZIRDepthFirst ----------------------------
(***************************************************************************)
(* The depth-first traversals of the control-flow graph: canReach,         *)
(* isReachableFrom, isInCycle and detectCycle.                             *)
(*                                                                         *)
(* A frame of the call stack is a block and those of its successors the    *)
(* loop has not come to yet, in an order that may be any.  A call that     *)
(* returns true makes every caller return true at once, so the stack is    *)
(* then given up as a whole.                                               *)
(***************************************************************************)
EXTENDS ZIRGraph

CONSTANT Block       \* identities of block objects

Search == {"canReach", "isReachableFrom"}
Query == Search \cup {"isInCycle", "detectCycle"}

VARIABLES
  succ,      \* succ[b]: the successors of b
  query,     \* the method that was called
  start,     \* where the traversal starts
  target,    \* the block looked for by canReach and isReachableFrom
  visited,   \* blocks that have been entered
  stack,     \* the call stack, the innermost call last
  answer,    \* what the method returns; detectCycle: what its helper does
  cycle      \* the list detectCycle returns

call == <<succ, query, start, target>>
vars == <<call, visited, stack, answer, cycle>>

Frame(b) == [block |-> b, todo |-> succ[b]]

\* Only blocks that have been entered are on the stack.
TypeOK ==
  /\ succ \in [Block -> SUBSET Block]
  /\ query \in Query
  /\ start \in Block /\ target \in Block
  /\ visited \in SUBSET Block
  /\ stack \in Seq([block : visited, todo : SUBSET Block])
  /\ answer \in BOOLEAN
  /\ cycle \in Seq(visited)

\* The first call: entering target itself ends the search.
Init ==
  /\ succ \in [Block -> SUBSET Block]
  /\ query \in Query
  /\ start \in Block /\ target \in Block
  /\ visited = {start}
  /\ answer = (query \in Search /\ start = target)
  /\ stack = IF answer THEN << >> ELSE <<Frame(start)>>
  /\ cycle = << >>

Top == stack[Len(stack)]

OnStack == {stack[k].block : k \in DOMAIN stack}

\* The loop of the innermost call moves on past s.
Advanced(s) ==
  [k \in DOMAIN stack |->
     IF k = Len(stack) THEN [block |-> Top.block, todo |-> Top.todo \ {s}]
                       ELSE stack[k]]

IsNext(s) == stack # << >> /\ s \in Top.todo

Enter(s) ==
  /\ visited' = visited \cup {s}
  /\ stack' = Append(Advanced(s), Frame(s))
  /\ UNCHANGED <<call, answer, cycle>>

\* Mutant: the loop over the successors does not move on.
SkipNothing(s) == UNCHANGED vars

Skip(s) ==
  /\ stack' = Advanced(s)
  /\ UNCHANGED <<call, visited, answer, cycle>>

Succeed ==
  /\ answer' = TRUE
  /\ stack' = << >>
  /\ UNCHANGED <<call, visited>>

CanReachStep(s) ==
  /\ query = "canReach"
  /\ IsNext(s)
  /\ \/ s \in visited /\ Skip(s)
     \/ s \notin visited /\ s = target /\ Succeed /\ UNCHANGED cycle
     \/ s \notin visited /\ s # target /\ Enter(s)

\* Blocks are entered, compared, and only then looked up.
IsReachableFromStep(s) ==
  /\ query = "isReachableFrom"
  /\ IsNext(s)
  /\ \/ s = target /\ Succeed /\ UNCHANGED cycle
     \/ s # target /\ s \in visited /\ Skip(s)
     \/ s # target /\ s \notin visited /\ Enter(s)

(***************************************************************************)
(* isInCycle and detectCycle share a helper.  On the way back each caller  *)
(* adds the block it had entered; detectCycle reverses the list, and puts  *)
(* the block it was called on at its end.  isInCycle drops the list.       *)
(***************************************************************************)
\* Mutant: the block that was called is listed in place of the one it entered.
CycleThroughCallers(s) ==
  [k \in 1..(Len(stack) + 1) |->
     IF k < Len(stack) THEN stack[k].block
     ELSE IF k = Len(stack) THEN s ELSE start]

CycleThrough(s) ==
  [k \in 1..(Len(stack) + 1) |->
     IF k < Len(stack) THEN stack[k + 1].block
     ELSE IF k = Len(stack) THEN s ELSE start]

Listed(s) == IF query = "detectCycle" THEN CycleThrough(s) ELSE cycle

DetectCycleStep(s) ==
  /\ query \notin Search
  /\ IsNext(s)
  /\ \/ s \notin visited /\ Enter(s)
     \/ s \in OnStack /\ Succeed /\ cycle' = Listed(s)
     \/ s \in visited \ OnStack /\ Skip(s)

\* Mutant: a dead end gives up the search as a whole.
ReturnAll ==
  /\ stack # << >>
  /\ Top.todo = {}
  /\ stack' = << >>
  /\ UNCHANGED <<call, visited, answer, cycle>>

Return ==
  /\ stack # << >>
  /\ Top.todo = {}
  /\ stack' = SubSeq(stack, 1, Len(stack) - 1)
  /\ UNCHANGED <<call, visited, answer, cycle>>

Returned == stack = << >>

Next ==
  \/ Return
  \/ \E s \in Block :
       CanReachStep(s) \/ IsReachableFromStep(s) \/ DetectCycleStep(s)

\* Fair: a call that has been made runs on until it returns.
Spec == Init /\ [][Next]_vars /\ WF_vars(Next)

-----------------------------------------------------------------------------
(***************************************************************************)
(* Properties.                                                             *)
(***************************************************************************)

(***************************************************************************)
(* Both searches answer yes exactly when links lead to the target; dead    *)
(* block elimination and jump threading rest on them.                      *)
(***************************************************************************)
SearchIsExact ==
  Returned /\ query \in Search => (answer <=> CanReach(succ, start, target))

OnCycle(b) == \E s \in succ[b] : CanReach(succ, s, b)

(***************************************************************************)
(* isInCycle, "Check if this block is part of a cycle": a block that is on *)
(* one is never missed, whichever dead ends and other cycles the search    *)
(* comes to first.  (The other direction is OnlyCycleMembersAnswer.)       *)
(***************************************************************************)
CycleMembersAreFound ==
  Returned /\ query = "isInCycle" /\ OnCycle(start) => answer

(***************************************************************************)
(* What that comment says of a yes, and what "Add the starting block to    *)
(* complete the cycle" takes for granted in detectCycle: the block the     *)
(* method was called on is on the cycle that was found.  The code fails    *)
(* it: any cycle the block leads into is taken.                            *)
(***************************************************************************)
OnlyCycleMembersAnswer ==
  Returned /\ query \notin Search /\ answer => OnCycle(start)

\* Some part of the list is a cycle, block by block along the links.
HoldsCycle(list) ==
  \E i, j \in DOMAIN list :
    /\ i <= j /\ list[i] \in succ[list[j]]
    /\ \A k \in i..(j - 1) : list[k + 1] \in succ[list[k]]

(***************************************************************************)
(* detectCycle, "Detect and return a cycle if one exists": it returns a    *)
(* list exactly when the block reaches a cycle, and the list has a whole   *)
(* cycle in it.  (It has the way into the cycle, too, and at its end the   *)
(* block the method was called on.)                                        *)
(***************************************************************************)
CyclesAreListed ==
  Returned /\ query = "detectCycle" =>
    IF \E b \in Reachable(succ, start) : OnCycle(b)
    THEN HoldsCycle(cycle)
    ELSE cycle = << >>

(***************************************************************************)
(* The traversals return, however the graph loops.                         *)
(***************************************************************************)
TraversalReturns == <>Returned
=============================================================================
