------------------------- MODULE ZIRReachableBlocks -------------------------
(***************************************************************************)
(* getReachableBlocks: breadth-first traversal of the control-flow graph.  *)
(*                                                                         *)
(* The graph is any graph, cycles and loops of one block included, and     *)
(* does not change during a traversal: the compiler is sequential.  The    *)
(* sets of links iterate in the order of addresses, which may be any.      *)
(***************************************************************************)
EXTENDS ZIRGraph

CONSTANT Block       \* identities of block objects

VARIABLES
  succ,        \* succ[b]: the successors of b
  start,       \* the block the method was called on
  reachable,   \* the result so far
  visited,     \* blocks that have been put on the queue
  queue,       \* blocks to take next
  todo         \* successors of the block last taken, not looked at yet

vars == <<succ, start, reachable, visited, queue, todo>>

\* Only visited blocks are ever listed or queued.
TypeOK ==
  /\ succ \in [Block -> SUBSET Block]
  /\ start \in Block
  /\ visited \in SUBSET Block
  /\ reachable \in Seq(visited)
  /\ queue \in Seq(visited)
  /\ todo \in SUBSET Block

Init ==
  /\ succ \in [Block -> SUBSET Block]
  /\ start \in Block
  /\ reachable = << >>
  /\ visited = {start}
  /\ queue = <<start>>
  /\ todo = {}

\* Mutant: the block last pushed is taken, and the others are dropped with it.
TakeLast ==
  /\ todo = {}
  /\ queue # << >>
  /\ reachable' = Append(reachable, queue[Len(queue)])
  /\ queue' = << >>
  /\ todo' = succ[queue[Len(queue)]]
  /\ UNCHANGED <<succ, start, visited>>

Take ==
  /\ todo = {}
  /\ queue # << >>
  /\ reachable' = Append(reachable, Head(queue))
  /\ queue' = Tail(queue)
  /\ todo' = succ[Head(queue)]
  /\ UNCHANGED <<succ, start, visited>>

Push(s) ==
  /\ s \in todo
  /\ s \notin visited
  /\ visited' = visited \cup {s}
  /\ queue' = Append(queue, s)
  /\ todo' = todo \ {s}
  /\ UNCHANGED <<succ, start, reachable>>

\* Mutant: the loop over the successors does not move on.
SkipNothing(s) == s \in todo /\ s \in visited /\ UNCHANGED vars

Skip(s) ==
  /\ s \in todo
  /\ s \in visited
  /\ todo' = todo \ {s}
  /\ UNCHANGED <<succ, start, reachable, visited, queue>>

Returned == queue = << >> /\ todo = {}

Next == Take \/ \E s \in Block : Push(s) \/ Skip(s)

\* Fair: a call that has been made runs on until it returns.
Spec == Init /\ [][Next]_vars /\ WF_vars(Next)

-----------------------------------------------------------------------------
(***************************************************************************)
(* Properties.                                                             *)
(***************************************************************************)

(***************************************************************************)
(* What is returned is exactly what the block reaches, each block once,    *)
(* and no block before all of those that link to it: computeDominators     *)
(* sweeps over this list.                                                  *)
(***************************************************************************)
ReturnsDiscoveryOrder == Returned => IsDiscoveryOrder(succ, start, reachable)

(***************************************************************************)
(* The traversal returns, however the graph loops.                         *)
(***************************************************************************)
TraversalReturns == <>Returned
=============================================================================
