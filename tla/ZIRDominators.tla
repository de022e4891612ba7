--------------------------- MODULE ZIRDominators ----------------------------
(***************************************************************************)
(* computeDominators and its three clients: dominates, postDominates and   *)
(* getDominanceFrontier.                                                   *)
(*                                                                         *)
(* Sets of dominators start out as small as they can be, each block alone, *)
(* and sweeps over the blocks let them grow until none changes.  (The      *)
(* textbook iteration starts with all blocks and lets the sets shrink.)    *)
(* The sweeps follow the list of getReachableBlocks.  All of this runs     *)
(* from the block the method was called on, not from the entry of the      *)
(* function, while predecessors are those of the whole graph.              *)
(***************************************************************************)
EXTENDS ZIRGraph, FiniteSets

CONSTANT Block       \* identities of block objects

Query == {"dominates", "postDominates", "getDominanceFrontier"}

VARIABLES
  succ,      \* succ[b]: the successors of b
  query,     \* the method that was called
  this,      \* the block it was called on
  other,     \* its argument
  next,      \* the graph analysed: succ, or a reversed copy of a part of it
  prev,      \* its predecessor sets
  order,     \* the blocks reachable from this, as getReachableBlocks lists them
  dom,       \* dom[b]: the dominators of b found so far; none for blocks
             \* that are not in order, as for keys missing in the map
  at,        \* position of the sweep in order
  changed,   \* whether this sweep has changed a set
  returned   \* the computation is over

call == <<succ, query, this, other, next, prev, order>>
vars == <<call, dom, at, changed, returned>>

Elements(s) == {s[k] : k \in DOMAIN s}

TypeOK ==
  /\ {succ, next, prev} \subseteq [Block -> SUBSET Block]
  /\ query \in Query
  /\ this \in Block /\ other \in Block
  /\ order \in Seq(Reachable(next, this))
  /\ dom \in [Block -> SUBSET Elements(order)]
  /\ at \in 1..(Len(order) + 1)
  /\ changed \in BOOLEAN
  /\ returned \in BOOLEAN

\* The predecessor sets mirror the successor sets.
Mirror(adj) == [b \in DOMAIN adj |-> {a \in DOMAIN adj : b \in adj[a]}]

Within(adj, S) == [b \in DOMAIN adj |-> IF b \in S THEN adj[b] \cap S ELSE {}]

(***************************************************************************)
(* postDominates copies what other reaches, with every link turned round.  *)
(* It returns false at once when this is not in it.                        *)
(***************************************************************************)
Analyses ==
  IF query = "postDominates"
  THEN LET copied == Reachable(succ, other)
       IN  /\ this \in copied
           /\ next = Within(Mirror(succ), copied)
           /\ prev = Within(succ, copied)
  ELSE /\ next = succ
       /\ prev = Mirror(succ)

InitialDoms(b) == IF b \in Elements(order) THEN {b} ELSE {}

Init ==
  /\ succ \in [Block -> SUBSET Block]
  /\ query \in Query
  /\ this \in Block /\ other \in Block
  /\ Analyses
  /\ \E n \in 1..Cardinality(Block) :
       \E s \in [1..n -> Block] : order = s /\ IsDiscoveryOrder(next, this, s)
  /\ dom = [b \in Block |-> InitialDoms(b)]
  /\ at = 1
  /\ changed = FALSE
  /\ returned = FALSE

\* Mutant: predecessors that this does not reach are passed over.
NewDomsOfReached(b) ==
  {b} \cup {d \in Block : \A p \in prev[b] \cap Elements(order) : d \in dom[p]}

\* The block itself, and what dominates all of its predecessors.
NewDoms(b) ==
  {b} \cup {d \in Block : prev[b] # {} /\ \A p \in prev[b] : d \in dom[p]}

VisitBlock ==
  /\ ~ returned /\ at <= Len(order)
  /\ at' = at + 1
  /\ LET b == order[at]
     IN  IF b = this \/ NewDoms(b) = dom[b]
         THEN UNCHANGED <<dom, changed>>
         ELSE /\ dom' = [dom EXCEPT ![b] = NewDoms(b)]
              /\ changed' = TRUE
  /\ UNCHANGED <<call, returned>>

\* Mutant: the flag is not reset before the next sweep.
EndSweepChanged ==
  /\ ~ returned /\ at > Len(order)
  /\ IF changed
     THEN at' = 1 /\ UNCHANGED <<changed, returned>>
     ELSE returned' = TRUE /\ UNCHANGED <<at, changed>>
  /\ UNCHANGED <<call, dom>>

\* Mutant: one sweep is taken for enough.
EndSweepOnce ==
  /\ ~ returned /\ at > Len(order)
  /\ returned' = TRUE
  /\ UNCHANGED <<call, dom, at, changed>>

EndSweep ==
  /\ ~ returned /\ at > Len(order)
  /\ IF changed
     THEN at' = 1 /\ changed' = FALSE /\ UNCHANGED returned
     ELSE returned' = TRUE /\ UNCHANGED <<at, changed>>
  /\ UNCHANGED <<call, dom>>

Next == VisitBlock \/ EndSweep

\* Fair: a call that has been made runs on until it returns.
Spec == Init /\ [][Next]_vars /\ WF_vars(Next)

\* The answer of dominates and postDominates.
Dominated == this \in dom[other]

\* Mutant: only the successors of this itself are looked at.
FrontierOfThis == {s \in next[this] : this \notin dom[s]}

Frontier ==
  UNION {{s \in next[b] : this \notin dom[s]} : b \in {c \in Block : this \in dom[c]}}

-----------------------------------------------------------------------------
(***************************************************************************)
(* Properties.                                                             *)
(***************************************************************************)

Avoiding(adj, a) == [b \in DOMAIN adj |-> adj[b] \ {a}]

(***************************************************************************)
(* dominates and postDominates never say yes wrongly: a block that has no  *)
(* predecessor (the entry of a function; for postDominates, an exit) does  *)
(* not get past this to the blocks found dominated, not even halfway       *)
(* through the sweeps.                                                     *)
(***************************************************************************)
DominanceIsSound ==
  \A b \in Block : this \in dom[b] =>
    \A r \in Block \ {this} :
      prev[r] = {} => ~ CanReach(Avoiding(next, this), r, b)

IsEntry(r) == prev[r] = {} /\ Reachable(next, r) = Block

\* Every path from r to other passes this.
IsOnEveryPath(r) == r = this \/ ~ CanReach(Avoiding(next, this), r, other)

(***************************************************************************)
(* Where no block is on a loop, dominates says yes of every block that the *)
(* entry cannot get to past this, several sweeps and any order of them     *)
(* notwithstanding.  (Around a loop the code says no of blocks that this   *)
(* dominates: two sets that start small confirm each other.)               *)
(***************************************************************************)
DominatesIsComplete ==
  /\ returned /\ query = "dominates"
  /\ \A b \in Block : \A s \in next[b] : ~ CanReach(next, s, b)
  => \A r \in Block : IsEntry(r) /\ IsOnEveryPath(r) => Dominated

(***************************************************************************)
(* The frontier is where dominance ends: the blocks dominated are those    *)
(* reached without entering the frontier.  (A loop back to this, which the *)
(* comment on strict dominance puts there, makes no difference to that.)   *)
(***************************************************************************)
FrontierBoundsDominance ==
  returned => {b \in Block : this \in dom[b]}
                = Reachable([b \in Block |-> next[b] \ Frontier], this)

(***************************************************************************)
(* The sweeps only ever add dominators, which is why they come to an end.  *)
(***************************************************************************)
SweepsOnlyAdd == [][\A b \in Block : dom[b] \subseteq dom'[b]]_dom

(***************************************************************************)
(* The computation ends, whatever the graph and the order of the sweeps.   *)
(***************************************************************************)
ComputationReturns == <>returned
=============================================================================
