--------------------------- MODULE MCGraphQueries ---------------------------
(***************************************************************************)
(* A client that calls one of the methods that answer questions about the  *)
(* graph, on any graph and any blocks.  Each method has its steps in the   *)
(* module it belongs to; the variables of the others stay as they are.     *)
(***************************************************************************)
EXTENDS ZIRDepthFirst

VARIABLES
  reachable, queue, todo,                         \* of ZIRReachableBlocks
  next, prev, order, dom, at, changed, returned   \* of ZIRDominators

Breadth == INSTANCE ZIRReachableBlocks
Doms == INSTANCE ZIRDominators WITH this <- start, other <- target

depth == <<stack, answer, cycle>>
breadth == <<reachable, queue, todo>>
doms == <<next, prev, order, dom, at, changed, returned>>

NoDepth == stack = << >> /\ answer = FALSE /\ cycle = << >>

NoBreadth == reachable = << >> /\ queue = << >> /\ todo = {}

NoDoms ==
  /\ next = [b \in Block |-> {}] /\ prev = next /\ dom = next
  /\ order = << >> /\ at = 1 /\ changed = FALSE /\ returned = FALSE

CallInit ==
  \/ Init /\ NoBreadth /\ NoDoms
  \/ /\ Breadth!Init /\ NoDepth /\ NoDoms
     /\ query = "getReachableBlocks" /\ target = start
  \/ Doms!Init /\ visited = {} /\ NoDepth /\ NoBreadth

CallNext ==
  \/ Next /\ UNCHANGED <<breadth, doms>>
  \/ Breadth!Next /\ UNCHANGED <<query, target, depth, doms>>
  \/ query \in Doms!Query /\ Doms!Next /\ UNCHANGED <<visited, depth, breadth>>

\* Fair: a call that has been made runs on until it returns.
CallSpec ==
  /\ CallInit
  /\ [][CallNext]_<<vars, breadth, doms>>
  /\ WF_<<vars, breadth, doms>>(CallNext)

-----------------------------------------------------------------------------
(***************************************************************************)
(* The properties of the modules, each of the calls of its own methods.    *)
(***************************************************************************)

\* getReachableBlocks returns what the block reaches, each block once, in an
\* order of discovery.
ReturnsDiscoveryOrder ==
  query = "getReachableBlocks" => Breadth!ReturnsDiscoveryOrder

\* Its work list runs out, however the graph loops.
WorkListRunsOut == query = "getReachableBlocks" => Breadth!TraversalReturns

\* dominates and postDominates never say yes wrongly, at no time of the sweeps.
DominanceIsSound == Doms!DominanceIsSound

\* Without loops, dominates says yes of all that the entry cannot get to
\* past this.
DominatesIsComplete == Doms!DominatesIsComplete

\* The blocks dominated are those reached without entering the frontier.
FrontierBoundsDominance == Doms!FrontierBoundsDominance

\* The sweeps end, whatever the graph and their order.
ComputationReturns == query \in Doms!Query => Doms!ComputationReturns
=============================================================================
