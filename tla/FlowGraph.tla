----------------------------- MODULE FlowGraph ------------------------------
(***************************************************************************)
(* What the ZIR block graph promises its clients: one directed graph.      *)
(*                                                                         *)
(* A client adds and removes vertices and single edges.  An optimisation   *)
(* pass does one of three things, each stated by its effect on paths and   *)
(* not by how it is done:                                                  *)
(*   Expand  - new vertices appear (edge splitting, block merging), and    *)
(*             the paths among the vertices that were there are kept;      *)
(*   Bypass  - a way from u over v to w gives way to a link from u to w    *)
(*             (jump threading): no path appears, and at most the two      *)
(*             links of that way are lost;                                 *)
(*   Prune   - links that cannot be followed from a root are cut (dead     *)
(*             block elimination).                                         *)
(*                                                                         *)
(* The implementation keeps every edge twice, once at each end.            *)
(***************************************************************************)
EXTENDS ZIRGraph

CONSTANT Vertex

VARIABLES
  vertices,   \* the vertices that exist
  next        \* next[v]: the vertices v has an edge to

vars == <<vertices, next>>

TypeOK ==
  /\ vertices \subseteq Vertex
  /\ next \in [Vertex -> SUBSET vertices]

Init ==
  /\ vertices = {}
  /\ next = [v \in Vertex |-> {}]

AddVertex(v) ==
  /\ v \notin vertices
  /\ vertices' = vertices \cup {v}
  /\ UNCHANGED next

AddEdge(v, w) ==
  /\ {v, w} \subseteq vertices
  /\ next' = With(next, v, w)
  /\ UNCHANGED vertices

RemoveEdge(v, w) ==
  /\ {v, w} \subseteq vertices
  /\ next' = Without(next, v, w)
  /\ UNCHANGED vertices

Expand ==
  /\ vertices \subseteq vertices'
  /\ next' \in [Vertex -> SUBSET vertices']
  /\ \A v \in Vertex \ vertices' : next'[v] = {}
  /\ \A v \in vertices :
        Reachable(next', v) \cap vertices = Reachable(next, v)

Bypass(u, v, w) ==
  /\ {u, v, w} \subseteq vertices
  /\ UNCHANGED vertices
  /\ next' \in [Vertex -> SUBSET vertices]
  /\ w \in next'[u]
  /\ \A x, y \in Vertex :
        y \in next[x] \ next'[x] => <<x, y>> \in {<<u, v>>, <<v, w>>}
  /\ \A x \in vertices : Reachable(next', x) \subseteq Reachable(next, x)

Prune(root) ==
  /\ root \in vertices
  /\ UNCHANGED vertices
  /\ next' \in [Vertex -> SUBSET vertices]
  /\ \A w \in Vertex : next'[w] \subseteq next[w]
  /\ \A w \in Reachable(next, root) : next'[w] = next[w]

Next ==
  \/ \E v \in Vertex : AddVertex(v)
  \/ \E v, w \in Vertex : AddEdge(v, w) \/ RemoveEdge(v, w)
  \/ Expand
  \/ \E v \in Vertex : Prune(v)
  \/ \E u, v, w \in Vertex : Bypass(u, v, w)

Spec == Init /\ [][Next]_vars
=============================================================================
