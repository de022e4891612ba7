------------------------ MODULE ZIRDominators_proofs ------------------------
(***************************************************************************)
(* What the dominator computation finds, for any graph and any sweep       *)
(* order.  The argument is about sets of blocks that walks backwards need  *)
(* not leave (Escape): a block of such a set never gets this as dominator, *)
(* and when no set changes any more the blocks without it form one.        *)
(***************************************************************************)
EXTENDS ZIRDominators, SequenceTheorems, FiniteSetTheorems, TLAPS

(***************************************************************************)
(* Facts about reachability.  None needs induction: Reachable is a least   *)
(* closed set, so a claim about it is shown by giving one closed set.      *)
(***************************************************************************)
LEMMA ReachableAmong ==
  ASSUME NEW B, NEW links \in [B -> SUBSET B], NEW a \in B
  PROVE  Reachable(links, a) \in SUBSET B
BY DEF Reachable

LEMMA ReachableContains ==
  ASSUME NEW B, NEW links \in [B -> SUBSET B], NEW a \in B
  PROVE  a \in Reachable(links, a)
BY DEF Reachable

LEMMA ReachableIsClosed ==
  ASSUME NEW B, NEW links \in [B -> SUBSET B], NEW a \in B
  PROVE  Closed(links, Reachable(links, a))
BY DEF Reachable, Closed

LEMMA ReachableIsLeast ==
  ASSUME NEW B, NEW links \in [B -> SUBSET B], NEW a \in B,
         NEW S \in SUBSET B, a \in S, Closed(links, S)
  PROVE  Reachable(links, a) \subseteq S
BY DEF Reachable

-----------------------------------------------------------------------------

\* Walking backwards from the blocks in S need never come to this: each has
\* a predecessor in S, or none at all.
Escape(S) ==
  /\ this \notin S
  /\ \A b \in S : prev[b] = {} \/ prev[b] \cap S # {}

CanEscape(b) == \E S \in SUBSET Block : b \in S /\ Escape(S)

\* The graph analysed does not change, and its links are stored both ways.
GraphInv ==
  /\ \A a, b \in Block : b \in next[a] <=> a \in prev[b]
  /\ Elements(order) = Reachable(next, this)

\* The sets stay below what the next visit makes of them.
DomInv ==
  /\ dom[this] = {this}
  /\ \A b \in Block \ Elements(order) : dom[b] = {}
  /\ \A b \in Elements(order) \ {this} : dom[b] \subseteq NewDoms(b)
  /\ \A b \in Block : this \in dom[b] => ~ CanEscape(b)

\* What a sweep has passed without a change is stable.
SweepInv ==
  /\ ~ changed => \A k \in 1..Len(order) : k < at /\ order[k] # this =>
       NewDoms(order[k]) = dom[order[k]]
  /\ returned => \A b \in Elements(order) \ {this} : NewDoms(b) = dom[b]

Inv == TypeOK /\ GraphInv /\ DomInv /\ SweepInv

-----------------------------------------------------------------------------
(***************************************************************************)
(* The initial state.                                                      *)
(***************************************************************************)
LEMMA AnalysesGraph ==
  ASSUME Init
  PROVE  /\ next \in [Block -> SUBSET Block] /\ prev \in [Block -> SUBSET Block]
         /\ \A a, b \in Block : b \in next[a] <=> a \in prev[b]
<1>1. succ \in [Block -> SUBSET Block] /\ Analyses
  BY DEF Init
<1>2. CASE query # "postDominates"
  BY <1>1, <1>2 DEF Analyses, Mirror
<1>3. CASE query = "postDominates"
  <2>1. PICK C : C = Reachable(succ, other)
    OBVIOUS
  <2>2. next = Within(Mirror(succ), C) /\ prev = Within(succ, C)
    BY <1>1, <1>3, <2>1 DEF Analyses
  <2>3. /\ next = [b \in Block |->
                     IF b \in C THEN {a \in Block : b \in succ[a]} \cap C ELSE {}]
        /\ prev = [b \in Block |-> IF b \in C THEN succ[b] \cap C ELSE {}]
    BY <1>1, <2>2 DEF Within, Mirror
  <2> QED
    BY <1>1, <2>3
<1> QED
  BY <1>2, <1>3

LEMMA OrderLists ==
  ASSUME Init
  PROVE  /\ order \in Seq(Reachable(next, this))
         /\ Elements(order) = Reachable(next, this)
         /\ this \in Elements(order) /\ Len(order) \in Nat
         /\ DOMAIN order = 1..Len(order)
<1>1. PICK n \in 1..Cardinality(Block) :
        \E s \in [1..n -> Block] : order = s /\ IsDiscoveryOrder(next, this, s)
  BY DEF Init
<1>2. n \in Nat /\ order \in [1..n -> Block] /\ IsDiscoveryOrder(next, this, order)
  BY <1>1
<1>3. Elements(order) = Reachable(next, this)
  BY <1>2 DEF IsDiscoveryOrder, Elements
<1>4. \A k \in 1..n : order[k] \in Reachable(next, this)
  BY <1>2, <1>3 DEF Elements
<1>5. order \in Seq(Reachable(next, this))
  BY <1>2, <1>4, IsASeq
<1>6. this \in Elements(order)
  <2>1. this \in Block
    BY DEF Init
  <2> QED
    BY <1>3, <2>1, AnalysesGraph, ReachableContains
<1> QED
  BY <1>3, <1>5, <1>6, LenProperties

LEMMA InitInv == Init => Inv
<1> SUFFICES ASSUME Init PROVE Inv
  OBVIOUS
<1>1. /\ succ \in [Block -> SUBSET Block] /\ query \in Query
      /\ this \in Block /\ other \in Block
      /\ dom = [b \in Block |-> IF b \in Elements(order) THEN {b} ELSE {}]
      /\ at = 1 /\ changed = FALSE /\ returned = FALSE
  BY DEF Init, InitialDoms
<1>2. Len(order) \in Nat
  BY OrderLists
<1>3. TypeOK
  <2>1. \A b \in Block : dom[b] \in SUBSET Elements(order)
    BY <1>1
  <2>2. dom \in [Block -> SUBSET Elements(order)]
    BY <1>1, <2>1
  <2>3. at \in 1..(Len(order) + 1)
    BY <1>1, <1>2
  <2>4. changed \in BOOLEAN /\ returned \in BOOLEAN
    BY <1>1
  <2> QED
    BY <1>1, <2>2, <2>3, <2>4, AnalysesGraph, OrderLists DEF TypeOK
<1>4. GraphInv
  BY AnalysesGraph, OrderLists DEF GraphInv
<1>5. DomInv
  <2>1. dom[this] = {this} /\ \A b \in Block \ Elements(order) : dom[b] = {}
    BY <1>1, OrderLists
  <2>2. \A b \in Block : this \in dom[b] => b = this
    BY <1>1
  <2>3. ~ CanEscape(this)
    BY DEF CanEscape, Escape
  <2>4. Elements(order) \subseteq Block
    BY OrderLists, AnalysesGraph DEF Reachable
  <2>5. \A b \in Elements(order) \ {this} : dom[b] \subseteq NewDoms(b)
    BY <1>1, <2>4 DEF NewDoms
  <2> QED
    BY <2>1, <2>2, <2>3, <2>5 DEF DomInv
<1>6. SweepInv
  BY <1>1, <1>2 DEF SweepInv
<1> QED
  BY <1>3, <1>4, <1>5, <1>6 DEF Inv

-----------------------------------------------------------------------------
(***************************************************************************)
(* Steps.                                                                  *)
(***************************************************************************)
LEMMA ElementsAreBlocks ==
  ASSUME Inv
  PROVE  /\ Elements(order) \subseteq Block
         /\ Len(order) \in Nat /\ DOMAIN order = 1..Len(order)
         /\ \A k \in 1..Len(order) : order[k] \in Elements(order)
<1>1. order \in Seq(Reachable(next, this))
  BY DEF Inv, TypeOK
<1>2. Len(order) \in Nat /\ DOMAIN order = 1..Len(order)
  BY <1>1, LenProperties
<1>3. next \in [Block -> SUBSET Block]
  BY DEF Inv, TypeOK
<1>4. Elements(order) \subseteq Block
  BY <1>3 DEF Inv, GraphInv, Reachable
<1> QED
  BY <1>2, <1>4 DEF Elements

\* A block all of whose predecessors cannot escape cannot either.
LEMMA EscapeNeedsPredecessor ==
  ASSUME NEW b \in Block, prev[b] # {}, prev[b] \subseteq Block,
         \A p \in prev[b] : ~ CanEscape(p)
  PROVE  ~ CanEscape(b)
BY DEF CanEscape, Escape

\* A visit makes no set smaller, and adds this only where it belongs.
LEMMA VisitDoms ==
  ASSUME Inv, NEW b \in Elements(order), b # this
  PROVE  /\ dom[b] \subseteq NewDoms(b)
         /\ NewDoms(b) \subseteq Elements(order)
         /\ this \in NewDoms(b) => ~ CanEscape(b)
<1>1. b \in Block /\ prev[b] \subseteq Block /\ dom \in [Block -> SUBSET Elements(order)]
  BY ElementsAreBlocks DEF Inv, TypeOK
<1>2. dom[b] \subseteq NewDoms(b)
  BY DEF Inv, DomInv
<1>3. NewDoms(b) \subseteq Elements(order)
  BY <1>1 DEF NewDoms
<1>4. ASSUME this \in NewDoms(b) PROVE ~ CanEscape(b)
  <2>1. prev[b] # {} /\ \A p \in prev[b] : this \in dom[p]
    BY <1>4 DEF NewDoms
  <2>2. \A p \in prev[b] : ~ CanEscape(p)
    BY <1>1, <2>1 DEF Inv, DomInv
  <2> QED
    BY <1>1, <2>1, <2>2, EscapeNeedsPredecessor
<1> QED
  BY <1>2, <1>3, <1>4

LEMMA VisitGrows ==
  ASSUME Inv, VisitBlock
  PROVE  /\ order[at] \in Elements(order)
         /\ \/ dom' = dom /\ changed' = changed
               /\ (order[at] = this \/ NewDoms(order[at]) = dom[order[at]])
            \/ /\ order[at] # this /\ changed' = TRUE
               /\ dom' = [dom EXCEPT ![order[at]] = NewDoms(order[at])]
         /\ \A b \in Block : dom[b] \subseteq dom'[b]
<1>1. at \in Nat /\ at >= 1 /\ at <= Len(order) /\ Len(order) \in Nat
  BY ElementsAreBlocks DEF VisitBlock, Inv, TypeOK
<1>2. order[at] \in Elements(order) /\ order[at] \in Block
  BY <1>1, ElementsAreBlocks
<1>3. \/ dom' = dom /\ changed' = changed
         /\ (order[at] = this \/ NewDoms(order[at]) = dom[order[at]])
      \/ /\ order[at] # this /\ changed' = TRUE
         /\ dom' = [dom EXCEPT ![order[at]] = NewDoms(order[at])]
  BY DEF VisitBlock
<1>4. dom \in [Block -> SUBSET Elements(order)]
  BY DEF Inv, TypeOK
<1>5. \A b \in Block : dom[b] \subseteq dom'[b]
  BY <1>2, <1>3, <1>4, VisitDoms
<1> QED
  BY <1>2, <1>3, <1>5

LEMMA VisitStep ==
  ASSUME Inv, VisitBlock
  PROVE  Inv'
<1> DEFINE b0 == order[at]
<1>1. /\ ~ returned /\ at <= Len(order) /\ at' = at + 1 /\ returned' = returned
      /\ UNCHANGED <<succ, query, this, other, next, prev, order>>
  BY DEF VisitBlock, call
<1>2. /\ TypeOK /\ GraphInv /\ DomInv /\ SweepInv
      /\ at \in Nat /\ at >= 1 /\ Len(order) \in Nat
  BY ElementsAreBlocks DEF Inv, TypeOK
<1>3. b0 \in Elements(order) /\ b0 \in Block
  BY VisitGrows, ElementsAreBlocks
<1>4. \/ dom' = dom /\ changed' = changed
         /\ (b0 = this \/ NewDoms(b0) = dom[b0])
      \/ /\ b0 # this /\ changed' = TRUE
         /\ dom' = [dom EXCEPT ![b0] = NewDoms(b0)]
  BY VisitGrows
<1>5. \A b \in Block : dom[b] \subseteq dom'[b]
  BY VisitGrows
<1>6. dom \in [Block -> SUBSET Elements(order)] /\ prev \in [Block -> SUBSET Block]
      /\ this \in Block
  BY <1>2 DEF TypeOK
<1>7. b0 # this => /\ dom[b0] \subseteq NewDoms(b0)
                   /\ NewDoms(b0) \subseteq Elements(order)
                   /\ this \in NewDoms(b0) => ~ CanEscape(b0)
  BY <1>3, VisitDoms
<1> HIDE DEF b0
<1>8. dom' \in [Block -> SUBSET Elements(order)] /\ changed' \in BOOLEAN
  BY <1>2, <1>3, <1>4, <1>6, <1>7 DEF TypeOK
<1>9. Elements(order)' = Elements(order)
  BY <1>1 DEF Elements
<1>10. TypeOK'
  <2>1. at' \in 1..(Len(order) + 1)
    BY <1>1, <1>2
  <2> QED
    BY <1>1, <1>2, <1>8, <1>9, <2>1 DEF TypeOK
<1>11. GraphInv'
  BY <1>1, <1>2, <1>9 DEF GraphInv
<1>12. \A b \in Block : CanEscape(b)' = CanEscape(b)
  BY <1>1 DEF CanEscape, Escape
<1>13. \A b \in Elements(order) : NewDoms(b) \subseteq NewDoms(b)'
  <2> SUFFICES ASSUME NEW b \in Elements(order), NEW d \in NewDoms(b)
               PROVE  d \in NewDoms(b)'
    OBVIOUS
  <2>1. b \in Block /\ prev[b] \subseteq Block
    BY <1>6, ElementsAreBlocks
  <2> QED
    BY <1>1, <1>5, <2>1 DEF NewDoms
<1>14. DomInv'
  <2>1. dom'[this] = {this}
    BY <1>2, <1>4, <1>6 DEF DomInv
  <2>2. \A b \in Block \ Elements(order) : dom'[b] = {}
    BY <1>2, <1>3, <1>4, <1>6 DEF DomInv
  <2>3. ASSUME NEW b \in Elements(order) \ {this}
        PROVE  dom'[b] \subseteq NewDoms(b)'
    <3>1. b \in Block /\ dom[b] \subseteq NewDoms(b)
      BY <1>2, ElementsAreBlocks DEF DomInv
    <3>2. dom'[b] \subseteq NewDoms(b)
      BY <1>3, <1>4, <1>6, <3>1
    <3> QED
      BY <1>13, <3>2
  <2>4. ASSUME NEW b \in Block, this \in dom'[b]
        PROVE  ~ CanEscape(b)
    <3>1. this \in dom[b] \/ (b = b0 /\ b0 # this /\ this \in NewDoms(b0))
      BY <1>3, <1>4, <1>6, <2>4
    <3> QED
      BY <1>2, <1>7, <3>1 DEF DomInv
  <2> QED
    BY <1>1, <1>9, <1>12, <2>1, <2>2, <2>3, <2>4 DEF DomInv
<1>15. SweepInv'
  <2>1. ASSUME ~ changed', NEW k \in 1..Len(order), k < at + 1, order[k] # this
        PROVE  NewDoms(order[k])' = dom'[order[k]]
    <3>1. dom' = dom /\ changed' = changed
          /\ (b0 = this \/ NewDoms(b0) = dom[b0])
      BY <1>4, <2>1
    <3>2. NewDoms(order[k])' = NewDoms(order[k])
      BY <1>1, <3>1 DEF NewDoms
    <3>3. CASE k < at
      BY <1>2, <2>1, <3>1, <3>2, <3>3 DEF SweepInv
    <3>4. CASE k = at
      BY <1>1, <2>1, <3>1, <3>2, <3>4 DEF b0
    <3> QED
      BY <1>2, <2>1, <3>3, <3>4
  <2> QED
    BY <1>1, <2>1 DEF SweepInv
<1> QED
  BY <1>10, <1>11, <1>14, <1>15 DEF Inv

LEMMA EndStep ==
  ASSUME Inv, EndSweep
  PROVE  Inv'
<1>1. /\ ~ returned /\ at > Len(order) /\ dom' = dom
      /\ UNCHANGED <<succ, query, this, other, next, prev, order>>
      /\ \/ changed /\ at' = 1 /\ changed' = FALSE /\ returned' = returned
         \/ ~ changed /\ returned' = TRUE /\ at' = at /\ changed' = changed
  BY DEF EndSweep, call
<1>2. /\ TypeOK /\ GraphInv /\ DomInv /\ SweepInv
      /\ at \in Nat /\ Len(order) \in Nat
  BY ElementsAreBlocks DEF Inv, TypeOK
<1>3. TypeOK'
  <2>1. Elements(order)' = Elements(order)
    BY <1>1 DEF Elements
  <2>2. at \in 1..(Len(order) + 1) /\ changed \in BOOLEAN /\ returned \in BOOLEAN
    BY <1>2 DEF TypeOK
  <2>3. at' = 1 \/ at' = at
    BY <1>1
  <2>4. at' \in 1..(Len(order) + 1)
    BY <1>2, <2>2, <2>3
  <2>5. changed' \in BOOLEAN /\ returned' \in BOOLEAN
    BY <1>1, <2>2
  <2> QED
    BY <1>1, <1>2, <2>1, <2>4, <2>5 DEF TypeOK
<1>4. GraphInv'
  BY <1>1, <1>2 DEF GraphInv, Elements
<1>5. DomInv'
  BY <1>1, <1>2 DEF DomInv, Elements, NewDoms, CanEscape, Escape
<1>6. \A b \in Block : NewDoms(b)' = NewDoms(b)
  BY <1>1 DEF NewDoms
<1>7. CASE changed
  <2>1. at' = 1 /\ changed' = FALSE /\ returned' = FALSE /\ order' = order
    BY <1>1, <1>2, <1>7 DEF TypeOK
  <2>2. \A k \in 1..Len(order') : ~ (k < at')
    BY <1>2, <2>1
  <2>3. SweepInv'
    BY <2>1, <2>2 DEF SweepInv
  <2> QED
    BY <1>3, <1>4, <1>5, <2>3 DEF Inv
<1>8. CASE ~ changed
  <2>1. \A b \in Elements(order) \ {this} : NewDoms(b) = dom[b]
    BY <1>1, <1>2, <1>8, ElementsAreBlocks DEF SweepInv, Elements
  <2>2. Elements(order)' = Elements(order) /\ Elements(order) \subseteq Block
    BY <1>1, ElementsAreBlocks DEF Elements
  <2>3. \A k \in 1..Len(order) : order[k] # this => NewDoms(order[k]) = dom[order[k]]
    BY <2>1, ElementsAreBlocks
  <2>4. \A k \in 1..Len(order) : order[k] \in Block
    BY ElementsAreBlocks
  <2>5. \A k \in 1..Len(order) : order[k] # this =>
          NewDoms(order[k])' = dom'[order[k]]
    BY <1>1, <1>6, <2>3, <2>4
  <2>6. \A b \in Elements(order) \ {this} : NewDoms(b)' = dom'[b]
    BY <1>1, <1>6, <2>1, <2>2
  <2>7. order' = order /\ this' = this
    BY <1>1
  <2>8. SweepInv'
    BY <2>2, <2>5, <2>6, <2>7 DEF SweepInv
  <2> QED
    BY <1>3, <1>4, <1>5, <2>8 DEF Inv
<1> QED
  BY <1>3, <1>4, <1>5, <1>7, <1>8 DEF Inv

LEMMA Step == Inv /\ [Next]_vars => Inv'
<1> SUFFICES ASSUME Inv, [Next]_vars PROVE Inv'
  OBVIOUS
<1>1. CASE UNCHANGED vars
  <2>1. UNCHANGED <<succ, query, this, other, next, prev, order, dom, at,
                    changed, returned>>
    BY <1>1 DEF vars, call
  <2>2. TypeOK' /\ GraphInv'
    BY <2>1 DEF Inv, TypeOK, GraphInv, Elements
  <2>3. DomInv'
    BY <2>1 DEF Inv, DomInv, Elements, NewDoms, CanEscape, Escape
  <2>4. SweepInv'
    BY <2>1 DEF Inv, SweepInv, Elements, NewDoms
  <2> QED
    BY <2>2, <2>3, <2>4 DEF Inv
<1> QED
  BY <1>1, VisitStep, EndStep DEF Next

LEMMA AlwaysInv == Spec => []Inv
BY InitInv, Step, PTL DEF Spec

(***************************************************************************)
(* The sets hold reachable blocks only, and the sweep stays in its list.   *)
(***************************************************************************)
THEOREM TypeCorrect == Spec => []TypeOK
<1>1. Inv => TypeOK
  BY DEF Inv
<1> QED
  BY <1>1, AlwaysInv, PTL

(***************************************************************************)
(* No visit takes a dominator away.                                        *)
(***************************************************************************)
THEOREM SweepsGrow == Spec => SweepsOnlyAdd
<1>1. Inv /\ [Next]_vars => [\A b \in Block : dom[b] \subseteq dom'[b]]_dom
  BY VisitGrows DEF Next, EndSweep, vars
<1> QED
  BY <1>1, AlwaysInv, PTL DEF Spec, SweepsOnlyAdd

-----------------------------------------------------------------------------
(***************************************************************************)
(* Soundness: what a block without predecessors reaches past this is a set *)
(* of escaping blocks.                                                     *)
(***************************************************************************)
LEMMA PastThisEscapes ==
  ASSUME Inv, NEW r \in Block \ {this}, prev[r] = {}
  PROVE  Escape(Reachable(Avoiding(next, this), r))
<1>1. next \in [Block -> SUBSET Block] /\ this \in Block /\ r \in Block /\ r # this
  BY DEF Inv, TypeOK
<1>2. PICK past : past = Avoiding(next, this)
  OBVIOUS
<1>3. past \in [Block -> SUBSET Block] /\ \A b \in Block : past[b] = next[b] \ {this}
  BY <1>1, <1>2 DEF Avoiding
<1>4. PICK S : S = Reachable(past, r)
  OBVIOUS
<1>5. S \in SUBSET Block /\ r \in S /\ Closed(past, S)
  <2>1. r \in S /\ Closed(past, S)
    BY <1>1, <1>3, <1>4, ReachableContains, ReachableIsClosed
  <2>2. S \in SUBSET Block
    BY <1>3, <1>4 DEF Reachable
  <2> QED
    BY <2>1, <2>2
<1>6. this \notin S
  <2>1. Block \ {this} \in SUBSET Block /\ Closed(past, Block \ {this})
    BY <1>3 DEF Closed
  <2>2. S \subseteq Block \ {this}
    BY <1>1, <1>3, <1>4, <2>1, ReachableIsLeast
  <2> QED
    BY <2>2
<1>7. ASSUME NEW b \in S, b # r PROVE prev[b] \cap S # {}
  <2> SUFFICES ASSUME prev[b] \cap S = {} PROVE FALSE
    OBVIOUS
  <2>1. \A a \in S : b \notin next[a]
    BY <1>5 DEF Inv, GraphInv
  <2>2. Closed(past, S \ {b})
    BY <1>3, <1>5, <2>1 DEF Closed
  <2>3. S \subseteq S \ {b}
    BY <1>1, <1>3, <1>4, <1>5, <1>7, <2>2, ReachableIsLeast
  <2> QED
    BY <2>3
<1>8. Escape(S)
  BY <1>6, <1>7 DEF Escape
<1> QED
  BY <1>2, <1>4, <1>8

LEMMA InvSound == Inv => DominanceIsSound
<1> SUFFICES ASSUME Inv,
                    NEW b \in Block, this \in dom[b],
                    NEW r \in Block \ {this}, prev[r] = {},
                    CanReach(Avoiding(next, this), r, b)
             PROVE  FALSE
  BY DEF DominanceIsSound
<1>1. next \in [Block -> SUBSET Block]
  BY DEF Inv, TypeOK
<1>2. DOMAIN Avoiding(next, this) = Block
  BY <1>1 DEF Avoiding
<1>3. Reachable(Avoiding(next, this), r) \in SUBSET Block
  BY <1>2 DEF Reachable
<1>4. CanEscape(b)
  BY <1>3, PastThisEscapes DEF CanEscape, CanReach
<1> QED
  BY <1>4 DEF Inv, DomInv

(***************************************************************************)
(* dominates and postDominates never say yes of a block that an entry (an  *)
(* exit) reaches past this.                                                *)
(***************************************************************************)
THEOREM DominanceSound == Spec => []DominanceIsSound
BY InvSound, AlwaysInv, PTL

-----------------------------------------------------------------------------
(***************************************************************************)
(* At the end the blocks without this among their dominators are a set of  *)
(* escaping blocks.                                                        *)
(***************************************************************************)
LEMMA UndominatedEscape ==
  ASSUME Inv, returned
  PROVE  Escape({b \in Block : this \notin dom[b]})
<1>1. dom[this] = {this} /\ this \in Block
  BY DEF Inv, DomInv, TypeOK
<1>2. ASSUME NEW b \in Block, this \notin dom[b], prev[b] # {}
      PROVE  \E p \in prev[b] : p \in Block /\ this \notin dom[p]
  <2>1. prev[b] \subseteq Block /\ b # this
    BY <1>1, <1>2 DEF Inv, TypeOK
  <2>2. CASE b \in Elements(order)
    <3>1. this \notin NewDoms(b)
      BY <1>2, <2>1, <2>2 DEF Inv, SweepInv
    <3> QED
      BY <1>1, <1>2, <2>1, <3>1 DEF NewDoms
  <2>3. CASE b \notin Elements(order)
    <3>1. PICK p \in prev[b] : p \in Block
      BY <1>2, <2>1
    <3>2. b \in next[p] /\ next \in [Block -> SUBSET Block]
      BY <3>1 DEF Inv, GraphInv, TypeOK
    <3>3. Closed(next, Elements(order))
      BY <1>1, <3>2, ReachableIsClosed DEF Inv, GraphInv
    <3>4. p \notin Elements(order)
      BY <2>3, <3>2, <3>3 DEF Closed
    <3>5. dom[p] = {}
      BY <3>1, <3>4 DEF Inv, DomInv
    <3> QED
      BY <3>1, <3>5
  <2> QED
    BY <2>2, <2>3
<1> QED
  BY <1>1, <1>2 DEF Escape

(***************************************************************************)
(* Completeness where no block is on a loop.  A set of blocks each of      *)
(* which has a predecessor in it would go back for ever, and blocks that   *)
(* this does not reach are reached by the entry past this.                 *)
(***************************************************************************)
LEMMA NoWayBackForEver ==
  ASSUME NEW B, NEW adj \in [B -> SUBSET B],
         NEW R \in SUBSET B, IsFiniteSet(R), Closed(adj, R),
         \A b \in B : \A s \in adj[b] : ~ CanReach(adj, s, b),
         NEW T \in SUBSET R, \A b \in T : \E p \in T : b \in adj[p]
  PROVE  T = {}
<1> SUFFICES ASSUME T # {} PROVE FALSE
  OBVIOUS
<1> DEFINE Rest(x) == R \ Reachable(adj, x)
           F == {Rest(x) : x \in T}
<1>1. IsWellFoundedOn(StrictSubsetOrdering(R), FiniteSubsetsOf(R))
  BY FS_StrictSubsetOrderingWellFounded
<1>2. F \subseteq FiniteSubsetsOf(R) /\ F # {}
  <2>1. ASSUME NEW x \in T PROVE Rest(x) \in FiniteSubsetsOf(R)
    BY FS_FiniteSubsetsOfFinite
  <2> QED
    BY <2>1
<1>3. PICK X \in F : \A Y \in F : ~ (<<Y, X>> \in StrictSubsetOrdering(R))
  <2> HIDE DEF F
  <2> QED
    BY <1>1, <1>2, WFMin
<1>4. PICK x \in T : X = Rest(x)
  BY <1>3
<1>5. PICK p \in T : x \in adj[p]
  BY <1>4
<1>6. /\ Reachable(adj, x) \subseteq Reachable(adj, p)
      /\ p \in Reachable(adj, p) /\ p \notin Reachable(adj, x)
  <2>1. x \in B /\ p \in B
    OBVIOUS
  <2>2. /\ p \in Reachable(adj, p) /\ Closed(adj, Reachable(adj, p))
        /\ Reachable(adj, p) \in SUBSET B
    BY <2>1, ReachableAmong, ReachableContains, ReachableIsClosed
  <2>3. x \in Reachable(adj, p)
    BY <1>5, <2>2 DEF Closed
  <2>4. Reachable(adj, x) \subseteq Reachable(adj, p)
    BY <2>1, <2>2, <2>3, ReachableIsLeast
  <2> QED
    BY <1>5, <2>1, <2>2, <2>4 DEF CanReach
<1>7. <<Rest(p), X>> \in StrictSubsetOrdering(R)
  <2>1. Rest(p) \subseteq X /\ p \in X /\ p \notin Rest(p)
    BY <1>4, <1>5, <1>6
  <2>2. X \in SUBSET R /\ Rest(p) \in SUBSET R
    BY <1>4
  <2> QED
    BY <2>1, <2>2 DEF StrictSubsetOrdering
<1> QED
  BY <1>3, <1>5, <1>7

LEMMA InvComplete == Inv => DominatesIsComplete
<1> SUFFICES ASSUME Inv, returned,
                    \A b \in Block : \A s \in next[b] : ~ CanReach(next, s, b),
                    NEW r \in Block, prev[r] = {}, Reachable(next, r) = Block,
                    r = this \/ ~ CanReach(Avoiding(next, this), r, other),
                    this \notin dom[other]
             PROVE  FALSE
  BY DEF DominatesIsComplete, Dominated, IsEntry, IsOnEveryPath
<1>1. /\ next \in [Block -> SUBSET Block] /\ prev \in [Block -> SUBSET Block]
      /\ this \in Block /\ other \in Block
      /\ \A a, b \in Block : b \in next[a] <=> a \in prev[b]
  BY DEF Inv, TypeOK, GraphInv
<1> DEFINE R == Reachable(next, this)
           past == Avoiding(next, this)
           G == IF r = this THEN {} ELSE Reachable(past, r)
<1>2. R \in SUBSET Block /\ this \in R /\ Closed(next, R)
  BY <1>1, ReachableAmong, ReachableContains, ReachableIsClosed
<1>3. IsFiniteSet(R)
  <2>1. R = Elements(order) /\ order \in Seq(R)
    BY DEF Inv, TypeOK, GraphInv
  <2>2. Len(order) \in Nat /\ DOMAIN order = 1..Len(order)
    BY <2>1
  <2>3. IsFiniteSet(1..Len(order))
    BY <2>2, FS_Interval
  <2>4. \A x \in R : \E k \in 1..Len(order) : x = order[k]
    BY <2>1, <2>2 DEF Elements
  <2>5. order \in Surjection(1..Len(order), R)
    <3>1. order \in [1..Len(order) -> R]
      BY <2>1, <2>2
    <3> QED
      BY <2>4, <3>1 DEF Surjection
  <2> QED
    BY <2>3, <2>5, FS_Surjection
<1>4. past \in [Block -> SUBSET Block] /\ \A b \in Block : past[b] = next[b] \ {this}
  BY <1>1 DEF Avoiding
<1>5. /\ G \in SUBSET Block /\ other \notin G
      /\ r # this => r \in G
      /\ \A b \in G : next[b] \subseteq G \cup {this}
  <2>1. CASE r = this
    BY <2>1
  <2>2. CASE r # this
    <3>1. r \in G /\ Closed(past, G) /\ G \in SUBSET Block
      BY <1>4, <2>2, ReachableAmong, ReachableContains, ReachableIsClosed
    <3>2. other \notin G
      BY <2>2 DEF CanReach
    <3> HIDE DEF G, past
    <3> QED
      BY <1>4, <2>2, <3>1, <3>2 DEF Closed
  <2> QED
    BY <2>1, <2>2
<1>6. Block \subseteq G \cup R
  <2>1. ASSUME NEW b \in G \cup R PROVE next[b] \subseteq G \cup R
    <3> HIDE DEF G, R
    <3> QED
      BY <1>2, <1>5, <2>1 DEF Closed
  <2>2. r \in G \cup R /\ G \cup R \in SUBSET Block /\ Closed(next, G \cup R)
    <3> HIDE DEF G, R
    <3> QED
      BY <1>2, <1>5, <2>1 DEF Closed
  <2> HIDE DEF G, R
  <2> QED
    BY <1>1, <2>2, ReachableIsLeast
<1>7. PICK S \in SUBSET Block : other \in S /\ Escape(S)
  BY <1>1, UndominatedEscape DEF Escape
<1> DEFINE T == S \ G
<1>8. \A b \in T : b # r
  BY <1>5, <1>7 DEF Escape
<1>9. ASSUME NEW b \in T PROVE \E p \in T : b \in next[p]
  <2>1. b \in Block /\ b # r /\ b \in S /\ b \notin G /\ b # this
    BY <1>7, <1>8 DEF Escape
  <2>2. prev[b] # {}
    <3>1. ASSUME prev[b] = {} PROVE FALSE
      <4>1. \A a \in Block \ {b} : next[a] \subseteq Block \ {b}
        BY <1>1, <2>1, <3>1
      <4>2. Closed(next, Block \ {b}) /\ Block \ {b} \in SUBSET Block /\ r \in Block \ {b}
        BY <2>1, <4>1 DEF Closed
      <4>3. Reachable(next, r) \subseteq Block \ {b}
        BY <1>1, <4>2, ReachableIsLeast
      <4> QED
        BY <2>1, <4>3
    <3> QED
      BY <3>1
  <2>3. PICK p \in prev[b] : p \in S
    BY <1>7, <2>1, <2>2 DEF Escape
  <2>4. p \in Block /\ b \in next[p]
    BY <1>1, <2>1, <2>3
  <2>5. p \notin G
    BY <1>5, <2>1, <2>4
  <2> QED
    BY <2>3, <2>4, <2>5
<1>10. T \subseteq R
  BY <1>6, <1>7
<1>11. T = {}
  <2> HIDE DEF T, R
  <2> QED
    BY <1>1, <1>2, <1>3, <1>9, <1>10, NoWayBackForEver
<1> QED
  BY <1>5, <1>7, <1>11

(***************************************************************************)
(* On graphs without loops dominates finds every block that the entry does *)
(* not get to past this.                                                   *)
(***************************************************************************)
THEOREM DominanceComplete == Spec => []DominatesIsComplete
BY InvComplete, AlwaysInv, PTL

(***************************************************************************)
(* The frontier: a dominated block that could not be reached inside it     *)
(* would have only such predecessors, and escape.                          *)
(***************************************************************************)
LEMMA InvFrontier == Inv => FrontierBoundsDominance
<1> SUFFICES ASSUME Inv, returned
             PROVE  {b \in Block : this \in dom[b]}
                      = Reachable([b \in Block |-> next[b] \ Frontier], this)
  BY DEF FrontierBoundsDominance
<1>1. PICK D : D = {b \in Block : this \in dom[b]}
  OBVIOUS
<1>2. PICK inner : inner = [b \in Block |-> next[b] \ Frontier]
  OBVIOUS
<1>3. PICK R : R = Reachable(inner, this)
  OBVIOUS
<1>4. next \in [Block -> SUBSET Block] /\ prev \in [Block -> SUBSET Block]
      /\ this \in Block
  BY DEF Inv, TypeOK
<1>5. inner \in [Block -> SUBSET Block]
  BY <1>2, <1>4
<1>6. this \in R /\ Closed(inner, R) /\ R \in SUBSET Block
  <2>1. this \in R /\ Closed(inner, R)
    BY <1>3, <1>4, <1>5, ReachableContains, ReachableIsClosed
  <2>2. R \in SUBSET Block
    BY <1>3, <1>5 DEF Reachable
  <2> QED
    BY <2>1, <2>2
<1>7. \A s \in Block : s \in Frontier <=> \E b \in D : s \in next[b] /\ s \notin D
  BY <1>1, <1>4 DEF Frontier
<1>8. R \subseteq D
  <2>1. this \in D
    BY <1>1, <1>4 DEF Inv, DomInv
  <2>2. Closed(inner, D)
    BY <1>1, <1>2, <1>4, <1>7 DEF Closed
  <2>3. D \in SUBSET Block
    BY <1>1
  <2> QED
    BY <1>3, <1>4, <1>5, <2>1, <2>2, <2>3, ReachableIsLeast
<1>9. Escape(D \ R)
  <2>1. ASSUME NEW b \in D \ R
        PROVE  prev[b] = {} \/ prev[b] \cap (D \ R) # {}
    <3>1. b \in Block /\ b # this /\ this \in dom[b] /\ prev[b] \subseteq Block
      BY <1>1, <1>4, <1>6, <2>1
    <3>2. b \in Elements(order)
      BY <3>1 DEF Inv, DomInv
    <3>3. this \in NewDoms(b)
      BY <3>1, <3>2 DEF Inv, SweepInv
    <3>4. prev[b] \subseteq D
      BY <1>1, <3>1, <3>3 DEF NewDoms
    <3>5. b \notin Frontier
      BY <1>7, <2>1, <3>1
    <3>6. ASSUME NEW p \in prev[b] PROVE p \notin R
      <4>1. p \in Block /\ b \in next[p]
        BY <3>1 DEF Inv, GraphInv
      <4>2. b \in inner[p]
        BY <1>2, <3>5, <4>1
      <4> QED
        BY <1>6, <2>1, <4>2 DEF Closed
    <3> QED
      BY <3>4, <3>6
  <2> QED
    BY <1>6, <2>1 DEF Escape
<1>10. D \subseteq R
  <2>1. \A b \in D \ R : CanEscape(b)
    BY <1>1, <1>9 DEF CanEscape
  <2>2. \A b \in D : ~ CanEscape(b)
    BY <1>1 DEF Inv, DomInv
  <2> QED
    BY <2>1, <2>2
<1> QED
  BY <1>1, <1>2, <1>3, <1>8, <1>10

(***************************************************************************)
(* The blocks dominated are those reached without entering the frontier.   *)
(***************************************************************************)
THEOREM FrontierCorrect == Spec => []FrontierBoundsDominance
BY InvFrontier, AlwaysInv, PTL
=============================================================================
