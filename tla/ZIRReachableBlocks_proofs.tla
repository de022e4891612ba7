---------------------- MODULE ZIRReachableBlocks_proofs ----------------------
(***************************************************************************)
(* The breadth-first traversal returns a discovery order of what the block *)
(* reaches, for any number of blocks and any graph.                        *)
(*                                                                         *)
(* The invariant speaks of one sequence, the result followed by the queue: *)
(* taking a block from the queue leaves it as it is, pushing one appends   *)
(* to it.                                                                  *)
(***************************************************************************)
EXTENDS ZIRReachableBlocks, SequenceTheorems, TLAPS

(***************************************************************************)
(* Facts about reachability.  None needs induction: Reachable is a least   *)
(* closed set, so a claim about it is shown by giving one closed set.      *)
(***************************************************************************)
LEMMA ReachableContains ==
  ASSUME NEW B, NEW links \in [B -> SUBSET B], NEW a \in B
  PROVE  a \in Reachable(links, a)
BY DEF Reachable

LEMMA ReachableIsClosed ==
  ASSUME NEW B, NEW links \in [B -> SUBSET B], NEW a \in B
  PROVE  Closed(links, Reachable(links, a))
BY DEF Reachable, Closed

LEMMA ReachableIsLeast ==
  ASSUME NEW B, NEW links \in [B -> SUBSET B], NEW a \in B,
         NEW S \in SUBSET B, a \in S, Closed(links, S)
  PROVE  Reachable(links, a) \subseteq S
BY DEF Reachable

-----------------------------------------------------------------------------

History == reachable \o queue

\* h lists the blocks of V once each, a first, each other one discovered.
Discovers(h, V) ==
  /\ h \in Seq(Block) /\ h # << >> /\ h[1] = start
  /\ \A k \in DOMAIN h : h[k] \in V
  /\ \A b \in V : \E k \in DOMAIN h : h[k] = b
  /\ \A j, k \in DOMAIN h : h[j] = h[k] => j = k
  /\ \A k \in DOMAIN h \ {1} : \E j \in 1..(k - 1) : h[k] \in succ[h[j]]

\* The successors of a listed block have been visited or are being looked at.
LookedAt ==
  /\ \A k \in DOMAIN reachable : succ[reachable[k]] \subseteq visited \cup todo
  /\ todo # {} =>
       /\ reachable # << >>
       /\ todo \subseteq succ[reachable[Len(reachable)]]

Inv ==
  /\ TypeOK
  /\ Discovers(History, visited)
  /\ visited \subseteq Reachable(succ, start)
  /\ LookedAt

(***************************************************************************)
(* Both sequences hold blocks.                                             *)
(***************************************************************************)
LEMMA SeqsOfBlocks ==
  ASSUME TypeOK
  PROVE  /\ reachable \in Seq(Block) /\ queue \in Seq(Block)
         /\ Len(reachable) \in Nat /\ DOMAIN reachable = 1..Len(reachable)
         /\ Len(queue) \in Nat /\ DOMAIN queue = 1..Len(queue)
<1>1. visited \subseteq Block /\ reachable \in Seq(visited) /\ queue \in Seq(visited)
  BY DEF TypeOK
<1>2. reachable \in Seq(Block) /\ queue \in Seq(Block)
  BY <1>1, SeqMonotonic
<1> QED
  BY <1>2, LenProperties

LEMMA InitInv == Init => Inv
<1> SUFFICES ASSUME Init PROVE Inv
  OBVIOUS
<1>1. TypeOK
  BY DEF Init, TypeOK
<1>2. History = <<start>>
  <2>1. <<start>> \in Seq(Block)
    BY DEF Init
  <2> QED
    BY <2>1, ConcatEmptySeq DEF Init, History
<1>3. Discovers(History, visited)
  <2>1. <<start>> \in Seq(Block) /\ DOMAIN <<start>> = {1} /\ visited = {start}
    BY DEF Init
  <2> QED
    BY <1>2, <2>1 DEF Discovers
<1>4. visited \subseteq Reachable(succ, start)
  BY ReachableContains DEF Init
<1>5. LookedAt
  BY DEF Init, LookedAt
<1> QED
  BY <1>1, <1>3, <1>4, <1>5 DEF Inv

LEMMA TakeStep ==
  ASSUME Inv, Take
  PROVE  Inv'
<1>1. /\ todo = {} /\ queue # << >>
      /\ reachable' = Append(reachable, Head(queue))
      /\ queue' = Tail(queue)
      /\ todo' = succ[Head(queue)]
      /\ succ' = succ /\ start' = start /\ visited' = visited
  BY DEF Take
<1>2. TypeOK /\ LookedAt /\ Discovers(History, visited)
  BY DEF Inv
<1>3. /\ visited \subseteq Block /\ reachable \in Seq(visited)
      /\ queue \in Seq(visited) /\ succ \in [Block -> SUBSET Block]
  BY <1>2 DEF TypeOK
<1>4. PICK e : e = Head(queue)
  OBVIOUS
<1>5. e \in visited /\ Tail(queue) \in Seq(visited)
  BY <1>1, <1>3, <1>4, HeadTailProperties
<1>6. /\ Append(reachable, e) \in Seq(visited) /\ Append(reachable, e) # << >>
      /\ Len(Append(reachable, e)) = Len(reachable) + 1
      /\ \A k \in 1..Len(reachable) : Append(reachable, e)[k] = reachable[k]
      /\ Append(reachable, e)[Len(reachable) + 1] = e
  BY <1>3, <1>5, AppendProperties
<1>7. TypeOK'
  BY <1>1, <1>2, <1>3, <1>4, <1>5, <1>6 DEF TypeOK
<1>8. History' = History
  <2>1. queue = <<e>> \o Tail(queue)
    <3>1. <<e>> \in Seq(visited) /\ Len(<<e>>) = 1 /\ <<e>>[1] = e
      BY <1>5
    <3>2. /\ <<e>> \o Tail(queue) \in Seq(visited)
          /\ Len(<<e>> \o Tail(queue)) = 1 + Len(Tail(queue))
          /\ \A k \in 1..(1 + Len(Tail(queue))) :
               (<<e>> \o Tail(queue))[k]
                 = IF k <= 1 THEN <<e>>[k] ELSE Tail(queue)[k - 1]
      BY <1>5, <3>1, ConcatProperties
    <3>3. /\ Len(queue) \in Nat /\ Len(Tail(queue)) = Len(queue) - 1
          /\ \A k \in 1..Len(Tail(queue)) : Tail(queue)[k] = queue[k + 1]
      BY <1>1, <1>3, HeadTailProperties, LenProperties
    <3>4. queue[1] = e
      BY <1>1, <1>3, <1>4
    <3>5. ASSUME NEW k \in 1..Len(queue)
          PROVE  (<<e>> \o Tail(queue))[k] = queue[k]
      <4>1. CASE k = 1
        BY <3>1, <3>2, <3>3, <3>4, <4>1
      <4>2. CASE k > 1
        <5>1. k - 1 \in 1..Len(Tail(queue)) /\ (k - 1) + 1 = k
          BY <3>3, <4>2
        <5>2. Tail(queue)[k - 1] = queue[k]
          BY <3>3, <5>1
        <5> QED
          BY <3>2, <3>3, <4>2, <5>2
      <4> QED
        BY <4>1, <4>2
    <3> QED
      BY <1>3, <3>2, <3>3, <3>5, SeqEqual
  <2>2. Append(reachable, e) = reachable \o <<e>>
    BY <1>3, <1>5, AppendIsConcat
  <2>3. (reachable \o <<e>>) \o Tail(queue) = reachable \o (<<e>> \o Tail(queue))
    BY <1>3, <1>5, <<e>> \in Seq(visited), ConcatAssociative
  <2> QED
    BY <1>1, <1>4, <2>1, <2>2, <2>3 DEF History
<1>9. Discovers(History, visited)'
  BY <1>1, <1>2, <1>8 DEF Discovers
<1>10. LookedAt'
  <2>1. Len(reachable) \in Nat /\ DOMAIN reachable = 1..Len(reachable)
    BY <1>2, SeqsOfBlocks
  <2>2. DOMAIN reachable' = 1..(Len(reachable) + 1)
    BY <1>1, <1>4, <1>6, LenProperties
  <2>3. ASSUME NEW k \in 1..Len(reachable)
        PROVE  succ[reachable'[k]] \subseteq visited \cup succ[e]
    BY <1>1, <1>2, <1>4, <1>6, <2>1 DEF LookedAt
  <2>4. reachable'[Len(reachable) + 1] = e /\ Len(reachable') = Len(reachable) + 1
    BY <1>1, <1>4, <1>6
  <2> QED
    BY <1>1, <1>4, <1>6, <2>1, <2>2, <2>3, <2>4 DEF LookedAt
<1> QED
  BY <1>1, <1>7, <1>9, <1>10 DEF Inv

LEMMA PushStep ==
  ASSUME Inv, NEW s \in Block, Push(s)
  PROVE  Inv'
<1>1. /\ s \in todo /\ s \notin visited
      /\ visited' = visited \cup {s}
      /\ queue' = Append(queue, s)
      /\ todo' = todo \ {s}
      /\ succ' = succ /\ start' = start /\ reachable' = reachable
  BY DEF Push
<1>2. TypeOK /\ LookedAt /\ Discovers(History, visited)
  BY DEF Inv
<1>3. /\ visited \subseteq Block /\ reachable \in Seq(visited)
      /\ queue \in Seq(visited) /\ succ \in [Block -> SUBSET Block]
      /\ start \in Block
  BY <1>2 DEF TypeOK
<1>4. reachable \in Seq(visited') /\ queue \in Seq(visited') /\ s \in visited'
  BY <1>1, <1>3, SeqMonotonic
<1>5. TypeOK'
  BY <1>1, <1>2, <1>3, <1>4, AppendProperties DEF TypeOK
<1>6. History' = Append(History, s)
  <2>1. <<s>> \in Seq(visited') /\ reachable \o queue \in Seq(visited')
    BY <1>4, ConcatProperties
  <2>2. Append(queue, s) = queue \o <<s>>
    BY <1>4, AppendIsConcat
  <2>3. Append(reachable \o queue, s) = (reachable \o queue) \o <<s>>
    BY <1>4, <2>1, AppendIsConcat
  <2>4. (reachable \o queue) \o <<s>> = reachable \o (queue \o <<s>>)
    BY <1>4, <2>1, ConcatAssociative
  <2> QED
    BY <1>1, <2>2, <2>3, <2>4 DEF History
<1>7. PICK l : l = Len(reachable)
  OBVIOUS
<1>8. /\ l \in 1..Len(History) /\ History[l] = reachable[l]
      /\ s \in succ[reachable[l]] /\ reachable[l] \in visited
  <2>1. Len(reachable) \in Nat /\ reachable # << >> /\ s \in succ[reachable[l]]
    BY <1>1, <1>2, <1>7, SeqsOfBlocks DEF LookedAt
  <2>2. l \in 1..Len(reachable)
    BY <1>3, <1>7, <2>1, EmptySeq
  <2>3. /\ Len(History) = Len(reachable) + Len(queue)
        /\ \A k \in 1..(Len(reachable) + Len(queue)) :
             History[k] = IF k <= Len(reachable) THEN reachable[k]
                          ELSE queue[k - Len(reachable)]
    BY <1>3, ConcatProperties DEF History
  <2>4. Len(queue) \in Nat /\ DOMAIN reachable = 1..Len(reachable)
    BY <1>2, SeqsOfBlocks
  <2>5. reachable[l] \in visited
    BY <1>3, <2>2, <2>4, ElementOfSeq
  <2> QED
    BY <2>1, <2>2, <2>3, <2>4, <2>5
<1>9. PICK h : h = History
  OBVIOUS
<1>10. /\ h \in Seq(Block) /\ h # << >> /\ h[1] = start
       /\ \A k \in DOMAIN h : h[k] \in visited
       /\ \A b \in visited : \E k \in DOMAIN h : h[k] = b
       /\ \A j, k \in DOMAIN h : h[j] = h[k] => j = k
       /\ \A k \in DOMAIN h \ {1} : \E j \in 1..(k - 1) : h[k] \in succ[h[j]]
  BY <1>2, <1>9 DEF Discovers
<1>11. PICK n : n = Len(h)
  OBVIOUS
<1>12. n \in Nat /\ DOMAIN h = 1..n /\ n # 0
  BY <1>10, <1>11, LenProperties, EmptySeq
<1>13. PICK g : g = Append(h, s)
  OBVIOUS
<1>14. /\ g \in Seq(Block) /\ g # << >> /\ DOMAIN g = 1..(n + 1)
       /\ \A k \in 1..n : g[k] = h[k]
       /\ g[n + 1] = s
  BY <1>3, <1>1, <1>10, <1>11, <1>13, AppendProperties, LenProperties
<1>15. \A k \in DOMAIN g : g[k] \in visited' /\ (k \in 1..n \/ k = n + 1)
  BY <1>1, <1>10, <1>12, <1>14
<1>16. ASSUME NEW b \in visited'
       PROVE  \E k \in DOMAIN g : g[k] = b
  <2>1. CASE b = s
    BY <1>12, <1>14, <2>1, n + 1 \in 1..(n + 1)
  <2>2. CASE b \in visited
    <3>1. PICK k \in DOMAIN h : h[k] = b
      BY <1>10, <2>2
    <3>2. k \in DOMAIN g /\ g[k] = b
      BY <1>12, <1>14, <3>1
    <3> QED
      BY <3>2
  <2> QED
    BY <1>1, <2>1, <2>2
<1>17. ASSUME NEW j \in DOMAIN g, NEW k \in DOMAIN g, g[j] = g[k]
       PROVE  j = k
  <2>1. CASE j \in 1..n /\ k \in 1..n
    BY <1>10, <1>12, <1>14, <1>17, <2>1
  <2>2. CASE j = n + 1 /\ k \in 1..n
    BY <1>1, <1>10, <1>12, <1>14, <1>17, <2>2
  <2>3. CASE k = n + 1 /\ j \in 1..n
    BY <1>1, <1>10, <1>12, <1>14, <1>17, <2>3
  <2> QED
    BY <1>15, <2>1, <2>2, <2>3
<1>18. ASSUME NEW k \in DOMAIN g \ {1}
       PROVE  \E j \in 1..(k - 1) : g[k] \in succ[g[j]]
  <2>1. CASE k \in 1..n
    <3>1. PICK j \in 1..(k - 1) : h[k] \in succ[h[j]]
      BY <1>10, <1>12, <2>1, <1>18
    <3>2. j \in 1..n
      BY <1>12, <2>1
    <3> QED
      BY <1>14, <2>1, <3>1, <3>2
  <2>2. CASE k = n + 1
    <3>1. l \in 1..n /\ s \in succ[h[l]]
      BY <1>8, <1>9, <1>11
    <3> QED
      BY <1>12, <1>14, <2>2, <3>1
  <2> QED
    BY <1>15, <2>1, <2>2
<1>19. Discovers(History, visited)'
  <2>1. g = History' /\ g[1] = start
    BY <1>6, <1>9, <1>10, <1>12, <1>13, <1>14
  <2> QED
    BY <1>1, <1>14, <1>15, <1>16, <1>17, <1>18, <2>1 DEF Discovers
<1>20. visited' \subseteq Reachable(succ, start)'
  <2>1. visited \subseteq Reachable(succ, start)
    BY DEF Inv
  <2>2. Closed(succ, Reachable(succ, start))
    BY <1>3, ReachableIsClosed
  <2> QED
    BY <1>1, <1>8, <2>1, <2>2 DEF Closed
<1>21. LookedAt'
  BY <1>1, <1>2 DEF LookedAt
<1> QED
  BY <1>5, <1>19, <1>20, <1>21 DEF Inv

LEMMA SkipStep ==
  ASSUME Inv, NEW s \in Block, Skip(s)
  PROVE  Inv'
<1>1. /\ s \in visited /\ todo' = todo \ {s}
      /\ UNCHANGED <<succ, start, reachable, visited, queue>>
  BY DEF Skip
<1> QED
  BY <1>1 DEF Inv, TypeOK, Discovers, History, LookedAt

LEMMA Step == Inv /\ [Next]_vars => Inv'
<1> SUFFICES ASSUME Inv, [Next]_vars PROVE Inv'
  OBVIOUS
<1>1. CASE Take
  BY <1>1, TakeStep
<1>2. ASSUME NEW s \in Block, Push(s) PROVE Inv'
  BY <1>2, PushStep
<1>3. ASSUME NEW s \in Block, Skip(s) PROVE Inv'
  BY <1>3, SkipStep
<1>4. CASE UNCHANGED vars
  BY <1>4 DEF vars, Inv, TypeOK, Discovers, History, LookedAt
<1> QED
  BY <1>1, <1>2, <1>3, <1>4 DEF Next

(***************************************************************************)
(* The result and the queue of getReachableBlocks hold visited blocks only.*)
(***************************************************************************)
THEOREM TypeCorrect == Spec => []TypeOK
<1>1. Inv => TypeOK
  BY DEF Inv
<1> QED
  BY <1>1, InitInv, Step, PTL DEF Spec

(***************************************************************************)
(* When the queue is empty the visited blocks are closed under the links,  *)
(* so they are all that start reaches.                                     *)
(***************************************************************************)
LEMMA ReturnedIsExact == Inv => ReturnsDiscoveryOrder
<1> SUFFICES ASSUME Inv, Returned
             PROVE  IsDiscoveryOrder(succ, start, reachable)
  BY DEF ReturnsDiscoveryOrder
<1>1. queue = << >> /\ todo = {}
  BY DEF Returned
<1>2. TypeOK /\ LookedAt /\ Discovers(History, visited)
      /\ visited \subseteq Reachable(succ, start)
  BY DEF Inv
<1>3. reachable \in Seq(Block) /\ succ \in [Block -> SUBSET Block] /\ start \in Block
      /\ visited \subseteq Block
  BY <1>2, SeqsOfBlocks DEF TypeOK
<1>4. History = reachable
  BY <1>1, <1>3, ConcatEmptySeq DEF History
<1>5. /\ reachable # << >> /\ reachable[1] = start
      /\ \A k \in DOMAIN reachable : reachable[k] \in visited
      /\ \A b \in visited : \E k \in DOMAIN reachable : reachable[k] = b
      /\ \A j, k \in DOMAIN reachable : reachable[j] = reachable[k] => j = k
      /\ \A k \in DOMAIN reachable \ {1} :
           \E j \in 1..(k - 1) : reachable[k] \in succ[reachable[j]]
  BY <1>2, <1>4 DEF Discovers
<1>6. start \in visited
  BY <1>3, <1>5, EmptySeq, LenProperties
<1>7. Closed(succ, visited)
  BY <1>1, <1>2, <1>5 DEF Closed, LookedAt
<1>8. visited = Reachable(succ, start)
  BY <1>2, <1>3, <1>6, <1>7, ReachableIsLeast
<1>9. {reachable[k] : k \in DOMAIN reachable} = visited
  BY <1>5
<1> QED
  BY <1>5, <1>8, <1>9 DEF IsDiscoveryOrder

(***************************************************************************)
(* getReachableBlocks returns what the block reaches, each block once and  *)
(* after one that links to it, for any graph.                              *)
(***************************************************************************)
THEOREM TraversalCorrect == Spec => []ReturnsDiscoveryOrder
BY ReturnedIsExact, InitInv, Step, PTL DEF Spec
=============================================================================
