------------------------ MODULE ZIRDepthFirst_proofs ------------------------
(***************************************************************************)
(* The depth-first traversals are exact, for any number of blocks and any  *)
(* graph.                                                                  *)
(*                                                                         *)
(* Two arguments: what has been entered is closed under the links but for  *)
(* those the loops on the stack have yet to look at; and, for cycles, what *)
(* has been left again is closed, so a block that is left, all of whose    *)
(* links lead there, is on no cycle.                                       *)
(***************************************************************************)
EXTENDS ZIRDepthFirst, SequenceTheorems, TLAPS

(***************************************************************************)
(* Facts about reachability.  None needs induction: Reachable is a least   *)
(* closed set, so a claim about it is shown by giving one closed set.      *)
(***************************************************************************)
LEMMA ReachableContains ==
  ASSUME NEW B, NEW links \in [B -> SUBSET B], NEW a \in B
  PROVE  a \in Reachable(links, a)
BY DEF Reachable

LEMMA ReachableIsClosed ==
  ASSUME NEW B, NEW links \in [B -> SUBSET B], NEW a \in B
  PROVE  Closed(links, Reachable(links, a))
BY DEF Reachable, Closed

LEMMA ReachableIsLeast ==
  ASSUME NEW B, NEW links \in [B -> SUBSET B], NEW a \in B,
         NEW S \in SUBSET B, a \in S, Closed(links, S)
  PROVE  Reachable(links, a) \subseteq S
BY DEF Reachable

-----------------------------------------------------------------------------

Positions == 1..Len(stack)

Left == visited \ OnStack

\* The stack is a path of different blocks from start.
StackInv ==
  /\ Len(stack) \in Nat /\ DOMAIN stack = Positions
  /\ \A k \in Positions :
       /\ stack[k].block \in visited
       /\ stack[k].todo \subseteq succ[stack[k].block]
  /\ stack # << >> => stack[1].block = start
  /\ \A k \in Positions : k + 1 \in Positions =>
       stack[k + 1].block \in succ[stack[k].block]
  /\ \A j, k \in Positions : stack[j].block = stack[k].block => j = k
  /\ \A j, k \in Positions : j <= k =>
       stack[k].block \in Reachable(succ, stack[j].block)
  /\ answer => stack = << >>

\* What has been entered is reachable, and closed but for what is left to do.
EnteredInv ==
  /\ start \in visited
  /\ visited \subseteq Reachable(succ, start)
  /\ ~ answer => \A b \in visited : \A s \in succ[b] :
       s \in visited \/ \E k \in Positions : stack[k].block = b /\ s \in stack[k].todo

SearchInv ==
  query \in Search =>
    /\ answer => CanReach(succ, start, target)
    /\ ~ answer => target \notin visited

CycleInv ==
  query \notin Search =>
    /\ answer => \E b \in Reachable(succ, start) : OnCycle(b)
    /\ ~ answer =>
         /\ \A b \in Left : succ[b] \subseteq Left
         /\ \A b \in Left : ~ OnCycle(b)
         /\ \A k \in Positions : \A s \in succ[stack[k].block] \ stack[k].todo :
              s \in Left \/ (k + 1 \in Positions /\ s = stack[k + 1].block)

ListInv ==
  query = "detectCycle" => IF answer THEN HoldsCycle(cycle) ELSE cycle = << >>

Inv == TypeOK /\ StackInv /\ EnteredInv /\ SearchInv /\ CycleInv /\ ListInv

-----------------------------------------------------------------------------
(***************************************************************************)
(* Reachability, one link at a time.                                       *)
(***************************************************************************)
LEMMA ReachableStep ==
  ASSUME succ \in [Block -> SUBSET Block],
         NEW a \in Block, NEW b \in Reachable(succ, a), NEW c \in succ[b]
  PROVE  c \in Reachable(succ, a)
BY ReachableIsClosed DEF Closed

LEMMA ReachableSelf ==
  ASSUME succ \in [Block -> SUBSET Block], NEW a \in Block
  PROVE  a \in Reachable(succ, a)
BY ReachableContains

LEMMA NotOnCycle ==
  ASSUME succ \in [Block -> SUBSET Block], NEW S \in SUBSET Block,
         \A b \in S : succ[b] \subseteq S,
         NEW b \in Block, b \notin S, succ[b] \subseteq S
  PROVE  ~ OnCycle(b)
<1>1. ASSUME NEW s \in succ[b] PROVE ~ CanReach(succ, s, b)
  <2>1. s \in S /\ s \in Block /\ Closed(succ, S)
    BY DEF Closed
  <2>2. Reachable(succ, s) \subseteq S
    BY <2>1, ReachableIsLeast
  <2> QED
    BY <2>2 DEF CanReach
<1> QED
  BY <1>1 DEF OnCycle

-----------------------------------------------------------------------------
LEMMA InitInv == Init => Inv
<1> SUFFICES ASSUME Init PROVE Inv
  OBVIOUS
<1>1. /\ succ \in [Block -> SUBSET Block] /\ query \in Query
      /\ start \in Block /\ target \in Block /\ visited = {start}
      /\ answer = (query \in Search /\ start = target)
      /\ cycle = << >>
  BY DEF Init
<1>2. CASE answer
  <2>1. stack = << >> /\ query \in Search /\ start = target
    BY <1>1, <1>2 DEF Init
  <2>2. Positions = {} /\ Len(stack) \in Nat /\ DOMAIN stack = Positions
    BY <2>1 DEF Positions
  <2>3. TypeOK
    BY <1>1, <1>2, <2>1 DEF TypeOK
  <2>4. StackInv
    BY <2>1, <2>2 DEF StackInv
  <2>5. EnteredInv
    BY <1>1, <1>2, ReachableSelf DEF EnteredInv
  <2>6. SearchInv
    BY <1>1, <1>2, <2>1, ReachableSelf DEF SearchInv, CanReach
  <2>7. CycleInv
    BY <2>1 DEF CycleInv
  <2>8. ListInv
    BY <2>1 DEF ListInv, Search
  <2> QED
    BY <2>3, <2>4, <2>5, <2>6, <2>7, <2>8 DEF Inv
<1>3. CASE ~ answer
  <2>1. stack = <<[block |-> start, todo |-> succ[start]]>>
    BY <1>3 DEF Init, Frame
  <2>2. PICK f : f = [block |-> start, todo |-> succ[start]]
    OBVIOUS
  <2>3. f \in [block : visited, todo : SUBSET Block]
        /\ f.block = start /\ f.todo = succ[start]
    BY <1>1, <2>2
  <2>4. stack = <<f>> /\ Len(stack) = 1 /\ stack[1] = f
    BY <2>1, <2>2
  <2>5. /\ Positions = {1} /\ Len(stack) \in Nat /\ DOMAIN stack = Positions
        /\ OnStack = {start}
    BY <2>3, <2>4 DEF Positions, OnStack
  <2>6. TypeOK
    <3>1. stack \in Seq([block : visited, todo : SUBSET Block])
      BY <2>3, <2>4
    <3>2. cycle \in Seq(visited)
      BY <1>1
    <3>3. answer \in BOOLEAN
      <4>1. (query \in Search /\ start = target) \in BOOLEAN
        OBVIOUS
      <4> QED
        BY <1>1, <4>1
    <3> QED
      BY <1>1, <3>1, <3>2, <3>3 DEF TypeOK
  <2>7. StackInv
    BY <1>1, <1>3, <2>3, <2>4, <2>5, ReachableSelf DEF StackInv
  <2>8. EnteredInv
    BY <1>1, <2>3, <2>4, <2>5, ReachableSelf DEF EnteredInv
  <2>9. SearchInv
    BY <1>1, <1>3 DEF SearchInv
  <2>10. CycleInv
    BY <1>1, <1>3, <2>3, <2>4, <2>5 DEF CycleInv, Left
  <2>11. ListInv
    BY <1>1, <1>3 DEF ListInv
  <2> QED
    BY <2>6, <2>7, <2>8, <2>9, <2>10, <2>11 DEF Inv
<1> QED
  BY <1>2, <1>3

-----------------------------------------------------------------------------
(***************************************************************************)
(* What the three ways to change the stack do, position by position.       *)
(***************************************************************************)
LEMMA TopFacts ==
  ASSUME Inv, stack # << >>
  PROVE  /\ Len(stack) \in Nat /\ Len(stack) \in Positions
         /\ Len(stack) # 0 /\ Top = stack[Len(stack)] /\ ~ answer
         /\ Top.block \in visited /\ Top.block \in Block
         /\ Top.todo \subseteq succ[Top.block] /\ Top.todo \subseteq Block
         /\ \A k \in Positions :
              stack[k] \in [block : visited, todo : SUBSET Block]
         /\ succ \in [Block -> SUBSET Block] /\ visited \subseteq Block
<1>1. /\ stack \in Seq([block : visited, todo : SUBSET Block])
      /\ succ \in [Block -> SUBSET Block] /\ visited \subseteq Block
  BY DEF Inv, TypeOK
<1>2. Len(stack) \in Nat /\ DOMAIN stack = Positions /\ ~ answer
  BY DEF Inv, StackInv
<1>3. Len(stack) # 0
  BY <1>1, EmptySeq
<1>4. Len(stack) \in Positions
  BY <1>2, <1>3 DEF Positions
<1>5. \A k \in Positions : stack[k] \in [block : visited, todo : SUBSET Block]
  BY <1>1, <1>2, ElementOfSeq DEF Positions
<1>6. Top.block \in visited /\ Top.todo \subseteq succ[Top.block] /\ Top.todo \subseteq Block
  BY <1>4, <1>5 DEF Top, Inv, StackInv
<1> QED
  BY <1>1, <1>2, <1>3, <1>4, <1>5, <1>6 DEF Top

LEMMA AdvancedShape ==
  ASSUME Inv, stack # << >>, NEW s \in Top.todo
  PROVE  /\ Advanced(s) \in Seq([block : visited, todo : SUBSET Block])
         /\ Len(Advanced(s)) = Len(stack) /\ DOMAIN Advanced(s) = Positions
         /\ \A k \in Positions : Advanced(s)[k].block = stack[k].block
         /\ \A k \in Positions : Advanced(s)[k].todo =
              IF k = Len(stack) THEN stack[k].todo \ {s} ELSE stack[k].todo
<1>1. /\ Len(stack) \in Nat /\ Top = stack[Len(stack)]
      /\ \A k \in Positions : stack[k] \in [block : visited, todo : SUBSET Block]
      /\ Len(stack) \in Positions /\ DOMAIN stack = Positions
  BY TopFacts DEF Inv, StackInv
<1>2. PICK f : f = [block |-> Top.block, todo |-> Top.todo \ {s}]
  OBVIOUS
<1>3. f \in [block : visited, todo : SUBSET Block]
      /\ f.block = stack[Len(stack)].block /\ f.todo = stack[Len(stack)].todo \ {s}
  BY <1>1, <1>2
<1>4. Advanced(s) = [k \in 1..Len(stack) |-> IF k = Len(stack) THEN f ELSE stack[k]]
  BY <1>1, <1>2 DEF Advanced, Positions
<1>5. \A k \in 1..Len(stack) :
        (IF k = Len(stack) THEN f ELSE stack[k])
          \in [block : visited, todo : SUBSET Block]
  BY <1>1, <1>3 DEF Positions
<1>6. Advanced(s) \in Seq([block : visited, todo : SUBSET Block])
  BY <1>1, <1>4, <1>5, IsASeq
<1>7. DOMAIN Advanced(s) = 1..Len(stack)
  BY <1>4
<1>8. Len(Advanced(s)) = Len(stack)
  BY <1>1, <1>6, <1>7, LenProperties
<1>9. \A k \in Positions : Advanced(s)[k] = IF k = Len(stack) THEN f ELSE stack[k]
  BY <1>4 DEF Positions
<1> QED
  BY <1>3, <1>6, <1>7, <1>8, <1>9 DEF Positions

LEMMA EnterShape ==
  ASSUME Inv, NEW s \in Block, IsNext(s), Enter(s)
  PROVE  /\ stack' \in Seq([block : visited', todo : SUBSET Block])
         /\ Len(stack') = Len(stack) + 1 /\ DOMAIN stack' = 1..(Len(stack) + 1)
         /\ \A k \in Positions : stack'[k].block = stack[k].block
         /\ \A k \in Positions : stack'[k].todo =
              IF k = Len(stack) THEN stack[k].todo \ {s} ELSE stack[k].todo
         /\ stack'[Len(stack) + 1].block = s
         /\ stack'[Len(stack) + 1].todo = succ[s]
<1>1. /\ visited' = visited \cup {s}
      /\ stack' = Append(Advanced(s), Frame(s))
      /\ stack # << >> /\ s \in Top.todo
  BY DEF Enter, IsNext
<1>2. PICK f : f = Frame(s)
  OBVIOUS
<1>3. /\ f.block = s /\ f.todo = succ[s]
      /\ f \in [block : visited', todo : SUBSET Block]
  BY <1>1, <1>2, TopFacts DEF Frame
<1>4. PICK a : a = Advanced(s)
  OBVIOUS
<1>5. /\ a \in Seq([block : visited, todo : SUBSET Block])
      /\ Len(a) = Len(stack) /\ Len(stack) \in Nat
      /\ \A k \in Positions : a[k].block = stack[k].block
      /\ \A k \in Positions : a[k].todo =
           IF k = Len(stack) THEN stack[k].todo \ {s} ELSE stack[k].todo
  BY <1>1, <1>4, AdvancedShape, TopFacts
<1>6. [block : visited, todo : SUBSET Block]
        \subseteq [block : visited', todo : SUBSET Block]
  BY <1>1
<1>7. a \in Seq([block : visited', todo : SUBSET Block])
  BY <1>5, <1>6, SeqMonotonic
<1>8. stack' = Append(a, f)
  BY <1>1, <1>2, <1>4
<1>9. /\ Append(a, f) \in Seq([block : visited', todo : SUBSET Block])
      /\ Len(Append(a, f)) = Len(a) + 1
      /\ \A k \in 1..Len(a) : Append(a, f)[k] = a[k]
      /\ Append(a, f)[Len(a) + 1] = f
  BY <1>3, <1>7, AppendProperties
<1>10. DOMAIN Append(a, f) = 1..(Len(stack) + 1)
  BY <1>5, <1>9, LenProperties
<1> QED
  BY <1>3, <1>5, <1>8, <1>9, <1>10 DEF Positions

LEMMA ReturnShape ==
  ASSUME Inv, Return
  PROVE  /\ stack # << >>
         /\ stack' \in Seq([block : visited, todo : SUBSET Block])
         /\ Len(stack') = Len(stack) - 1 /\ DOMAIN stack' = 1..(Len(stack) - 1)
         /\ \A k \in 1..(Len(stack) - 1) : stack'[k] = stack[k]
<1>1. stack # << >> /\ stack' = SubSeq(stack, 1, Len(stack) - 1)
  BY DEF Return
<1>2. /\ stack \in Seq([block : visited, todo : SUBSET Block])
      /\ Len(stack) \in Nat /\ Len(stack) # 0
      /\ \A k \in Positions : stack[k] \in [block : visited, todo : SUBSET Block]
  BY <1>1, TopFacts DEF Inv, TypeOK
<1>3. PICK m : m = Len(stack) - 1
  OBVIOUS
<1>4. m \in Nat /\ 1 \in Int /\ m \in Int
      /\ \A k \in 1..m : stack[k] \in [block : visited, todo : SUBSET Block]
  BY <1>2, <1>3 DEF Positions
<1>5. PICK u : u = SubSeq(stack, 1, m)
  OBVIOUS
<1>6. /\ u \in Seq([block : visited, todo : SUBSET Block])
      /\ Len(u) = IF 1 <= m THEN m - 1 + 1 ELSE 0
      /\ \A k \in 1..(m - 1 + 1) : u[k] = stack[1 + k - 1]
  BY <1>4, <1>5, SubSeqProperties
<1>7. Len(u) = m /\ \A k \in 1..m : u[k] = stack[k]
  BY <1>4, <1>6
<1>8. DOMAIN u = 1..m
  BY <1>6, <1>7, LenProperties
<1> QED
  BY <1>1, <1>3, <1>5, <1>6, <1>7, <1>8

-----------------------------------------------------------------------------
(***************************************************************************)
(* Entering a block that has not been visited.                             *)
(***************************************************************************)
LEMMA EnterStep ==
  ASSUME Inv, NEW s \in Block, IsNext(s), Enter(s), s \notin visited,
         query \in Search => s # target
  PROVE  Inv'
<1>1. /\ visited' = visited \cup {s}
      /\ UNCHANGED <<succ, query, start, target, answer, cycle>>
      /\ stack # << >> /\ s \in Top.todo
  BY DEF Enter, IsNext, call
<1>2. TypeOK /\ StackInv /\ EnteredInv /\ SearchInv /\ CycleInv /\ ListInv
  BY DEF Inv
<1>3. PICK n : n = Len(stack)
  OBVIOUS
<1>4. /\ n \in Nat /\ n \in Positions /\ n # 0 /\ Positions = 1..n /\ ~ answer
      /\ s \in succ[stack[n].block] /\ stack[n].block \in visited
      /\ succ \in [Block -> SUBSET Block] /\ visited \subseteq Block
  BY <1>1, <1>3, TopFacts DEF Positions
<1>5. PICK u : u = stack'
  OBVIOUS
<1>6. /\ u \in Seq([block : visited', todo : SUBSET Block])
      /\ Len(u) = n + 1 /\ DOMAIN u = 1..(n + 1)
      /\ \A k \in 1..n : u[k].block = stack[k].block
      /\ \A k \in 1..n : u[k].todo =
           IF k = n THEN stack[k].todo \ {s} ELSE stack[k].todo
      /\ u[n + 1].block = s
      /\ u[n + 1].todo = succ[s]
  BY <1>3, <1>4, <1>5, EnterShape
<1>7. Positions' = 1..(n + 1) /\ u # << >>
  BY <1>4, <1>5, <1>6 DEF Positions
<1>8. TypeOK'
  <2>1. cycle \in Seq(visited')
    BY <1>1, <1>2, SeqMonotonic DEF TypeOK
  <2> QED
    BY <1>1, <1>2, <1>5, <1>6, <2>1 DEF TypeOK
<1>9. StackInv'
  <2>1. \A k \in 1..(n + 1) : k \in 1..n \/ k = n + 1
    BY <1>4
  <2>2. \A k \in 1..(n + 1) :
          u[k].block \in visited' /\ u[k].todo \subseteq succ[u[k].block]
    BY <1>1, <1>2, <1>4, <1>6, <2>1 DEF StackInv
  <2>3. u[1].block = start
    BY <1>1, <1>2, <1>4, <1>6 DEF StackInv
  <2>4. ASSUME NEW k \in 1..(n + 1), k + 1 \in 1..(n + 1)
        PROVE  u[k + 1].block \in succ[u[k].block]
    <3>1. CASE k = n
      BY <1>4, <1>6, <3>1
    <3>2. CASE k # n
      <4>1. k \in 1..n /\ k + 1 \in 1..n
        BY <1>4, <2>4, <3>2
      <4> QED
        BY <1>2, <1>4, <1>6, <4>1 DEF StackInv
    <3> QED
      BY <3>1, <3>2
  <2>5. ASSUME NEW j \in 1..(n + 1), NEW k \in 1..(n + 1), u[j].block = u[k].block
        PROVE  j = k
    <3>1. \A i \in 1..n : u[i].block # s
      BY <1>2, <1>4, <1>6 DEF StackInv
    <3>2. CASE j \in 1..n /\ k \in 1..n
      BY <1>2, <1>4, <1>6, <2>5, <3>2 DEF StackInv
    <3> QED
      BY <1>6, <2>1, <2>5, <3>1, <3>2
  <2>6. ASSUME NEW j \in 1..(n + 1), NEW k \in 1..(n + 1), j <= k
        PROVE  u[k].block \in Reachable(succ, u[j].block)
    <3>1. CASE k \in 1..n
      <4>1. j \in 1..n
        BY <1>4, <2>6, <3>1
      <4> QED
        BY <1>2, <1>4, <1>6, <2>6, <3>1, <4>1 DEF StackInv
    <3>2. CASE k = n + 1 /\ j = n + 1
      BY <1>4, <1>6, <3>2, ReachableSelf
    <3>3. CASE k = n + 1 /\ j \in 1..n
      <4>1. j <= n /\ stack[j].block \in Block
        BY <1>2, <1>4, <3>3 DEF StackInv
      <4>2. stack[n].block \in Reachable(succ, stack[j].block)
        BY <1>2, <1>4, <3>3, <4>1 DEF StackInv
      <4>3. s \in Reachable(succ, stack[j].block)
        BY <1>4, <4>1, <4>2, ReachableStep
      <4> QED
        BY <1>6, <3>3, <4>3
    <3> QED
      BY <2>1, <3>1, <3>2, <3>3
  <2> QED
    BY <1>1, <1>4, <1>5, <1>6, <1>7, <2>2, <2>3, <2>4, <2>5, <2>6 DEF StackInv
<1>10. EnteredInv'
  <2>1. s \in Reachable(succ, start)
    <3>1. stack[n].block \in Reachable(succ, start) /\ start \in Block
      BY <1>2, <1>4 DEF EnteredInv, TypeOK
    <3> QED
      BY <1>4, <3>1, ReachableStep
  <2>2. ASSUME NEW b \in visited', NEW c \in succ[b]
        PROVE  c \in visited' \/ \E k \in 1..(n + 1) : u[k].block = b /\ c \in u[k].todo
    <3>1. CASE b = s
      <4>1. n + 1 \in 1..(n + 1)
        BY <1>4
      <4> QED
        BY <1>6, <2>2, <3>1, <4>1
    <3>2. CASE b \in visited /\ c \notin visited'
      <4>1. PICK k \in 1..n : stack[k].block = b /\ c \in stack[k].todo
        BY <1>1, <1>2, <1>4, <2>2, <3>2 DEF EnteredInv
      <4>2. k \in 1..(n + 1) /\ c # s
        BY <1>1, <1>4, <3>2
      <4> QED
        BY <1>6, <4>1, <4>2
    <3> QED
      BY <1>1, <3>1, <3>2
  <2> QED
    BY <1>1, <1>2, <1>5, <1>7, <2>1, <2>2 DEF EnteredInv
<1>11. SearchInv'
  BY <1>1, <1>2, <1>4 DEF SearchInv
<1>12. CycleInv'
  <2>1. OnStack = {stack[k].block : k \in 1..n}
    BY <1>2, <1>4 DEF OnStack, StackInv
  <2>2. OnStack' = OnStack \cup {s}
    <3>1. OnStack' = {u[k].block : k \in 1..(n + 1)}
      BY <1>5, <1>6 DEF OnStack
    <3>2. \A k \in 1..(n + 1) : u[k].block \in OnStack \cup {s}
      BY <1>4, <1>6, <2>1
    <3>3. \A b \in OnStack : \E k \in 1..(n + 1) : u[k].block = b
      <4>1. \A k \in 1..n : k \in 1..(n + 1)
        BY <1>4
      <4> QED
        BY <1>6, <2>1, <4>1
    <3>4. n + 1 \in 1..(n + 1) /\ u[n + 1].block = s
      BY <1>4, <1>6
    <3> QED
      BY <3>1, <3>2, <3>3, <3>4
  <2>3. Left' = Left
    BY <1>1, <2>2 DEF Left
  <2>4. ASSUME query \notin Search,
               NEW k \in 1..(n + 1), NEW c \in succ[u[k].block] \ u[k].todo
        PROVE  c \in Left \/ (k + 1 \in 1..(n + 1) /\ c = u[k + 1].block)
    <3>1. CASE k = n + 1
      BY <1>6, <2>4, <3>1
    <3>2. CASE k = n /\ c = s
      BY <1>4, <1>6, <3>2
    <3>3. CASE k \in 1..n /\ (k = n => c # s)
      <4>1. c \in succ[stack[k].block] \ stack[k].todo
        BY <1>6, <2>4, <3>3
      <4>2. c \in Left \/ (k + 1 \in 1..n /\ c = stack[k + 1].block)
        BY <1>2, <1>4, <2>4, <3>3, <4>1 DEF CycleInv
      <4> QED
        BY <1>4, <1>6, <4>2
    <3> QED
      BY <1>4, <3>1, <3>2, <3>3
  <2>5. \A b \in Block : OnCycle(b)' = OnCycle(b)
    BY <1>1 DEF OnCycle
  <2>6. Left \subseteq Block
    BY <1>4 DEF Left
  <2>7. query \notin Search =>
          (\A b \in Left : succ[b] \subseteq Left) /\ (\A b \in Left : ~ OnCycle(b))
    BY <1>2, <1>4 DEF CycleInv
  <2> QED
    BY <1>1, <1>4, <1>5, <1>7, <2>3, <2>4, <2>5, <2>6, <2>7 DEF CycleInv
<1>13. ListInv'
  BY <1>1, <1>2, <1>4 DEF ListInv
<1> QED
  BY <1>8, <1>9, <1>10, <1>11, <1>12, <1>13 DEF Inv

(***************************************************************************)
(* Moving on past a block that has been visited: when looking for cycles,  *)
(* one that has been left again.                                           *)
(***************************************************************************)
LEMMA SkipStep ==
  ASSUME Inv, NEW s \in Block, IsNext(s), Skip(s), s \in visited,
         query \notin Search => s \in Left
  PROVE  Inv'
<1>1. /\ stack' = Advanced(s)
      /\ UNCHANGED <<succ, query, start, target, visited, answer, cycle>>
      /\ stack # << >> /\ s \in Top.todo
  BY DEF Skip, IsNext, call
<1>2. TypeOK /\ StackInv /\ EnteredInv /\ SearchInv /\ CycleInv /\ ListInv
  BY DEF Inv
<1>3. PICK n : n = Len(stack)
  OBVIOUS
<1>4. n \in Nat /\ n \in Positions /\ n # 0 /\ Positions = 1..n /\ ~ answer
  BY <1>1, <1>3, TopFacts DEF Positions
<1>5. PICK u : u = stack'
  OBVIOUS
<1>6. /\ u \in Seq([block : visited, todo : SUBSET Block])
      /\ Len(u) = n /\ DOMAIN u = 1..n
      /\ \A k \in 1..n : u[k].block = stack[k].block
      /\ \A k \in 1..n : u[k].todo =
           IF k = n THEN stack[k].todo \ {s} ELSE stack[k].todo
  BY <1>1, <1>3, <1>4, <1>5, AdvancedShape
<1>7. Positions' = Positions /\ u # << >>
  BY <1>4, <1>5, <1>6 DEF Positions
<1>8. TypeOK'
  BY <1>1, <1>2, <1>5, <1>6 DEF TypeOK
<1>9. StackInv'
  <2>1. \A k \in 1..n : u[k].block \in visited /\ u[k].todo \subseteq succ[u[k].block]
    BY <1>2, <1>4, <1>6 DEF StackInv
  <2>2. u[1].block = start /\ 1 \in 1..n
    BY <1>1, <1>2, <1>4, <1>6 DEF StackInv
  <2>3. \A k \in 1..n : k + 1 \in 1..n => u[k + 1].block \in succ[u[k].block]
    BY <1>2, <1>4, <1>6 DEF StackInv
  <2>4. \A j, k \in 1..n : u[j].block = u[k].block => j = k
    BY <1>2, <1>4, <1>6 DEF StackInv
  <2>5. \A j, k \in 1..n : j <= k => u[k].block \in Reachable(succ, u[j].block)
    BY <1>2, <1>4, <1>6 DEF StackInv
  <2> QED
    BY <1>1, <1>4, <1>5, <1>6, <1>7, <2>1, <2>2, <2>3, <2>4, <2>5 DEF StackInv
<1>10. EnteredInv'
  <2>1. ASSUME NEW b \in visited, NEW c \in succ[b], c \notin visited
        PROVE  \E k \in 1..n : u[k].block = b /\ c \in u[k].todo
    <3>1. PICK k \in 1..n : stack[k].block = b /\ c \in stack[k].todo
      BY <1>2, <1>4, <2>1 DEF EnteredInv
    <3> QED
      BY <1>6, <2>1, <3>1
  <2> QED
    BY <1>1, <1>2, <1>4, <1>5, <1>7, <2>1 DEF EnteredInv
<1>11. SearchInv'
  BY <1>1, <1>2 DEF SearchInv
<1>12. CycleInv'
  <2>1. Left' = Left
    <3>1. OnStack = {stack[k].block : k \in 1..n}
      BY <1>2, <1>4 DEF OnStack, StackInv
    <3>2. OnStack' = {u[k].block : k \in 1..n}
      BY <1>5, <1>6 DEF OnStack
    <3>3. OnStack' = OnStack
      BY <1>6, <3>1, <3>2
    <3> QED
      BY <1>1, <3>3 DEF Left
  <2>2. ASSUME query \notin Search,
               NEW k \in 1..n, NEW c \in succ[u[k].block] \ u[k].todo
        PROVE  c \in Left \/ (k + 1 \in 1..n /\ c = u[k + 1].block)
    <3>1. CASE c = s
      BY <2>2, <3>1
    <3>2. CASE c # s
      <4>1. c \in succ[stack[k].block] \ stack[k].todo
        BY <1>6, <2>2, <3>2
      <4> QED
        BY <1>2, <1>4, <1>6, <2>2, <4>1 DEF CycleInv
    <3> QED
      BY <3>1, <3>2
  <2>3. \A b \in Block : OnCycle(b)' = OnCycle(b)
    BY <1>1 DEF OnCycle
  <2>4. Left \subseteq Block
    BY <1>2 DEF Left, TypeOK
  <2>5. query \notin Search =>
          (\A b \in Left : succ[b] \subseteq Left) /\ (\A b \in Left : ~ OnCycle(b))
    BY <1>2, <1>4 DEF CycleInv
  <2> QED
    BY <1>1, <1>4, <1>5, <1>7, <2>1, <2>2, <2>3, <2>4, <2>5 DEF CycleInv
<1>13. ListInv'
  BY <1>1, <1>2, <1>4 DEF ListInv
<1> QED
  BY <1>8, <1>9, <1>10, <1>11, <1>12, <1>13 DEF Inv

(***************************************************************************)
(* Leaving a block: all of its links lead to blocks that have been left.   *)
(***************************************************************************)
LEMMA ReturnStep ==
  ASSUME Inv, Return
  PROVE  Inv'
<1>1. /\ stack # << >> /\ Top.todo = {}
      /\ UNCHANGED <<succ, query, start, target, visited, answer, cycle>>
  BY DEF Return, call
<1>2. TypeOK /\ StackInv /\ EnteredInv /\ SearchInv /\ CycleInv /\ ListInv
  BY DEF Inv
<1>3. PICK n : n = Len(stack)
  OBVIOUS
<1>4. /\ n \in Nat /\ n \in Positions /\ n # 0 /\ Positions = 1..n /\ ~ answer
      /\ stack[n].todo = {} /\ stack[n].block \in Block /\ stack[n].block \in visited
      /\ succ \in [Block -> SUBSET Block] /\ visited \subseteq Block
  BY <1>1, <1>3, TopFacts DEF Positions
<1>5. PICK u : u = stack'
  OBVIOUS
<1>6. PICK m : m = n - 1
  OBVIOUS
<1>7. /\ u \in Seq([block : visited, todo : SUBSET Block])
      /\ Len(u) = m /\ DOMAIN u = 1..m /\ m \in Nat /\ n = m + 1
      /\ \A k \in 1..m : u[k] = stack[k]
  BY <1>3, <1>4, <1>5, <1>6, ReturnShape
<1>8. Positions' = 1..m /\ \A k \in 1..m : k \in 1..n
  BY <1>5, <1>7 DEF Positions
<1>9. TypeOK'
  BY <1>1, <1>2, <1>5, <1>7 DEF TypeOK
<1>10. StackInv'
  <2>1. u # << >> => 1 \in 1..m
    BY <1>7, EmptySeq
  <2>2. \A k \in 1..m : k + 1 \in 1..m => k + 1 \in 1..n
    BY <1>8
  <2>3. u # << >> => u[1].block = start
    BY <1>1, <1>2, <1>7, <2>1 DEF StackInv
  <2>4. \A k \in 1..m : k + 1 \in 1..m => u[k + 1].block \in succ[u[k].block]
    BY <1>2, <1>4, <1>7, <1>8, <2>2 DEF StackInv
  <2>5. \A j, k \in 1..m : u[j].block = u[k].block => j = k
    BY <1>2, <1>4, <1>7, <1>8 DEF StackInv
  <2>6. \A j, k \in 1..m : j <= k => u[k].block \in Reachable(succ, u[j].block)
    BY <1>2, <1>4, <1>7, <1>8 DEF StackInv
  <2>7. \A k \in 1..m : u[k].block \in visited /\ u[k].todo \subseteq succ[u[k].block]
    BY <1>2, <1>4, <1>7, <1>8 DEF StackInv
  <2> QED
    BY <1>1, <1>4, <1>5, <1>7, <1>8, <2>3, <2>4, <2>5, <2>6, <2>7 DEF StackInv
<1>11. EnteredInv'
  <2>1. ASSUME NEW b \in visited, NEW c \in succ[b], c \notin visited
        PROVE  \E k \in 1..m : u[k].block = b /\ c \in u[k].todo
    <3>1. PICK k \in 1..n : stack[k].block = b /\ c \in stack[k].todo
      BY <1>2, <1>4, <2>1 DEF EnteredInv
    <3>2. k \in 1..m
      BY <1>4, <1>7, <3>1
    <3> QED
      BY <1>7, <3>1, <3>2
  <2> QED
    BY <1>1, <1>2, <1>4, <1>5, <1>8, <2>1 DEF EnteredInv
<1>12. SearchInv'
  BY <1>1, <1>2 DEF SearchInv
<1>13. CycleInv'
  <2> SUFFICES ASSUME query \notin Search PROVE CycleInv'
    BY <1>1 DEF CycleInv
  <2>1. PICK b0 : b0 = stack[n].block
    OBVIOUS
  <2>2. Left' = Left \cup {b0}
    <3>1. OnStack = {stack[k].block : k \in 1..n}
      BY <1>2, <1>4 DEF OnStack, StackInv
    <3>2. OnStack' = {u[k].block : k \in 1..m}
      BY <1>5, <1>7 DEF OnStack
    <3>3. \A k \in 1..m : u[k].block # b0 /\ u[k].block \in OnStack
      BY <1>2, <1>4, <1>7, <1>8, <2>1, <3>1 DEF StackInv
    <3>4. \A k \in 1..n : k \in 1..m \/ k = n
      BY <1>7
    <3>5. \A b \in OnStack : b = b0 \/ b \in OnStack'
      BY <1>7, <2>1, <3>1, <3>2, <3>4
    <3>6. b0 \in OnStack
      BY <1>4, <2>1, <3>1
    <3>7. OnStack' = OnStack \ {b0}
      BY <3>2, <3>3, <3>5
    <3> QED
      BY <1>1, <1>4, <2>1, <3>6, <3>7 DEF Left
  <2>3. b0 \in Block /\ b0 \notin Left /\ Left \in SUBSET Block
    <3>1. b0 \in OnStack
      BY <1>2, <1>4, <2>1 DEF OnStack, StackInv
    <3> QED
      BY <1>4, <2>1, <3>1 DEF Left
  <2>4. succ[b0] \subseteq Left
    <3>1. ~ (n + 1 \in 1..n)
      BY <1>4
    <3> QED
      BY <1>2, <1>4, <2>1, <3>1 DEF CycleInv
  <2>5. /\ \A b \in Left : succ[b] \subseteq Left
        /\ \A b \in Left : ~ OnCycle(b)
    BY <1>2, <1>4 DEF CycleInv
  <2>6. ~ OnCycle(b0)
    BY <1>4, <2>3, <2>4, <2>5, NotOnCycle
  <2>7. \A b \in Block : OnCycle(b)' = OnCycle(b)
    BY <1>1 DEF OnCycle
  <2>8. ASSUME NEW k \in 1..m, NEW c \in succ[u[k].block] \ u[k].todo
        PROVE  c \in Left \cup {b0} \/ (k + 1 \in 1..m /\ c = u[k + 1].block)
    <3>1. c \in Left \/ (k + 1 \in 1..n /\ c = stack[k + 1].block)
      BY <1>2, <1>4, <1>7, <1>8, <2>8 DEF CycleInv
    <3>2. CASE k + 1 = n
      BY <2>1, <3>1, <3>2
    <3>3. CASE k + 1 # n
      <4>1. k + 1 \in 1..m
        BY <1>7, <3>3
      <4> QED
        BY <1>7, <3>1, <4>1
    <3> QED
      BY <3>2, <3>3
  <2> QED
    BY <1>1, <1>4, <1>5, <1>8, <2>2, <2>3, <2>4, <2>5, <2>6, <2>7, <2>8 DEF CycleInv
<1>14. ListInv'
  BY <1>1, <1>2, <1>4 DEF ListInv
<1> QED
  BY <1>9, <1>10, <1>11, <1>12, <1>13, <1>14 DEF Inv

-----------------------------------------------------------------------------
(***************************************************************************)
(* Coming to the target, or back to a block on the stack.                  *)
(***************************************************************************)
LEMMA SucceedStep ==
  ASSUME Inv, Succeed, cycle' \in Seq(visited),
         query \in Search => CanReach(succ, start, target),
         query \notin Search => \E b \in Reachable(succ, start) : OnCycle(b),
         query = "detectCycle" => HoldsCycle(cycle')
  PROVE  Inv'
<1>1. /\ answer' = TRUE /\ stack' = << >>
      /\ UNCHANGED <<succ, query, start, target, visited>>
  BY DEF Succeed, call
<1>2. TypeOK /\ EnteredInv
  BY DEF Inv
<1>3. Positions' = {} /\ Len(stack') = 0 /\ DOMAIN stack' = {}
  BY <1>1 DEF Positions
<1>4. TypeOK'
  BY <1>1, <1>2 DEF TypeOK
<1>5. StackInv'
  BY <1>1, <1>3 DEF StackInv
<1>6. EnteredInv'
  BY <1>1, <1>2 DEF EnteredInv
<1>7. SearchInv'
  BY <1>1 DEF SearchInv, CanReach
<1>8. CycleInv'
  BY <1>1 DEF CycleInv, OnCycle
<1>9. ListInv'
  BY <1>1 DEF ListInv, HoldsCycle
<1> QED
  BY <1>4, <1>5, <1>6, <1>7, <1>8, <1>9 DEF Inv

LEMMA FoundTarget ==
  ASSUME Inv, NEW s \in Block, IsNext(s), s = target, Succeed, UNCHANGED cycle,
         query \in Search
  PROVE  Inv'
<1>1. stack # << >> /\ s \in Top.todo
  BY DEF IsNext
<1>2. /\ s \in succ[Top.block] /\ Top.block \in visited
      /\ succ \in [Block -> SUBSET Block] /\ start \in Block
  BY <1>1, TopFacts DEF Inv, TypeOK
<1>3. Top.block \in Reachable(succ, start)
  BY <1>2 DEF Inv, EnteredInv
<1>4. CanReach(succ, start, target)
  BY <1>2, <1>3, ReachableStep DEF CanReach
<1>5. cycle' \in Seq(visited)
  BY DEF Inv, TypeOK
<1>6. query # "detectCycle"
  BY DEF Search
<1> QED
  BY <1>4, <1>5, <1>6, SucceedStep

\* The list that is made when s is on the stack, position by position.
LEMMA CycleShape ==
  ASSUME Inv, stack # << >>, NEW s \in visited
  PROVE  /\ CycleThrough(s) \in Seq(visited)
         /\ Len(CycleThrough(s)) = Len(stack) + 1
         /\ \A k \in 1..(Len(stack) + 1) : CycleThrough(s)[k] =
              IF k < Len(stack) THEN stack[k + 1].block
              ELSE IF k = Len(stack) THEN s ELSE start
<1>1. PICK n : n = Len(stack)
  OBVIOUS
<1>2. n \in Nat /\ Positions = 1..n /\ n # 0
  BY <1>1, TopFacts DEF Positions
<1>3. PICK c : c = CycleThrough(s)
  OBVIOUS
<1>4. c = [k \in 1..(n + 1) |-> IF k < n THEN stack[k + 1].block
                               ELSE IF k = n THEN s ELSE start]
  BY <1>1, <1>3 DEF CycleThrough
<1>5. ASSUME NEW k \in 1..(n + 1)
      PROVE  (IF k < n THEN stack[k + 1].block
              ELSE IF k = n THEN s ELSE start) \in visited
  <2>1. k < n => k + 1 \in 1..n
    BY <1>2
  <2>2. start \in visited /\ \A j \in 1..n : stack[j].block \in visited
    BY <1>2 DEF Inv, EnteredInv, StackInv
  <2> QED
    BY <2>1, <2>2
<1>6. n + 1 \in Nat
  BY <1>2
<1>7. c \in Seq(visited)
  BY <1>4, <1>5, <1>6, IsASeq
<1>8. DOMAIN c = 1..(n + 1)
  BY <1>4
<1>9. Len(c) = n + 1
  BY <1>6, <1>7, <1>8, LenProperties
<1> QED
  BY <1>1, <1>3, <1>4, <1>7, <1>9

LEMMA FoundCycle ==
  ASSUME Inv, NEW s \in Block, IsNext(s), s \in OnStack, Succeed,
         cycle' = Listed(s), query \notin Search
  PROVE  Inv'
<1>1. stack # << >> /\ s \in Top.todo
  BY DEF IsNext
<1>2. PICK n : n = Len(stack)
  OBVIOUS
<1>3. /\ n \in Nat /\ n \in Positions /\ n # 0 /\ Positions = 1..n /\ ~ answer
      /\ s \in succ[stack[n].block] /\ stack[n].block \in visited
      /\ succ \in [Block -> SUBSET Block] /\ visited \subseteq Block
  BY <1>1, <1>2, TopFacts DEF Positions
<1>4. StackInv /\ EnteredInv /\ TypeOK
  BY DEF Inv
<1>5. PICK j \in 1..n : stack[j].block = s
  BY <1>3, <1>4 DEF OnStack, StackInv
<1>6. s \in visited
  BY <1>3, <1>4, <1>5 DEF StackInv
<1>7. OnCycle(s)
  <2>1. CASE j = n
    BY <1>3, <1>5, <1>6, <2>1, ReachableSelf DEF OnCycle, CanReach
  <2>2. CASE j # n
    <3>1. j + 1 \in 1..n /\ j + 1 <= n
      BY <1>3, <2>2
    <3>2. stack[j + 1].block \in succ[s] /\ stack[j + 1].block \in Block
      BY <1>3, <1>4, <1>5, <3>1 DEF StackInv
    <3>3. stack[n].block \in Reachable(succ, stack[j + 1].block)
      BY <1>3, <1>4, <3>1 DEF StackInv
    <3>4. s \in Reachable(succ, stack[j + 1].block)
      BY <1>3, <3>2, <3>3, ReachableStep
    <3> QED
      BY <3>2, <3>4 DEF OnCycle, CanReach
  <2> QED
    BY <2>1, <2>2
<1>8. HoldsCycle(CycleThrough(s))
  <2>1. PICK c : c = CycleThrough(s)
    OBVIOUS
  <2>2. /\ c \in Seq(visited) /\ Len(c) = n + 1
        /\ \A k \in 1..(n + 1) : c[k] = IF k < n THEN stack[k + 1].block
                                        ELSE IF k = n THEN s ELSE start
    BY <1>1, <1>2, <1>6, <2>1, CycleShape
  <2>3. j \in DOMAIN c /\ n \in DOMAIN c /\ j <= n
    BY <1>3, <2>2, LenProperties
  <2>4. \A k \in 1..n : c[k] = IF k < n THEN stack[k + 1].block ELSE s
    BY <1>3, <2>2
  <2>5. ASSUME NEW k \in j..(n - 1) PROVE c[k + 1] \in succ[c[k]]
    <3>1. k \in 1..n /\ k + 1 \in 1..n /\ k < n
      BY <1>3, <2>5
    <3>2. c[k] = stack[k + 1].block
      BY <2>4, <3>1
    <3>3. CASE k + 1 = n
      BY <1>3, <2>4, <3>1, <3>2, <3>3
    <3>4. CASE k + 1 # n
      <4>1. k + 1 < n /\ (k + 1) + 1 \in 1..n
        BY <1>3, <3>1, <3>4
      <4>2. c[k + 1] = stack[(k + 1) + 1].block
        BY <2>4, <3>1, <4>1
      <4> QED
        BY <1>3, <1>4, <3>1, <3>2, <4>1, <4>2 DEF StackInv
    <3> QED
      BY <3>3, <3>4
  <2>6. c[n] = s
    BY <1>3, <2>4
  <2>7. c[j] \in succ[c[n]]
    <3>1. CASE j = n
      BY <1>3, <1>5, <2>6, <3>1
    <3>2. CASE j # n
      <4>1. j < n /\ j + 1 \in 1..n
        BY <1>3, <3>2
      <4>2. c[j] = stack[j + 1].block
        BY <2>4, <4>1
      <4> QED
        BY <1>3, <1>4, <1>5, <2>6, <4>1, <4>2 DEF StackInv
    <3> QED
      BY <3>1, <3>2
  <2>8. HoldsCycle(c)
    BY <2>3, <2>5, <2>7 DEF HoldsCycle
  <2> QED
    BY <2>1, <2>8
<1>9. s \in Reachable(succ, start)
  BY <1>4, <1>6 DEF EnteredInv
<1>10. CycleThrough(s) \in Seq(visited) /\ cycle \in Seq(visited)
  BY <1>1, <1>4, <1>6, CycleShape DEF TypeOK
<1>11. cycle' \in Seq(visited) /\ (query = "detectCycle" => cycle' = CycleThrough(s))
  BY <1>10 DEF Listed
<1>12. query = "detectCycle" => HoldsCycle(cycle')
  BY <1>8, <1>11
<1> QED
  BY <1>7, <1>9, <1>11, <1>12, SucceedStep

-----------------------------------------------------------------------------
LEMMA Step == Inv /\ [Next]_vars => Inv'
<1> SUFFICES ASSUME Inv, [Next]_vars PROVE Inv'
  OBVIOUS
<1>1. CASE UNCHANGED vars
  <2>1. UNCHANGED <<succ, query, start, target, visited, stack, answer, cycle>>
    BY <1>1 DEF vars, call
  <2>2. TypeOK' /\ StackInv' /\ EnteredInv'
    BY <2>1 DEF Inv, TypeOK, StackInv, EnteredInv, Positions
  <2>3. SearchInv' /\ CycleInv'
    BY <2>1 DEF Inv, SearchInv, CycleInv, Positions, Left, OnStack, OnCycle, CanReach
  <2>4. ListInv'
    BY <2>1 DEF Inv, ListInv, HoldsCycle
  <2> QED
    BY <2>2, <2>3, <2>4 DEF Inv
<1>2. CASE Return
  BY <1>2, ReturnStep
<1>3. ASSUME NEW s \in Block, CanReachStep(s) PROVE Inv'
  <2>1. query = "canReach" /\ query \in Search /\ IsNext(s)
    BY <1>3 DEF CanReachStep, Search
  <2>2. CASE s \in visited /\ Skip(s)
    BY <2>1, <2>2, SkipStep
  <2>3. CASE s = target /\ Succeed /\ UNCHANGED cycle
    BY <2>1, <2>3, FoundTarget
  <2>4. CASE s \notin visited /\ s # target /\ Enter(s)
    BY <2>1, <2>4, EnterStep
  <2> QED
    BY <1>3, <2>2, <2>3, <2>4 DEF CanReachStep
<1>4. ASSUME NEW s \in Block, IsReachableFromStep(s) PROVE Inv'
  <2>1. query = "isReachableFrom" /\ query \in Search /\ IsNext(s)
    BY <1>4 DEF IsReachableFromStep, Search
  <2>2. CASE s \in visited /\ Skip(s)
    BY <2>1, <2>2, SkipStep
  <2>3. CASE s = target /\ Succeed /\ UNCHANGED cycle
    BY <2>1, <2>3, FoundTarget
  <2>4. CASE s \notin visited /\ s # target /\ Enter(s)
    BY <2>1, <2>4, EnterStep
  <2> QED
    BY <1>4, <2>2, <2>3, <2>4 DEF IsReachableFromStep
<1>5. ASSUME NEW s \in Block, DetectCycleStep(s) PROVE Inv'
  <2>1. query \notin Search /\ IsNext(s)
    BY <1>5 DEF DetectCycleStep
  <2>2. CASE s \notin visited /\ Enter(s)
    BY <2>1, <2>2, EnterStep
  <2>3. CASE s \in OnStack /\ Succeed /\ cycle' = Listed(s)
    BY <2>1, <2>3, FoundCycle
  <2>4. CASE s \in visited \ OnStack /\ Skip(s)
    BY <2>1, <2>4, SkipStep DEF Left
  <2> QED
    BY <1>5, <2>2, <2>3, <2>4 DEF DetectCycleStep
<1> QED
  BY <1>1, <1>2, <1>3, <1>4, <1>5 DEF Next

LEMMA AlwaysInv == Spec => []Inv
BY InitInv, Step, PTL DEF Spec

(***************************************************************************)
(* The stack of the depth-first traversals holds entered blocks only.      *)
(***************************************************************************)
THEOREM TypeCorrect == Spec => []TypeOK
<1>1. Inv => TypeOK
  BY DEF Inv
<1> QED
  BY <1>1, AlwaysInv, PTL

\* What has been entered when the stack is empty is closed.
LEMMA ReturnedClosed ==
  ASSUME Inv, Returned, ~ answer
  PROVE  Reachable(succ, start) \subseteq visited
<1>1. Positions = {}
  BY DEF Returned, Positions
<1>2. /\ succ \in [Block -> SUBSET Block] /\ start \in Block /\ start \in visited
      /\ visited \in SUBSET Block
  BY DEF Inv, TypeOK, EnteredInv
<1>3. Closed(succ, visited)
  BY <1>1 DEF Inv, EnteredInv, Closed
<1> QED
  BY <1>2, <1>3, ReachableIsLeast

(***************************************************************************)
(* canReach and isReachableFrom say yes exactly when there is a way, for   *)
(* any graph and any order of the links.                                   *)
(***************************************************************************)
THEOREM SearchCorrect == Spec => []SearchIsExact
<1>1. Inv => SearchIsExact
  <2> SUFFICES ASSUME Inv, Returned, query \in Search
               PROVE  answer <=> CanReach(succ, start, target)
    BY DEF SearchIsExact
  <2>1. answer => CanReach(succ, start, target)
    BY DEF Inv, SearchInv
  <2>2. ~ answer => ~ CanReach(succ, start, target)
    BY ReturnedClosed DEF Inv, SearchInv, CanReach
  <2> QED
    BY <2>1, <2>2
<1> QED
  BY <1>1, AlwaysInv, PTL

\* When the search has come back without a yes, it has left no cycle behind.
LEMMA NoCycleLeft ==
  ASSUME Inv, Returned, query \notin Search, ~ answer,
         NEW b \in Reachable(succ, start)
  PROVE  ~ OnCycle(b)
<1>1. DOMAIN stack = {}
  BY DEF Returned
<1>2. Left = visited
  BY <1>1 DEF Left, OnStack
<1>3. b \in Left
  BY <1>2, ReturnedClosed
<1> QED
  BY <1>3 DEF Inv, CycleInv

(***************************************************************************)
(* isInCycle never says no of a block on a cycle, on any graph and for any *)
(* order of the links.                                                     *)
(***************************************************************************)
THEOREM CycleMembersFound == Spec => []CycleMembersAreFound
<1>1. Inv => CycleMembersAreFound
  <2> SUFFICES ASSUME Inv, Returned, query = "isInCycle", OnCycle(start), ~ answer
               PROVE  FALSE
    BY DEF CycleMembersAreFound
  <2>1. query \notin Search
    BY DEF Search
  <2>2. start \in Reachable(succ, start)
    BY ReachableSelf DEF Inv, TypeOK
  <2> QED
    BY <2>1, <2>2, NoCycleLeft
<1> QED
  BY <1>1, AlwaysInv, PTL

(***************************************************************************)
(* detectCycle returns a list exactly when the block reaches a cycle, and  *)
(* the list has a whole cycle in it.                                       *)
(***************************************************************************)
THEOREM CycleListCorrect == Spec => []CyclesAreListed
<1>1. Inv => CyclesAreListed
  <2> SUFFICES ASSUME Inv, Returned, query = "detectCycle"
               PROVE  IF \E b \in Reachable(succ, start) : OnCycle(b)
                      THEN HoldsCycle(cycle) ELSE cycle = << >>
    BY DEF CyclesAreListed
  <2>1. query \notin Search
    BY DEF Search
  <2>2. CASE answer
    BY <2>1, <2>2 DEF Inv, CycleInv, ListInv
  <2>3. CASE ~ answer
    <3>1. \A b \in Reachable(succ, start) : ~ OnCycle(b)
      BY <2>1, <2>3, NoCycleLeft
    <3> QED
      BY <2>3, <3>1 DEF Inv, ListInv
  <2> QED
    BY <2>2, <2>3
<1> QED
  BY <1>1, AlwaysInv, PTL
=============================================================================
