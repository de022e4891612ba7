--------------------------- MODULE Comptime_proofs ---------------------------
(***************************************************************************)
(* Theorems about Comptime, for any programs, any limit of the recursion   *)
(* and any length of the stack.                                            *)
(*                                                                         *)
(* Two places change the number of open calls, and both change the counter *)
(* and the chain of tables with it; every other step puts frames of other  *)
(* kinds in the place of the running one.                                  *)
(*                                                                         *)
(* What is returned is compared with the rules of ComptimeMeaning frame by *)
(* frame: each activation on the stack hands the value it is given on to   *)
(* the one under it, changed as the rules say, and the stack leads in this *)
(* way from the value at hand to the meaning of the whole expression.      *)
(***************************************************************************)
EXTENDS ComptimeMeaning, FiniteSetTheorems, SequenceTheorems, TLAPS

\* The frames of calls in a stack.
Bodies(s) == {k \in DOMAIN s : s[k].at = "body"}

\* A stack: every frame is at some place of the evaluator.
IsStack(s) ==
  /\ \E S : s \in Seq(S)
  /\ \A k \in DOMAIN s : "at" \in DOMAIN s[k]

CallsInv ==
  /\ IsStack(stack)
  /\ \E S : scopes \in Seq(S)
  /\ current_recursion_depth \in Nat
  /\ CallsBalance

-----------------------------------------------------------------------------
(***************************************************************************)
(* What the ways to change the stack do to the calls on it.                *)
(***************************************************************************)
LEMMA FrontFacts ==
  ASSUME NEW s, \E S : s \in Seq(S), s # << >>
  PROVE  /\ \E S : Front(s) \in Seq(S)
         /\ Len(s) \in Nat /\ Len(s) > 0 /\ DOMAIN s = 1..Len(s)
         /\ Len(Front(s)) = Len(s) - 1 /\ DOMAIN Front(s) = 1..(Len(s) - 1)
         /\ \A k \in 1..(Len(s) - 1) : Front(s)[k] = s[k]
         /\ Last(s) = s[Len(s)]
<1>1. PICK S : s \in Seq(S)
  OBVIOUS
<1>2. Len(s) \in Nat /\ Len(s) > 0 /\ DOMAIN s = 1..Len(s)
  BY <1>1, EmptySeq
<1>3. /\ Front(s) \in Seq(S) /\ Len(Front(s)) = Len(s) - 1
      /\ \A k \in 1..(Len(s) - 1) : Front(s)[k] = s[k]
  BY <1>1, <1>2 DEF Front
<1>4. DOMAIN Front(s) = 1..(Len(s) - 1)
  BY <1>3
<1> QED
  BY <1>2, <1>3, <1>4 DEF Last

LEMMA Popped ==
  ASSUME NEW s, IsStack(s), s # << >>
  PROVE  IsStack(Front(s)) /\ Bodies(Front(s)) = Bodies(s) \ {Len(s)}
<1>1. /\ \E S : Front(s) \in Seq(S)
      /\ Len(s) \in Nat /\ Len(s) > 0 /\ DOMAIN s = 1..Len(s)
      /\ DOMAIN Front(s) = 1..(Len(s) - 1)
      /\ \A k \in 1..(Len(s) - 1) : Front(s)[k] = s[k]
  BY FrontFacts DEF IsStack
<1>2. IsStack(Front(s))
  BY <1>1 DEF IsStack
<1>3. \A k : k \in 1..(Len(s) - 1) <=> k \in 1..Len(s) /\ k # Len(s)
  BY <1>1
<1>4. Bodies(Front(s)) = Bodies(s) \ {Len(s)}
  BY <1>1, <1>3 DEF Bodies
<1> QED
  BY <1>2, <1>4

LEMMA Pushed ==
  ASSUME NEW s, IsStack(s), NEW f, "at" \in DOMAIN f
  PROVE  /\ IsStack(Append(s, f)) /\ Len(Append(s, f)) = Len(s) + 1 /\ Len(s) \in Nat
         /\ Bodies(Append(s, f)) = IF f.at = "body" THEN Bodies(s) \cup {Len(s) + 1}
                                                     ELSE Bodies(s)
<1>1. PICK S : s \in Seq(S)
  BY DEF IsStack
<1> DEFINE T == S \cup {f}
           a == Append(s, f)
<1>2. s \in Seq(T) /\ f \in T
  BY <1>1
<1>3. /\ a \in Seq(T) /\ Len(s) \in Nat /\ Len(a) = Len(s) + 1
      /\ DOMAIN s = 1..Len(s) /\ DOMAIN a = 1..(Len(s) + 1)
      /\ \A k \in 1..Len(s) : a[k] = s[k]
      /\ a[Len(s) + 1] = f
  BY <1>2
<1> HIDE DEF a, T
<1>4. \A k : k \in DOMAIN a <=> k \in DOMAIN s \/ k = Len(s) + 1
  BY <1>3
<1>5. Len(s) + 1 \notin DOMAIN s
  BY <1>3
<1>6. IsStack(a)
  BY <1>3, <1>4 DEF IsStack
<1>7. CASE f.at = "body"
  <2>1. Bodies(a) = Bodies(s) \cup {Len(s) + 1}
    BY <1>3, <1>4, <1>7 DEF Bodies
  <2> QED
    BY <2>1, <1>3, <1>6, <1>7 DEF a
<1>8. CASE f.at # "body"
  <2>1. Bodies(a) = Bodies(s)
    BY <1>3, <1>4, <1>5, <1>8 DEF Bodies
  <2> QED
    BY <2>1, <1>3, <1>6, <1>8 DEF a
<1> QED
  BY <1>7, <1>8

\* Appending two or three frames is appending them one by one.
LEMMA AppendedTogether ==
  ASSUME NEW s, \E S : s \in Seq(S), NEW f, NEW g, NEW h
  PROVE  /\ s \o <<f, g>> = Append(Append(s, f), g)
         /\ s \o <<f, g, h>> = Append(Append(Append(s, f), g), h)
<1>1. PICK S : s \in Seq(S)
  OBVIOUS
<1> DEFINE T == S \cup {f, g, h}
<1>2. s \in Seq(T) /\ f \in T /\ g \in T /\ h \in T
  BY <1>1
<1> HIDE DEF T
<1> QED
  BY <1>2

LEMMA BodiesFinite ==
  ASSUME NEW s, IsStack(s)
  PROVE  IsFiniteSet(Bodies(s)) /\ Cardinality(Bodies(s)) \in Nat
<1>1. Len(s) \in Nat /\ DOMAIN s = 1..Len(s)
  BY DEF IsStack
<1>2. IsFiniteSet(1..Len(s)) /\ Bodies(s) \in SUBSET (1..Len(s))
  BY <1>1, FS_Interval DEF Bodies
<1>3. IsFiniteSet(Bodies(s))
  BY <1>2, FS_Subset
<1> QED
  BY <1>3, FS_CardinalityType

-----------------------------------------------------------------------------
(***************************************************************************)
(* Steps that neither enter nor leave a body.                              *)
(***************************************************************************)
\* The frame f has a place, and is not that of a call.
Place(f) == "at" \in DOMAIN f /\ f.at # "body"

LEMMA SameCalls ==
  ASSUME CallsInv, Running, Top.at # "body",
         \/ stack' = Rest
         \/ \E f : Place(f) /\ stack' = Append(Rest, f)
         \/ \E f, g : Place(f) /\ Place(g) /\ stack' = Rest \o <<f, g>>,
         scopes' = scopes, current_recursion_depth' = current_recursion_depth
  PROVE  CallsInv'
<1>1. /\ IsStack(stack) /\ stack # << >> /\ \E S : stack \in Seq(S)
      /\ Top = stack[Len(stack)]
  BY FrontFacts DEF CallsInv, Running, IsStack, Top
<1>2. IsStack(Rest) /\ Bodies(Rest) = Bodies(stack)
  <2>1. IsStack(Rest) /\ Bodies(Rest) = Bodies(stack) \ {Len(stack)}
    BY <1>1, Popped DEF Rest
  <2>2. Len(stack) \notin Bodies(stack)
    BY <1>1 DEF Bodies
  <2> QED
    BY <2>1, <2>2
<1>3. IsStack(stack') /\ Bodies(stack') = Bodies(stack)
  <2>1. CASE stack' = Rest
    BY <2>1, <1>2
  <2>2. ASSUME NEW f, Place(f), stack' = Append(Rest, f)
        PROVE  IsStack(stack') /\ Bodies(stack') = Bodies(stack)
    BY <2>2, <1>2, Pushed DEF Place
  <2>3. ASSUME NEW f, NEW g, Place(f), Place(g), stack' = Rest \o <<f, g>>
        PROVE  IsStack(stack') /\ Bodies(stack') = Bodies(stack)
    <3>1. stack' = Append(Append(Rest, f), g)
      BY <2>3, <1>2, AppendedTogether DEF IsStack
    <3>2. IsStack(Append(Rest, f)) /\ Bodies(Append(Rest, f)) = Bodies(stack)
      BY <2>3, <1>2, Pushed DEF Place
    <3> QED
      BY <2>3, <3>1, <3>2, Pushed DEF Place
  <2> QED
    BY <2>1, <2>2, <2>3
<1>4. Calls = Bodies(stack) /\ Calls' = Bodies(stack')
  BY DEF Calls, Bodies
<1> QED
  BY <1>3, <1>4 DEF CallsInv, CallsBalance

LEMMA Moved ==
  ASSUME CallsInv, Running, Top.at # "body",
         \/ \E x : Return(x)
         \/ \E f : Place(f) /\ Continue(f)
         \/ \E n, f : Place(f) /\ CallThen(n, f),
         scopes' = scopes, current_recursion_depth' = current_recursion_depth
  PROVE  CallsInv'
<1>1. ASSUME NEW x, Return(x) PROVE CallsInv'
  BY <1>1, SameCalls DEF Return
<1>2. ASSUME NEW f, Place(f), Continue(f) PROVE CallsInv'
  BY <1>2, SameCalls DEF Continue
<1>3. ASSUME NEW n, NEW f, Place(f), CallThen(n, f) PROVE CallsInv'
  <2>1. Place(Eval(n))
    BY DEF Place, Eval
  <2>2. stack' = Rest \o <<f, Eval(n)>>
    BY <1>3 DEF CallThen
  <2> QED
    BY <1>3, <2>1, <2>2, SameCalls
<1> QED
  BY <1>1, <1>2, <1>3

LEMMA InitCalls == Init => CallsInv
<1> SUFFICES ASSUME Init PROVE CallsInv
  OBVIOUS
<1>1. stack = << >> /\ scopes = <<program.globals>> /\ current_recursion_depth = 0
  BY DEF Init
<1>2. stack \in Seq({}) /\ scopes \in Seq({program.globals}) /\ Len(scopes) = 1
      /\ DOMAIN stack = {}
  BY <1>1
<1>3. IsStack(stack) /\ Calls = {}
  BY <1>2 DEF IsStack, Calls
<1>4. Cardinality(Calls) = 0
  BY <1>3, FS_EmptySet
<1>5. \E S : scopes \in Seq(S)
  BY <1>2
<1>6. current_recursion_depth <= MAX_RECURSION_DEPTH
  BY <1>1, MaxDepthAssumption
<1>7. CallsBalance
  BY <1>1, <1>2, <1>4, <1>6 DEF CallsBalance
<1> QED
  BY <1>1, <1>3, <1>5, <1>7 DEF CallsInv

LEMMA EvaluateCalls == ASSUME CallsInv, Evaluate PROVE CallsInv'
<1>1. /\ stack = << >> /\ stack' = <<Eval(expression')>>
      /\ scopes' = scopes /\ current_recursion_depth' = current_recursion_depth
  BY DEF Evaluate, Running
<1>2. DOMAIN stack = {}
  BY <1>1
<1> DEFINE f == Eval(expression')
<1>3. "at" \in DOMAIN f /\ f.at = "expr"
  BY DEF Eval
<1> HIDE DEF f
<1>4. stack' = <<f>>
  BY <1>1 DEF f
<1>5. stack' \in Seq({f}) /\ DOMAIN stack' = {1} /\ stack'[1] = f
  BY <1>4
<1>6. IsStack(stack')
  BY <1>3, <1>5 DEF IsStack
<1>7. Calls = {} /\ Calls' = {}
  BY <1>2, <1>3, <1>5 DEF Calls
<1> QED
  BY <1>1, <1>6, <1>7 DEF CallsInv, CallsBalance

-----------------------------------------------------------------------------
(***************************************************************************)
(* Entering and leaving a body.                                            *)
(***************************************************************************)
LEMMA EnterCalls == ASSUME CallsInv, Enter PROVE CallsInv'
<1>1. Running /\ Top.at = "args"
  BY DEF Enter, At
<1>2. CASE ~ CanEnter(Top.func, Top.done)
  BY <1>1, <1>2, Moved DEF Enter
<1>3. CASE CanEnter(Top.func, Top.done)
  <2> DEFINE f == [at |-> "call", done |-> Top.done]
             g == [at |-> "body"]
             h == [at |-> "block", rest |-> Top.func.body]
             scope == [k \in DOMAIN Top.done |->
                         Parameter(Top.func.params[k], Top.done[k].id, Top.done[k].value)]
  <2>1. /\ stack' = Rest \o <<f, g, h>> /\ scopes' = Append(scopes, scope)
        /\ current_recursion_depth' = current_recursion_depth + 1
        /\ current_recursion_depth < MAX_RECURSION_DEPTH
    BY <1>3 DEF Enter, CanEnter
  <2>2. /\ Place(f) /\ Place(h) /\ "at" \in DOMAIN g /\ g.at = "body"
    BY DEF Place
  <2> HIDE DEF f, g, h, scope
  <2>3. /\ IsStack(stack) /\ stack # << >> /\ \E S : stack \in Seq(S)
        /\ Top = stack[Len(stack)] /\ Len(stack) \in Nat \ {0} /\ Len(Rest) = Len(stack) - 1
    BY <1>1, FrontFacts DEF CallsInv, Running, IsStack, Top, Rest
  <2>4. IsStack(Rest) /\ Bodies(Rest) = Bodies(stack)
    <3>1. IsStack(Rest) /\ Bodies(Rest) = Bodies(stack) \ {Len(stack)}
      BY <2>3, Popped DEF Rest
    <3>2. Len(stack) \notin Bodies(stack)
      BY <1>1, <2>3 DEF Bodies
    <3> QED
      BY <3>1, <3>2
  <2> DEFINE s1 == Append(Rest, f)
             s2 == Append(s1, g)
  <2>5. IsStack(s1) /\ Bodies(s1) = Bodies(stack) /\ Len(s1) = Len(stack)
    BY <2>2, <2>3, <2>4, Pushed DEF Place
  <2>6. IsStack(s2) /\ Bodies(s2) = Bodies(stack) \cup {Len(stack) + 1}
    <3> HIDE DEF s1
    <3> QED
      BY <2>2, <2>5, Pushed
  <2>7. IsStack(stack') /\ Bodies(stack') = Bodies(stack) \cup {Len(stack) + 1}
    <3>1. stack' = Append(s2, h)
      BY <2>1, <2>4, AppendedTogether DEF IsStack
    <3> HIDE DEF s2
    <3> QED
      BY <2>2, <2>6, <3>1, Pushed DEF Place
  <2>8. Len(stack) + 1 \notin Bodies(stack)
    BY <2>3 DEF Bodies, IsStack
  <2>9. Cardinality(Bodies(stack')) = Cardinality(Bodies(stack)) + 1
    BY <2>3, <2>7, <2>8, BodiesFinite, FS_AddElement
  <2>10. (\E S : scopes' \in Seq(S)) /\ Len(scopes') = Len(scopes) + 1 /\ Len(scopes) \in Nat
    <3>1. PICK S : scopes \in Seq(S)
      BY DEF CallsInv
    <3> DEFINE T == S \cup {scope}
    <3>2. scopes \in Seq(T) /\ scope \in T
      BY <3>1
    <3> HIDE DEF T
    <3> QED
      BY <2>1, <3>2
  <2>11. Calls = Bodies(stack) /\ Calls' = Bodies(stack')
    BY DEF Calls, Bodies
  <2>12. /\ current_recursion_depth \in Nat /\ MAX_RECURSION_DEPTH \in Nat
         /\ current_recursion_depth = Cardinality(Bodies(stack))
         /\ Len(scopes) = 1 + Cardinality(Bodies(stack))
    BY <2>11, MaxDepthAssumption DEF CallsInv, CallsBalance
  <2>13. CallsBalance'
    BY <2>1, <2>9, <2>10, <2>11, <2>12 DEF CallsBalance
  <2> QED
    BY <2>1, <2>7, <2>10, <2>12, <2>13 DEF CallsInv
<1> QED
  BY <1>2, <1>3

LEMMA LeaveCalls == ASSUME CallsInv, LeaveBody PROVE CallsInv'
<1>1. /\ Running /\ Top.at = "body" /\ stack' = Rest /\ scopes' = Front(scopes)
      /\ current_recursion_depth' = current_recursion_depth - 1
  BY DEF LeaveBody, At, Return, DepthAfter
<1>2. /\ IsStack(stack) /\ stack # << >>
      /\ Top = stack[Len(stack)] /\ Len(stack) \in DOMAIN stack
  BY <1>1, FrontFacts DEF CallsInv, Running, IsStack, Top
<1>3. IsStack(stack') /\ Bodies(stack') = Bodies(stack) \ {Len(stack)}
  BY <1>1, <1>2, Popped DEF Rest
<1>4. Len(stack) \in Bodies(stack)
  BY <1>1, <1>2 DEF Bodies
<1>5. /\ Cardinality(Bodies(stack')) = Cardinality(Bodies(stack)) - 1
      /\ Cardinality(Bodies(stack)) \in Nat /\ Cardinality(Bodies(stack')) \in Nat
  BY <1>2, <1>3, <1>4, BodiesFinite, FS_RemoveElement
<1>6. Calls = Bodies(stack) /\ Calls' = Bodies(stack')
  BY DEF Calls, Bodies
<1>7. /\ current_recursion_depth \in Nat /\ MAX_RECURSION_DEPTH \in Nat
      /\ current_recursion_depth = Cardinality(Bodies(stack))
      /\ Len(scopes) = 1 + Cardinality(Bodies(stack))
      /\ current_recursion_depth <= MAX_RECURSION_DEPTH
  BY <1>6, MaxDepthAssumption DEF CallsInv, CallsBalance
<1>8. (\E S : scopes' \in Seq(S)) /\ Len(scopes') = Len(scopes) - 1
  <2>1. scopes # << >>
    BY <1>5, <1>7
  <2> QED
    BY <1>1, <2>1, FrontFacts DEF CallsInv
<1>9. CallsBalance'
  BY <1>1, <1>5, <1>6, <1>7, <1>8 DEF CallsBalance
<1>10. current_recursion_depth' \in Nat
  BY <1>1, <1>5, <1>7
<1> QED
  BY <1>3, <1>8, <1>9, <1>10 DEF CallsInv

-----------------------------------------------------------------------------
LEMMA TopHasPlace ==
  ASSUME CallsInv, Running PROVE "at" \in DOMAIN Top
<1>1. Len(stack) \in DOMAIN stack /\ Top = stack[Len(stack)]
  BY FrontFacts DEF CallsInv, Running, IsStack, Top
<1> QED
  BY <1>1 DEF CallsInv, IsStack

LEMMA StepCalls == ASSUME CallsInv, Step PROVE CallsInv'
<1> USE DEF At, AtExpr, NoCalls
<1>1. CASE LiteralStep
  BY <1>1, Moved DEF LiteralStep
<1>2. CASE Identifier
  <2>1. ASSUME NEW n PROVE Place(Eval(n))
    BY DEF Place, Eval
  <2> QED
    BY <1>2, <2>1, Moved DEF Identifier
<1>3. CASE Binary
  <2>1. Place([at |-> "left", node |-> Top.node])
    BY DEF Place
  <2> QED
    BY <1>3, <2>1, Moved DEF Binary
<1>4. CASE Left
  <2>1. Place([at |-> "right", op |-> Top.node.op, left |-> result])
    BY DEF Place
  <2> QED
    BY <1>4, <2>1, Moved DEF Left
<1>5. CASE Right
  BY <1>5, Moved DEF Right
<1>6. CASE Unary
  <2>1. Place([at |-> "operand", op |-> Top.node.op])
    BY DEF Place
  <2> QED
    BY <1>6, <2>1, Moved DEF Unary
<1>7. CASE Operand
  BY <1>7, Moved DEF Operand
<1>8. CASE Call
  <2>1. ASSUME NEW func PROVE Place([at |-> "args", func |-> func, args |-> Top.node.args, done |-> << >>])
    BY DEF Place
  <2> QED
    BY <1>8, <2>1, Moved DEF Call
<1>9. CASE Argument
  <2>1. Running /\ Top.at = "args"
    BY <1>9 DEF Argument
  <2>2. Place(Top)
    BY <2>1, TopHasPlace DEF Place
  <2> QED
    BY <1>9, <2>1, <2>2, Moved DEF Argument
<1>10. CASE ArgumentDone
  <2>1. Running /\ Top.at = "args"
    BY <1>10 DEF ArgumentDone
  <2>2. ASSUME NEW d PROVE Place([Top EXCEPT !.done = d])
    BY <2>1, TopHasPlace DEF Place
  <2> QED
    BY <1>10, <2>1, <2>2, Moved DEF ArgumentDone
<1>11. CASE Enter
  BY <1>11, EnterCalls
<1>12. CASE Block
  <2>1. Running /\ Top.at = "block"
    BY <1>12 DEF Block
  <2>2. ASSUME NEW d PROVE Place([Top EXCEPT !.rest = d])
    BY <2>1, TopHasPlace DEF Place
  <2>3. ASSUME NEW n PROVE Place(Eval(n))
    BY DEF Place, Eval
  <2>4. ASSUME NEW c, NEW r PROVE Place([at |-> "cond", stmt |-> c, rest |-> r])
    BY DEF Place
  <2> QED
    BY <1>12, <2>1, <2>2, <2>3, <2>4, Moved DEF Block
<1>13. CASE Condition
  <2>1. /\ Running /\ Top.at = "cond"
        /\ scopes' = scopes /\ current_recursion_depth' = current_recursion_depth
    BY <1>13 DEF Condition
  <2>2. ASSUME NEW r PROVE Place([at |-> "block", rest |-> r])
    BY DEF Place
  <2>3. CASE result.kind # "bool"
    BY <1>13, <2>1, <2>3, Moved DEF Condition
  <2>4. CASE result.kind = "bool"
    BY <1>13, <2>1, <2>2, <2>4, SameCalls DEF Condition
  <2> QED
    BY <2>3, <2>4
<1>14. CASE NestedDone
  <2>1. Running /\ Top.at = "block"
    BY <1>14 DEF NestedDone
  <2>2. Place(Top)
    BY <2>1, TopHasPlace DEF Place
  <2> QED
    BY <1>14, <2>1, <2>2, Moved DEF NestedDone
<1>15. CASE LeaveBody
  BY <1>15, LeaveCalls
<1>16. CASE CallDone
  BY <1>16, Moved DEF CallDone
<1> QED
  BY <1>1, <1>2, <1>3, <1>4, <1>5, <1>6, <1>7, <1>8, <1>9, <1>10, <1>11, <1>12, <1>13,
     <1>14, <1>15, <1>16 DEF Step

LEMMA NextCalls == CallsInv /\ [Next]_vars => CallsInv'
<1> SUFFICES ASSUME CallsInv, [Next]_vars PROVE CallsInv'
  OBVIOUS
<1>1. CASE Evaluate
  BY <1>1, EvaluateCalls
<1>2. CASE Step
  BY <1>2, StepCalls
<1>3. CASE UNCHANGED vars
  <2>1. stack' = stack /\ scopes' = scopes /\ current_recursion_depth' = current_recursion_depth
    BY <1>3 DEF vars
  <2>2. Calls' = Calls
    BY <2>1 DEF Calls
  <2> QED
    BY <2>1, <2>2 DEF CallsInv, CallsBalance
<1> QED
  BY <1>1, <1>2, <1>3 DEF Next

(***************************************************************************)
(* The counter of the recursion and the chain of symbol tables follow the  *)
(* calls that are open, on every way out of a call, and the counter never  *)
(* passes its limit: for any programs, any limit and any nesting.          *)
(***************************************************************************)
THEOREM CallsAlwaysBalance == Spec => []CallsBalance
<1>1. CallsInv => CallsBalance
  BY DEF CallsInv
<1> QED
  BY <1>1, InitCalls, NextCalls, PTL DEF Spec

-----------------------------------------------------------------------------
(***************************************************************************)
(* The types of results.                                                   *)
(***************************************************************************)
LEMMA TruthFits == ASSUME NEW b PROVE IsValueOf(Truth(b), "bool") /\ Truth(b) # Null
<1>1. Truth(b).kind = "bool" /\ Truth(b).n \in {0, 1} /\ Null.kind = "null"
  BY DEF Truth, Value, Null
<1> QED
  BY <1>1 DEF IsValueOf, IsIntegerType

LEMMA ComparedFits ==
  ASSUME NEW op \in Comparisons, NEW c
  PROVE  IsValueOf(Compared(op, c), "bool") /\ Compared(op, c) # Null
BY TruthFits DEF Compared, Comparisons

LEMMA NumbersComparedFit ==
  ASSUME NEW op \in Comparisons, NEW l, NEW r
  PROVE  IsValueOf(ComparedNumbers(op, l, r), "bool") /\ ComparedNumbers(op, l, r) # Null
BY TruthFits, ComparedFits DEF ComparedNumbers

LEMMA WiderIsNumeric ==
  ASSUME NEW l, NEW r PROVE Wider(l, r) \in {"i32", "i64", "f32", "f64"}
BY DEF Wider

LEMMA ArithmeticFits ==
  ASSUME NEW op, NEW l, NEW r, GetBinaryOpType(op, l.kind, r.kind) # "bool",
         GetBinaryOpType(op, l.kind, r.kind) # "null"
  PROVE  /\ IsValueOf(ArithmeticValue(op, l, r), GetBinaryOpType(op, l.kind, r.kind))
         /\ ArithmeticValue(op, l, r) # Null
<1> DEFINE t == GetBinaryOpType(op, l.kind, r.kind)
           x == ArithmeticValue(op, l, r)
<1>1. Null.kind = "null" /\ \A k, n, d, text : Value(k, n, d, text).kind = k
  BY DEF Null, Value
<1>2. x.kind = t
  BY <1>1 DEF ArithmeticValue
<1>3. IsIntegerType(t) => x.d = 1
  BY DEF ArithmeticValue, Value
<1> HIDE DEF t, x
<1>4. IsValueOf(x, t) /\ x # Null
  BY <1>1, <1>2, <1>3 DEF IsValueOf, t
<1> QED
  BY <1>4 DEF t, x

\* The answer of an operation is a value of type t, or a refusal that is allowed.
Answers(x, op, l, r) ==
  IF x = Null THEN MayRefuse(op, l, r) ELSE IsValueOf(x, GetBinaryOpType(op, l.kind, r.kind))

LEMMA TruthsAnswer ==
  ASSUME NEW op, NEW l, NEW r, l.kind = "bool", r.kind = "bool"
  PROVE  Answers(BinaryOp(op, l, r), op, l, r)
<1>1. CASE op \in {"and", "or", "==", "!="}
  <2>1. GetBinaryOpType(op, l.kind, r.kind) = "bool"
    BY <1>1 DEF GetBinaryOpType, Arithmetic, Comparisons, Logical
  <2>2. IsValueOf(BinaryOp(op, l, r), "bool") /\ BinaryOp(op, l, r) # Null
    BY <1>1, TruthFits, ComparedFits DEF BinaryOp, Comparisons
  <2> QED
    BY <2>1, <2>2 DEF Answers
<1>2. CASE op \notin {"and", "or", "==", "!="}
  <2>1. BinaryOp(op, l, r) = Null
    BY <1>2 DEF BinaryOp
  <2>2. op \in {"<", "<=", ">", ">=", "xor"} \/ GetBinaryOpType(op, l.kind, r.kind) = "error"
    BY <1>2 DEF GetBinaryOpType, Comparisons, Logical, IsNumericType, IsIntegerType, IsFloatType
  <2> QED
    BY <2>1, <2>2 DEF Answers, MayRefuse
<1> QED
  BY <1>1, <1>2

LEMMA NumbersAnswer ==
  ASSUME NEW op, NEW l, NEW r, IsNumericType(l.kind), IsNumericType(r.kind)
  PROVE  Answers(BinaryOp(op, l, r), op, l, r)
<1>1. l.kind \notin {"bool", "string"} /\ r.kind \notin {"bool", "string"}
  BY DEF IsNumericType, IsIntegerType, IsFloatType
<1>2. CASE op \in Comparisons
  <2>1. BinaryOp(op, l, r) = ComparedNumbers(op, l, r)
    BY <1>1, <1>2 DEF BinaryOp, Comparisons, Arithmetic
  <2>2. GetBinaryOpType(op, l.kind, r.kind) = "bool"
    BY <1>1, <1>2 DEF GetBinaryOpType, Arithmetic, Comparisons, Logical
  <2> QED
    BY <1>2, <2>1, <2>2, NumbersComparedFit DEF Answers
<1>3. CASE op \in {"/", "%"} /\ IsZero(r)
  <2>1. BinaryOp(op, l, r) = Null
    BY <1>1, <1>3 DEF BinaryOp, Comparisons, Arithmetic
  <2> QED
    BY <1>3, <2>1 DEF Answers, MayRefuse
<1>4. CASE op \in Arithmetic /\ ~ (op \in {"/", "%"} /\ IsZero(r))
  <2>1. BinaryOp(op, l, r) = ArithmeticValue(op, l, r)
    BY <1>1, <1>4 DEF BinaryOp, Comparisons, Arithmetic
  <2>2. GetBinaryOpType(op, l.kind, r.kind) = Wider(l.kind, r.kind)
    BY <1>1, <1>4 DEF GetBinaryOpType, Comparisons, Logical, Arithmetic
  <2>3. GetBinaryOpType(op, l.kind, r.kind) \notin {"bool", "null"}
    BY <2>2, WiderIsNumeric
  <2> QED
    BY <2>1, <2>3, ArithmeticFits DEF Answers
<1>5. CASE op \notin Comparisons \cup Arithmetic
  <2>1. BinaryOp(op, l, r) = Value("error", 0, 1, "")
    BY <1>1, <1>5 DEF BinaryOp, Arithmetic
  <2>2. GetBinaryOpType(op, l.kind, r.kind) = "error"
    BY <1>1, <1>5 DEF GetBinaryOpType, Arithmetic
  <2>3. Value("error", 0, 1, "").kind = "error" /\ Null.kind = "null"
    BY DEF Value, Null
  <2> QED
    BY <2>1, <2>2, <2>3 DEF Answers, IsValueOf, IsIntegerType
<1> QED
  BY <1>2, <1>3, <1>4, <1>5

LEMMA TextsJoined ==
  ASSUME NEW l, NEW r, l.kind = "string", r.kind = "string"
  PROVE  BinaryOp("+", l, r) = Str(l.text \o r.text)
<1> DEFINE x == Str(l.text \o r.text)
           y == Compared("+", Strcmp(l.text, r.text))
<1>1. ~ IsNumericType(l.kind) /\ l.kind # "bool"
  BY DEF IsNumericType, IsIntegerType, IsFloatType
<1>2. BinaryOp("+", l, r) = CASE "+" = "+" -> x [] "+" \in Comparisons -> y [] OTHER -> Null
  BY <1>1, Zenon DEF BinaryOp
<1>3. "+" \notin Comparisons
  BY DEF Comparisons
<1> HIDE DEF x, y
<1>4. BinaryOp("+", l, r) = x
  BY <1>2, <1>3
<1> QED
  BY <1>4 DEF x

LEMMA TextsAnswer ==
  ASSUME NEW op, NEW l, NEW r, l.kind = "string", r.kind = "string"
  PROVE  Answers(BinaryOp(op, l, r), op, l, r)
<1>1. ~ IsNumericType(l.kind)
  BY DEF IsNumericType, IsIntegerType, IsFloatType
<1>2. CASE op = "+"
  <2> DEFINE x == Str(l.text \o r.text)
  <2>1. BinaryOp(op, l, r) = x
    BY <1>2, TextsJoined
  <2>2. GetBinaryOpType(op, l.kind, r.kind) = "string"
    BY <1>1, <1>2 DEF GetBinaryOpType, Comparisons, Logical
  <2>3. x.kind = "string" /\ Null.kind = "null"
    BY DEF Str, Value, Null
  <2> HIDE DEF x
  <2> QED
    BY <2>1, <2>2, <2>3 DEF Answers, IsValueOf, IsIntegerType
<1>3. CASE op \in Comparisons
  <2>1. BinaryOp(op, l, r) = Compared(op, Strcmp(l.text, r.text))
    BY <1>1, <1>3 DEF BinaryOp, Comparisons
  <2>2. GetBinaryOpType(op, l.kind, r.kind) = "bool"
    BY <1>3 DEF GetBinaryOpType, Arithmetic, Comparisons, Logical
  <2> QED
    BY <1>3, <2>1, <2>2, ComparedFits DEF Answers
<1>4. CASE op \notin Comparisons \cup {"+"}
  <2>1. BinaryOp(op, l, r) = Null
    BY <1>1, <1>4 DEF BinaryOp
  <2>2. GetBinaryOpType(op, l.kind, r.kind) = "error"
    BY <1>1, <1>4 DEF GetBinaryOpType
  <2> QED
    BY <2>1, <2>2 DEF Answers, MayRefuse
<1> QED
  BY <1>2, <1>3, <1>4

LEMMA OthersAnswer ==
  ASSUME NEW op, NEW l, NEW r, ~ (l.kind = "bool" /\ r.kind = "bool"),
         ~ (IsNumericType(l.kind) /\ IsNumericType(r.kind)),
         ~ (l.kind = "string" /\ r.kind = "string")
  PROVE  Answers(BinaryOp(op, l, r), op, l, r)
<1>1. BinaryOp(op, l, r) = Null
  BY DEF BinaryOp
<1>2. CASE op = "+" /\ "string" \in {l.kind, r.kind}
  BY <1>1, <1>2 DEF Answers, MayRefuse
<1>3. CASE l.kind = r.kind
  <2>1. l.kind \notin {"i32", "i64", "f32", "f64", "bool", "string"}
    BY <1>3 DEF IsNumericType, IsIntegerType, IsFloatType
  <2> QED
    BY <1>1, <2>1 DEF Answers, MayRefuse
<1>4. CASE l.kind # r.kind /\ ~ (op = "+" /\ "string" \in {l.kind, r.kind})
  <2>1. GetBinaryOpType(op, l.kind, r.kind) = "error"
    BY <1>4 DEF GetBinaryOpType
  <2> QED
    BY <1>1, <2>1 DEF Answers, MayRefuse
<1> QED
  BY <1>2, <1>3, <1>4

LEMMA OperatorsAnswer ==
  ASSUME NEW op, NEW l, NEW r PROVE Answers(BinaryOp(op, l, r), op, l, r)
BY TruthsAnswer, NumbersAnswer, TextsAnswer, OthersAnswer

\* A value of its own type.
Pure(x) == IsValueOf(x, x.kind)

LEMMA UnaryAnswers ==
  ASSUME NEW op, NEW x, Pure(x)
  PROVE  IF UnaryOp(op, x) = Null THEN op = "+" \/ GetUnaryOpType(op, x.kind) = "error"
         ELSE IsValueOf(UnaryOp(op, x), GetUnaryOpType(op, x.kind))
<1>1. CASE op = "-" /\ IsNumericType(x.kind)
  <2> DEFINE y == Value(x.kind, -x.n, x.d, "")
  <2>1. UnaryOp(op, x) = y /\ GetUnaryOpType(op, x.kind) = x.kind
    BY <1>1 DEF UnaryOp, GetUnaryOpType
  <2>2. y.kind = x.kind /\ y.d = x.d /\ Null.kind = "null"
    BY DEF Value, Null
  <2>3. x.kind \notin {"bool", "null"}
    BY <1>1 DEF IsNumericType, IsIntegerType, IsFloatType
  <2> HIDE DEF y
  <2> QED
    BY <2>1, <2>2, <2>3 DEF Pure, IsValueOf
<1>2. CASE op = "not" /\ x.kind = "bool"
  BY <1>2, TruthFits DEF UnaryOp, GetUnaryOpType
<1>3. CASE ~ (op = "-" /\ IsNumericType(x.kind)) /\ ~ (op = "not" /\ x.kind = "bool")
  <2>1. UnaryOp(op, x) = Null
    BY <1>3 DEF UnaryOp
  <2>2. op = "+" \/ GetUnaryOpType(op, x.kind) = "error"
    BY <1>3 DEF GetUnaryOpType
  <2> QED
    BY <2>1, <2>2
<1> QED
  BY <1>1, <1>2, <1>3

-----------------------------------------------------------------------------
(***************************************************************************)
(* The literals made for arguments.  What is true of a stack is stated of  *)
(* any stack, so that a step is what its pop does and what each of its     *)
(* pushes does.                                                            *)
(***************************************************************************)
IsSeq(s) == \E S : s \in Seq(S)

\* s is r with one element more.
PushedOn(r, f, s) ==
  /\ IsSeq(r) /\ IsSeq(s) /\ Len(s) = Len(r) + 1 /\ s[Len(r) + 1] = f
  /\ \A k \in 1..Len(r) : s[k] = r[k]

\* The literals that a frame has to free.
Held(f) == IF f.at \in {"args", "call"} THEN Freed(f.done) ELSE {}

Owned(st, lits) ==
  /\ IsFiniteSet(lits)
  /\ \A id : id \in lits <=> \E k \in DOMAIN st : id \in Held(st[k])
  /\ \A j, k \in DOMAIN st : j # k => Held(st[j]) \cap Held(st[k]) = {}

LEMMA PushedFacts ==
  ASSUME NEW r, NEW f, NEW s, PushedOn(r, f, s)
  PROVE  /\ Len(r) \in Nat /\ Len(s) = Len(r) + 1
         /\ DOMAIN r = 1..Len(r) /\ DOMAIN s = 1..(Len(r) + 1)
         /\ \A k \in DOMAIN s : (k \in DOMAIN r /\ s[k] = r[k]) \/ (k = Len(r) + 1 /\ s[k] = f)
         /\ \A k \in DOMAIN r : k \in DOMAIN s /\ s[k] = r[k] /\ k # Len(r) + 1
         /\ Len(r) + 1 \in DOMAIN s /\ s[Len(r) + 1] = f
<1>1. /\ Len(r) \in Nat /\ DOMAIN r = 1..Len(r) /\ DOMAIN s = 1..Len(s)
      /\ Len(s) = Len(r) + 1 /\ s[Len(r) + 1] = f /\ \A k \in 1..Len(r) : s[k] = r[k]
  BY DEF PushedOn, IsSeq
<1>2. \A k \in 1..(Len(r) + 1) : k \in 1..Len(r) \/ k = Len(r) + 1
  BY <1>1
<1>3. \A k \in 1..Len(r) : k \in 1..(Len(r) + 1) /\ k # Len(r) + 1
  BY <1>1
<1>4. Len(r) + 1 \in 1..(Len(r) + 1)
  BY <1>1
<1> QED
  BY <1>1, <1>2, <1>3, <1>4

LEMMA AppendPushes ==
  ASSUME NEW r, IsSeq(r), NEW f
  PROVE  PushedOn(r, f, Append(r, f)) /\ IsSeq(Append(r, f))
<1>1. PICK S : r \in Seq(S)
  BY DEF IsSeq
<1> DEFINE T == S \cup {f}
           s == Append(r, f)
<1>2. r \in Seq(T) /\ f \in T
  BY <1>1
<1> HIDE DEF T
<1>3. /\ s \in Seq(T) /\ Len(s) = Len(r) + 1 /\ s[Len(r) + 1] = f
      /\ \A k \in 1..Len(r) : s[k] = r[k]
  BY <1>2
<1> HIDE DEF s
<1>4. IsSeq(s)
  BY <1>3 DEF IsSeq
<1>5. PushedOn(r, f, s)
  BY <1>3, <1>4 DEF PushedOn
<1> QED
  BY <1>4, <1>5 DEF s

LEMMA LastPushed ==
  ASSUME NEW s, IsSeq(s), s # << >>
  PROVE  PushedOn(Front(s), Last(s), s)
<1>1. /\ IsSeq(Front(s)) /\ Len(s) \in Nat /\ Len(s) > 0
      /\ Len(Front(s)) = Len(s) - 1
      /\ \A k \in 1..(Len(s) - 1) : Front(s)[k] = s[k]
      /\ Last(s) = s[Len(s)]
  BY FrontFacts DEF IsSeq
<1>2. (Len(s) - 1) + 1 = Len(s)
  BY <1>1
<1> QED
  BY <1>1, <1>2 DEF PushedOn

LEMMA OwnedPop ==
  ASSUME NEW r, NEW f, NEW s, PushedOn(r, f, s), NEW lits, Owned(s, lits)
  PROVE  Owned(r, lits \ Held(f)) /\ Held(f) \subseteq lits /\ IsFiniteSet(Held(f))
<1>1. Held(f) \subseteq lits
  BY PushedFacts DEF Owned
<1>2. IsFiniteSet(lits \ Held(f)) /\ IsFiniteSet(Held(f))
  BY <1>1, FS_Difference, FS_Subset DEF Owned
<1>3. ASSUME NEW k \in DOMAIN r
      PROVE  Held(r[k]) \cap Held(f) = {} /\ Held(r[k]) \subseteq lits
  <2>1. /\ k \in DOMAIN s /\ s[k] = r[k] /\ k # Len(r) + 1
        /\ Len(r) + 1 \in DOMAIN s /\ s[Len(r) + 1] = f
    BY PushedFacts
  <2>2. Held(s[k]) \cap Held(s[Len(r) + 1]) = {}
    BY <2>1 DEF Owned
  <2>3. \A id \in Held(s[k]) : id \in lits
    BY <2>1 DEF Owned
  <2> QED
    BY <2>1, <2>2, <2>3
<1>4. ASSUME NEW id
      PROVE  id \in lits \ Held(f) <=> \E k \in DOMAIN r : id \in Held(r[k])
  <2>1. ASSUME id \in lits \ Held(f) PROVE \E k \in DOMAIN r : id \in Held(r[k])
    <3>1. PICK k \in DOMAIN s : id \in Held(s[k])
      BY <2>1 DEF Owned
    <3>2. (k \in DOMAIN r /\ s[k] = r[k]) \/ s[k] = f
      BY PushedFacts
    <3> QED
      BY <2>1, <3>1, <3>2
  <2>2. ASSUME NEW k \in DOMAIN r, id \in Held(r[k]) PROVE id \in lits \ Held(f)
    BY <1>3, <2>2
  <2> QED
    BY <2>1, <2>2
<1>5. ASSUME NEW j \in DOMAIN r, NEW k \in DOMAIN r, j # k
      PROVE  Held(r[j]) \cap Held(r[k]) = {}
  <2>1. j \in DOMAIN s /\ k \in DOMAIN s /\ s[j] = r[j] /\ s[k] = r[k]
    BY PushedFacts
  <2>2. Held(s[j]) \cap Held(s[k]) = {}
    BY <1>5, <2>1 DEF Owned
  <2> QED
    BY <2>1, <2>2
<1> QED
  BY <1>1, <1>2, <1>4, <1>5 DEF Owned

LEMMA OwnedPush ==
  ASSUME NEW r, NEW f, NEW s, PushedOn(r, f, s), NEW lits, Owned(r, lits),
         IsFiniteSet(Held(f)), Held(f) \cap lits = {}
  PROVE  Owned(s, lits \cup Held(f))
<1>1. IsFiniteSet(lits \cup Held(f))
  BY FS_Union DEF Owned
<1>2. ASSUME NEW k \in DOMAIN r
      PROVE  Held(r[k]) \cap Held(f) = {} /\ Held(r[k]) \subseteq lits
  BY DEF Owned
<1>3. ASSUME NEW id
      PROVE  id \in lits \cup Held(f) <=> \E k \in DOMAIN s : id \in Held(s[k])
  <2>1. ASSUME id \in lits PROVE \E k \in DOMAIN s : id \in Held(s[k])
    <3>1. PICK k \in DOMAIN r : id \in Held(r[k])
      BY <2>1 DEF Owned
    <3>2. k \in DOMAIN s /\ s[k] = r[k]
      BY PushedFacts
    <3> QED
      BY <3>1, <3>2
  <2>2. ASSUME id \in Held(f) PROVE \E k \in DOMAIN s : id \in Held(s[k])
    BY <2>2, PushedFacts
  <2>3. ASSUME NEW k \in DOMAIN s, id \in Held(s[k]) PROVE id \in lits \cup Held(f)
    <3>1. (k \in DOMAIN r /\ s[k] = r[k]) \/ s[k] = f
      BY PushedFacts
    <3> QED
      BY <1>2, <2>3, <3>1
  <2> QED
    BY <2>1, <2>2, <2>3
<1>4. ASSUME NEW j \in DOMAIN s, NEW k \in DOMAIN s, j # k
      PROVE  Held(s[j]) \cap Held(s[k]) = {}
  <2>1. /\ (j \in DOMAIN r /\ s[j] = r[j]) \/ (j = Len(r) + 1 /\ s[j] = f)
        /\ (k \in DOMAIN r /\ s[k] = r[k]) \/ (k = Len(r) + 1 /\ s[k] = f)
    BY PushedFacts
  <2>2. CASE j \in DOMAIN r /\ s[j] = r[j] /\ k \in DOMAIN r /\ s[k] = r[k]
    BY <1>4, <2>2 DEF Owned
  <2>3. CASE j \in DOMAIN r /\ s[j] = r[j] /\ s[k] = f
    BY <1>2, <2>3
  <2>4. CASE k \in DOMAIN r /\ s[k] = r[k] /\ s[j] = f
    BY <1>2, <2>4
  <2> QED
    BY <1>4, <2>1, <2>2, <2>3, <2>4
<1> QED
  BY <1>1, <1>3, <1>4 DEF Owned

\* What a frame needs to go on.
Formed(f) ==
  /\ f.at = "left" => f.node \in Nodes /\ f.node.kind = "binary"
  /\ f.at = "args" => /\ {"func", "args", "done"} \subseteq DOMAIN f
                      /\ f.args \in Seq(Nodes) /\ f.func.body \in Seq(Statements)
                      /\ IsSeq(f.done)
  /\ f.at = "block" => "rest" \in DOMAIN f /\ f.rest \in Seq(Statements)
  /\ f.at = "cond" => /\ f.rest \in Seq(Statements)
                      /\ f.stmt \in Statements /\ f.stmt.kind = "if"

\* The frame under a body is the call it is the body of.
Placed(st) ==
  \A k \in DOMAIN st :
    Formed(st[k]) /\ (st[k].at = "body" => k > 1 /\ st[k - 1].at = "call")

\* The bodies under the p-th frame.
Below(st, p) == Cardinality({q \in Bodies(st) : q < p})

\* The table that was made for a body has the literals that its call holds.
IsTableOf(table, st, p) ==
  /\ IsSeq(table)
  /\ \A j \in DOMAIN table :
       /\ table[j].node.kind = "const" /\ table[j].node.init.kind = "literal"
       /\ table[j].node.init.id \in Freed(st[p - 1].done)

Tabled(st, sc) ==
  \A k \in 2..Len(sc) :
    \E p \in Bodies(st) : Below(st, p) = k - 2 /\ IsTableOf(sc[k], st, p)

\* An expression of the source, or a literal that is allocated.
Denotes(node, lits) ==
  node \in Nodes \/ (node.kind = "literal" /\ node.id \in lits)

\* Nothing is about to be evaluated.
Calm(st) == \A k \in DOMAIN st : st[k].at # "expr"

Good(st, sc, lits) ==
  /\ IsSeq(st) /\ Owned(st, lits) /\ Placed(st) /\ Tabled(st, sc)
  /\ \A k \in 1..(Len(st) - 1) : st[k].at # "expr"
  /\ \A k \in DOMAIN st : st[k].at = "expr" => Denotes(st[k].node, lits)

\* Bodies of r are those of s below its last frame.
LEMMA BodiesBelow ==
  ASSUME NEW r, NEW f, NEW s, PushedOn(r, f, s)
  PROVE  /\ \A p \in Bodies(r) : p \in Bodies(s) /\ p < Len(s) /\ s[p] = r[p]
         /\ \A p \in Bodies(s) : p \in Bodies(r) \/ (p = Len(s) /\ f.at = "body")
         /\ \A p \in 1..Len(s) : Below(s, p) = Below(r, p)
         /\ Below(s, Len(s)) = Cardinality(Bodies(r))
<1>1. /\ Len(r) \in Nat /\ Len(s) = Len(r) + 1 /\ DOMAIN r = 1..Len(r)
      /\ \A k \in DOMAIN s : (k \in DOMAIN r /\ s[k] = r[k]) \/ (k = Len(r) + 1 /\ s[k] = f)
      /\ \A k \in DOMAIN r : k \in DOMAIN s /\ s[k] = r[k]
  BY PushedFacts
<1>2. \A p \in Bodies(r) : p \in Bodies(s) /\ p < Len(s) /\ s[p] = r[p]
  BY <1>1 DEF Bodies
<1>3. \A p \in Bodies(s) : p \in Bodies(r) \/ (p = Len(s) /\ f.at = "body")
  BY <1>1 DEF Bodies
<1>4. ASSUME NEW p \in 1..Len(s) PROVE Below(s, p) = Below(r, p)
  <2>1. {q \in Bodies(s) : q < p} = {q \in Bodies(r) : q < p}
    BY <1>1, <1>2, <1>3
  <2> QED
    BY <2>1 DEF Below
<1>5. Below(s, Len(s)) = Cardinality(Bodies(r))
  <2>1. {q \in Bodies(s) : q < Len(s)} = Bodies(r)
    BY <1>1, <1>2, <1>3
  <2> QED
    BY <2>1 DEF Below
<1> QED
  BY <1>2, <1>3, <1>4, <1>5

LEMMA SameBodies ==
  ASSUME NEW r, NEW f, NEW s, PushedOn(r, f, s), f.at # "body"
  PROVE  Bodies(s) = Bodies(r)
<1>1. \A p \in Bodies(r) : p \in Bodies(s)
  BY BodiesBelow
<1>2. \A p \in Bodies(s) : p \in Bodies(r)
  BY BodiesBelow
<1> QED
  BY <1>1, <1>2

\* A table stays that of its body while frames above it come and go.
LEMMA TableKept ==
  ASSUME NEW r, NEW f, NEW s, PushedOn(r, f, s), Placed(s) \/ Placed(r),
         NEW p \in Bodies(r), NEW table
  PROVE  IsTableOf(table, r, p) <=> IsTableOf(table, s, p)
<1>1. /\ Len(r) \in Nat /\ DOMAIN r = 1..Len(r)
      /\ \A k \in DOMAIN r : k \in DOMAIN s /\ s[k] = r[k]
  BY PushedFacts
<1>2. p \in DOMAIN r /\ r[p].at = "body" /\ p \in DOMAIN s /\ s[p].at = "body"
  BY <1>1 DEF Bodies
<1>3. p > 1
  BY <1>2 DEF Placed
<1>4. r[p - 1] = s[p - 1]
  BY <1>1, <1>2, <1>3
<1> QED
  BY <1>4 DEF IsTableOf

LEMMA GoodPop ==
  ASSUME NEW r, NEW f, NEW s, PushedOn(r, f, s), f.at # "body",
         NEW sc, NEW lits, Good(s, sc, lits)
  PROVE  Good(r, sc, lits \ Held(f)) /\ Calm(r) /\ Held(f) \subseteq lits /\ IsFiniteSet(Held(f))
<1>1. /\ Len(r) \in Nat /\ Len(s) = Len(r) + 1 /\ DOMAIN r = 1..Len(r)
      /\ \A k \in DOMAIN r : k \in DOMAIN s /\ s[k] = r[k]
  BY PushedFacts
<1>2. Owned(r, lits \ Held(f)) /\ Held(f) \subseteq lits /\ IsFiniteSet(Held(f))
  BY OwnedPop DEF Good
<1>3. Calm(r)
  BY <1>1 DEF Good, Calm
<1>4. Placed(r)
  <2> SUFFICES ASSUME NEW k \in DOMAIN r
               PROVE  Formed(r[k]) /\ (r[k].at = "body" => k > 1 /\ r[k - 1].at = "call")
    BY DEF Placed
  <2>1. Formed(s[k]) /\ (s[k].at = "body" => k > 1 /\ s[k - 1].at = "call") /\ s[k] = r[k]
    BY <1>1 DEF Good, Placed
  <2>2. k > 1 => s[k - 1] = r[k - 1]
    BY <1>1
  <2> QED
    BY <2>1, <2>2
<1>5. Tabled(r, sc)
  <2> SUFFICES ASSUME NEW k \in 2..Len(sc)
               PROVE  \E p \in Bodies(r) : Below(r, p) = k - 2 /\ IsTableOf(sc[k], r, p)
    BY DEF Tabled
  <2>1. PICK p \in Bodies(s) : Below(s, p) = k - 2 /\ IsTableOf(sc[k], s, p)
    BY DEF Good, Tabled
  <2>2. p \in Bodies(r)
    BY BodiesBelow
  <2>3. p \in 1..Len(s)
    BY <1>1 DEF Bodies
  <2>4. Below(r, p) = k - 2
    BY <2>1, <2>3, BodiesBelow
  <2>5. IsTableOf(sc[k], r, p)
    BY <2>1, <2>2, <1>4, TableKept
  <2> QED
    BY <2>2, <2>4, <2>5
<1> QED
  BY <1>1, <1>2, <1>3, <1>4, <1>5 DEF Good, Calm, PushedOn

LEMMA PlacedPush ==
  ASSUME NEW r, NEW f, NEW s, PushedOn(r, f, s), Placed(r), Formed(f),
         f.at = "body" => Len(r) > 0 /\ r[Len(r)].at = "call"
  PROVE  Placed(s)
<1>1. /\ Len(r) \in Nat /\ Len(s) = Len(r) + 1 /\ DOMAIN r = 1..Len(r)
      /\ \A k \in DOMAIN s : (k \in DOMAIN r /\ s[k] = r[k]) \/ (k = Len(r) + 1 /\ s[k] = f)
      /\ \A k \in DOMAIN r : s[k] = r[k]
  BY PushedFacts
<1> SUFFICES ASSUME NEW k \in DOMAIN s
             PROVE  Formed(s[k]) /\ (s[k].at = "body" => k > 1 /\ s[k - 1].at = "call")
  BY DEF Placed
<1>2. CASE k \in DOMAIN r /\ s[k] = r[k]
  <2>1. Formed(r[k]) /\ (r[k].at = "body" => k > 1 /\ r[k - 1].at = "call")
    BY <1>2 DEF Placed
  <2>2. k > 1 => s[k - 1] = r[k - 1]
    BY <1>1, <1>2
  <2> QED
    BY <1>2, <2>1, <2>2
<1>3. CASE k = Len(r) + 1 /\ s[k] = f
  <2>1. Len(r) > 0 => s[Len(r)] = r[Len(r)]
    BY <1>1
  <2> QED
    BY <1>1, <1>3, <2>1
<1> QED
  BY <1>1, <1>2, <1>3

LEMMA TabledPush ==
  ASSUME NEW r, NEW f, NEW s, PushedOn(r, f, s), Placed(r), NEW sc, Tabled(r, sc)
  PROVE  Tabled(s, sc)
<1> SUFFICES ASSUME NEW k \in 2..Len(sc)
             PROVE  \E p \in Bodies(s) : Below(s, p) = k - 2 /\ IsTableOf(sc[k], s, p)
  BY DEF Tabled
<1>1. PICK p \in Bodies(r) : Below(r, p) = k - 2 /\ IsTableOf(sc[k], r, p)
  BY DEF Tabled
<1>2. p \in Bodies(s) /\ p \in 1..Len(s)
  BY PushedFacts, BodiesBelow DEF Bodies
<1>3. Below(s, p) = k - 2
  BY <1>1, <1>2, BodiesBelow
<1>4. IsTableOf(sc[k], s, p)
  BY <1>1, TableKept
<1> QED
  BY <1>2, <1>3, <1>4

LEMMA GoodPush ==
  ASSUME NEW r, NEW f, NEW s, PushedOn(r, f, s), NEW sc, NEW lits,
         Good(r, sc, lits), Calm(r), Formed(f), f.at # "body",
         f.at = "expr" => Denotes(f.node, lits),
         IsFiniteSet(Held(f)), Held(f) \cap lits = {}
  PROVE  Good(s, sc, lits \cup Held(f)) /\ (f.at # "expr" => Calm(s))
<1>1. /\ Len(r) \in Nat /\ Len(s) = Len(r) + 1 /\ DOMAIN r = 1..Len(r)
      /\ \A k \in DOMAIN s : (k \in DOMAIN r /\ s[k] = r[k]) \/ (k = Len(r) + 1 /\ s[k] = f)
      /\ \A k \in DOMAIN r : s[k] = r[k]
  BY PushedFacts
<1>2. Owned(s, lits \cup Held(f))
  BY OwnedPush DEF Good
<1>3. Placed(s) /\ Tabled(s, sc)
  BY PlacedPush, TabledPush DEF Good
<1>4. \A k \in 1..(Len(s) - 1) : s[k].at # "expr"
  BY <1>1 DEF Calm
<1>5. \A k \in DOMAIN s : s[k].at = "expr" => Denotes(s[k].node, lits \cup Held(f))
  BY <1>1 DEF Calm, Denotes
<1>6. f.at # "expr" => Calm(s)
  BY <1>1 DEF Calm
<1> QED
  BY <1>2, <1>3, <1>4, <1>5, <1>6 DEF Good, PushedOn

\* A body begins: its frame and its table are pushed together.
LEMMA GoodEnter ==
  ASSUME NEW r, NEW f, NEW s, PushedOn(r, f, s), f.at = "body",
         Len(r) > 0, r[Len(r)].at = "call",
         NEW sc, NEW table, NEW sd, PushedOn(sc, table, sd),
         Cardinality(Bodies(r)) = Len(sc) - 1, IsTableOf(table, s, Len(s)),
         NEW lits, Good(r, sc, lits), Calm(r)
  PROVE  Good(s, sd, lits) /\ Calm(s)
<1>1. /\ Len(r) \in Nat /\ Len(s) = Len(r) + 1 /\ DOMAIN r = 1..Len(r)
      /\ \A k \in DOMAIN s : (k \in DOMAIN r /\ s[k] = r[k]) \/ (k = Len(r) + 1 /\ s[k] = f)
      /\ \A k \in DOMAIN r : s[k] = r[k]
      /\ Len(r) + 1 \in DOMAIN s /\ s[Len(r) + 1] = f
  BY PushedFacts
<1>2. Held(f) = {} /\ Formed(f)
  BY DEF Held, Formed
<1>3. Owned(s, lits)
  <2>1. Owned(s, lits \cup Held(f))
    BY <1>2, OwnedPush, FS_EmptySet DEF Good
  <2> QED
    BY <1>2, <2>1
<1>4. Placed(s)
  BY <1>2, PlacedPush DEF Good
<1>5. Calm(s)
  BY <1>1 DEF Calm
<1>6. Tabled(s, sd)
  <2> SUFFICES ASSUME NEW k \in 2..Len(sd)
               PROVE  \E p \in Bodies(s) : Below(s, p) = k - 2 /\ IsTableOf(sd[k], s, p)
    BY DEF Tabled
  <2>1. Tabled(s, sc)
    BY TabledPush DEF Good
  <2>2. Len(sc) \in Nat /\ Len(sd) = Len(sc) + 1 /\ DOMAIN sc = 1..Len(sc)
        /\ sd[Len(sc) + 1] = table /\ \A j \in DOMAIN sc : sd[j] = sc[j]
    BY PushedFacts
  <2>3. CASE k \in 2..Len(sc)
    <3>1. sd[k] = sc[k]
      BY <2>2, <2>3
    <3> QED
      BY <2>1, <2>3, <3>1 DEF Tabled
  <2>4. CASE k = Len(sc) + 1
    <3>1. Len(s) \in Bodies(s)
      BY <1>1 DEF Bodies
    <3>2. Below(s, Len(s)) = Cardinality(Bodies(r))
      BY BodiesBelow
    <3>3. Below(s, Len(s)) = k - 2
      BY <2>2, <2>4, <3>2
    <3>4. IsTableOf(sd[k], s, Len(s))
      BY <2>2, <2>4
    <3> QED
      BY <3>1, <3>3, <3>4
  <2> QED
    BY <2>2, <2>3, <2>4
<1> QED
  BY <1>1, <1>3, <1>4, <1>5, <1>6 DEF Good, Calm, PushedOn

\* A body ends: its table is the last one.
LEMMA GoodLeave ==
  ASSUME NEW r, NEW f, NEW s, PushedOn(r, f, s), f.at = "body",
         NEW sd, NEW table, NEW sc, PushedOn(sd, table, sc),
         Cardinality(Bodies(r)) = Len(sd) - 1,
         NEW lits, Good(s, sc, lits)
  PROVE  Good(r, sd, lits) /\ Calm(r)
<1>1. /\ Len(r) \in Nat /\ Len(s) = Len(r) + 1 /\ DOMAIN r = 1..Len(r)
      /\ \A k \in DOMAIN r : k \in DOMAIN s /\ s[k] = r[k]
  BY PushedFacts
<1>2. Owned(r, lits)
  <2>1. Held(f) = {}
    BY DEF Held
  <2>2. Owned(r, lits \ Held(f))
    BY OwnedPop DEF Good
  <2> QED
    BY <2>1, <2>2
<1>3. Calm(r)
  BY <1>1 DEF Good, Calm
<1>4. Placed(r)
  <2> SUFFICES ASSUME NEW k \in DOMAIN r
               PROVE  Formed(r[k]) /\ (r[k].at = "body" => k > 1 /\ r[k - 1].at = "call")
    BY DEF Placed
  <2>1. Formed(s[k]) /\ (s[k].at = "body" => k > 1 /\ s[k - 1].at = "call") /\ s[k] = r[k]
    BY <1>1 DEF Good, Placed
  <2>2. k > 1 => s[k - 1] = r[k - 1]
    BY <1>1
  <2> QED
    BY <2>1, <2>2
<1>5. Tabled(r, sd)
  <2> SUFFICES ASSUME NEW k \in 2..Len(sd)
               PROVE  \E p \in Bodies(r) : Below(r, p) = k - 2 /\ IsTableOf(sd[k], r, p)
    BY DEF Tabled
  <2>1. /\ Len(sd) \in Nat /\ Len(sc) = Len(sd) + 1 /\ DOMAIN sd = 1..Len(sd)
        /\ \A j \in DOMAIN sd : sc[j] = sd[j]
    BY PushedFacts
  <2>2. k \in 2..Len(sc) /\ sc[k] = sd[k]
    BY <2>1
  <2>3. PICK p \in Bodies(s) : Below(s, p) = k - 2 /\ IsTableOf(sd[k], s, p)
    BY <2>2 DEF Good, Tabled
  <2>4. p # Len(s)
    <3>1. Below(s, Len(s)) = Cardinality(Bodies(r))
      BY BodiesBelow
    <3>2. Cardinality(Bodies(r)) # k - 2
      BY <2>1
    <3> QED
      BY <2>3, <3>1, <3>2
  <2>5. p \in Bodies(r)
    BY <2>4, BodiesBelow
  <2>6. p \in 1..Len(s)
    BY <1>1, <2>5 DEF Bodies
  <2>7. Below(r, p) = k - 2
    BY <2>3, <2>6, BodiesBelow
  <2>8. IsTableOf(sd[k], r, p)
    BY <2>3, <2>5, <1>4, TableKept
  <2> QED
    BY <2>5, <2>7, <2>8
<1> QED
  BY <1>1, <1>2, <1>3, <1>4, <1>5 DEF Good, Calm, PushedOn

-----------------------------------------------------------------------------
(***************************************************************************)
(* What a name stands for.                                                 *)
(***************************************************************************)
LEMMA MaxIsIn ==
  ASSUME NEW S, IsFiniteSet(S), S \subseteq Int, S # {}
  PROVE  Max(S) \in S /\ \A y \in S : Max(S) >= y
<1> DEFINE Over(x) == {y \in S : y > x}
           F == {Over(x) : x \in S}
<1>1. IsWellFoundedOn(StrictSubsetOrdering(S), FiniteSubsetsOf(S))
  BY FS_StrictSubsetOrderingWellFounded
<1>2. F \subseteq FiniteSubsetsOf(S) /\ F # {}
  <2>1. \A x : Over(x) \in SUBSET S
    OBVIOUS
  <2>2. \A x : IsFiniteSet(Over(x))
    BY <2>1, FS_Subset
  <2> QED
    BY <2>1, <2>2 DEF FiniteSubsetsOf
<1>3. PICK X \in F : \A Y \in F : ~ (<<Y, X>> \in StrictSubsetOrdering(S))
  <2> HIDE DEF F
  <2> QED
    BY <1>1, <1>2, WFMin
<1>4. PICK x \in S : X = Over(x)
  BY <1>3
<1>5. ASSUME NEW y \in S PROVE x >= y
  <2> SUFFICES ASSUME y > x PROVE FALSE
    OBVIOUS
  <2>1. Over(y) \subseteq Over(x) /\ y \in Over(x) /\ y \notin Over(y)
    <3>1. x \in Int /\ y \in Int
      OBVIOUS
    <3>2. ~ (y > y)
      BY <3>1
    <3>3. ASSUME NEW z \in S, z > y PROVE z > x
      <4>1. z \in Int
        OBVIOUS
      <4> HIDE DEF F, Over
      <4> QED
        BY <3>1, <3>3, <4>1
    <3>4. Over(y) \subseteq Over(x)
      BY <3>3
    <3> QED
      BY <3>2, <3>4
  <2>2. <<Over(y), Over(x)>> \in StrictSubsetOrdering(S)
    <3>1. Over(y) \in SUBSET S /\ Over(x) \in SUBSET S /\ Over(y) # Over(x)
      BY <2>1
    <3> HIDE DEF Over
    <3> QED
      BY <2>1, <3>1 DEF StrictSubsetOrdering
  <2> QED
    BY <1>3, <1>4, <2>2
<1> QED
  BY <1>5 DEF Max

LEMMA MinIsIn ==
  ASSUME NEW S, IsFiniteSet(S), S \subseteq Int, S # {}
  PROVE  Min(S) \in S /\ \A y \in S : Min(S) <= y
<1> DEFINE Under(x) == {y \in S : y < x}
           F == {Under(x) : x \in S}
<1>1. IsWellFoundedOn(StrictSubsetOrdering(S), FiniteSubsetsOf(S))
  BY FS_StrictSubsetOrderingWellFounded
<1>2. F \subseteq FiniteSubsetsOf(S) /\ F # {}
  <2>1. \A x : Under(x) \in SUBSET S
    OBVIOUS
  <2>2. \A x : IsFiniteSet(Under(x))
    BY <2>1, FS_Subset
  <2> QED
    BY <2>1, <2>2 DEF FiniteSubsetsOf
<1>3. PICK X \in F : \A Y \in F : ~ (<<Y, X>> \in StrictSubsetOrdering(S))
  <2> HIDE DEF F
  <2> QED
    BY <1>1, <1>2, WFMin
<1>4. PICK x \in S : X = Under(x)
  BY <1>3
<1>5. ASSUME NEW y \in S PROVE x <= y
  <2> SUFFICES ASSUME y < x PROVE FALSE
    OBVIOUS
  <2>1. Under(y) \subseteq Under(x) /\ y \in Under(x) /\ y \notin Under(y)
    <3>1. x \in Int /\ y \in Int
      OBVIOUS
    <3>2. ~ (y < y)
      BY <3>1
    <3>3. ASSUME NEW z \in S, z < y PROVE z < x
      <4>1. z \in Int
        OBVIOUS
      <4> HIDE DEF F, Under
      <4> QED
        BY <3>1, <3>3, <4>1
    <3>4. Under(y) \subseteq Under(x)
      BY <3>3
    <3> QED
      BY <3>2, <3>4
  <2>2. <<Under(y), Under(x)>> \in StrictSubsetOrdering(S)
    <3>1. Under(y) \in SUBSET S /\ Under(x) \in SUBSET S /\ Under(y) # Under(x)
      BY <2>1
    <3> HIDE DEF Under
    <3> QED
      BY <2>1, <3>1 DEF StrictSubsetOrdering
  <2> QED
    BY <1>3, <1>4, <2>2
<1> QED
  BY <1>5 DEF Min

LEMMA NodeFound ==
  ASSUME NEW name, DOMAIN scopes \subseteq Int, IsFiniteSet(DOMAIN scopes),
         \A k \in DOMAIN scopes :
           DOMAIN scopes[k] \subseteq Int /\ IsFiniteSet(DOMAIN scopes[k])
  PROVE  \/ Node(name) = [kind |-> "none"]
         \/ \E k \in DOMAIN scopes : \E j \in DOMAIN scopes[k] : Node(name) = scopes[k][j].node
<1> SUFFICES ASSUME Holding(name) # {}
             PROVE  \E k \in DOMAIN scopes : \E j \in DOMAIN scopes[k] :
                      Node(name) = scopes[k][j].node
  BY DEF Node
<1> DEFINE k == Innermost(Holding(name))
           J == {j \in DOMAIN scopes[k] : scopes[k][j].name = name}
<1>1. Holding(name) \in SUBSET DOMAIN scopes
  BY DEF Holding
<1>2. k \in Holding(name)
  <2>1. IsFiniteSet(Holding(name)) /\ Holding(name) \subseteq Int
    BY <1>1, FS_Subset
  <2> QED
    BY <2>1, MaxIsIn DEF Innermost
<1> HIDE DEF k
<1>3. k \in DOMAIN scopes /\ \E j \in DOMAIN scopes[k] : scopes[k][j].name = name
  BY <1>2 DEF Holding
<1>4. Min(J) \in J
  <2>1. J \in SUBSET DOMAIN scopes[k] /\ J # {}
    BY <1>3
  <2>2. IsFiniteSet(DOMAIN scopes[k]) /\ DOMAIN scopes[k] \subseteq Int
    BY <1>3
  <2> HIDE DEF J
  <2>3. IsFiniteSet(J) /\ J \subseteq Int
    BY <2>1, <2>2, FS_Subset
  <2> QED
    BY <2>1, <2>3, MinIsIn
<1>5. Node(name) = scopes[k][Min(J)].node
  BY DEF Node, k
<1> QED
  BY <1>3, <1>4, <1>5

LEMMA NewIdFresh ==
  ASSUME IsFiniteSet(literals) PROVE NewId \notin literals
<1> DEFINE n == Cardinality(literals)
<1>1. n \in Nat
  BY FS_CardinalityType
<1>2. ~ (1..(n + 1) \subseteq literals)
  <2> SUFFICES ASSUME 1..(n + 1) \in SUBSET literals PROVE FALSE
    OBVIOUS
  <2>1. Cardinality(1..(n + 1)) <= n
    BY FS_Subset
  <2> HIDE DEF n
  <2>2. Cardinality(1..(n + 1)) = n + 1
    BY <1>1, FS_Interval
  <2> QED
    BY <1>1, <2>1, <2>2
<1> QED
  BY <1>2 DEF NewId

\* The constants of the tables that calls made refer to literals that are allocated.
LEMMA TablesHeld ==
  ASSUME NEW st, NEW sc, NEW lits, Good(st, sc, lits), NEW k \in 2..Len(sc)
  PROVE  /\ IsSeq(sc[k])
         /\ \A j \in DOMAIN sc[k] :
              /\ sc[k][j].node.kind = "const" /\ sc[k][j].node.init.kind = "literal"
              /\ sc[k][j].node.init.id \in lits
<1>1. PICK p \in Bodies(st) : IsTableOf(sc[k], st, p)
  BY DEF Good, Tabled
<1>2. p - 1 \in DOMAIN st /\ st[p - 1].at = "call"
  <2>1. p \in DOMAIN st /\ st[p].at = "body"
    BY DEF Bodies
  <2>2. p > 1 /\ st[p - 1].at = "call"
    BY <2>1 DEF Good, Placed
  <2>3. Len(st) \in Nat /\ DOMAIN st = 1..Len(st)
    BY DEF Good, IsSeq
  <2> QED
    BY <2>1, <2>2, <2>3
<1>3. Held(st[p - 1]) = Freed(st[p - 1].done)
  BY <1>2 DEF Held
<1>4. Freed(st[p - 1].done) \subseteq lits
  BY <1>2, <1>3 DEF Good, Owned
<1> QED
  BY <1>1, <1>4 DEF IsTableOf

-----------------------------------------------------------------------------
(***************************************************************************)
(* The invariant.                                                          *)
(***************************************************************************)
OwnInv ==
  /\ CallsInv
  /\ Good(stack, scopes, literals)
  /\ program \in Programs
  /\ scopes[1] = program.globals

LEMMA TablesAreSequences ==
  ASSUME OwnInv
  PROVE  /\ Len(scopes) \in Nat /\ DOMAIN scopes = 1..Len(scopes)
         /\ \A k \in DOMAIN scopes :
              Len(scopes[k]) \in Nat /\ DOMAIN scopes[k] = 1..Len(scopes[k])
<1>1. Len(scopes) \in Nat /\ DOMAIN scopes = 1..Len(scopes)
  BY DEF OwnInv, CallsInv
<1>2. ASSUME NEW k \in DOMAIN scopes
      PROVE  Len(scopes[k]) \in Nat /\ DOMAIN scopes[k] = 1..Len(scopes[k])
  <2>1. CASE k = 1
    BY <2>1, ProgramsAssumption DEF OwnInv
  <2>2. CASE k # 1
    <3>1. k \in 2..Len(scopes)
      BY <1>1, <2>2
    <3>2. IsSeq(scopes[k])
      BY <3>1, TablesHeld DEF OwnInv
    <3> QED
      BY <3>2 DEF IsSeq
  <2> QED
    BY <2>1, <2>2
<1> QED
  BY <1>1, <1>2

LEMMA NodeIsThere ==
  ASSUME OwnInv, NEW name
  PROVE  \/ Node(name) = [kind |-> "none"]
         \/ \E k \in DOMAIN scopes : \E j \in DOMAIN scopes[k] : Node(name) = scopes[k][j].node
<1>1. ASSUME NEW n \in Nat PROVE IsFiniteSet(1..n) /\ 1..n \subseteq Int
  BY FS_Interval
<1>2. DOMAIN scopes \subseteq Int /\ IsFiniteSet(DOMAIN scopes)
  BY <1>1, TablesAreSequences
<1>3. \A k \in DOMAIN scopes :
        DOMAIN scopes[k] \subseteq Int /\ IsFiniteSet(DOMAIN scopes[k])
  BY <1>1, TablesAreSequences
<1> QED
  BY <1>2, <1>3, NodeFound

LEMMA NodeIsGood ==
  ASSUME OwnInv, NEW name
  PROVE  /\ Node(name).kind = "const" => Denotes(Node(name).init, literals)
         /\ Node(name).kind = "function" => Node(name).body \in Seq(Statements)
<1>1. \A j \in DOMAIN program.globals :
        /\ program.globals[j].node.kind = "const" => program.globals[j].node.init \in Nodes
        /\ program.globals[j].node.kind = "function"
             => program.globals[j].node.body \in Seq(Statements)
  BY ProgramsAssumption DEF OwnInv
<1>2. ASSUME NEW k \in DOMAIN scopes, NEW j \in DOMAIN scopes[k]
      PROVE  /\ scopes[k][j].node.kind = "const" => Denotes(scopes[k][j].node.init, literals)
             /\ scopes[k][j].node.kind = "function"
                  => scopes[k][j].node.body \in Seq(Statements)
  <2>1. CASE k = 1
    <3>1. scopes[k] = program.globals
      BY <2>1 DEF OwnInv
    <3> QED
      BY <1>1, <1>2, <3>1 DEF Denotes
  <2>2. CASE k # 1
    <3>1. k \in 2..Len(scopes)
      BY <1>2, <2>2, TablesAreSequences
    <3>2. /\ scopes[k][j].node.kind = "const" /\ scopes[k][j].node.init.kind = "literal"
          /\ scopes[k][j].node.init.id \in literals
      BY <1>2, <3>1, TablesHeld DEF OwnInv
    <3> QED
      BY <3>2 DEF Denotes
  <2> QED
    BY <2>1, <2>2
<1>3. CASE Node(name) = [kind |-> "none"]
  BY <1>3
<1>4. ASSUME NEW k \in DOMAIN scopes, NEW j \in DOMAIN scopes[k], Node(name) = scopes[k][j].node
      PROVE  /\ Node(name).kind = "const" => Denotes(Node(name).init, literals)
             /\ Node(name).kind = "function" => Node(name).body \in Seq(Statements)
  BY <1>2, <1>4
<1> QED
  BY <1>3, <1>4, NodeIsThere

LEMMA OwnedLiterals == OwnInv => LiteralsAreOwned
<1> SUFFICES ASSUME OwnInv PROVE LiteralsAreOwned
  OBVIOUS
<1>1. Owned(stack, literals)
  BY DEF OwnInv, Good
<1>2. /\ \A k \in Holders : k \in DOMAIN stack /\ Held(stack[k]) = Freed(stack[k].done)
      /\ \A k \in DOMAIN stack : k \notin Holders => Held(stack[k]) = {}
  BY DEF Holders, Held
<1>3. literals = UNION {Freed(stack[k].done) : k \in Holders}
  <2>1. ASSUME NEW id \in literals PROVE \E k \in Holders : id \in Freed(stack[k].done)
    <3>1. PICK k \in DOMAIN stack : id \in Held(stack[k])
      BY <1>1 DEF Owned
    <3> QED
      BY <1>2, <3>1
  <2>2. ASSUME NEW k \in Holders, NEW id \in Freed(stack[k].done) PROVE id \in literals
    BY <1>1, <1>2 DEF Owned
  <2> QED
    BY <2>1, <2>2
<1>4. \A j, k \in Holders : j # k => Freed(stack[j].done) \cap Freed(stack[k].done) = {}
  BY <1>1, <1>2 DEF Owned
<1>5. LocalIds \subseteq literals
  <2>1. ASSUME NEW k \in 2..Len(scopes), NEW j \in DOMAIN scopes[k]
        PROVE  scopes[k][j].node.init.id \in literals
    BY TablesHeld DEF OwnInv
  <2> QED
    BY <2>1 DEF LocalIds
<1>6. EvaluatedIds \subseteq literals
  <2>1. ASSUME NEW k \in DOMAIN stack, stack[k].at = "expr", stack[k].node.kind = "literal",
               stack[k].node.id # 0
        PROVE  stack[k].node.id \in literals
    <3>1. Denotes(stack[k].node, literals)
      BY <2>1 DEF OwnInv, Good
    <3> QED
      BY <2>1, <3>1, NodesAssumption DEF Denotes
  <2> QED
    BY <2>1 DEF EvaluatedIds
<1> QED
  BY <1>3, <1>4, <1>5, <1>6 DEF LiteralsAreOwned

-----------------------------------------------------------------------------
(***************************************************************************)
(* The steps.                                                              *)
(***************************************************************************)
LEMMA OwnPopped ==
  ASSUME OwnInv, Running
  PROVE  /\ PushedOn(Rest, Top, stack) /\ IsSeq(Rest) /\ Formed(Top)
         /\ Top.at = "expr" => Denotes(Top.node, literals)
         /\ Top.at # "body" =>
              /\ Good(Rest, scopes, literals \ Held(Top)) /\ Calm(Rest)
              /\ Held(Top) \subseteq literals /\ IsFiniteSet(Held(Top))
<1>1. IsSeq(stack) /\ stack # << >>
  BY DEF OwnInv, Good, Running
<1>2. PushedOn(Rest, Top, stack)
  BY <1>1, LastPushed DEF Rest, Top
<1>3. Len(Rest) + 1 \in DOMAIN stack /\ stack[Len(Rest) + 1] = Top
  BY <1>2, PushedFacts
<1>4. Formed(Top) /\ (Top.at = "expr" => Denotes(Top.node, literals))
  BY <1>3 DEF OwnInv, Good, Placed
<1>5. IsSeq(Rest)
  BY <1>2 DEF PushedOn
<1>6. Top.at # "body" =>
        /\ Good(Rest, scopes, literals \ Held(Top)) /\ Calm(Rest)
        /\ Held(Top) \subseteq literals /\ IsFiniteSet(Held(Top))
  BY <1>2, GoodPop DEF OwnInv
<1> QED
  BY <1>2, <1>4, <1>5, <1>6

\* A frame that can be pushed.
Fits(f, lits) ==
  /\ Formed(f) /\ f.at # "body" /\ (f.at = "expr" => Denotes(f.node, lits))
  /\ IsFiniteSet(Held(f)) /\ Held(f) \cap lits = {}

LEMMA GoodAppend ==
  ASSUME NEW r, NEW sc, NEW lits, Good(r, sc, lits), Calm(r), NEW f, Fits(f, lits)
  PROVE  /\ Good(Append(r, f), sc, lits \cup Held(f))
         /\ f.at # "expr" => Calm(Append(r, f))
<1>1. IsSeq(r)
  BY DEF Good
<1> DEFINE s == Append(r, f)
<1>2. PushedOn(r, f, s)
  BY <1>1, AppendPushes
<1> HIDE DEF s
<1>3. Good(s, sc, lits \cup Held(f)) /\ (f.at # "expr" => Calm(s))
  BY <1>2, GoodPush DEF Fits
<1> QED
  BY <1>3 DEF s

LEMMA EvalFits ==
  ASSUME NEW node, NEW lits, Denotes(node, lits)
  PROVE  Fits(Eval(node), lits) /\ Held(Eval(node)) = {}
<1>1. Held(Eval(node)) = {} /\ Formed(Eval(node))
  BY DEF Held, Formed, Eval
<1> QED
  BY <1>1, FS_EmptySet DEF Fits, Eval

LEMMA GoodAppend2 ==
  ASSUME NEW r, NEW sc, NEW lits, Good(r, sc, lits), Calm(r),
         NEW f, Fits(f, lits), f.at # "expr",
         NEW g, Fits(g, lits \cup Held(f)), Held(g) = {}
  PROVE  Good(r \o <<f, g>>, sc, lits \cup Held(f))
<1> DEFINE s == Append(r, f)
<1>1. Good(s, sc, lits \cup Held(f)) /\ Calm(s)
  BY GoodAppend
<1>2. r \o <<f, g>> = Append(s, g)
  BY AppendedTogether DEF Good, IsSeq
<1> HIDE DEF s
<1>3. Good(Append(s, g), sc, (lits \cup Held(f)) \cup Held(g))
  BY <1>1, GoodAppend
<1>4. (lits \cup Held(f)) \cup Held(g) = lits \cup Held(f)
  OBVIOUS
<1> QED
  BY <1>2, <1>3, <1>4

LEMMA OwnKept ==
  ASSUME OwnInv, CallsInv', program' = program, scopes' = scopes,
         Good(stack', scopes, literals')
  PROVE  OwnInv'
BY DEF OwnInv

\* A frame that holds nothing can be pushed if it is well formed.
LEMMA PlainFits ==
  ASSUME NEW f, NEW lits, Formed(f), f.at \notin {"args", "call", "body", "expr"}
  PROVE  Fits(f, lits) /\ Held(f) = {} /\ f.at # "expr"
<1>1. Held(f) = {}
  BY DEF Held
<1> QED
  BY <1>1, FS_EmptySet DEF Fits

\* The frames that replace a frame which holds nothing hold nothing either.
LEMMA OwnMoved ==
  ASSUME OwnInv, CallsInv', NoCalls, Running, Top.at \notin {"args", "call", "body"},
         \/ stack' = Rest
         \/ \E f : Fits(f, literals) /\ Held(f) = {} /\ stack' = Append(Rest, f)
         \/ \E f, g : /\ Fits(f, literals) /\ Held(f) = {} /\ f.at # "expr"
                      /\ Fits(g, literals) /\ Held(g) = {}
                      /\ stack' = Rest \o <<f, g>>
  PROVE  OwnInv'
<1>1. Held(Top) = {} /\ literals \ {} = literals /\ literals \cup {} = literals
  BY DEF Held
<1>2. Good(Rest, scopes, literals) /\ Calm(Rest)
  <2>1. Good(Rest, scopes, literals \ Held(Top)) /\ Calm(Rest)
    BY OwnPopped
  <2> QED
    BY <1>1, <2>1
<1>3. Good(stack', scopes, literals)
  <2>1. CASE stack' = Rest
    BY <1>2, <2>1
  <2>2. ASSUME NEW f, Fits(f, literals), Held(f) = {}, stack' = Append(Rest, f)
        PROVE  Good(stack', scopes, literals)
    <3>1. Good(Append(Rest, f), scopes, literals \cup Held(f))
      BY <1>2, <2>2, GoodAppend
    <3> QED
      BY <1>1, <2>2, <3>1
  <2>3. ASSUME NEW f, NEW g, Fits(f, literals), Held(f) = {}, f.at # "expr",
               Fits(g, literals), Held(g) = {}, stack' = Rest \o <<f, g>>
        PROVE  Good(stack', scopes, literals)
    <3>1. literals \cup Held(f) = literals
      BY <2>3
    <3>2. Fits(g, literals \cup Held(f))
      BY <2>3, <3>1
    <3>3. Good(Rest \o <<f, g>>, scopes, literals \cup Held(f))
      BY <1>2, <2>3, <3>2, GoodAppend2
    <3> QED
      BY <2>3, <3>1, <3>3
  <2> QED
    BY <2>1, <2>2, <2>3
<1> QED
  BY <1>3, OwnKept DEF NoCalls

LEMMA OwnReturned ==
  ASSUME OwnInv, CallsInv', NoCalls, Running, Top.at \notin {"args", "call", "body"},
         NEW x, Return(x)
  PROVE  OwnInv'
BY OwnMoved DEF Return

LEMMA OwnContinued ==
  ASSUME OwnInv, CallsInv', NoCalls, Running, Top.at \notin {"args", "call", "body"},
         NEW f, Fits(f, literals), Held(f) = {}, Continue(f)
  PROVE  OwnInv'
BY OwnMoved DEF Continue

LEMMA OwnCalled ==
  ASSUME OwnInv, CallsInv', NoCalls, Running, Top.at \notin {"args", "call", "body"},
         NEW n \in Nodes, NEW f, Formed(f), f.at \notin {"args", "call", "body", "expr"},
         CallThen(n, f)
  PROVE  OwnInv'
<1>1. Fits(f, literals) /\ Held(f) = {} /\ f.at # "expr"
  BY PlainFits
<1>2. Fits(Eval(n), literals) /\ Held(Eval(n)) = {}
  BY EvalFits DEF Denotes
<1>3. stack' = Rest \o <<f, Eval(n)>>
  BY DEF CallThen
<1> QED
  BY <1>1, <1>2, <1>3, OwnMoved

\* A node that is evaluated and is not a literal is one of the source.
LEMMA TopIsNode ==
  ASSUME OwnInv, Running, Top.at = "expr", Top.node.kind # "literal"
  PROVE  Top.node \in Nodes
BY OwnPopped DEF Denotes

LEMMA OwnIdentifier == ASSUME OwnInv, CallsInv', Identifier PROVE OwnInv'
<1>1. Running /\ Top.at = "expr" /\ NoCalls
  BY DEF Identifier, AtExpr, At
<1> DEFINE node == Node(Top.node.name)
<1>2. IF node.kind = "const" THEN Continue(Eval(node.init)) ELSE Return(Null)
  BY DEF Identifier
<1>3. node.kind = "const" => Denotes(node.init, literals)
  BY NodeIsGood
<1> HIDE DEF node
<1>4. CASE node.kind = "const"
  <2>1. Fits(Eval(node.init), literals) /\ Held(Eval(node.init)) = {}
    BY <1>3, <1>4, EvalFits
  <2>2. Continue(Eval(node.init))
    BY <1>2, <1>4
  <2> QED
    BY <1>1, <2>1, <2>2, OwnContinued
<1>5. CASE node.kind # "const"
  BY <1>1, <1>2, <1>5, OwnReturned
<1> QED
  BY <1>4, <1>5

LEMMA OwnBinary == ASSUME OwnInv, CallsInv', Binary PROVE OwnInv'
<1> DEFINE f == [at |-> "left", node |-> Top.node]
<1>1. Running /\ Top.at = "expr" /\ Top.node.kind = "binary" /\ NoCalls /\ CallThen(Top.node.left, f)
  BY DEF Binary, AtExpr, At
<1>2. Top.node \in Nodes
  BY <1>1, TopIsNode
<1>3. Top.node.left \in Nodes
  BY <1>1, <1>2, NodesAssumption
<1>4. Formed(f) /\ f.at = "left"
  BY <1>1, <1>2 DEF Formed
<1> HIDE DEF f
<1> QED
  BY <1>1, <1>3, <1>4, OwnCalled

LEMMA OwnLeft == ASSUME OwnInv, CallsInv', Left PROVE OwnInv'
<1> DEFINE f == [at |-> "right", op |-> Top.node.op, left |-> result]
<1>1. /\ Running /\ Top.at = "left" /\ NoCalls
      /\ IF result = Null THEN Return(Null) ELSE CallThen(Top.node.right, f)
  BY DEF Left, At
<1>2. Top.node \in Nodes /\ Top.node.kind = "binary"
  BY <1>1, OwnPopped DEF Formed
<1>3. Top.node.right \in Nodes
  BY <1>2, NodesAssumption
<1>4. Formed(f) /\ f.at = "right"
  BY DEF Formed
<1> HIDE DEF f
<1>5. CASE result = Null
  BY <1>1, <1>5, OwnReturned
<1>6. CASE result # Null
  BY <1>1, <1>3, <1>4, <1>6, OwnCalled
<1> QED
  BY <1>5, <1>6

LEMMA OwnUnary == ASSUME OwnInv, CallsInv', Unary PROVE OwnInv'
<1> DEFINE f == [at |-> "operand", op |-> Top.node.op]
<1>1. Running /\ Top.at = "expr" /\ Top.node.kind = "unary" /\ NoCalls
      /\ CallThen(Top.node.operand, f)
  BY DEF Unary, AtExpr, At
<1>2. Top.node \in Nodes
  BY <1>1, TopIsNode
<1>3. Top.node.operand \in Nodes
  BY <1>1, <1>2, NodesAssumption
<1>4. Formed(f) /\ f.at = "operand"
  BY DEF Formed
<1> HIDE DEF f
<1> QED
  BY <1>1, <1>3, <1>4, OwnCalled

\* The activation of a call begins with no argument made.
LEMMA OwnCall == ASSUME OwnInv, CallsInv', Call PROVE OwnInv'
<1> DEFINE func == Node(Top.node.name)
           f == [at |-> "args", func |-> func, args |-> Top.node.args, done |-> << >>]
<1>1. /\ Running /\ Top.at = "expr" /\ Top.node.kind = "call" /\ NoCalls
      /\ IF func.kind = "function" /\ func.is_comptime THEN Continue(f) ELSE Return(Null)
  BY DEF Call, AtExpr, At
<1>2. Top.node.args \in Seq(Nodes)
  BY <1>1, TopIsNode, NodesAssumption
<1>3. func.kind = "function" => func.body \in Seq(Statements)
  BY NodeIsGood
<1> HIDE DEF func
<1>4. CASE func.kind = "function" /\ func.is_comptime
  <2>1. << >> \in Seq({}) /\ DOMAIN << >> = {}
    OBVIOUS
  <2>2. Formed(f)
    BY <1>2, <1>3, <1>4, <2>1 DEF Formed, IsSeq
  <2>3. f.at = "args" /\ f.done = << >>
    OBVIOUS
  <2> HIDE DEF f
  <2>4. Held(f) = {}
    BY <2>1, <2>3 DEF Held, Freed
  <2>5. Fits(f, literals)
    BY <2>2, <2>3, <2>4, FS_EmptySet DEF Fits
  <2>6. Continue(f)
    BY <1>1, <1>4
  <2> QED
    BY <1>1, <2>4, <2>5, <2>6, OwnContinued
<1>5. CASE ~ (func.kind = "function" /\ func.is_comptime)
  <2>1. Return(Null)
    BY <1>1, <1>5
  <2> QED
    BY <1>1, <2>1, OwnReturned
<1> QED
  BY <1>4, <1>5

LEMMA OwnBlock == ASSUME OwnInv, CallsInv', Block PROVE OwnInv'
<1>1. Running /\ Top.at = "block" /\ NoCalls
  BY DEF Block, At
<1>2. Top.rest \in Seq(Statements) /\ {"at", "rest"} \subseteq DOMAIN Top
  BY <1>1, OwnPopped, TopHasPlace DEF Formed, OwnInv
<1>3. CASE Top.rest = << >>
  BY <1>1, <1>3, OwnReturned DEF Block
<1>4. CASE Top.rest # << >>
  <2> DEFINE s == Head(Top.rest)
             f == [at |-> "cond", stmt |-> s, rest |-> Tail(Top.rest)]
             g == [Top EXCEPT !.rest = Tail(@)]
  <2>1. s \in Statements /\ Tail(Top.rest) \in Seq(Statements)
    BY <1>2, <1>4
  <2>2. \/ s.kind = "return" /\ Continue(Eval(s.expr))
        \/ s.kind = "if" /\ CallThen(s.cond, f)
        \/ Continue(g)
    BY <1>4 DEF Block
  <2>3. CASE s.kind = "return" /\ Continue(Eval(s.expr))
    <3>1. Denotes(s.expr, literals)
      BY <2>1, <2>3, StatementsAssumption DEF Denotes
    <3>2. Fits(Eval(s.expr), literals) /\ Held(Eval(s.expr)) = {}
      BY <3>1, EvalFits
    <3> QED
      BY <1>1, <2>3, <3>2, OwnContinued
  <2>4. CASE s.kind = "if" /\ CallThen(s.cond, f)
    <3>1. Formed(f) /\ f.at = "cond"
      BY <2>1, <2>4 DEF Formed
    <3>2. s.cond \in Nodes
      BY <2>1, <2>4, StatementsAssumption
    <3> HIDE DEF f, s
    <3> QED
      BY <1>1, <2>4, <3>1, <3>2, OwnCalled
  <2>5. CASE Continue(g)
    <3>1. g.at = "block" /\ g.rest = Tail(Top.rest) /\ "rest" \in DOMAIN g
      BY <1>1, <1>2
    <3> HIDE DEF g
    <3>2. Formed(g)
      BY <2>1, <3>1 DEF Formed
    <3>3. Fits(g, literals) /\ Held(g) = {}
      BY <3>1, <3>2, PlainFits
    <3> QED
      BY <1>1, <2>5, <3>3, OwnContinued
  <2> QED
    BY <2>2, <2>3, <2>4, <2>5
<1> QED
  BY <1>3, <1>4

LEMMA OwnCondition == ASSUME OwnInv, CallsInv', Condition PROVE OwnInv'
<1> DEFINE f == [at |-> "block", rest |-> Top.rest]
           g == [at |-> "block", rest |-> IF result.n = 1 THEN Top.stmt.then ELSE Top.stmt.else]
<1>1. Running /\ Top.at = "cond" /\ NoCalls
  BY DEF Condition, At
<1>2. CASE result.kind # "bool"
  BY <1>1, <1>2, OwnReturned DEF Condition
<1>3. CASE result.kind = "bool"
  <2>1. stack' = Rest \o <<f, g>>
    BY <1>3 DEF Condition, AfterIf
  <2>2. /\ Top.rest \in Seq(Statements)
        /\ Top.stmt.then \in Seq(Statements) /\ Top.stmt.else \in Seq(Statements)
    BY <1>1, OwnPopped, StatementsAssumption DEF Formed
  <2>3. Formed(f) /\ f.at = "block"
    BY <2>2 DEF Formed
  <2>4. Formed(g) /\ g.at = "block"
    BY <2>2 DEF Formed
  <2> HIDE DEF f, g
  <2>5. Fits(f, literals) /\ Held(f) = {} /\ f.at # "expr"
    BY <2>3, PlainFits
  <2>6. Fits(g, literals) /\ Held(g) = {}
    BY <2>4, PlainFits
  <2> QED
    BY <1>1, <2>1, <2>5, <2>6, OwnMoved
<1> QED
  BY <1>2, <1>3

LEMMA OwnNestedDone == ASSUME OwnInv, CallsInv', NestedDone PROVE OwnInv'
<1>1. Running /\ Top.at = "block" /\ NoCalls
  BY DEF NestedDone, At
<1>2. Fits(Top, literals) /\ Held(Top) = {}
  BY <1>1, OwnPopped, PlainFits
<1> QED
  BY <1>1, <1>2, OwnContinued, OwnReturned DEF NestedDone

\* A frame that was popped can be pushed again.
LEMMA TopFits ==
  ASSUME OwnInv, Running, Top.at = "args"
  PROVE  Fits(Top, literals \ Held(Top)) /\ (literals \ Held(Top)) \cup Held(Top) = literals
BY OwnPopped DEF Fits

LEMMA OwnArgument == ASSUME OwnInv, CallsInv', Argument PROVE OwnInv'
<1> DEFINE n == Top.args[Len(Top.done) + 1]
<1>1. /\ Running /\ Top.at = "args" /\ NoCalls /\ Len(Top.done) < Len(Top.args)
      /\ CallThen(n, Top)
  BY DEF Argument, At
<1>2. Top.args \in Seq(Nodes) /\ Len(Top.done) \in Nat
  BY <1>1, OwnPopped DEF Formed, IsSeq
<1>3. n \in Nodes
  <2>1. Len(Top.done) + 1 \in 1..Len(Top.args)
    BY <1>1, <1>2
  <2> QED
    BY <1>2, <2>1
<1> HIDE DEF n
<1>4. Good(Rest, scopes, literals \ Held(Top)) /\ Calm(Rest)
  BY <1>1, OwnPopped
<1>5. Fits(Top, literals \ Held(Top)) /\ (literals \ Held(Top)) \cup Held(Top) = literals
  BY <1>1, TopFits
<1>6. Fits(Eval(n), literals) /\ Held(Eval(n)) = {}
  BY <1>3, EvalFits DEF Denotes
<1>7. Good(Rest \o <<Top, Eval(n)>>, scopes, (literals \ Held(Top)) \cup Held(Top))
  <2>1. Fits(Eval(n), (literals \ Held(Top)) \cup Held(Top))
    BY <1>5, <1>6
  <2> QED
    BY <1>1, <1>4, <1>5, <1>6, <2>1, GoodAppend2
<1>8. Good(stack', scopes, literals)
  BY <1>1, <1>5, <1>7 DEF CallThen
<1> QED
  BY <1>1, <1>8, OwnKept DEF NoCalls

\* What a frame that gives back its literals leaves.
LEMMA OwnReleased ==
  ASSUME OwnInv, CallsInv', Running, Top.at \in {"args", "call"},
         program' = program, scopes' = scopes,
         NEW x, Return(x), literals' = literals \ Freed(Top.done)
  PROVE  OwnInv'
<1>1. Held(Top) = Freed(Top.done)
  BY DEF Held
<1>2. Good(Rest, scopes, literals \ Held(Top))
  BY OwnPopped
<1> QED
  BY <1>1, <1>2, OwnKept DEF Return

LEMMA OwnArgumentDone == ASSUME OwnInv, CallsInv', ArgumentDone PROVE OwnInv'
<1>1. Running /\ Top.at = "args" /\ program' = program /\ scopes' = scopes
  BY DEF ArgumentDone, At
<1>2. CASE result = Null
  BY <1>1, <1>2, OwnReleased DEF ArgumentDone
<1>3. CASE result # Null
  <2> DEFINE new == Literal(NewId, Reread(result))
             done == Append(Top.done, new)
             f == [Top EXCEPT !.done = done]
  <2>1. Continue(f) /\ literals' = literals \cup {NewId}
    BY <1>3 DEF ArgumentDone
  <2>2. Formed(Top) /\ {"at", "done"} \subseteq DOMAIN Top /\ IsSeq(Top.done)
    BY <1>1, OwnPopped, TopHasPlace DEF Formed, OwnInv
  <2>3. new.id = NewId
    BY DEF Literal
  <2> HIDE DEF new
  <2>4. PushedOn(Top.done, new, done) /\ IsSeq(done)
    BY <2>2, AppendPushes
  <2> HIDE DEF done
  <2>5. Freed(done) = Freed(Top.done) \cup {NewId}
    <3>1. /\ \A k \in DOMAIN done : done[k] = new \/ (k \in DOMAIN Top.done /\ done[k] = Top.done[k])
          /\ \A k \in DOMAIN Top.done : k \in DOMAIN done /\ done[k] = Top.done[k]
          /\ Len(Top.done) + 1 \in DOMAIN done /\ done[Len(Top.done) + 1] = new
      BY <2>4, PushedFacts
    <3>2. ASSUME NEW id \in Freed(done) PROVE id \in Freed(Top.done) \cup {NewId}
      BY <2>3, <3>1 DEF Freed
    <3>3. ASSUME NEW id \in Freed(Top.done) PROVE id \in Freed(done)
      BY <3>1 DEF Freed
    <3>4. NewId \in Freed(done)
      BY <2>3, <3>1 DEF Freed
    <3> QED
      BY <3>2, <3>3, <3>4
  <2>6. /\ f.at = "args" /\ f.done = done /\ f.args = Top.args /\ f.func = Top.func
        /\ DOMAIN f = DOMAIN Top
    BY <1>1, <2>2 DEF Formed
  <2> HIDE DEF f
  <2>7. Formed(f)
    BY <1>1, <2>2, <2>4, <2>6 DEF Formed
  <2>8. Held(f) = Held(Top) \cup {NewId}
    BY <1>1, <2>5, <2>6 DEF Held
  <2>9. /\ Good(Rest, scopes, literals \ Held(Top)) /\ Calm(Rest)
        /\ Held(Top) \subseteq literals /\ IsFiniteSet(Held(Top))
    BY <1>1, OwnPopped
  <2>10. NewId \notin literals
    BY NewIdFresh DEF OwnInv, Good, Owned
  <2>11. Fits(f, literals \ Held(Top))
    <3>1. Held(f) \cap (literals \ Held(Top)) = {}
      BY <2>8, <2>10
    <3>2. IsFiniteSet(Held(f))
      BY <2>8, <2>9, FS_AddElement
    <3> QED
      BY <2>6, <2>7, <3>1, <3>2 DEF Fits
  <2>12. Good(Append(Rest, f), scopes, (literals \ Held(Top)) \cup Held(f))
    BY <2>9, <2>11, GoodAppend
  <2>13. (literals \ Held(Top)) \cup Held(f) = literals'
    BY <2>1, <2>8, <2>9
  <2>14. Good(stack', scopes, literals')
    BY <2>1, <2>12, <2>13 DEF Continue
  <2> QED
    BY <1>1, <2>14, OwnKept
<1> QED
  BY <1>2, <1>3

LEMMA OwnCallDone == ASSUME OwnInv, CallsInv', CallDone PROVE OwnInv'
BY OwnReleased DEF CallDone, At

LEMMA OwnLeaveBody == ASSUME OwnInv, CallsInv', LeaveBody PROVE OwnInv'
<1>1. /\ Running /\ Top.at = "body" /\ stack' = Rest /\ scopes' = Front(scopes)
      /\ program' = program /\ literals' = literals
  BY DEF LeaveBody, At, Return
<1>2. PushedOn(Rest, Top, stack)
  BY <1>1, OwnPopped
<1>3. /\ Cardinality(Bodies(stack)) \in Nat /\ Cardinality(Bodies(stack')) \in Nat
      /\ Len(scopes) = 1 + Cardinality(Bodies(stack))
      /\ Len(scopes') = 1 + Cardinality(Bodies(stack'))
  <2>1. Calls = Bodies(stack) /\ Calls' = Bodies(stack')
    BY DEF Calls, Bodies
  <2> QED
    BY <2>1, BodiesFinite DEF OwnInv, CallsInv, CallsBalance
<1>4. scopes # << >> /\ IsSeq(scopes)
  BY <1>3 DEF OwnInv, CallsInv, IsSeq
<1>5. PushedOn(scopes', Last(scopes), scopes)
  BY <1>1, <1>4, LastPushed
<1>6. Good(stack', scopes', literals)
  <2>1. Cardinality(Bodies(Rest)) = Len(scopes') - 1
    BY <1>1, <1>3
  <2> QED
    BY <1>1, <1>2, <1>5, <2>1, GoodLeave DEF OwnInv
<1>7. scopes'[1] = program'.globals
  <2>1. 1 \in 1..Len(scopes')
    BY <1>3
  <2>2. scopes'[1] = scopes[1]
    BY <1>5, <2>1, PushedFacts DEF PushedOn
  <2> QED
    BY <1>1, <2>2 DEF OwnInv
<1> QED
  BY <1>1, <1>6, <1>7 DEF OwnInv

\* The table of a call has the literals of its arguments.
ParameterTable(params, done) ==
  [k \in DOMAIN done |-> Parameter(params[k], done[k].id, done[k].value)]

LEMMA ParameterTableFacts ==
  ASSUME NEW params, NEW done, IsSeq(done),
         NEW st, NEW p, st[p - 1].done = done
  PROVE  IsTableOf(ParameterTable(params, done), st, p)
<1> DEFINE table == ParameterTable(params, done)
           S == {table[k] : k \in DOMAIN done}
<1>1. Len(done) \in Nat /\ DOMAIN done = 1..Len(done)
  BY DEF IsSeq
<1>2. DOMAIN table = 1..Len(done)
  BY <1>1 DEF ParameterTable
<1>3. table \in [1..Len(done) -> S]
  BY <1>1 DEF ParameterTable
<1>4. table \in Seq(S)
  <2> HIDE DEF table, S
  <2> QED
    BY <1>1, <1>3, SeqDef
<1>5. ASSUME NEW j \in DOMAIN table
      PROVE  /\ table[j].node.kind = "const" /\ table[j].node.init.kind = "literal"
             /\ table[j].node.init.id \in Freed(done)
  <2>1. j \in DOMAIN done
    BY <1>1, <1>2
  <2>2. table[j] = Parameter(params[j], done[j].id, done[j].value)
    BY <2>1 DEF ParameterTable
  <2>3. /\ table[j].node.kind = "const" /\ table[j].node.init.kind = "literal"
        /\ table[j].node.init.id = done[j].id
    BY <2>2 DEF Parameter, Literal
  <2> QED
    BY <2>1, <2>3 DEF Freed
<1>6. IsSeq(table)
  BY <1>4 DEF IsSeq
<1> HIDE DEF table
<1>7. IsTableOf(table, st, p)
  BY <1>5, <1>6 DEF IsTableOf
<1> QED
  BY <1>7 DEF table

LEMMA OwnEnter == ASSUME OwnInv, CallsInv', Enter PROVE OwnInv'
<1>1. Running /\ Top.at = "args" /\ program' = program
  BY DEF Enter, At
<1>2. CASE ~ CanEnter(Top.func, Top.done)
  BY <1>1, <1>2, OwnReleased DEF Enter
<1>3. CASE CanEnter(Top.func, Top.done)
  <2> DEFINE f == [at |-> "call", done |-> Top.done]
             g == [at |-> "body"]
             h == [at |-> "block", rest |-> Top.func.body]
             table == ParameterTable(Top.func.params, Top.done)
  <2>1. /\ stack' = Rest \o <<f, g, h>> /\ scopes' = Append(scopes, table)
        /\ literals' = literals
    BY <1>3 DEF Enter, ParameterTable
  <2>2. /\ Formed(Top) /\ IsSeq(Rest) /\ PushedOn(Rest, Top, stack)
        /\ Good(Rest, scopes, literals \ Held(Top)) /\ Calm(Rest)
        /\ Held(Top) \subseteq literals /\ IsFiniteSet(Held(Top))
    BY <1>1, OwnPopped
  <2>3. f.at = "call" /\ f.done = Top.done /\ Held(f) = Held(Top) /\ Formed(f)
    BY <1>1 DEF Held, Formed
  <2>4. g.at = "body"
    OBVIOUS
  <2>5. h.at = "block" /\ Formed(h)
    BY <1>1, <2>2 DEF Formed
  <2> DEFINE r1 == Append(Rest, f)
             r2 == Append(r1, g)
  <2>6. stack' = Append(r2, h)
    BY <2>1, <2>2, AppendedTogether DEF IsSeq
  <2> HIDE DEF f, g, h, table
  <2>7. PushedOn(Rest, f, r1) /\ IsSeq(r1)
    BY <2>2, AppendPushes
  <2>8. Good(r1, scopes, literals) /\ Calm(r1)
    <3>1. Fits(f, literals \ Held(Top))
      BY <2>2, <2>3 DEF Fits
    <3>2. (literals \ Held(Top)) \cup Held(f) = literals
      BY <2>2, <2>3
    <3>3. f.at # "expr"
      BY <2>3
    <3>4. Good(r1, scopes, (literals \ Held(Top)) \cup Held(f)) /\ Calm(r1)
      BY <2>2, <3>1, <3>3, GoodAppend
    <3> QED
      BY <3>2, <3>4
  <2> HIDE DEF r1
  <2>9. PushedOn(r1, g, r2) /\ IsSeq(r2)
    BY <2>7, AppendPushes
  <2> HIDE DEF r2
  <2>10. Cardinality(Bodies(r1)) = Len(scopes) - 1
    <3>1. Bodies(r1) = Bodies(Rest) /\ Bodies(stack) = Bodies(Rest)
      BY <1>1, <2>2, <2>3, <2>7, SameBodies
    <3>2. Calls = Bodies(stack)
      BY DEF Calls, Bodies
    <3> QED
      BY <3>1, <3>2, BodiesFinite DEF OwnInv, CallsInv, CallsBalance
  <2>11. Len(r1) > 0 /\ r1[Len(r1)] = f /\ Len(r2) = Len(r1) + 1 /\ r2[Len(r1)] = f
    <3>1. Len(r1) = Len(Rest) + 1 /\ Len(Rest) \in Nat /\ r1[Len(Rest) + 1] = f
      BY <2>7, PushedFacts
    <3>2. Len(r2) = Len(r1) + 1 /\ \A k \in 1..Len(r1) : r2[k] = r1[k]
      BY <2>9 DEF PushedOn
    <3> QED
      BY <3>1, <3>2
  <2>12. IsTableOf(table, r2, Len(r2))
    <3>1. IsSeq(Top.done)
      BY <1>1, <2>2 DEF Formed
    <3>2. Len(r2) - 1 = Len(r1)
      BY <2>7, <2>11 DEF IsSeq
    <3>3. r2[Len(r2) - 1].done = Top.done
      BY <2>3, <2>11, <3>2
    <3> QED
      BY <3>1, <3>3, ParameterTableFacts DEF table
  <2>13. PushedOn(scopes, table, scopes')
    BY <2>1, AppendPushes DEF OwnInv, CallsInv, IsSeq
  <2>14. Good(r2, scopes', literals) /\ Calm(r2)
    BY <2>3, <2>4, <2>8, <2>9, <2>10, <2>11, <2>12, <2>13, GoodEnter
  <2>15. Good(stack', scopes', literals)
    <3>1. Fits(h, literals) /\ Held(h) = {}
      BY <2>5, PlainFits
    <3>2. Good(Append(r2, h), scopes', literals \cup Held(h))
      BY <2>14, <3>1, GoodAppend
    <3>3. literals \cup Held(h) = literals
      BY <3>1
    <3> QED
      BY <2>6, <3>2, <3>3
  <2>16. scopes'[1] = program'.globals
    <3>1. Len(scopes) \in Nat /\ Len(scopes) >= 1
      BY BodiesFinite DEF OwnInv, CallsInv, CallsBalance, Calls, Bodies
    <3>2. scopes'[1] = scopes[1]
      BY <2>13, <3>1 DEF PushedOn
    <3> QED
      BY <1>1, <3>2 DEF OwnInv
  <2> QED
    BY <1>1, <2>1, <2>15, <2>16 DEF OwnInv
<1> QED
  BY <1>2, <1>3

\* A stack without frames.
LEMMA GoodEmpty ==
  ASSUME NEW sc, Len(sc) = 1
  PROVE  Good(<< >>, sc, {}) /\ Calm(<< >>)
<1>1. << >> \in Seq({}) /\ DOMAIN << >> = {} /\ Len(<< >>) = 0
  OBVIOUS
<1>2. Tabled(<< >>, sc)
  BY DEF Tabled
<1> QED
  BY <1>1, <1>2, FS_EmptySet DEF Good, Calm, Owned, Placed, IsSeq

LEMMA InitOwns == Init => OwnInv
<1> SUFFICES ASSUME Init PROVE OwnInv
  OBVIOUS
<1>1. /\ stack = << >> /\ scopes = <<program.globals>> /\ literals = {}
      /\ program \in Programs
  BY DEF Init
<1>2. Len(scopes) = 1 /\ scopes[1] = program.globals
  BY <1>1
<1>3. Good(<< >>, scopes, {})
  BY <1>2, GoodEmpty
<1>4. Good(stack, scopes, literals)
  BY <1>1, <1>3
<1> QED
  BY <1>1, <1>2, <1>4, InitCalls DEF OwnInv

LEMMA OwnEvaluate == ASSUME OwnInv, CallsInv', Evaluate PROVE OwnInv'
<1>1. /\ stack = << >> /\ expression' \in program.exprs /\ stack' = <<Eval(expression')>>
      /\ program' = program /\ scopes' = scopes /\ literals' = literals
  BY DEF Evaluate, Running
<1> DEFINE f == Eval(expression')
<1>2. Fits(f, literals) /\ Held(f) = {}
  <2>1. expression' \in Nodes
    BY <1>1, ProgramsAssumption DEF OwnInv
  <2> QED
    BY <2>1, EvalFits DEF Denotes
<1> HIDE DEF f
<1>3. stack' = Append(stack, f) /\ DOMAIN stack = {}
  BY <1>1 DEF f
<1>4. Good(stack, scopes, literals) /\ Calm(stack)
  BY <1>3 DEF OwnInv, Calm
<1>5. Good(Append(stack, f), scopes, literals \cup Held(f))
  BY <1>2, <1>4, GoodAppend
<1>6. literals \cup Held(f) = literals
  BY <1>2
<1> QED
  BY <1>1, <1>3, <1>5, <1>6, OwnKept

LEMMA StepOwns == ASSUME OwnInv, CallsInv', Step PROVE OwnInv'
<1>1. CASE LiteralStep
  BY <1>1, OwnReturned DEF LiteralStep, AtExpr, At
<1>2. CASE Right
  BY <1>2, OwnReturned DEF Right, At
<1>3. CASE Operand
  BY <1>3, OwnReturned DEF Operand, At
<1> QED
  BY <1>1, <1>2, <1>3, OwnIdentifier, OwnBinary, OwnLeft, OwnUnary, OwnCall, OwnArgument,
     OwnArgumentDone, OwnEnter, OwnBlock, OwnCondition, OwnNestedDone, OwnLeaveBody, OwnCallDone
     DEF Step

LEMMA NextOwns == OwnInv /\ [Next]_vars => OwnInv'
<1> SUFFICES ASSUME OwnInv, [Next]_vars PROVE OwnInv'
  OBVIOUS
<1>1. CallsInv'
  BY NextCalls DEF OwnInv
<1>2. CASE Evaluate
  BY <1>1, <1>2, OwnEvaluate
<1>3. CASE Step
  BY <1>1, <1>3, StepOwns
<1>4. CASE UNCHANGED vars
  BY <1>4 DEF vars, OwnInv, CallsInv, CallsBalance, Calls
<1> QED
  BY <1>2, <1>3, <1>4 DEF Next

(***************************************************************************)
(* Each literal made for an argument has one activation that will free it, *)
(* on every path through a call: the ones that succeed, the ones that fail *)
(* in an argument, and the ones that are cut off at the limit.  A table    *)
(* and an evaluation that refer to such a literal find it allocated.       *)
(***************************************************************************)
THEOREM LiteralsOwned == Spec => []LiteralsAreOwned
<1>1. Init => OwnInv
  BY InitOwns
<1>2. OwnInv /\ [Next]_vars => OwnInv'
  BY NextOwns
<1>3. OwnInv => LiteralsAreOwned
  BY OwnedLiterals
<1> QED
  BY <1>1, <1>2, <1>3, PTL DEF Spec

-----------------------------------------------------------------------------
(***************************************************************************)
(* Every value that is on its way through the evaluator is a value of its  *)
(* own type: the literals of the source are, an operation makes nothing    *)
(* else, and neither does the rereading of an argument.                    *)
(***************************************************************************)
PureNode(node) == node.kind = "literal" => Pure(node.value)

PureFrame(f) ==
  /\ f.at = "expr" => PureNode(f.node)
  /\ f.at = "args" => \A k \in DOMAIN f.done : Pure(f.done[k].value)

PureStack(st) == \A k \in DOMAIN st : PureFrame(st[k])

PureTables(sc) ==
  \A k \in DOMAIN sc : \A j \in DOMAIN sc[k] :
    sc[k][j].node.kind = "const" => PureNode(sc[k][j].node.init)

ValuesInv == OwnInv /\ Pure(result) /\ PureStack(stack) /\ PureTables(scopes)

LEMMA SpecialsArePure == Pure(Null) /\ Pure(Pending)
BY DEF Pure, IsValueOf, IsIntegerType, Null, Pending, Value

LEMMA NodesArePure == ASSUME NEW n \in Nodes PROVE PureNode(n)
BY NodesAssumption DEF PureNode, Pure

LEMMA OperationsArePure ==
  ASSUME NEW op, NEW l, NEW r PROVE Pure(BinaryOp(op, l, r))
<1> DEFINE x == BinaryOp(op, l, r)
<1>1. Answers(x, op, l, r)
  BY OperatorsAnswer
<1> HIDE DEF x
<1>2. Pure(x)
  BY <1>1, SpecialsArePure DEF Answers, Pure, IsValueOf
<1> QED
  BY <1>2 DEF x

LEMMA SignsArePure ==
  ASSUME NEW op, NEW x, Pure(x) PROVE Pure(UnaryOp(op, x))
<1> DEFINE y == UnaryOp(op, x)
<1>1. y # Null => IsValueOf(y, GetUnaryOpType(op, x.kind))
  BY UnaryAnswers
<1> HIDE DEF y
<1>2. Pure(y)
  BY <1>1, SpecialsArePure DEF Pure, IsValueOf
<1> QED
  BY <1>2 DEF y

LEMMA RereadIsPure == ASSUME NEW x, Pure(x) PROVE Pure(Reread(x))
<1>1. \A n : Pure(Whole(n))
  <2> TAKE n
  <2>1. Whole(n).kind = "i32" /\ Whole(n).d = 1
    BY DEF Whole, Value
  <2> QED
    BY <2>1 DEF Pure, IsValueOf
<1>2. \A n, d : Pure(Float(n, d))
  <2> TAKE n, d
  <2>1. Float(n, d).kind = "f64"
    BY DEF Float, Value
  <2> QED
    BY <2>1 DEF Pure, IsValueOf, IsIntegerType
<1>3. CASE IsIntegerType(x.kind)
  <2>1. Reread(x) = Whole(x.n)
    BY <1>3 DEF Reread, IsFloatType, IsIntegerType
  <2> QED
    BY <1>1, <2>1
<1>4. CASE IsFloatType(x.kind)
  <2>1. Reread(x) = RereadFloat(x)
    BY <1>4 DEF Reread, IsFloatType, IsIntegerType
  <2>2. \/ RereadFloat(x) = Null
        \/ \E n : RereadFloat(x) = Whole(n)
        \/ \E n, d : RereadFloat(x) = Float(n, d)
    <3> DEFINE n == Absolute(x.n)
               p == SixDigits(n, x.d)
    <3>1. CASE ~ IsFinite(x)
      BY <3>1, Zenon DEF RereadFloat
    <3>2. CASE IsFinite(x) /\ p[1] % p[2] = 0 /\ p[1] \div p[2] < 10^6
      <4>1. RereadFloat(x) = Whole(Signed(x.n, p[1] \div p[2]))
        BY <3>2, Zenon DEF RereadFloat
      <4> QED
        BY <4>1
    <3>3. CASE IsFinite(x) /\ ~ (p[1] % p[2] = 0 /\ p[1] \div p[2] < 10^6)
      <4>1. RereadFloat(x) = IF p[1] * x.d = n * p[2] THEN Float(x.n, x.d)
                             ELSE Float(Signed(x.n, p[1]), p[2])
        BY <3>3, Zenon DEF RereadFloat
      <4> HIDE DEF p, n
      <4> QED
        BY <4>1
    <3> QED
      BY <3>1, <3>2, <3>3
  <2> QED
    BY <1>1, <1>2, <2>1, <2>2, SpecialsArePure
<1>5. CASE x.kind = "bool"
  <2>1. Reread(x) = x
    BY <1>5 DEF Reread, IsIntegerType, IsFloatType
  <2> QED
    BY <2>1
<1>6. CASE x.kind = "string"
  <2>1. Reread(x) = WordValue(x.text)
    BY <1>6 DEF Reread, IsIntegerType, IsFloatType
  <2>2. Pure(WordValue(x.text))
    BY ReadAsAssumption, SpecialsArePure DEF WordValue, Pure
  <2> QED
    BY <2>1, <2>2
<1>7. CASE ~ IsIntegerType(x.kind) /\ ~ IsFloatType(x.kind) /\ x.kind \notin {"bool", "string"}
  BY <1>7, SpecialsArePure DEF Reread
<1> QED
  BY <1>3, <1>4, <1>5, <1>6, <1>7

LEMMA FoundIsPure ==
  ASSUME ValuesInv, NEW name
  PROVE  Node(name).kind = "const" => PureNode(Node(name).init)
<1>1. CASE Node(name) = [kind |-> "none"]
  BY <1>1
<1>2. ASSUME NEW k \in DOMAIN scopes, NEW j \in DOMAIN scopes[k], Node(name) = scopes[k][j].node
      PROVE  Node(name).kind = "const" => PureNode(Node(name).init)
  BY <1>2 DEF ValuesInv, PureTables
<1> QED
  BY <1>1, <1>2, NodeIsThere DEF ValuesInv

LEMMA PureAppend ==
  ASSUME NEW r, IsSeq(r), PureStack(r), NEW f, PureFrame(f)
  PROVE  PureStack(Append(r, f)) /\ IsSeq(Append(r, f))
<1> DEFINE s == Append(r, f)
<1>1. PushedOn(r, f, s) /\ IsSeq(s)
  BY AppendPushes
<1> HIDE DEF s
<1>2. \A k \in DOMAIN s : (k \in DOMAIN r /\ s[k] = r[k]) \/ s[k] = f
  BY <1>1, PushedFacts
<1>3. PureStack(s)
  BY <1>2 DEF PureStack
<1> QED
  BY <1>1, <1>3 DEF s

LEMMA PurePopped ==
  ASSUME ValuesInv, Running PROVE PureStack(Rest) /\ IsSeq(Rest) /\ PureFrame(Top)
<1>1. PushedOn(Rest, Top, stack) /\ IsSeq(Rest)
  BY OwnPopped DEF ValuesInv
<1>2. /\ \A k \in DOMAIN Rest : k \in DOMAIN stack /\ stack[k] = Rest[k]
      /\ Len(Rest) + 1 \in DOMAIN stack /\ stack[Len(Rest) + 1] = Top
  BY <1>1, PushedFacts
<1> QED
  BY <1>1, <1>2 DEF ValuesInv, PureStack

LEMMA ValuesKept ==
  ASSUME ValuesInv, OwnInv', scopes' = scopes, Pure(result'), PureStack(stack')
  PROVE  ValuesInv'
BY DEF ValuesInv

LEMMA ValuesReturned ==
  ASSUME ValuesInv, OwnInv', Running, scopes' = scopes, NEW x, Pure(x), Return(x)
  PROVE  ValuesInv'
BY PurePopped, ValuesKept DEF Return

LEMMA ValuesContinued ==
  ASSUME ValuesInv, OwnInv', Running, scopes' = scopes, NEW f, PureFrame(f), Continue(f)
  PROVE  ValuesInv'
<1>1. PureStack(Append(Rest, f))
  BY PurePopped, PureAppend
<1> QED
  BY <1>1, SpecialsArePure, ValuesKept DEF Continue

LEMMA EvalIsPure == ASSUME NEW n, PureNode(n) PROVE PureFrame(Eval(n))
BY DEF PureFrame, Eval

\* A frame that has neither a node to evaluate nor arguments.
LEMMA OthersArePure == ASSUME NEW f, f.at \notin {"expr", "args"} PROVE PureFrame(f)
BY DEF PureFrame

LEMMA PureTwo ==
  ASSUME ValuesInv, Running, NEW f, PureFrame(f), NEW g, PureFrame(g)
  PROVE  PureStack(Rest \o <<f, g>>)
<1> DEFINE s == Append(Rest, f)
<1>1. PureStack(s) /\ IsSeq(s)
  BY PurePopped, PureAppend
<1>2. Rest \o <<f, g>> = Append(s, g)
  BY PurePopped, AppendedTogether DEF IsSeq
<1> HIDE DEF s
<1>3. PureStack(Append(s, g))
  BY <1>1, PureAppend
<1> QED
  BY <1>2, <1>3

LEMMA ValuesCalled ==
  ASSUME ValuesInv, OwnInv', Running, scopes' = scopes,
         NEW n \in Nodes, NEW f, PureFrame(f), CallThen(n, f)
  PROVE  ValuesInv'
<1>1. PureStack(Rest \o <<f, Eval(n)>>)
  BY NodesArePure, EvalIsPure, PureTwo
<1> QED
  BY <1>1, SpecialsArePure, ValuesKept DEF CallThen

LEMMA ValuesLiteral == ASSUME ValuesInv, OwnInv', LiteralStep PROVE ValuesInv'
<1>1. /\ Running /\ Top.at = "expr" /\ Top.node.kind = "literal"
      /\ Return(Top.node.value) /\ scopes' = scopes
  BY DEF LiteralStep, AtExpr, At, NoCalls
<1>2. Pure(Top.node.value)
  BY <1>1, PurePopped DEF PureFrame, PureNode
<1> QED
  BY <1>1, <1>2, ValuesReturned

LEMMA ValuesIdentifier == ASSUME ValuesInv, OwnInv', Identifier PROVE ValuesInv'
<1> DEFINE node == Node(Top.node.name)
<1>1. /\ Running /\ scopes' = scopes
      /\ IF node.kind = "const" THEN Continue(Eval(node.init)) ELSE Return(Null)
  BY DEF Identifier, AtExpr, At, NoCalls
<1>2. node.kind = "const" => PureNode(node.init)
  BY FoundIsPure
<1> HIDE DEF node
<1>3. CASE node.kind = "const"
  <2>1. PureFrame(Eval(node.init)) /\ Continue(Eval(node.init))
    BY <1>1, <1>2, <1>3, EvalIsPure
  <2> QED
    BY <1>1, <2>1, ValuesContinued
<1>4. CASE node.kind # "const"
  BY <1>1, <1>4, SpecialsArePure, ValuesReturned
<1> QED
  BY <1>3, <1>4

LEMMA ValuesBinary == ASSUME ValuesInv, OwnInv', Binary PROVE ValuesInv'
<1> DEFINE f == [at |-> "left", node |-> Top.node]
<1>1. /\ Running /\ Top.at = "expr" /\ Top.node.kind = "binary" /\ scopes' = scopes
      /\ CallThen(Top.node.left, f) /\ f.at = "left"
  BY DEF Binary, AtExpr, At, NoCalls
<1>2. Top.node.left \in Nodes
  BY <1>1, TopIsNode, NodesAssumption DEF ValuesInv
<1> HIDE DEF f
<1>3. PureFrame(f)
  BY <1>1, OthersArePure
<1> QED
  BY <1>1, <1>2, <1>3, ValuesCalled

LEMMA ValuesLeft == ASSUME ValuesInv, OwnInv', Left PROVE ValuesInv'
<1> DEFINE f == [at |-> "right", op |-> Top.node.op, left |-> result]
<1>1. /\ Running /\ Top.at = "left" /\ scopes' = scopes /\ f.at = "right"
      /\ IF result = Null THEN Return(Null) ELSE CallThen(Top.node.right, f)
  BY DEF Left, At, NoCalls
<1>2. Top.node \in Nodes /\ Top.node.kind = "binary"
  BY <1>1, OwnPopped DEF ValuesInv, Formed
<1>3. Top.node.right \in Nodes
  BY <1>2, NodesAssumption
<1> HIDE DEF f
<1>4. PureFrame(f)
  BY <1>1, OthersArePure
<1>5. CASE result = Null
  BY <1>1, <1>5, SpecialsArePure, ValuesReturned
<1>6. CASE result # Null
  BY <1>1, <1>3, <1>4, <1>6, ValuesCalled
<1> QED
  BY <1>5, <1>6

LEMMA ValuesRight == ASSUME ValuesInv, OwnInv', Right PROVE ValuesInv'
<1> DEFINE x == IF result = Null THEN Null ELSE BinaryOp(Top.op, Top.left, result)
<1>1. Running /\ scopes' = scopes /\ Return(x)
  BY DEF Right, At, NoCalls
<1>2. Pure(x)
  BY SpecialsArePure, OperationsArePure
<1> HIDE DEF x
<1> QED
  BY <1>1, <1>2, ValuesReturned

LEMMA ValuesUnary == ASSUME ValuesInv, OwnInv', Unary PROVE ValuesInv'
<1> DEFINE f == [at |-> "operand", op |-> Top.node.op]
<1>1. /\ Running /\ Top.at = "expr" /\ Top.node.kind = "unary" /\ scopes' = scopes
      /\ CallThen(Top.node.operand, f) /\ f.at = "operand"
  BY DEF Unary, AtExpr, At, NoCalls
<1>2. Top.node.operand \in Nodes
  BY <1>1, TopIsNode, NodesAssumption DEF ValuesInv
<1> HIDE DEF f
<1>3. PureFrame(f)
  BY <1>1, OthersArePure
<1> QED
  BY <1>1, <1>2, <1>3, ValuesCalled

LEMMA ValuesOperand == ASSUME ValuesInv, OwnInv', Operand PROVE ValuesInv'
<1> DEFINE x == IF result = Null THEN Null ELSE UnaryOp(Top.op, result)
<1>1. Running /\ scopes' = scopes /\ Return(x)
  BY DEF Operand, At, NoCalls
<1>2. Pure(x)
  BY SpecialsArePure, SignsArePure DEF ValuesInv
<1> HIDE DEF x
<1> QED
  BY <1>1, <1>2, ValuesReturned

LEMMA ValuesCall == ASSUME ValuesInv, OwnInv', Call PROVE ValuesInv'
<1> DEFINE func == Node(Top.node.name)
           f == [at |-> "args", func |-> func, args |-> Top.node.args, done |-> << >>]
<1>1. /\ Running /\ scopes' = scopes /\ (Continue(f) \/ Return(Null))
      /\ f.at = "args" /\ f.done = << >>
  BY DEF Call, AtExpr, At, NoCalls
<1> HIDE DEF f
<1>2. PureFrame(f)
  BY <1>1 DEF PureFrame
<1> QED
  BY <1>1, <1>2, SpecialsArePure, ValuesContinued, ValuesReturned

LEMMA ValuesArgument == ASSUME ValuesInv, OwnInv', Argument PROVE ValuesInv'
<1> DEFINE n == Top.args[Len(Top.done) + 1]
<1>1. /\ Running /\ Top.at = "args" /\ scopes' = scopes /\ Len(Top.done) < Len(Top.args)
      /\ CallThen(n, Top)
  BY DEF Argument, At, NoCalls
<1>2. Top.args \in Seq(Nodes) /\ Len(Top.done) \in Nat
  BY <1>1, OwnPopped DEF ValuesInv, Formed, IsSeq
<1>3. n \in Nodes
  <2>1. Len(Top.done) + 1 \in 1..Len(Top.args)
    BY <1>1, <1>2
  <2> QED
    BY <1>2, <2>1
<1> HIDE DEF n
<1> QED
  BY <1>1, <1>3, PurePopped, ValuesCalled

LEMMA ValuesArgumentDone == ASSUME ValuesInv, OwnInv', ArgumentDone PROVE ValuesInv'
<1>1. Running /\ Top.at = "args" /\ scopes' = scopes
  BY DEF ArgumentDone, At
<1>2. CASE result = Null
  BY <1>1, <1>2, SpecialsArePure, ValuesReturned DEF ArgumentDone
<1>3. CASE result # Null
  <2> DEFINE new == Literal(NewId, Reread(result))
             done == Append(Top.done, new)
             f == [Top EXCEPT !.done = done]
  <2>1. Continue(f)
    BY <1>3 DEF ArgumentDone
  <2>2. {"at", "done"} \subseteq DOMAIN Top /\ IsSeq(Top.done)
    BY <1>1, OwnPopped, TopHasPlace DEF ValuesInv, Formed, OwnInv
  <2>3. Pure(new.value)
    BY RereadIsPure DEF ValuesInv, Literal
  <2> HIDE DEF new
  <2>4. \A k \in DOMAIN done : done[k] = new \/ (k \in DOMAIN Top.done /\ done[k] = Top.done[k])
    BY <2>2, AppendPushes, PushedFacts
  <2> HIDE DEF done
  <2>5. f.at = "args" /\ f.done = done
    BY <1>1, <2>2
  <2> HIDE DEF f
  <2>6. \A k \in DOMAIN Top.done : Pure(Top.done[k].value)
    BY <1>1, PurePopped DEF PureFrame
  <2>7. PureFrame(f)
    BY <2>3, <2>4, <2>5, <2>6 DEF PureFrame
  <2> QED
    BY <1>1, <2>1, <2>7, ValuesContinued
<1> QED
  BY <1>2, <1>3

LEMMA ValuesEnter == ASSUME ValuesInv, OwnInv', Enter PROVE ValuesInv'
<1>1. Running /\ Top.at = "args"
  BY DEF Enter, At
<1>2. CASE ~ CanEnter(Top.func, Top.done)
  BY <1>1, <1>2, SpecialsArePure, ValuesReturned DEF Enter
<1>3. CASE CanEnter(Top.func, Top.done)
  <2> DEFINE f == [at |-> "call", done |-> Top.done]
             g == [at |-> "body"]
             h == [at |-> "block", rest |-> Top.func.body]
             table == ParameterTable(Top.func.params, Top.done)
             r == Rest \o <<f, g>>
  <2>1. stack' = Rest \o <<f, g, h>> /\ scopes' = Append(scopes, table) /\ result' = result
    BY <1>3 DEF Enter, ParameterTable
  <2>2. /\ f.at \notin {"expr", "args"} /\ g.at \notin {"expr", "args"}
        /\ h.at \notin {"expr", "args"}
    OBVIOUS
  <2>3. PureFrame(f) /\ PureFrame(g) /\ PureFrame(h)
    BY <2>2, OthersArePure
  <2>4. Rest \o <<f, g, h>> = Append(Append(Append(Rest, f), g), h)
    BY <1>1, PurePopped, AppendedTogether DEF IsSeq
  <2> HIDE DEF f, g, h
  <2>5. PureStack(stack')
    <3> DEFINE r1 == Append(Rest, f)
               r2 == Append(r1, g)
    <3>1. PureStack(r1) /\ IsSeq(r1)
      BY <1>1, <2>3, PurePopped, PureAppend
    <3> HIDE DEF r1
    <3>2. PureStack(r2) /\ IsSeq(r2)
      BY <2>3, <3>1, PureAppend
    <3> HIDE DEF r2
    <3>3. PureStack(Append(r2, h))
      BY <2>3, <3>2, PureAppend
    <3>4. stack' = Append(r2, h)
      BY <2>1, <2>4 DEF r1, r2
    <3> QED
      BY <3>3, <3>4
  <2>6. ASSUME NEW j \in DOMAIN table PROVE PureNode(table[j].node.init)
    <3>1. j \in DOMAIN Top.done
      BY <2>6 DEF ParameterTable
    <3>2. Pure(Top.done[j].value)
      BY <1>1, <3>1, PurePopped DEF PureFrame
    <3>3. table[j] = Parameter(Top.func.params[j], Top.done[j].id, Top.done[j].value)
      BY <3>1 DEF ParameterTable
    <3>4. table[j].node.init.value = Top.done[j].value
      BY <3>3 DEF Parameter, Literal
    <3> QED
      BY <3>2, <3>4 DEF PureNode
  <2> HIDE DEF table
  <2>7. PureTables(scopes')
    <3>1. IsSeq(scopes)
      BY DEF ValuesInv, OwnInv, CallsInv, IsSeq
    <3>2. \A k \in DOMAIN scopes' : (k \in DOMAIN scopes /\ scopes'[k] = scopes[k]) \/ scopes'[k] = table
      BY <2>1, <3>1, AppendPushes, PushedFacts
    <3> QED
      BY <2>6, <3>2 DEF PureTables, ValuesInv
  <2> QED
    BY <2>1, <2>5, <2>7 DEF ValuesInv
<1> QED
  BY <1>2, <1>3

LEMMA ValuesBlock == ASSUME ValuesInv, OwnInv', Block PROVE ValuesInv'
<1>1. Running /\ Top.at = "block" /\ scopes' = scopes
  BY DEF Block, At, NoCalls
<1>2. Top.rest \in Seq(Statements) /\ {"at", "rest"} \subseteq DOMAIN Top
  BY <1>1, OwnPopped, TopHasPlace DEF ValuesInv, Formed, OwnInv
<1>3. CASE Top.rest = << >>
  BY <1>1, <1>3, SpecialsArePure, ValuesReturned DEF Block
<1>4. CASE Top.rest # << >>
  <2> DEFINE s == Head(Top.rest)
             f == [at |-> "cond", stmt |-> s, rest |-> Tail(Top.rest)]
             g == [Top EXCEPT !.rest = Tail(@)]
  <2>1. s \in Statements
    BY <1>2, <1>4
  <2>2. \/ s.kind = "return" /\ Continue(Eval(s.expr))
        \/ s.kind = "if" /\ CallThen(s.cond, f)
        \/ Continue(g)
    BY <1>4 DEF Block
  <2>3. f.at = "cond" /\ g.at = "block"
    BY <1>1, <1>2
  <2> HIDE DEF s, f, g
  <2>4. PureFrame(f) /\ PureFrame(g)
    BY <2>3, OthersArePure
  <2>5. CASE s.kind = "return" /\ Continue(Eval(s.expr))
    <3>1. s.expr \in Nodes
      BY <2>1, <2>5, StatementsAssumption
    <3>2. PureFrame(Eval(s.expr))
      BY <3>1, NodesArePure, EvalIsPure
    <3> QED
      BY <1>1, <2>5, <3>2, ValuesContinued
  <2>6. CASE s.kind = "if" /\ CallThen(s.cond, f)
    <3>1. s.cond \in Nodes
      BY <2>1, <2>6, StatementsAssumption
    <3> QED
      BY <1>1, <2>4, <2>6, <3>1, ValuesCalled
  <2>7. CASE Continue(g)
    BY <1>1, <2>4, <2>7, ValuesContinued
  <2> QED
    BY <2>2, <2>5, <2>6, <2>7
<1> QED
  BY <1>3, <1>4

LEMMA ValuesCondition == ASSUME ValuesInv, OwnInv', Condition PROVE ValuesInv'
<1> DEFINE f == [at |-> "block", rest |-> AfterIf(Top)]
           g == [at |-> "block", rest |-> IF result.n = 1 THEN Top.stmt.then ELSE Top.stmt.else]
<1>1. Running /\ scopes' = scopes
  BY DEF Condition, At, NoCalls
<1>2. CASE result.kind # "bool"
  BY <1>1, <1>2, SpecialsArePure, ValuesReturned DEF Condition
<1>3. CASE result.kind = "bool"
  <2>1. stack' = Rest \o <<f, g>> /\ result' = Pending
    BY <1>3 DEF Condition
  <2>2. f.at = "block" /\ g.at = "block"
    OBVIOUS
  <2> HIDE DEF f, g
  <2>3. PureFrame(f) /\ PureFrame(g)
    BY <2>2, OthersArePure
  <2>4. PureStack(Rest \o <<f, g>>)
    BY <1>1, <2>3, PureTwo
  <2> QED
    BY <1>1, <2>1, <2>4, SpecialsArePure, ValuesKept
<1> QED
  BY <1>2, <1>3

LEMMA ValuesNestedDone == ASSUME ValuesInv, OwnInv', NestedDone PROVE ValuesInv'
<1>1. Running /\ scopes' = scopes
  BY DEF NestedDone, At, NoCalls
<1>2. PureFrame(Top) /\ Pure(result)
  BY <1>1, PurePopped DEF ValuesInv
<1> QED
  BY <1>1, <1>2, ValuesContinued, ValuesReturned DEF NestedDone

LEMMA ValuesLeaveBody == ASSUME ValuesInv, OwnInv', LeaveBody PROVE ValuesInv'
<1>1. Running /\ stack' = Rest /\ result' = result /\ scopes' = Front(scopes)
  BY DEF LeaveBody, At, Return
<1>2. PureStack(stack')
  BY <1>1, PurePopped
<1>3. PureTables(scopes')
  <2>1. CASE scopes = << >>
    <3>1. DOMAIN Front(<< >>) = {}
      BY DEF Front
    <3> QED
      BY <1>1, <2>1, <3>1 DEF PureTables
  <2>2. CASE scopes # << >>
    <3>1. PushedOn(scopes', Last(scopes), scopes)
      BY <1>1, <2>2, LastPushed DEF ValuesInv, OwnInv, CallsInv, IsSeq
    <3>2. \A k \in DOMAIN scopes' : k \in DOMAIN scopes /\ scopes[k] = scopes'[k]
      BY <3>1, PushedFacts
    <3> QED
      BY <3>2 DEF PureTables, ValuesInv
  <2> QED
    BY <2>1, <2>2
<1> QED
  BY <1>1, <1>2, <1>3 DEF ValuesInv

LEMMA ValuesCallDone == ASSUME ValuesInv, OwnInv', CallDone PROVE ValuesInv'
BY ValuesReturned DEF CallDone, At, ValuesInv

LEMMA InitValues == Init => ValuesInv
<1> SUFFICES ASSUME Init PROVE ValuesInv
  OBVIOUS
<1>1. stack = << >> /\ scopes = <<program.globals>> /\ result = Null /\ program \in Programs
  BY DEF Init
<1>2. \A j \in DOMAIN program.globals :
        program.globals[j].node.kind = "const" => program.globals[j].node.init \in Nodes
  BY <1>1, ProgramsAssumption
<1>3. DOMAIN scopes = {1} /\ scopes[1] = program.globals
  BY <1>1
<1>4. PureTables(scopes)
  BY <1>2, <1>3, NodesArePure DEF PureTables
<1>5. PureStack(stack)
  BY <1>1 DEF PureStack
<1> QED
  BY <1>1, <1>4, <1>5, InitOwns, SpecialsArePure DEF ValuesInv

LEMMA ValuesEvaluate == ASSUME ValuesInv, OwnInv', Evaluate PROVE ValuesInv'
<1>1. /\ expression' \in program.exprs /\ stack' = <<Eval(expression')>>
      /\ result' = Pending /\ scopes' = scopes
  BY DEF Evaluate
<1>2. expression' \in Nodes
  BY <1>1, ProgramsAssumption DEF ValuesInv, OwnInv
<1> DEFINE f == Eval(expression')
<1>3. PureFrame(f)
  BY <1>2, NodesArePure, EvalIsPure
<1> HIDE DEF f
<1>4. DOMAIN stack' = {1} /\ stack'[1] = f
  BY <1>1 DEF f
<1>5. PureStack(stack')
  BY <1>3, <1>4 DEF PureStack
<1> QED
  BY <1>1, <1>5, SpecialsArePure, ValuesKept

LEMMA NextValues == ValuesInv /\ [Next]_vars => ValuesInv'
<1> SUFFICES ASSUME ValuesInv, [Next]_vars PROVE ValuesInv'
  OBVIOUS
<1>1. OwnInv'
  BY NextOwns DEF ValuesInv
<1>2. CASE Evaluate
  BY <1>1, <1>2, ValuesEvaluate
<1>3. CASE Step
  BY <1>1, <1>3, ValuesLiteral, ValuesIdentifier, ValuesBinary, ValuesLeft, ValuesRight,
     ValuesUnary, ValuesOperand, ValuesCall, ValuesArgument, ValuesArgumentDone, ValuesEnter,
     ValuesBlock, ValuesCondition, ValuesNestedDone, ValuesLeaveBody, ValuesCallDone DEF Step
<1>4. CASE UNCHANGED vars
  BY <1>1, <1>4, ValuesKept DEF vars, ValuesInv
<1> QED
  BY <1>2, <1>3, <1>4 DEF Next

\* The only step of an activation that waits for an operand.
LEMMA OperandSteps ==
  ASSUME [Next]_vars, Running, Top.at \in {"right", "operand"}, ~ UNCHANGED vars
  PROVE  IF Top.at = "right" THEN Right ELSE Operand
BY DEF Next, Evaluate, Step, LiteralStep, Identifier, Binary, Left, Right, Unary, Operand, Call,
       Argument, ArgumentDone, Enter, Block, Condition, NestedDone, LeaveBody, CallDone, AtExpr, At

(***************************************************************************)
(* For every operator and all values: what the evaluator makes of an       *)
(* operation has the type that the type checker predicts and is a proper   *)
(* value of it, whole if it is an integer, and what the type checker       *)
(* accepts is refused only for the reasons that MayRefuse lists.           *)
(***************************************************************************)
THEOREM TypesAgree == Spec => TypesPredictResults
<1> DEFINE A == /\ Running /\ Top.at = "right" /\ result # Null
                     => IF result' = Null THEN MayRefuse(Top.op, Top.left, result)
                        ELSE IsValueOf(result', GetBinaryOpType(Top.op, Top.left.kind, result.kind))
                /\ Running /\ Top.at = "operand" /\ result # Null
                     => IF result' = Null THEN Top.op = "+" \/ GetUnaryOpType(Top.op, result.kind) = "error"
                        ELSE IsValueOf(result', GetUnaryOpType(Top.op, result.kind))
<1>1. ASSUME ValuesInv, [Next]_vars PROVE [A]_vars
  <2> SUFFICES ASSUME ~ UNCHANGED vars PROVE A
    OBVIOUS
  <2>1. ASSUME Running, Top.at = "right", result # Null
        PROVE  Answers(result', Top.op, Top.left, result)
    <3>1. result' = BinaryOp(Top.op, Top.left, result)
      BY <1>1, <2>1, OperandSteps DEF Right, Return
    <3> QED
      BY <3>1, OperatorsAnswer
  <2>2. ASSUME Running, Top.at = "operand", result # Null
        PROVE  IF result' = Null THEN Top.op = "+" \/ GetUnaryOpType(Top.op, result.kind) = "error"
               ELSE IsValueOf(result', GetUnaryOpType(Top.op, result.kind))
    <3>1. result' = UnaryOp(Top.op, result)
      BY <1>1, <2>2, OperandSteps DEF Operand, Return
    <3>2. Pure(result)
      BY <1>1 DEF ValuesInv
    <3> QED
      BY <3>1, <3>2, UnaryAnswers
  <2> QED
    BY <2>1, <2>2 DEF Answers
<1>2. Spec => [][A]_vars
  BY <1>1, InitValues, NextValues, PTL DEF Spec
<1> QED
  BY <1>2 DEF TypesPredictResults

-----------------------------------------------------------------------------
(***************************************************************************)
(* The rules of ComptimeMeaning.  They are a function that refers to       *)
(* itself, so it has first to be shown that there is one.                  *)
(***************************************************************************)
LEMMA LeastNat ==
  ASSUME NEW S, S \subseteq Nat, S # {}
  PROVE  \E x \in S : \A y \in S : x <= y
<1>1. PICK top \in S : TRUE
  OBVIOUS
<1> DEFINE Low == {x \in S : x <= top}
<1>2. top \in Nat
  BY <1>1
<1>3. top \in Low
  BY <1>1, <1>2
<1>4. \A x \in Low : x \in S /\ x \in Nat /\ x <= top
  OBVIOUS
<1>5. \A x \in S : x <= top => x \in Low
  OBVIOUS
<1> HIDE DEF Low
<1>6. Low \subseteq Int
  BY <1>4
<1>7. IsFiniteSet(Low)
  <2>1. IsFiniteSet(0..top)
    BY <1>2, FS_Interval
  <2>2. \A x \in Low : x \in 0..top
    BY <1>2, <1>4
  <2>3. Low \in SUBSET (0..top)
    BY <2>2
  <2> QED
    BY <2>1, <2>3, FS_Subset
<1>8. Min(Low) \in Low /\ \A y \in Low : Min(Low) <= y
  BY <1>3, <1>6, <1>7, MinIsIn
<1>9. Min(Low) \in S /\ Min(Low) <= top /\ Min(Low) \in Nat
  BY <1>4, <1>8
<1>10. ASSUME NEW y \in S PROVE Min(Low) <= y
  <2>1. y \in Nat
    OBVIOUS
  <2>2. CASE y <= top
    BY <1>5, <1>8, <2>2
  <2>3. CASE ~ (y <= top)
    BY <1>2, <1>9, <2>1, <2>3
  <2> QED
    BY <2>2, <2>3
<1> QED
  BY <1>9, <1>10

LEMMA Upwards ==
  ASSUME NEW S, NEW n \in Nat, 0 \in S,
         \A k \in 0..n : k # n /\ k \in S => k + 1 \in S
  PROVE  \A k \in 0..n : k \in S
<1> DEFINE Out == {k \in 0..n : k \notin S}
<1> SUFFICES ASSUME Out # {} PROVE FALSE
  OBVIOUS
<1>1. Out \subseteq Nat
  OBVIOUS
<1>2. PICK k \in Out : \A j \in Out : k <= j
  <2> HIDE DEF Out
  <2> QED
    BY <1>1, LeastNat
<1>3. k \in 0..n /\ k \notin S /\ k # 0
  BY <1>2
<1>4. k - 1 \in 0..n /\ k - 1 # n /\ (k - 1) + 1 = k /\ ~ (k <= k - 1)
  BY <1>3
<1>5. k - 1 \in S
  BY <1>2, <1>4
<1> QED
  BY <1>3, <1>4, <1>5

\* f[k] is what the rules say when one leads to another at most k times.
Ruled(f, p, n) ==
  f = [k \in 0..n |-> IF k = 0 THEN NoRules ELSE Applied(p, f[k - 1])]

LEMMA RuledExist ==
  ASSUME NEW p, NEW n \in Nat
  PROVE  \E f : Ruled(f, p, n)
<1> DEFINE S == {k \in 0..n : \E f : Ruled(f, p, k)}
<1>1. 0 \in S
  <2>1. Ruled([k \in 0..0 |-> NoRules], p, 0)
    BY DEF Ruled
  <2> QED
    BY <2>1
<1>2. ASSUME NEW k \in 0..n, k # n, k \in S PROVE k + 1 \in S
  <2>1. PICK f : Ruled(f, p, k)
    BY <1>2
  <2> DEFINE last == Applied(p, f[k])
             g == [j \in 0..(k + 1) |-> IF j = k + 1 THEN last ELSE f[j]]
  <2>2. \A j \in 0..k : f[j] = IF j = 0 THEN NoRules ELSE Applied(p, f[j - 1])
    BY <2>1 DEF Ruled
  <2>3. ASSUME NEW j \in 0..(k + 1)
        PROVE  g[j] = IF j = 0 THEN NoRules ELSE Applied(p, g[j - 1])
    <3>1. CASE j = k + 1
      <4>1. j # 0 /\ j - 1 = k /\ j - 1 \in 0..(k + 1) /\ j - 1 # k + 1
        BY <3>1
      <4>2. g[j] = last /\ g[j - 1] = f[k]
        BY <3>1, <4>1
      <4> QED
        BY <3>1, <4>1, <4>2
    <3>2. CASE j # k + 1 /\ j # 0
      <4>1. /\ j \in 0..k /\ j - 1 \in 0..k
            /\ j - 1 \in 0..(k + 1) /\ j - 1 # k + 1
        BY <3>2
      <4>2. g[j] = f[j] /\ g[j - 1] = f[j - 1]
        BY <3>2, <4>1
      <4> QED
        BY <2>2, <3>2, <4>1, <4>2
    <3>3. CASE j = 0
      <4>1. j \in 0..k /\ j # k + 1
        BY <3>3
      <4> QED
        BY <2>2, <3>3, <4>1
    <3> QED
      BY <3>1, <3>2, <3>3
  <2>4. Ruled(g, p, k + 1)
    <3>1. g = [j \in 0..(k + 1) |-> g[j]]
      OBVIOUS
    <3> HIDE DEF g
    <3> QED
      BY <2>3, <3>1 DEF Ruled
  <2> QED
    BY <1>2, <2>4
<1>3. n \in S
  <2> HIDE DEF S
  <2> QED
    BY <1>1, <1>2, Upwards
<1> QED
  BY <1>3

LEMMA RulesAre ==
  ASSUME NEW p
  PROVE  /\ Rules(p)[0] = NoRules
         /\ \A n \in 1..MaxRules :
              n - 1 \in 0..MaxRules /\ Rules(p)[n] = Applied(p, Rules(p)[n - 1])
<1>1. \E f : Ruled(f, p, MaxRules)
  BY MaxRulesAssumption, RuledExist
<1> DEFINE g == CHOOSE f : Ruled(f, p, MaxRules)
<1>2. Ruled(g, p, MaxRules)
  BY <1>1
<1>3. Rules(p) = g
  BY DEF Rules, Ruled
<1> HIDE DEF g
<1>4. \A n \in 0..MaxRules : g[n] = IF n = 0 THEN NoRules ELSE Applied(p, g[n - 1])
  BY <1>2 DEF Ruled
<1>5. 0 \in 0..MaxRules
      /\ \A n \in 1..MaxRules : n \in 0..MaxRules /\ n # 0 /\ n - 1 \in 0..MaxRules
  BY MaxRulesAssumption
<1>6. g[0] = NoRules
      /\ \A n \in 1..MaxRules : n - 1 \in 0..MaxRules /\ g[n] = Applied(p, g[n - 1])
  BY <1>4, <1>5
<1> QED
  BY <1>3, <1>6

(***************************************************************************)
(* What is known was found by a rule, from what is known one step before.  *)
(***************************************************************************)
LEMMA ExprKnown ==
  ASSUME NEW p, NEW n \in 0..MaxRules, NEW e \in Nodes, NEW c \in Contexts,
         Rules(p)[n].expr[e][c] # Unknown
  PROVE  /\ n - 1 \in 0..MaxRules
         /\ Rules(p)[n].expr[e][c] = ExprMeans(p, Rules(p)[n - 1], e, c)
<1>1. n # 0
  <2>1. NoRules.expr[e][c] = Unknown
    BY DEF NoRules
  <2> QED
    BY <2>1, RulesAre
<1>2. n \in 1..MaxRules
  BY <1>1, MaxRulesAssumption
<1>3. n - 1 \in 0..MaxRules /\ Rules(p)[n] = Applied(p, Rules(p)[n - 1])
  BY <1>2, RulesAre
<1>4. \A m : Applied(p, m).expr[e][c] = ExprMeans(p, m, e, c)
  BY DEF Applied
<1> QED
  BY <1>3, <1>4

LEMMA BodyKnown ==
  ASSUME NEW p, NEW n \in 0..MaxRules, NEW s \in Seq(Statements), NEW c \in Contexts,
         Rules(p)[n].body[s][c] # Unknown
  PROVE  /\ n - 1 \in 0..MaxRules
         /\ Rules(p)[n].body[s][c] = BodyMeans(Rules(p)[n - 1], s, c)
<1>1. n # 0
  <2>1. NoRules.body[s][c] = Unknown
    BY DEF NoRules
  <2> QED
    BY <2>1, RulesAre
<1>2. n \in 1..MaxRules
  BY <1>1, MaxRulesAssumption
<1>3. n - 1 \in 0..MaxRules /\ Rules(p)[n] = Applied(p, Rules(p)[n - 1])
  BY <1>2, RulesAre
<1>4. \A m : Applied(p, m).body[s][c] = BodyMeans(m, s, c)
  BY DEF Applied
<1> QED
  BY <1>3, <1>4

-----------------------------------------------------------------------------
(***************************************************************************)
(* What a program's names stand for outside its functions, and the         *)
(* contexts in which parts of it are evaluated.                            *)
(***************************************************************************)
LEMMA EndsAreIn ==
  ASSUME NEW n \in Nat, NEW S, S \subseteq 1..n, S # {}
  PROVE  /\ Min(S) \in S /\ \A y \in S : Min(S) <= y
         /\ Max(S) \in S /\ \A y \in S : Max(S) >= y
<1>1. S \in SUBSET (1..n) /\ S \subseteq Int
  OBVIOUS
<1>2. IsFiniteSet(1..n)
  BY FS_Interval
<1>3. IsFiniteSet(S)
  BY <1>1, <1>2, FS_Subset
<1> QED
  BY <1>1, <1>3, MinIsIn, MaxIsIn

LEMMA GlobalFacts ==
  ASSUME NEW p \in Programs, NEW name
  PROVE  /\ Global(p, name).kind = "const" => Global(p, name).init \in Nodes
         /\ Global(p, name).kind = "function"
              => Global(p, name) \in Functions /\ Global(p, name).body \in Seq(Statements)
<1> DEFINE found == {k \in DOMAIN p.globals : p.globals[k].name = name}
<1>1. /\ Len(p.globals) \in Nat /\ DOMAIN p.globals = 1..Len(p.globals)
      /\ \A k \in DOMAIN p.globals :
           /\ p.globals[k].node.kind = "const" => p.globals[k].node.init \in Nodes
           /\ p.globals[k].node.kind = "function" => p.globals[k].node.body \in Seq(Statements)
  BY ProgramsAssumption
<1>2. CASE found = {}
  BY <1>2 DEF Global
<1>3. CASE found # {}
  <2>1. found \subseteq 1..Len(p.globals)
    BY <1>1
  <2>3. Min(found) \in found
    <3> HIDE DEF found
    <3> QED
      BY <1>1, <1>3, <2>1, EndsAreIn
  <2>4. Min(found) \in DOMAIN p.globals
    BY <2>3
  <2>5. Global(p, name) = p.globals[Min(found)].node
    BY <1>3 DEF Global
  <2> HIDE DEF found
  <2>6. Global(p, name).kind = "function" => Global(p, name) \in Functions
    BY <2>4, <2>5 DEF Functions
  <2> QED
    BY <1>1, <2>4, <2>5, <2>6
<1> QED
  BY <1>2, <1>3

LEMMA OutsideFits == Outside \in Contexts
<1>1. 0 \in 0..MAX_RECURSION_DEPTH
  BY MaxDepthAssumption
<1> QED
  BY <1>1 DEF Outside, Contexts, NothingBound

LEMMA GloballyFits ==
  ASSUME NEW c \in Contexts PROVE Globally(c) \in Contexts
<1>1. c.outer \cup BoundIn(c) \in SUBSET Names
  BY DEF Contexts, BoundIn
<1>2. c.depth \in 0..MAX_RECURSION_DEPTH
  BY DEF Contexts
<1>3. NothingBound \in [Names -> Passed \cup {Unbound}]
  BY DEF NothingBound
<1> QED
  BY <1>1, <1>2, <1>3 DEF Globally, Contexts

\* The argument for a name is the first one whose parameter has the name.
LEMMA InsideFits ==
  ASSUME NEW c \in Contexts, NEW params, NEW vals, IsSeq(vals),
         \A k \in DOMAIN vals : vals[k] \in Passed, c.depth # MAX_RECURSION_DEPTH
  PROVE  Inside(c, params, vals) \in Contexts
<1> DEFINE at(n) == {k \in DOMAIN vals : params[k] = n}
           b == [n \in Names |-> IF at(n) = {} THEN Unbound ELSE vals[Min(at(n))]]
<1>1. ASSUME NEW n \in Names, at(n) # {} PROVE vals[Min(at(n))] \in Passed
  <2>1. Len(vals) \in Nat /\ DOMAIN vals = 1..Len(vals)
    BY DEF IsSeq
  <2>2. at(n) \subseteq 1..Len(vals)
    BY <2>1
  <2>4. Min(at(n)) \in at(n)
    <3> HIDE DEF at
    <3> QED
      BY <1>1, <2>1, <2>2, EndsAreIn
  <2> QED
    BY <2>4
<1>2. b \in [Names -> Passed \cup {Unbound}]
  <2> HIDE DEF at
  <2> QED
    BY <1>1
<1>3. c.outer \cup BoundIn(c) \in SUBSET Names
  BY DEF Contexts, BoundIn
<1>4. c.depth + 1 \in 0..MAX_RECURSION_DEPTH
  BY MaxDepthAssumption DEF Contexts
<1>5. Inside(c, params, vals) = [bound |-> b, outer |-> c.outer \cup BoundIn(c),
                                 depth |-> c.depth + 1]
  BY DEF Inside
<1> HIDE DEF b
<1> QED
  BY <1>2, <1>3, <1>4, <1>5 DEF Contexts

ValuesOf(vals, m, args, c) ==
  /\ IsSeq(vals) /\ Len(vals) = Len(args) /\ DOMAIN vals = 1..Len(args) /\ Len(args) \in Nat
  /\ \A k \in 1..Len(args) : vals[k] = m.expr[args[k]][c] /\ args[k] \in Nodes

LEMMA ArgumentsFacts ==
  ASSUME NEW m, NEW args \in Seq(Nodes), NEW c
  PROVE  ValuesOf(ArgumentsMean(m, args, c), m, args, c)
<1> DEFINE vals == ArgumentsMean(m, args, c)
           S == {vals[k] : k \in DOMAIN vals}
<1>1. PICK n \in Nat : n = Len(args) /\ DOMAIN args = 1..n
  OBVIOUS
<1>2. DOMAIN vals = 1..n /\ \A k \in 1..n : vals[k] = m.expr[args[k]][c]
  BY <1>1 DEF ArgumentsMean
<1>3. vals = [k \in 1..n |-> vals[k]]
  BY <1>1 DEF ArgumentsMean
<1> HIDE DEF vals
<1>4. vals \in [1..n -> S]
  BY <1>2, <1>3
<1>5. \A k \in 1..n : args[k] \in Nodes
  BY <1>1
<1> HIDE DEF S
<1>6. vals \in Seq(S) /\ Len(vals) = n
  BY <1>4, SeqDef
<1>7. IsSeq(vals)
  BY <1>6 DEF IsSeq
<1>8. ValuesOf(vals, m, args, c)
  BY <1>1, <1>2, <1>5, <1>6, <1>7 DEF ValuesOf
<1> QED
  BY <1>8 DEF vals

-----------------------------------------------------------------------------
(***************************************************************************)
(* Operations.  The evaluator computes in doubles what the rules say of    *)
(* integers, fractions, truth values and texts.                            *)
(***************************************************************************)
LEMMA OrderAgrees ==
  ASSUME NEW op \in Comparisons, NEW x \in Int, NEW y \in Int
  PROVE  Compared(op, x - y) = OrderMeans(op, x, y)
<1>1. /\ x - y = 0 <=> x = y
      /\ x - y < 0 <=> x < y
      /\ x - y <= 0 <=> x <= y
      /\ x - y > 0 <=> x > y
      /\ x - y >= 0 <=> x >= y
  OBVIOUS
<1> QED
  BY <1>1 DEF Compared, OrderMeans, Comparisons, Truth

LEMMA WholeIsTruncated == ASSUME NEW n \in Int PROVE Truncated(n, 1) = n
<1>1. \A m \in Nat : m \div 1 = m
  OBVIOUS
<1>2. Absolute(n) \in Nat
  BY DEF Absolute
<1>3. Absolute(n) \div 1 = Absolute(n)
  BY <1>1, <1>2
<1> QED
  BY <1>3 DEF Truncated, Signed, Absolute

LEMMA QuotientAgrees ==
  ASSUME NEW x \in Int, NEW y \in Int, y # 0
  PROVE  Truncated(Positive(x, y)[1], Positive(x, y)[2]) = Times(x, y)
<1> DEFINE q == Absolute(x) \div Absolute(y)
<1>1. Absolute(-x) = Absolute(x) /\ Absolute(x) \in Nat /\ Absolute(y) \in Nat \ {0}
  BY DEF Absolute
<1>2. q \in Int
  <2>1. \A a \in Nat : \A b \in Nat \ {0} : a \div b \in Int
    OBVIOUS
  <2> QED
    BY <1>1, <2>1
<1>3. x = 0 => q = 0
  <2>1. \A b \in Nat \ {0} : 0 \div b = 0
    OBVIOUS
  <2>2. x = 0 => Absolute(x) = 0
    BY DEF Absolute
  <2> QED
    BY <1>1, <2>1, <2>2
<1>4. Times(x, y) = IF x < 0 <=> y < 0 THEN q ELSE -q
  BY DEF Times
<1>5. CASE y < 0
  <2>1. Positive(x, y) = <<-x, -y>> /\ Absolute(y) = -y
    BY <1>5 DEF Positive, Absolute
  <2>2. Truncated(-x, -y) = Signed(-x, q)
    BY <1>1, <1>5, <2>1 DEF Truncated
  <2>3. Signed(-x, q) = IF -x < 0 THEN -q ELSE q
    BY DEF Signed
  <2> HIDE DEF q
  <2> QED
    BY <1>2, <1>3, <1>4, <1>5, <2>1, <2>2, <2>3
<1>6. CASE y > 0
  <2>1. Positive(x, y) = <<x, y>> /\ Absolute(y) = y
    BY <1>6 DEF Positive, Absolute
  <2>2. Truncated(x, y) = Signed(x, q)
    BY <1>1, <1>6, <2>1 DEF Truncated
  <2>3. Signed(x, q) = IF x < 0 THEN -q ELSE q
    BY DEF Signed
  <2> HIDE DEF q
  <2> QED
    BY <1>2, <1>4, <1>6, <2>1, <2>2, <2>3
<1> QED
  BY <1>5, <1>6

LEMMA TimesIsWhole ==
  ASSUME NEW x \in Int, NEW y \in Int, y # 0 PROVE Times(x, y) \in Int
<1>1. Absolute(x) \in Nat /\ Absolute(y) \in Nat \ {0}
  BY DEF Absolute
<1>2. \A a \in Nat : \A b \in Nat \ {0} : a \div b \in Int
  OBVIOUS
<1>3. Absolute(x) \div Absolute(y) \in Int
  BY <1>1, <1>2
<1> QED
  BY <1>3 DEF Times

\* A finite number.
Number(x) == x.n \in Int /\ x.d \in Nat \ {0}

LEMMA WholesAgree ==
  ASSUME NEW op \in {"+", "-", "*", "/", "%"}, NEW l, NEW r, Number(l), Number(r),
         l.d = 1, r.d = 1, op \in {"/", "%"} => r.n # 0
  PROVE  Truncated(Exact(op, l, r)[1], Exact(op, l, r)[2]) = WholeMeans(op, l.n, r.n)
<1> DEFINE a == l.n
           b == r.n
<1>1. a \in Int /\ b \in Int
  BY DEF Number
<1>2. a * 1 = a /\ b * 1 = b /\ 1 * b = b /\ 1 * 1 = 1
  BY <1>1
<1>3. IsFinite(l) /\ IsFinite(r)
  BY DEF IsFinite
<1>4. CASE op = "+"
  <2>1. Exact(op, l, r) = <<a + b, 1>> /\ a + b \in Int
    BY <1>1, <1>2, <1>3, <1>4 DEF Exact
  <2> QED
    BY <1>4, <2>1, WholeIsTruncated DEF WholeMeans
<1>5. CASE op = "-"
  <2>1. Exact(op, l, r) = <<a - b, 1>> /\ a - b \in Int
    BY <1>1, <1>2, <1>3, <1>5 DEF Exact
  <2> QED
    BY <1>5, <2>1, WholeIsTruncated DEF WholeMeans
<1>6. CASE op = "*"
  <2>1. Exact(op, l, r) = <<a * b, 1>> /\ a * b \in Int
    BY <1>1, <1>2, <1>3, <1>6 DEF Exact
  <2> QED
    BY <1>6, <2>1, WholeIsTruncated DEF WholeMeans
<1>7. Quotient(l, r) = Positive(a, b)
  BY <1>1, <1>2 DEF Quotient
<1>8. CASE op = "/"
  <2>1. Exact(op, l, r) = Positive(a, b)
    BY <1>3, <1>7, <1>8 DEF Exact
  <2> QED
    BY <1>1, <1>8, <2>1, QuotientAgrees DEF WholeMeans
<1>9. CASE op = "%"
  <2> DEFINE t == Times(a, b)
  <2>1. Truncated(Positive(a, b)[1], Positive(a, b)[2]) = t /\ t \in Int
    BY <1>1, <1>9, QuotientAgrees, TimesIsWhole
  <2>2. Exact(op, l, r) = <<a * 1 - t * b * 1, 1 * 1>>
    BY <1>3, <1>7, <1>9, <2>1 DEF Exact, Remainder
  <2>3. WholeMeans(op, l.n, r.n) = a - b * t
    BY <1>9 DEF WholeMeans
  <2> HIDE DEF t, a, b
  <2>4. a * 1 - t * b * 1 = a - b * t /\ a - b * t \in Int
    BY <1>1, <2>1
  <2>5. Exact(op, l, r) = <<a - b * t, 1>>
    BY <1>2, <2>2, <2>4
  <2> QED
    BY <2>3, <2>4, <2>5, WholeIsTruncated
<1> QED
  BY <1>4, <1>5, <1>6, <1>8, <1>9

LEMMA FractionsAgree ==
  ASSUME NEW op \in {"+", "-", "*", "/", "%"}, NEW l, NEW r, Number(l), Number(r),
         op \in {"/", "%"} => r.n # 0
  PROVE  Exact(op, l, r) = FractionMeans(op, <<l.n, l.d>>, <<r.n, r.d>>)
<1> DEFINE a == l.n
           b == l.d
           c == r.n
           d == r.d
<1>1. a \in Int /\ b \in Nat \ {0} /\ c \in Int /\ d \in Nat \ {0}
  BY DEF Number
<1>2. IsFinite(l) /\ IsFinite(r)
  BY <1>1 DEF IsFinite
<1>3. CASE op \in {"+", "*"}
  BY <1>2, <1>3 DEF Exact, FractionMeans, SumOf, ProductOf
<1>4. CASE op = "-"
  <2>1. Exact(op, l, r) = <<a * d - c * b, b * d>>
    BY <1>2, <1>4 DEF Exact
  <2>2. FractionMeans(op, <<l.n, l.d>>, <<r.n, r.d>>) = <<a * d + (-c) * b, b * d>>
    BY <1>4 DEF FractionMeans, SumOf, OppositeOf
  <2> HIDE DEF a, b, c, d
  <2>3. a * d - c * b = a * d + (-c) * b
    BY <1>1
  <2> QED
    BY <2>1, <2>2, <2>3
<1>5. ASSUME c # 0
      PROVE  /\ b * c # 0 /\ (b * c < 0 <=> c < 0) /\ c * b = b * c
             /\ a * d \in Int /\ b * c \in Int
  <2> HIDE DEF a, b, c, d
  <2> QED
    BY <1>1, <1>5
<1>6. CASE op = "/"
  <2>1. Exact(op, l, r) = IF b * c < 0 THEN <<-(a * d), -(b * c)>> ELSE <<a * d, b * c>>
    BY <1>2, <1>6 DEF Exact, Quotient, Positive
  <2>2. FractionMeans(op, <<l.n, l.d>>, <<r.n, r.d>>)
          = IF c < 0 THEN <<a * (-d), b * (-c)>> ELSE <<a * d, b * c>>
    BY <1>6 DEF FractionMeans, ProductOf, ReciprocalOf
  <2>3. c # 0
    BY <1>6
  <2> HIDE DEF a, b, c, d
  <2>4. a * (-d) = -(a * d) /\ b * (-c) = -(b * c)
    BY <1>1
  <2> QED
    BY <1>5, <2>1, <2>2, <2>3, <2>4
<1>7. CASE op = "%"
  <2> DEFINE t == Times(a * d, b * c)
  <2>1. c # 0
    BY <1>7
  <2>2. /\ Truncated(Positive(a * d, b * c)[1], Positive(a * d, b * c)[2]) = t
        /\ t \in Int
    <3> HIDE DEF a, b, c, d
    <3> QED
      BY <1>5, <2>1, QuotientAgrees, TimesIsWhole
  <2>3. Exact(op, l, r) = <<a * d - t * c * b, b * d>>
    BY <1>2, <1>7, <2>2 DEF Exact, Remainder, Quotient
  <2>4. FractionMeans(op, <<l.n, l.d>>, <<r.n, r.d>>)
          = <<a * d - c * b * Times(a * d, c * b), b * d>>
    BY <1>7 DEF FractionMeans, LeftOver
  <2> HIDE DEF a, b, c, d
  <2>5. Times(a * d, c * b) = t
    BY <1>5, <2>1
  <2> HIDE DEF t
  <2>6. t * c * b = c * b * t
    BY <1>1, <2>2
  <2> QED
    BY <2>3, <2>4, <2>5, <2>6
<1> QED
  BY <1>3, <1>4, <1>6, <1>7

LEMMA WidestIsWider ==
  ASSUME NEW k, NEW j, IsNumericType(k), IsNumericType(j)
  PROVE  Widest(k, j) = Wider(k, j)
<1>1. k \in {"i32", "i64", "f32", "f64"} /\ j \in {"i32", "i64", "f32", "f64"}
  BY DEF IsNumericType, IsIntegerType, IsFloatType
<1>2. Width["i32"] = 1 /\ Width["i64"] = 2 /\ Width["f32"] = 3 /\ Width["f64"] = 4
  BY DEF Width
<1>3. CASE "f64" \in {k, j}
  <2>1. Wider(k, j) = "f64"
    BY <1>3 DEF Wider
  <2>2. Widest(k, j) = "f64"
    BY <1>1, <1>2, <1>3 DEF Widest
  <2> QED
    BY <2>1, <2>2
<1>4. CASE "f64" \notin {k, j} /\ "f32" \in {k, j}
  <2>1. Wider(k, j) = "f32"
    BY <1>4 DEF Wider
  <2>2. Widest(k, j) = "f32"
    BY <1>1, <1>2, <1>4 DEF Widest
  <2> QED
    BY <2>1, <2>2
<1>5. CASE {"f64", "f32"} \cap {k, j} = {} /\ "i64" \in {k, j}
  <2>1. Wider(k, j) = "i64"
    BY <1>5 DEF Wider
  <2>2. Widest(k, j) = "i64"
    <3>1. CASE k = "i64" /\ j = "i64"
      BY <3>1 DEF Widest
    <3>2. CASE k = "i64" /\ j = "i32"
      BY <1>2, <3>2 DEF Widest
    <3>3. CASE k = "i32" /\ j = "i64"
      BY <1>2, <3>3 DEF Widest
    <3> QED
      BY <1>1, <1>5, <3>1, <3>2, <3>3
  <2> QED
    BY <2>1, <2>2
<1>6. CASE k = "i32" /\ j = "i32"
  BY <1>2, <1>6 DEF Widest, Wider
<1> QED
  BY <1>1, <1>3, <1>4, <1>5, <1>6

LEMMA WiderIsWhole ==
  ASSUME NEW k, NEW j, IsNumericType(k), IsNumericType(j), IsIntegerType(Wider(k, j))
  PROVE  IsIntegerType(k) /\ IsIntegerType(j)
BY DEF IsNumericType, IsIntegerType, IsFloatType, Wider

LEMMA NumbersAgree ==
  ASSUME NEW op, NEW l, NEW r, Proper(l), Proper(r),
         IsNumericType(l.kind), IsNumericType(r.kind), NumbersMean(op, l, r) # Unknown
  PROVE  BinaryOp(op, l, r) = NumbersMean(op, l, r)
<1>1. l.kind \notin {"bool", "string"} /\ r.kind \notin {"bool", "string"}
  BY DEF IsNumericType, IsIntegerType, IsFloatType
<1>2. Number(l) /\ Number(r)
  BY DEF Number, Proper
<1>3. IsFinite(l) /\ IsFinite(r) /\ (IsZero(r) <=> r.n = 0)
  BY <1>2 DEF IsFinite, IsZero, Number
<1> DEFINE t == Wider(l.kind, r.kind)
<1>4. Widest(l.kind, r.kind) = t
  BY WidestIsWider
<1>5. CASE op \in Comparisons
  <2>1. BinaryOp(op, l, r) = Compared(op, l.n * r.d - r.n * l.d)
    <3>1. ~ IsNaN(l) /\ ~ IsNaN(r)
      BY <1>3 DEF IsNaN, IsFinite
    <3> QED
      BY <1>1, <1>3, <1>5, <3>1 DEF BinaryOp, ComparedNumbers, Difference, Comparisons, Arithmetic
  <2>2. NumbersMean(op, l, r) = OrderMeans(op, l.n * r.d, r.n * l.d)
    BY <1>5 DEF NumbersMean, Comparisons
  <2>3. l.n * r.d \in Int /\ r.n * l.d \in Int
    BY <1>2 DEF Number
  <2> QED
    BY <1>5, <2>1, <2>2, <2>3, OrderAgrees
<1>6. CASE op \in {"/", "%"} /\ r.n = 0
  BY <1>1, <1>3, <1>6 DEF BinaryOp, NumbersMean, Comparisons, Arithmetic
<1>7. ASSUME op \in Arithmetic, ~ (op \in {"/", "%"} /\ r.n = 0)
      PROVE  /\ BinaryOp(op, l, r) = ArithmeticValue(op, l, r)
             /\ GetBinaryOpType(op, l.kind, r.kind) = t
  BY <1>1, <1>3, <1>7 DEF BinaryOp, GetBinaryOpType, Comparisons, Logical, Arithmetic
<1>8. CASE op = "**"
  <2> DEFINE x == DoubleOp(op, l, r)
  <2>1. NumbersMean(op, l, r) = PowerMeans(t, x)
    BY <1>4, <1>8 DEF NumbersMean, Comparisons
  <2>2. Exact(op, l, r) = x
    BY <1>8 DEF Exact
  <2>3. BinaryOp(op, l, r) = IF IsIntegerType(t) THEN Value(t, Truncated(x[1], x[2]), 1, "")
                             ELSE Value(t, x[1], x[2], "")
    BY <1>7, <1>8, <2>2 DEF ArithmeticValue, Arithmetic
  <2> QED
    BY <2>1, <2>3 DEF PowerMeans
<1>9. CASE op \in {"+", "-", "*"} \/ (op \in {"/", "%"} /\ r.n # 0)
  <2> DEFINE z == FractionMeans(op, <<l.n, l.d>>, <<r.n, r.d>>)
  <2>1. NumbersMean(op, l, r) = IF IsIntegerType(t) THEN Value(t, WholeMeans(op, l.n, r.n), 1, "")
                                ELSE Value(t, z[1], z[2], "")
    BY <1>4, <1>9 DEF NumbersMean, Comparisons
  <2>2. BinaryOp(op, l, r) =
          IF IsIntegerType(t)
          THEN Value(t, Truncated(Exact(op, l, r)[1], Exact(op, l, r)[2]), 1, "")
          ELSE Value(t, Exact(op, l, r)[1], Exact(op, l, r)[2], "")
    BY <1>7, <1>9 DEF ArithmeticValue, Arithmetic
  <2>3. op \in {"+", "-", "*", "/", "%"} /\ (op \in {"/", "%"} => r.n # 0)
    BY <1>9
  <2>4. IsIntegerType(t) => l.d = 1 /\ r.d = 1
    BY WiderIsWhole DEF Proper
  <2>5. Exact(op, l, r) = z
    BY <1>2, <2>3, FractionsAgree
  <2>6. IsIntegerType(t) => Truncated(Exact(op, l, r)[1], Exact(op, l, r)[2])
                              = WholeMeans(op, l.n, r.n)
    BY <1>2, <2>3, <2>4, WholesAgree
  <2> HIDE DEF t, z
  <2> QED
    BY <2>1, <2>2, <2>5, <2>6
<1>10. CASE op \notin Comparisons \cup Arithmetic
  BY <1>1, <1>10 DEF BinaryOp, NumbersMean, Arithmetic
<1> QED
  BY <1>5, <1>6, <1>8, <1>9, <1>10 DEF Arithmetic

LEMMA TruthsAgree ==
  ASSUME NEW op, NEW l, NEW r, Proper(l), Proper(r), l.kind = "bool", r.kind = "bool"
  PROVE  BinaryOp(op, l, r) = TruthMeans(op, l, r)
<1>1. l.n \in {0, 1} /\ r.n \in {0, 1}
  BY DEF Proper
<1>2. CASE op \in {"and", "or"}
  BY <1>2 DEF BinaryOp, TruthMeans, IsTrue
<1>3. CASE op \in {"==", "!="}
  <2>1. BinaryOp(op, l, r) = Compared(op, l.n - r.n)
    BY <1>3 DEF BinaryOp
  <2>2. l.n - r.n = 0 <=> (l.n = 1 <=> r.n = 1)
    BY <1>1
  <2> QED
    BY <1>3, <2>1, <2>2 DEF TruthMeans, IsTrue, Compared, Truth
<1>4. CASE op \notin {"and", "or", "==", "!="}
  BY <1>4 DEF BinaryOp, TruthMeans
<1> QED
  BY <1>2, <1>3, <1>4

LEMMA TextsAgree ==
  ASSUME NEW op, NEW l, NEW r, l.kind = "string", r.kind = "string"
  PROVE  BinaryOp(op, l, r) = TextsMean(op, l.text, r.text)
<1>1. ~ IsNumericType(l.kind)
  BY DEF IsNumericType, IsIntegerType, IsFloatType
<1>2. CASE op = "+"
  <2> DEFINE x == Str(l.text \o r.text)
             y == OrderMeans(op, Strcmp(l.text, r.text), 0)
  <2>1. BinaryOp(op, l, r) = x
    BY <1>2, TextsJoined
  <2>2. TextsMean(op, l.text, r.text)
          = CASE op = "+" -> x [] op \in Comparisons -> y [] OTHER -> Null
    BY Zenon DEF TextsMean
  <2>3. op \notin Comparisons
    BY <1>2 DEF Comparisons
  <2> HIDE DEF x, y
  <2> QED
    BY <1>2, <2>1, <2>2, <2>3
<1>3. CASE op \in Comparisons
  <2> DEFINE z == Strcmp(l.text, r.text)
  <2>1. op # "+"
    BY <1>3 DEF Comparisons
  <2>2. BinaryOp(op, l, r) = Compared(op, z)
    BY <1>1, <1>3, <2>1 DEF BinaryOp
  <2>3. TextsMean(op, l.text, r.text) = OrderMeans(op, z, 0)
    BY <1>3, <2>1 DEF TextsMean
  <2> HIDE DEF z
  <2>4. Compared(op, z) = OrderMeans(op, z, 0)
    BY DEF Compared, OrderMeans
  <2> QED
    BY <2>2, <2>3, <2>4
<1>4. CASE op \notin Comparisons \cup {"+"}
  BY <1>1, <1>4 DEF BinaryOp, TextsMean
<1> QED
  BY <1>2, <1>3, <1>4

LEMMA OperationAgrees ==
  ASSUME NEW op, NEW l, NEW r, OperationMeans(op, l, r) # Unknown
  PROVE  BinaryOp(op, l, r) = OperationMeans(op, l, r)
<1>1. Proper(l) /\ Proper(r)
  BY DEF OperationMeans
<1>2. CASE l.kind = "bool" /\ r.kind = "bool"
  <2>1. OperationMeans(op, l, r) = TruthMeans(op, l, r)
    BY <1>1, <1>2 DEF OperationMeans, IsNumericType, IsIntegerType, IsFloatType
  <2> QED
    BY <1>1, <1>2, <2>1, TruthsAgree
<1>3. CASE IsNumericType(l.kind) /\ IsNumericType(r.kind)
  <2>1. l.kind \notin {"bool", "string"}
    BY <1>3 DEF IsNumericType, IsIntegerType, IsFloatType
  <2>2. OperationMeans(op, l, r) = NumbersMean(op, l, r)
    BY <1>1, <1>3, <2>1 DEF OperationMeans
  <2> QED
    BY <1>1, <1>3, <2>2, NumbersAgree
<1>4. CASE l.kind = "string" /\ r.kind = "string"
  <2>1. ~ IsNumericType(l.kind)
    BY <1>4 DEF IsNumericType, IsIntegerType, IsFloatType
  <2>2. OperationMeans(op, l, r) = TextsMean(op, l.text, r.text)
    BY <1>1, <1>4, <2>1 DEF OperationMeans
  <2> QED
    BY <1>4, <2>2, TextsAgree
<1>5. CASE /\ ~ (l.kind = "bool" /\ r.kind = "bool")
           /\ ~ (IsNumericType(l.kind) /\ IsNumericType(r.kind))
           /\ ~ (l.kind = "string" /\ r.kind = "string")
  BY <1>1, <1>5 DEF OperationMeans, BinaryOp
<1> QED
  BY <1>2, <1>3, <1>4, <1>5

LEMMA SignAgrees ==
  ASSUME NEW op, NEW x, SignMeans(op, x) # Unknown
  PROVE  UnaryOp(op, x) = SignMeans(op, x)
<1>1. Proper(x)
  BY DEF SignMeans
<1>2. CASE op = "-" /\ IsNumericType(x.kind)
  <2>1. 0 - x.n = -x.n
    BY <1>1, <1>2 DEF Proper
  <2> QED
    BY <1>1, <1>2, <2>1 DEF SignMeans, UnaryOp
<1>3. CASE op = "not" /\ x.kind = "bool"
  <2>1. x.n \in {0, 1}
    BY <1>1, <1>3 DEF Proper
  <2>2. x.n = 0 <=> ~ (x.n = 1)
    BY <2>1
  <2> QED
    BY <1>1, <1>3, <2>2 DEF SignMeans, UnaryOp, IsTrue, Truth
<1>4. CASE ~ (op = "-" /\ IsNumericType(x.kind)) /\ ~ (op = "not" /\ x.kind = "bool")
  BY <1>1, <1>4 DEF SignMeans, UnaryOp
<1> QED
  BY <1>2, <1>3, <1>4

-----------------------------------------------------------------------------
(***************************************************************************)
(* No expression means that there was no return, and nothing means that a  *)
(* value is still to come.                                                 *)
(***************************************************************************)
LEMMA OperatorsGiveValues ==
  ASSUME NEW op, NEW l, NEW r
  PROVE  /\ OperationMeans(op, l, r) \notin {NoReturn, Pending}
         /\ SignMeans(op, l) \notin {NoReturn, Pending}
<1>1. /\ NoReturn.kind = "no return" /\ Pending.kind = "pending" /\ Null.kind = "null"
      /\ Unknown.kind = "open"
  BY DEF NoReturn, Pending, Null, Unknown, Value
<1>2. {Null, Unknown} \cap {NoReturn, Pending} = {}
  BY <1>1
<1>3. OperationMeans(op, l, r) \notin {NoReturn, Pending}
  <2> DEFINE x == OperationMeans(op, l, r)
  <2> SUFFICES ASSUME x \notin {Null, Unknown} PROVE x \notin {NoReturn, Pending}
    BY <1>2
  <2>1. x = BinaryOp(op, l, r)
    BY OperationAgrees
  <2>2. Answers(x, op, l, r)
    BY <2>1, OperatorsAnswer
  <2> HIDE DEF x
  <2>3. x.kind = GetBinaryOpType(op, l.kind, r.kind)
    BY <2>2 DEF Answers, IsValueOf
  <2>4. GetBinaryOpType(op, l.kind, r.kind) \in {"f64", "f32", "i64", "i32", "string", "bool", "error"}
    BY DEF GetBinaryOpType, Wider
  <2>5. x.kind \notin {"no return", "pending"}
    BY <2>3, <2>4
  <2> QED
    BY <1>1, <2>5
<1>4. SignMeans(op, l) \notin {NoReturn, Pending}
  <2> DEFINE x == SignMeans(op, l)
  <2>1. x \in {Null, Unknown} \/ x.kind \in {"f64", "f32", "i64", "i32", "bool"}
    <3>1. \A b : Truth(b).kind = "bool"
      BY DEF Truth, Value
    <3>2. \A k, n, d, text : Value(k, n, d, text).kind = k
      BY DEF Value
    <3>3. IsNumericType(l.kind) => l.kind \in {"f64", "f32", "i64", "i32"}
      BY DEF IsNumericType, IsIntegerType, IsFloatType
    <3>4. CASE ~ Proper(l)
      BY <3>4 DEF SignMeans
    <3>5. CASE Proper(l) /\ op = "-" /\ IsNumericType(l.kind)
      <4>1. x = Value(l.kind, 0 - l.n, l.d, "")
        BY <3>5 DEF SignMeans, Truth
      <4>2. Value(l.kind, 0 - l.n, l.d, "").kind = l.kind
        BY DEF Value
      <4> QED
        BY <3>3, <3>5, <4>1, <4>2
    <3>6. CASE Proper(l) /\ op = "not" /\ l.kind = "bool"
      <4>1. x = Truth(~ IsTrue(l))
        BY <3>6 DEF SignMeans, Truth
      <4> QED
        BY <3>1, <4>1
    <3>7. CASE Proper(l) /\ ~ (op = "-" /\ IsNumericType(l.kind)) /\ ~ (op = "not" /\ l.kind = "bool")
      BY <3>7 DEF SignMeans
    <3> QED
      BY <3>4, <3>5, <3>6, <3>7
  <2> HIDE DEF x
  <2>2. x \notin {NoReturn, Pending}
    BY <1>1, <1>2, <2>1
  <2> QED
    BY <2>2 DEF x
<1> QED
  BY <1>3, <1>4

LEMMA PassedAreValues ==
  ASSUME NEW x \in Passed
  PROVE  x \notin {Null, Unknown, NoReturn, Pending, Unbound} /\ Reread(x) = x
<1>1. x.kind \in Kinds /\ Reread(x) = x
  BY DEF Passed
<1>2. /\ NoReturn.kind = "no return" /\ Pending.kind = "pending" /\ Null.kind = "null"
      /\ Unknown.kind = "open" /\ Unbound.kind = "unbound"
  BY DEF NoReturn, Pending, Null, Unknown, Unbound, Value
<1>3. x.kind \notin {"no return", "pending", "null", "open", "unbound"}
  BY <1>1 DEF Kinds
<1> QED
  BY <1>1, <1>2, <1>3

\* What m says is a value, or that there is none.
Sound(m) ==
  \A c \in Contexts :
    /\ \A e \in Nodes : m.expr[e][c] \notin {NoReturn, Pending}
    /\ \A s \in Seq(Statements) : m.body[s][c] # Pending

LEMMA SpecialValues ==
  /\ NoReturn # Pending /\ Null \notin {NoReturn, Pending, Unknown}
  /\ Unknown \notin {NoReturn, Pending}
<1>1. /\ NoReturn.kind = "no return" /\ Pending.kind = "pending" /\ Null.kind = "null"
      /\ Unknown.kind = "open"
  BY DEF NoReturn, Pending, Null, Unknown, Value
<1> QED
  BY <1>1

LEMMA ExprIsSound ==
  ASSUME NEW p \in Programs, NEW m, Sound(m), NEW e \in Nodes, NEW c \in Contexts
  PROVE  ExprMeans(p, m, e, c) \notin {NoReturn, Pending}
<1> DEFINE Plain(x) == x \notin {NoReturn, Pending}
<1>1. CASE e.kind = "literal"
  <2>1. ExprMeans(p, m, e, c) = e.value
    BY <1>1 DEF ExprMeans
  <2>2. e.value.kind \in Kinds \cup {"null"}
    BY <1>1, NodesAssumption
  <2>3. e.value.kind \notin {"no return", "pending"}
    BY <2>2 DEF Kinds
  <2>4. NoReturn.kind = "no return" /\ Pending.kind = "pending"
    BY DEF NoReturn, Pending, Value
  <2> QED
    BY <2>1, <2>3, <2>4
<1>2. CASE e.kind = "identifier"
  <2>1. ExprMeans(p, m, e, c) = IdentifierMeans(p, m, e.name, c)
    BY <1>2 DEF ExprMeans
  <2> DEFINE node == Global(p, e.name)
  <2>2. CASE e.name \in BoundIn(c)
    <3>1. e.name \in Names /\ c.bound[e.name] # Unbound
      BY <2>2 DEF BoundIn
    <3>2. c.bound[e.name] \in Passed
      BY <3>1 DEF Contexts
    <3>3. ExprMeans(p, m, e, c) = c.bound[e.name]
      BY <2>1, <2>2 DEF IdentifierMeans
    <3> QED
      BY <3>2, <3>3, PassedAreValues
  <2>3. CASE e.name \notin BoundIn(c)
    <3>1. \/ ExprMeans(p, m, e, c) \in {Unknown, Null}
          \/ node.kind = "const" /\ ExprMeans(p, m, e, c) = m.expr[node.init][Globally(c)]
      BY <2>1, <2>3 DEF IdentifierMeans
    <3>2. CASE node.kind = "const"
      <4>1. node.init \in Nodes
        BY <3>2, GlobalFacts
      <4>2. Globally(c) \in Contexts
        BY GloballyFits
      <4> QED
        BY <3>1, <4>1, <4>2, SpecialValues DEF Sound
    <3> QED
      BY <3>1, <3>2, SpecialValues
  <2> QED
    BY <2>2, <2>3
<1>3. CASE e.kind = "binary"
  <2>1. ExprMeans(p, m, e, c) = BinaryMeans(e.op, m.expr[e.left][c], m.expr[e.right][c])
    BY <1>3 DEF ExprMeans
  <2>2. e.left \in Nodes /\ e.right \in Nodes
    BY <1>3, NodesAssumption
  <2> QED
    BY <2>1, <2>2, OperatorsGiveValues DEF BinaryMeans, Sound
<1>4. CASE e.kind = "unary"
  <2>1. ExprMeans(p, m, e, c) = UnaryMeans(e.op, m.expr[e.operand][c])
    BY <1>4 DEF ExprMeans
  <2>2. e.operand \in Nodes
    BY <1>4, NodesAssumption
  <2> QED
    BY <2>1, <2>2, OperatorsGiveValues DEF UnaryMeans, Sound
<1>5. CASE e.kind = "call"
  <2> DEFINE func == Global(p, e.name)
             vals == ArgumentsMean(m, e.args, c)
  <2>1. ExprMeans(p, m, e, c) = CallMeans(p, m, e, c)
    BY <1>5 DEF ExprMeans
  <2>2. \/ ExprMeans(p, m, e, c) \in {Unknown, Null}
        \/ func.kind = "function" /\ ExprMeans(p, m, e, c) = ApplicationMeans(m, func, vals, c)
    BY <2>1 DEF CallMeans
  <2>3. CASE func.kind = "function" /\ ExprMeans(p, m, e, c) = ApplicationMeans(m, func, vals, c)
    <3> DEFINE d == Inside(c, func.params, vals)
    <3>1. \/ ApplicationMeans(m, func, vals, c) \in {Unknown, Null}
          \/ /\ ApplicationMeans(m, func, vals, c) = Shown(m.body[func.body][d])
             /\ \A k \in DOMAIN vals : vals[k] \in Passed
             /\ c.depth # MAX_RECURSION_DEPTH /\ Len(vals) = Len(func.params)
      BY DEF ApplicationMeans
    <3>2. CASE /\ ApplicationMeans(m, func, vals, c) = Shown(m.body[func.body][d])
               /\ \A k \in DOMAIN vals : vals[k] \in Passed
               /\ c.depth # MAX_RECURSION_DEPTH /\ Len(vals) = Len(func.params)
      <4>1. IsSeq(vals)
        BY <1>5, NodesAssumption, ArgumentsFacts DEF ValuesOf
      <4>2. func \in Functions /\ func.body \in Seq(Statements)
        BY <2>3, GlobalFacts
      <4> HIDE DEF vals, func
      <4>4. d \in Contexts
        BY <3>2, <4>1, InsideFits
      <4> HIDE DEF d
      <4>5. m.body[func.body][d] # Pending
        BY <4>2, <4>4 DEF Sound
      <4>6. Shown(m.body[func.body][d]) \notin {NoReturn, Pending}
        BY <4>5, SpecialValues DEF Shown
      <4> QED
        BY <2>3, <3>2, <4>6
    <3> QED
      BY <2>3, <3>1, <3>2, SpecialValues
  <2> QED
    BY <2>2, <2>3, SpecialValues
<1>6. CASE e.kind \notin {"literal", "identifier", "binary", "unary", "call"}
  <2>1. ExprMeans(p, m, e, c) = Null
    BY <1>6 DEF ExprMeans
  <2> QED
    BY <2>1, SpecialValues
<1> QED
  BY <1>1, <1>2, <1>3, <1>4, <1>5, <1>6

LEMMA BodyIsSound ==
  ASSUME NEW m, Sound(m), NEW s \in Seq(Statements), NEW c \in Contexts
  PROVE  BodyMeans(m, s, c) # Pending
<1>1. CASE s = << >>
  BY <1>1, SpecialValues DEF BodyMeans
<1>2. CASE s # << >>
  <2>1. Head(s) \in Statements /\ Tail(s) \in Seq(Statements)
    BY <1>2
  <2> DEFINE x == Head(s)
             rest == Tail(s)
  <2>2. CASE x.kind = "return"
    <3>1. BodyMeans(m, s, c) = m.expr[x.expr][c]
      BY <1>2, <2>2 DEF BodyMeans
    <3>2. x.expr \in Nodes
      BY <2>1, <2>2, StatementsAssumption
    <3> QED
      BY <3>1, <3>2 DEF Sound
  <2>3. CASE x.kind = "if"
    <3> DEFINE cond == m.expr[x.cond][c]
    <3>1. BodyMeans(m, s, c) = IfMeans(m, cond, x, rest, c)
      BY <1>2, <2>3 DEF BodyMeans
    <3>2. x.then \in Seq(Statements) /\ x.else \in Seq(Statements)
      BY <2>1, <2>3, StatementsAssumption
    <3> HIDE DEF x, rest, cond
    <3>3. rest \in Seq(Statements)
      BY <2>1 DEF rest
    <3>4. /\ m.body[x.then][c] # Pending /\ m.body[x.else][c] # Pending
          /\ m.body[rest][c] # Pending
      BY <3>2, <3>3 DEF Sound
    <3>5. IfMeans(m, cond, x, rest, c) # Pending
      BY <3>4, SpecialValues DEF IfMeans
    <3> QED
      BY <3>1, <3>5
  <2>4. CASE x.kind \notin {"return", "if"}
    <3>1. BodyMeans(m, s, c) = m.body[rest][c]
      BY <1>2, <2>4 DEF BodyMeans
    <3> QED
      BY <2>1, <3>1 DEF Sound
  <2> QED
    BY <2>2, <2>3, <2>4
<1> QED
  BY <1>1, <1>2

LEMMA RulesAreSound ==
  ASSUME NEW p \in Programs, NEW n \in 0..MaxRules
  PROVE  Sound(Rules(p)[n])
<1> DEFINE S == {k \in 0..MaxRules : Sound(Rules(p)[k])}
<1>1. 0 \in S
  <2>1. Sound(NoRules)
    BY SpecialValues DEF Sound, NoRules
  <2> QED
    BY <2>1, RulesAre, MaxRulesAssumption
<1>2. ASSUME NEW k \in 0..MaxRules, k # MaxRules, k \in S PROVE k + 1 \in S
  <2> DEFINE m == Rules(p)[k]
  <2>1. k + 1 \in 1..MaxRules /\ k + 1 \in 0..MaxRules /\ (k + 1) - 1 = k
    BY <1>2, MaxRulesAssumption
  <2>2. Rules(p)[k + 1] = Applied(p, m)
    BY <2>1, RulesAre
  <2>3. Sound(m)
    BY <1>2
  <2> HIDE DEF m
  <2>4. ASSUME NEW c \in Contexts
        PROVE  /\ \A e \in Nodes : Applied(p, m).expr[e][c] \notin {NoReturn, Pending}
               /\ \A s \in Seq(Statements) : Applied(p, m).body[s][c] # Pending
    <3>1. /\ \A e \in Nodes : Applied(p, m).expr[e][c] = ExprMeans(p, m, e, c)
          /\ \A s \in Seq(Statements) : Applied(p, m).body[s][c] = BodyMeans(m, s, c)
      BY DEF Applied
    <3>2. \A e \in Nodes : ExprMeans(p, m, e, c) \notin {NoReturn, Pending}
      BY <2>3, ExprIsSound
    <3>3. \A s \in Seq(Statements) : BodyMeans(m, s, c) # Pending
      BY <2>3, BodyIsSound
    <3> QED
      BY <3>1, <3>2, <3>3
  <2>5. Sound(Applied(p, m))
    BY <2>4 DEF Sound
  <2> QED
    BY <2>1, <2>2, <2>5
<1>3. \A k \in 0..MaxRules : k \in S
  <2> HIDE DEF S
  <2> QED
    BY <1>1, <1>2, MaxRulesAssumption, Upwards
<1> QED
  BY <1>3

-----------------------------------------------------------------------------
(***************************************************************************)
(* What the activations on a stack make of the value that the running one  *)
(* is given: each hands a value on to the one under it, and the last one   *)
(* out of the evaluator.                                                   *)
(***************************************************************************)
Given(x, tables) == [value |-> x, tables |-> tables]

\* What a name stands for in a chain of tables.
Found(tables, name) ==
  LET holding == {k \in DOMAIN tables : \E j \in DOMAIN tables[k] : tables[k][j].name = name}
      scope == tables[Innermost(holding)]
  IN  IF holding = {} THEN [kind |-> "none"]
      ELSE scope[Min({j \in DOMAIN scope : scope[j].name = name})].node

\* The tables say of names what the context does.
Knows(p, c, tables) ==
  /\ c.depth = Len(tables) - 1
  /\ \A name \in BoundIn(c) :
       /\ Found(tables, name).kind = "const" /\ Found(tables, name).init.kind = "literal"
       /\ Found(tables, name).init.value = c.bound[name]
  /\ \A name : name \notin BoundIn(c) \cup c.outer => Found(tables, name) = Global(p, name)

NodeMeans(m, node, c) == IF node.kind = "literal" THEN node.value ELSE m.expr[node][c]

\* In the context c the frame f hands want on when it is given x.
Awaits(m, c, f, want, x) ==
  /\ f.at = "expr" => want = NodeMeans(m, f.node, c)
  /\ f.at = "left" => want = BinaryMeans(f.node.op, x, m.expr[f.node.right][c])
  /\ f.at = "right" => ~ Failed(f.left) /\ want = BinaryMeans(f.op, f.left, x)
  /\ f.at = "operand" => want = UnaryMeans(f.op, x)
  /\ f.at = "args" =>
       /\ f.func \in Functions
       /\ want = ApplicationMeans(m, f.func, ArgumentsMean(m, f.args, c), c)
       /\ Len(f.done) <= Len(f.args)
       /\ \A k \in 1..Len(f.done) :
            f.done[k].value \in Passed /\ f.done[k].value = m.expr[f.args[k]][c]
       /\ x # Pending => /\ Len(f.done) < Len(f.args)
                         /\ x = m.expr[f.args[Len(f.done) + 1]][c]
  /\ f.at = "block" => want = IF x \in {Pending, Null} THEN Shown(m.body[f.rest][c]) ELSE x
  /\ f.at = "cond" => want = Shown(IfMeans(m, x, f.stmt, f.rest, c))

HandsOn(p, f, v, g) ==
  /\ v.value # Unknown
  /\ v = Given(v.value, IF f.at = "body" THEN Front(g.tables) ELSE g.tables)
  /\ f.at \in {"call", "body"} => v.value = g.value
  /\ f.at \notin {"call", "body"} =>
       \E n \in 0..MaxRules : \E c \in Contexts :
         Knows(p, c, g.tables) /\ Awaits(Rules(p)[n], c, f, v.value, g.value)

Leads(p, st, b, g) ==
  \E w : /\ IsSeq(w) /\ Len(w) = Len(st) + 1 /\ w[1] = b /\ w[Len(st) + 1] = g
         /\ \A k \in 1..Len(st) : HandsOn(p, st[k], w[k], w[k + 1])

LEMMA LeadsEmpty ==
  ASSUME NEW p, NEW b, NEW g
  PROVE  Leads(p, << >>, b, g) <=> b = g
<1>1. Len(<< >>) = 0
  OBVIOUS
<1>2. Leads(p, << >>, b, g) => b = g
  BY <1>1 DEF Leads
<1>3. ASSUME b = g PROVE Leads(p, << >>, b, g)
  <2>1. IsSeq(<<b>>) /\ Len(<<b>>) = 1 /\ <<b>>[1] = b
    <3>1. <<b>> \in Seq({b})
      OBVIOUS
    <3> QED
      BY <3>1 DEF IsSeq
  <2> QED
    BY <1>1, <1>3, <2>1 DEF Leads
<1> QED
  BY <1>2, <1>3

LEMMA LeadsPop ==
  ASSUME NEW p, NEW r, NEW f, NEW s, PushedOn(r, f, s), NEW b, NEW g, Leads(p, s, b, g)
  PROVE  \E v : HandsOn(p, f, v, g) /\ Leads(p, r, b, v)
<1>1. PICK n \in Nat : /\ n = Len(r) /\ Len(s) = n + 1 /\ s[n + 1] = f
                       /\ \A k \in 1..n : s[k] = r[k]
  BY DEF PushedOn, IsSeq
<1>2. PICK w : /\ IsSeq(w) /\ Len(w) = (n + 1) + 1 /\ w[1] = b /\ w[(n + 1) + 1] = g
               /\ \A k \in 1..(n + 1) : HandsOn(p, s[k], w[k], w[k + 1])
  BY <1>1 DEF Leads
<1>3. /\ IsSeq(Front(w)) /\ Len(Front(w)) = n + 1
      /\ \A k \in 1..(n + 1) : Front(w)[k] = w[k]
  <2>1. w # << >>
    BY <1>1, <1>2
  <2>2. /\ \E S : Front(w) \in Seq(S)
        /\ Len(Front(w)) = Len(w) - 1 /\ \A k \in 1..(Len(w) - 1) : Front(w)[k] = w[k]
    BY <1>2, <2>1, FrontFacts DEF IsSeq
  <2>3. Len(w) - 1 = n + 1
    BY <1>2
  <2> QED
    BY <2>2, <2>3 DEF IsSeq
<1>4. 1 \in 1..(n + 1) /\ n + 1 \in 1..(n + 1)
      /\ \A k \in 1..n : k \in 1..(n + 1) /\ k + 1 \in 1..(n + 1)
  OBVIOUS
<1>5. HandsOn(p, f, w[n + 1], g)
  <2>1. HandsOn(p, s[n + 1], w[n + 1], w[(n + 1) + 1])
    BY <1>2, <1>4
  <2> QED
    BY <1>1, <1>2, <2>1
<1>6. Leads(p, r, b, w[n + 1])
  <2>1. Front(w)[1] = b /\ Front(w)[n + 1] = w[n + 1]
    BY <1>2, <1>3, <1>4
  <2>2. ASSUME NEW k \in 1..n PROVE HandsOn(p, r[k], Front(w)[k], Front(w)[k + 1])
    <3>1. HandsOn(p, s[k], w[k], w[k + 1])
      BY <1>2, <1>4
    <3>2. s[k] = r[k] /\ Front(w)[k] = w[k] /\ Front(w)[k + 1] = w[k + 1]
      BY <1>1, <1>3, <1>4
    <3> QED
      BY <3>1, <3>2
  <2> QED
    BY <1>1, <1>3, <2>1, <2>2 DEF Leads
<1> QED
  BY <1>5, <1>6

LEMMA LeadsPush ==
  ASSUME NEW p, NEW r, NEW f, NEW s, PushedOn(r, f, s), NEW b, NEW v, NEW g,
         HandsOn(p, f, v, g), Leads(p, r, b, v)
  PROVE  Leads(p, s, b, g)
<1>1. PICK n \in Nat : /\ n = Len(r) /\ Len(s) = n + 1 /\ s[n + 1] = f
                       /\ \A k \in 1..n : s[k] = r[k]
  BY DEF PushedOn, IsSeq
<1>2. PICK w : /\ IsSeq(w) /\ Len(w) = n + 1 /\ w[1] = b /\ w[n + 1] = v
               /\ \A k \in 1..n : HandsOn(p, r[k], w[k], w[k + 1])
  BY <1>1 DEF Leads
<1> DEFINE u == Append(w, g)
<1>3. IsSeq(u) /\ PushedOn(w, g, u)
  BY <1>2, AppendPushes
<1> HIDE DEF u
<1>4. Len(u) = (n + 1) + 1 /\ u[(n + 1) + 1] = g /\ \A k \in 1..(n + 1) : u[k] = w[k]
  BY <1>2, <1>3 DEF PushedOn
<1>5. /\ 1 \in 1..(n + 1) /\ n + 1 \in 1..(n + 1)
      /\ \A k \in 1..n : k \in 1..(n + 1) /\ k + 1 \in 1..(n + 1)
      /\ \A k \in 1..(n + 1) : k \in 1..n \/ k = n + 1
  OBVIOUS
<1>6. ASSUME NEW k \in 1..(n + 1) PROVE HandsOn(p, s[k], u[k], u[k + 1])
  <2>1. CASE k \in 1..n
    <3>1. HandsOn(p, r[k], w[k], w[k + 1])
      BY <1>2, <2>1
    <3>2. s[k] = r[k] /\ u[k] = w[k] /\ u[k + 1] = w[k + 1]
      BY <1>1, <1>4, <1>5, <2>1
    <3> QED
      BY <3>1, <3>2
  <2>2. CASE k = n + 1
    <3>1. s[k] = f /\ u[k] = v /\ u[k + 1] = g
      BY <1>1, <1>2, <1>4, <1>5, <2>2
    <3> QED
      BY <3>1
  <2> QED
    BY <1>5, <2>1, <2>2
<1>7. u[1] = b
  BY <1>2, <1>4, <1>5
<1> QED
  BY <1>1, <1>3, <1>4, <1>6, <1>7 DEF Leads

-----------------------------------------------------------------------------
(***************************************************************************)
(* Names: the tables and the context agree where an evaluation begins, in  *)
(* the initializer of a constant, and in the body of a function.           *)
(***************************************************************************)
LEMMA NodeIsFound ==
  ASSUME NEW name PROVE Node(name) = Found(scopes, name)
BY DEF Node, Holding, Found

LEMMA FrontOfPushed ==
  ASSUME NEW r, NEW f, NEW s, PushedOn(r, f, s)
  PROVE  Front(s) = r
<1>1. PICK n \in Nat : n = Len(r) /\ Len(s) = n + 1 /\ \A k \in 1..n : s[k] = r[k]
  BY DEF PushedOn, IsSeq
<1>2. s # << >>
  BY <1>1
<1>3. /\ IsSeq(Front(s)) /\ Len(Front(s)) = n /\ \A k \in 1..n : Front(s)[k] = s[k]
  <2>1. /\ \E S : Front(s) \in Seq(S)
        /\ Len(Front(s)) = Len(s) - 1 /\ \A k \in 1..(Len(s) - 1) : Front(s)[k] = s[k]
    BY <1>2, FrontFacts DEF PushedOn, IsSeq
  <2>2. Len(s) - 1 = n
    BY <1>1
  <2> QED
    BY <2>1, <2>2 DEF IsSeq
<1>4. PICK S, T : r \in Seq(S) /\ Front(s) \in Seq(T)
  BY <1>3 DEF PushedOn, IsSeq
<1>5. r \in Seq(S \cup T) /\ Front(s) \in Seq(S \cup T)
  BY <1>4
<1> QED
  BY <1>1, <1>3, <1>5, SeqEqual

LEMMA KnowsOutside ==
  ASSUME NEW p PROVE Knows(p, Outside, <<p.globals>>)
<1> DEFINE t == <<p.globals>>
<1>1. Len(t) = 1 /\ DOMAIN t = {1} /\ t[1] = p.globals
  OBVIOUS
<1> HIDE DEF t
<1>2. BoundIn(Outside) = {} /\ Outside.depth = 0 /\ Outside.outer = {}
  BY DEF BoundIn, Outside, NothingBound
<1>3. ASSUME NEW name PROVE Found(t, name) = Global(p, name)
  <2> DEFINE found == {k \in DOMAIN p.globals : p.globals[k].name = name}
             holding == {k \in DOMAIN t : \E j \in DOMAIN t[k] : t[k][j].name = name}
  <2>1. CASE found = {}
    <3>1. holding = {}
      BY <1>1, <2>1
    <3> QED
      BY <2>1, <3>1 DEF Found, Global
  <2>2. CASE found # {}
    <3>1. holding = {1}
      BY <1>1, <2>2
    <3>2. holding \subseteq 1..1 /\ holding # {}
      BY <3>1
    <3>3. Max(holding) = 1
      <4> HIDE DEF holding
      <4> QED
        BY <3>1, <3>2, EndsAreIn
    <3>4. Found(t, name) = t[1][Min({j \in DOMAIN t[1] : t[1][j].name = name})].node
      BY <3>2, <3>3 DEF Found, Innermost
    <3> QED
      BY <1>1, <2>2, <3>4 DEF Global
  <2> QED
    BY <2>1, <2>2
<1> QED
  BY <1>1, <1>2, <1>3 DEF Knows, t

LEMMA KnowsGlobally ==
  ASSUME NEW p, NEW c \in Contexts, NEW t, Knows(p, c, t)
  PROVE  Knows(p, Globally(c), t)
<1>1. /\ BoundIn(Globally(c)) = {} /\ Globally(c).depth = c.depth
      /\ Globally(c).outer = c.outer \cup BoundIn(c)
  BY DEF BoundIn, Globally, NothingBound
<1> QED
  BY <1>1 DEF Knows

\* In a longer chain the last table comes first.
LEMMA FoundInLast ==
  ASSUME NEW t, NEW last, NEW u, PushedOn(t, last, u), IsSeq(last), NEW name
  PROVE  LET here == {j \in DOMAIN last : last[j].name = name}
         IN  /\ here = {} => Found(u, name) = Found(t, name)
             /\ here # {} => Found(u, name) = last[Min(here)].node
<1> DEFINE here == {j \in DOMAIN last : last[j].name = name}
           Holds(tables) == {k \in DOMAIN tables : \E j \in DOMAIN tables[k] : tables[k][j].name = name}
<1>1. PICK n \in Nat : /\ n = Len(t) /\ DOMAIN t = 1..n /\ DOMAIN u = 1..(n + 1)
                       /\ u[n + 1] = last /\ \A k \in 1..n : u[k] = t[k]
  BY DEF PushedOn, IsSeq
<1>2. /\ \A k \in 1..(n + 1) : k \in 1..n \/ k = n + 1
      /\ \A k \in 1..n : k \in 1..(n + 1) /\ k # n + 1
      /\ n + 1 \in 1..(n + 1)
  OBVIOUS
<1>3. CASE here = {}
  <2>1. Holds(u) = Holds(t)
    BY <1>1, <1>2, <1>3
  <2>2. CASE Holds(t) = {}
    BY <1>3, <2>1, <2>2 DEF Found
  <2>3. CASE Holds(t) # {}
    <3>1. Holds(t) \subseteq 1..n
      BY <1>1
    <3>2. Max(Holds(t)) \in Holds(t)
      <4> HIDE DEF Holds
      <4> QED
        BY <2>3, <3>1, EndsAreIn
    <3>3. u[Max(Holds(t))] = t[Max(Holds(t))]
      BY <1>1, <3>1, <3>2
    <3>4. Found(u, name) = Found(t, name)
      BY <2>1, <3>3 DEF Found, Innermost
    <3> QED
      BY <1>3, <3>4
  <2> QED
    BY <2>2, <2>3
<1>4. CASE here # {}
  <2>1. n + 1 \in Holds(u) /\ Holds(u) \subseteq 1..(n + 1)
    BY <1>1, <1>2, <1>4
  <2>2. Max(Holds(u)) = n + 1
    <3> HIDE DEF Holds
    <3>1. /\ Max(Holds(u)) \in Holds(u) /\ Max(Holds(u)) >= n + 1
      BY <2>1, EndsAreIn
    <3> QED
      BY <2>1, <3>1
  <2>3. Found(u, name) = last[Min(here)].node
    BY <1>1, <2>1, <2>2 DEF Found, Innermost
  <2> QED
    BY <1>4, <2>3
<1> QED
  BY <1>3, <1>4

LEMMA KnowsInside ==
  ASSUME NEW p, NEW c \in Contexts, NEW t, Knows(p, c, t), NEW func \in Functions,
         NEW done, IsSeq(done), NEW vals, DOMAIN vals = DOMAIN done,
         DOMAIN done \subseteq DOMAIN func.params,
         \A k \in DOMAIN done : done[k].value \in Passed /\ done[k].value = vals[k],
         NEW u, PushedOn(t, ParameterTable(func.params, done), u)
  PROVE  Knows(p, Inside(c, func.params, vals), u)
<1> DEFINE d == Inside(c, func.params, vals)
           table == ParameterTable(func.params, done)
           at(name) == {k \in DOMAIN done : func.params[k] = name}
<1>1. Len(done) \in Nat /\ DOMAIN done = 1..Len(done)
  BY DEF IsSeq
<1>2. /\ DOMAIN table = DOMAIN done
      /\ \A k \in DOMAIN done : /\ table[k].name = func.params[k]
                                /\ table[k].node.kind = "const"
                                /\ table[k].node.init.kind = "literal"
                                /\ table[k].node.init.value = done[k].value
  BY DEF ParameterTable, Parameter, Literal
<1>3. IsSeq(table)
  <2>1. \E st, q : st[q - 1].done = done
    <3>1. [k \in {0} |-> [done |-> done]][1 - 1].done = done
      OBVIOUS
    <3> QED
      BY <3>1
  <2>2. PICK st, q : st[q - 1].done = done
    BY <2>1
  <2> QED
    BY <2>2, ParameterTableFacts DEF IsTableOf
<1>4. ASSUME NEW name
      PROVE  /\ {j \in DOMAIN table : table[j].name = name} = at(name)
             /\ at(name) # {} => Min(at(name)) \in DOMAIN done
  <2>1. {j \in DOMAIN table : table[j].name = name} = at(name)
    BY <1>2
  <2>2. at(name) \subseteq 1..Len(done) /\ at(name) \subseteq DOMAIN done
    BY <1>1
  <2>3. at(name) # {} => Min(at(name)) \in at(name)
    <3> HIDE DEF at
    <3> QED
      BY <1>1, <2>2, EndsAreIn
  <2> QED
    BY <2>1, <2>2, <2>3
<1> HIDE DEF table
<1>5. ASSUME NEW name
      PROVE  /\ at(name) # {} => Found(u, name) = table[Min(at(name))].node
             /\ at(name) = {} => Found(u, name) = Found(t, name)
  <2>1. PushedOn(t, table, u)
    BY DEF table
  <2> DEFINE here == {j \in DOMAIN table : table[j].name = name}
  <2>2. /\ here = {} => Found(u, name) = Found(t, name)
        /\ here # {} => Found(u, name) = table[Min(here)].node
    BY <1>3, <2>1, FoundInLast
  <2>3. here = at(name)
    BY <1>4
  <2> HIDE DEF here, at
  <2> QED
    BY <2>2, <2>3
<1>6. /\ d.depth = c.depth + 1 /\ d.outer = c.outer \cup BoundIn(c)
      /\ \A name \in Names : d.bound[name] = IF at(name) = {} THEN Unbound ELSE vals[Min(at(name))]
  BY DEF Inside
<1>7. \A name : at(name) # {} => name \in Names
  BY DEF Names
<1> HIDE DEF d, at
<1>8. \A name : name \in BoundIn(d) <=> at(name) # {}
  <2>1. \A name \in Names : at(name) # {} => d.bound[name] # Unbound
    BY <1>4, <1>6, PassedAreValues
  <2> QED
    BY <1>6, <1>7, <2>1 DEF BoundIn
<1>9. d.depth = Len(u) - 1
  <2>1. Len(u) = Len(t) + 1 /\ Len(t) \in Nat /\ c.depth = Len(t) - 1
    BY DEF PushedOn, IsSeq, Knows
  <2> QED
    BY <1>6, <2>1
<1>10. ASSUME NEW name \in BoundIn(d)
       PROVE  /\ Found(u, name).kind = "const" /\ Found(u, name).init.kind = "literal"
              /\ Found(u, name).init.value = d.bound[name]
  <2>1. at(name) # {} /\ name \in Names
    BY <1>7, <1>8
  <2>2. Found(u, name) = table[Min(at(name))].node /\ Min(at(name)) \in DOMAIN done
    BY <1>4, <1>5, <2>1
  <2>3. d.bound[name] = done[Min(at(name))].value
    BY <1>6, <2>1, <2>2
  <2> QED
    BY <1>2, <2>2, <2>3 DEF table
<1>11. ASSUME NEW name, name \notin BoundIn(d) \cup d.outer
       PROVE  Found(u, name) = Global(p, name)
  <2>1. at(name) = {} /\ name \notin BoundIn(c) \cup c.outer
    BY <1>6, <1>8, <1>11
  <2> QED
    BY <1>5, <2>1 DEF Knows
<1>12. Knows(p, d, u)
  BY <1>9, <1>10, <1>11 DEF Knows
<1> QED
  BY <1>12 DEF d

-----------------------------------------------------------------------------
(***************************************************************************)
(* Steps: what the running activation hands on stays the same.             *)
(***************************************************************************)
\* The value y is handed to the frames under the running one, which know it as
\* what the rules with at most n applications make of x in the context c.
Promised(b, n, c, y, x) ==
  /\ y # Unknown /\ Leads(program, Rest, b, Given(y, scopes))
  /\ Knows(program, c, scopes) /\ Awaits(Rules(program)[n], c, Top, y, x)

LEMMA TopPromises ==
  ASSUME OwnInv, Running, Top.at \notin {"call", "body"},
         NEW b, Leads(program, stack, b, Given(result, scopes))
  PROVE  \E n \in 0..MaxRules : \E c \in Contexts : \E y : Promised(b, n, c, y, result)
<1>1. PushedOn(Rest, Top, stack)
  BY OwnPopped
<1> DEFINE g == Given(result, scopes)
<1>2. PICK v : HandsOn(program, Top, v, g) /\ Leads(program, Rest, b, v)
  BY <1>1, LeadsPop
<1>3. g.value = result /\ g.tables = scopes
  BY DEF Given
<1> HIDE DEF g
<1>4. v.value # Unknown /\ v = Given(v.value, scopes)
  BY <1>2, <1>3 DEF HandsOn
<1>5. PICK n \in 0..MaxRules : \E c \in Contexts :
        Knows(program, c, scopes) /\ Awaits(Rules(program)[n], c, Top, v.value, result)
  BY <1>2, <1>3 DEF HandsOn
<1>6. PICK c \in Contexts :
        Knows(program, c, scopes) /\ Awaits(Rules(program)[n], c, Top, v.value, result)
  BY <1>5
<1>7. Promised(b, n, c, v.value, result)
  BY <1>2, <1>4, <1>6 DEF Promised
<1> QED
  BY <1>7

LEMMA FrameHandsOn ==
  ASSUME NEW p, NEW n \in 0..MaxRules, NEW c \in Contexts, NEW t, Knows(p, c, t),
         NEW f, f.at \notin {"call", "body"}, NEW y, y # Unknown, NEW x,
         Awaits(Rules(p)[n], c, f, y, x)
  PROVE  HandsOn(p, f, Given(y, t), Given(x, t))
<1>1. /\ Given(y, t).value = y /\ Given(y, t).tables = t
      /\ Given(x, t).value = x /\ Given(x, t).tables = t
  BY DEF Given
<1>2. f.at # "body"
  OBVIOUS
<1> QED
  BY <1>1, <1>2 DEF HandsOn

LEMMA EvalHandsOn ==
  ASSUME NEW p, NEW n \in 0..MaxRules, NEW c \in Contexts, NEW t, Knows(p, c, t),
         NEW e \in Nodes, NEW y, y = Rules(p)[n].expr[e][c], y # Unknown
  PROVE  HandsOn(p, Eval(e), Given(y, t), Given(Pending, t))
<1>1. e.kind = "literal" => y = e.value
  <2>1. y = ExprMeans(p, Rules(p)[n - 1], e, c)
    BY ExprKnown
  <2> QED
    BY <2>1 DEF ExprMeans
<1>2. Eval(e).at = "expr" /\ Eval(e).node = e
  BY DEF Eval
<1>3. y = NodeMeans(Rules(p)[n], e, c)
  BY <1>1 DEF NodeMeans
<1>4. Awaits(Rules(p)[n], c, Eval(e), y, Pending)
  BY <1>2, <1>3 DEF Awaits
<1> QED
  BY <1>2, <1>4, FrameHandsOn

LEMMA MeansReturn ==
  ASSUME NEW b, NEW y, Leads(program, Rest, b, Given(y, scopes)), Return(y), scopes' = scopes
  PROVE  Leads(program, stack', b, Given(result', scopes'))
BY DEF Return

LEMMA MeansContinue ==
  ASSUME OwnInv, Running, NEW b, NEW y, Leads(program, Rest, b, Given(y, scopes)),
         NEW f, HandsOn(program, f, Given(y, scopes), Given(Pending, scopes)),
         Continue(f), scopes' = scopes
  PROVE  Leads(program, stack', b, Given(result', scopes'))
<1>1. IsSeq(Rest)
  BY OwnPopped
<1>2. PushedOn(Rest, f, stack') /\ result' = Pending
  BY <1>1, AppendPushes DEF Continue
<1>3. Leads(program, stack', b, Given(Pending, scopes))
  BY <1>2, LeadsPush
<1> QED
  BY <1>2, <1>3

LEMMA MeansTwo ==
  ASSUME OwnInv, Running, NEW b, NEW v, Leads(program, Rest, b, v),
         NEW f, NEW g, NEW u, HandsOn(program, f, v, u),
         HandsOn(program, g, u, Given(Pending, scopes)),
         stack' = Rest \o <<f, g>>, result' = Pending, scopes' = scopes
  PROVE  Leads(program, stack', b, Given(result', scopes'))
<1> DEFINE r == Append(Rest, f)
<1>1. IsSeq(Rest)
  BY OwnPopped
<1>2. PushedOn(Rest, f, r) /\ IsSeq(r)
  BY <1>1, AppendPushes
<1>3. stack' = Append(r, g)
  BY <1>1, AppendedTogether DEF IsSeq
<1> HIDE DEF r
<1>4. Leads(program, r, b, u)
  BY <1>2, LeadsPush
<1>5. PushedOn(r, g, stack')
  BY <1>2, <1>3, AppendPushes
<1>6. Leads(program, stack', b, Given(Pending, scopes))
  BY <1>4, <1>5, LeadsPush
<1> QED
  BY <1>6

\* An expression is evaluated, and then the frame f goes on with its value.
LEMMA MeansCall ==
  ASSUME OwnInv, Running, NEW b, NEW y, y # Unknown, Leads(program, Rest, b, Given(y, scopes)),
         NEW n \in 0..MaxRules, NEW c \in Contexts, Knows(program, c, scopes),
         NEW f, f.at \notin {"call", "body"}, NEW e \in Nodes, NEW x,
         x = Rules(program)[n].expr[e][c], x # Unknown,
         Awaits(Rules(program)[n], c, f, y, x),
         CallThen(e, f), scopes' = scopes
  PROVE  Leads(program, stack', b, Given(result', scopes'))
<1>1. HandsOn(program, f, Given(y, scopes), Given(x, scopes))
  BY FrameHandsOn
<1>2. HandsOn(program, Eval(e), Given(x, scopes), Given(Pending, scopes))
  BY EvalHandsOn
<1>3. stack' = Rest \o <<f, Eval(e)>> /\ result' = Pending
  BY DEF CallThen
<1> QED
  BY <1>1, <1>2, <1>3, MeansTwo

\* An expression that is no literal means what the rules make of its parts.
LEMMA TopExpression ==
  ASSUME OwnInv, Running, Top.at = "expr", Top.node.kind # "literal",
         NEW b, Leads(program, stack, b, Given(result, scopes))
  PROVE  \E n \in 0..MaxRules : \E c \in Contexts : \E y :
           /\ y # Unknown /\ Leads(program, Rest, b, Given(y, scopes))
           /\ Knows(program, c, scopes)
           /\ Top.node \in Nodes /\ y = ExprMeans(program, Rules(program)[n], Top.node, c)
<1>1. PICK n \in 0..MaxRules : \E c \in Contexts : \E y : Promised(b, n, c, y, result)
  BY TopPromises
<1>2. PICK c \in Contexts : \E y : Promised(b, n, c, y, result)
  BY <1>1
<1>3. PICK y : Promised(b, n, c, y, result)
  BY <1>2
<1>4. Top.node \in Nodes
  BY TopIsNode
<1>5. y # Unknown /\ y = Rules(program)[n].expr[Top.node][c]
  BY <1>3 DEF Promised, Awaits, NodeMeans
<1>6. n - 1 \in 0..MaxRules /\ y = ExprMeans(program, Rules(program)[n - 1], Top.node, c)
  BY <1>4, <1>5, ExprKnown
<1> QED
  BY <1>3, <1>4, <1>6 DEF Promised

LEMMA MeansLiteral ==
  ASSUME OwnInv, LiteralStep, NEW b, Leads(program, stack, b, Given(result, scopes))
  PROVE  Leads(program, stack', b, Given(result', scopes'))
<1>1. /\ Running /\ Top.at = "expr" /\ Top.node.kind = "literal" /\ Return(Top.node.value)
      /\ scopes' = scopes
  BY DEF LiteralStep, AtExpr, At, NoCalls
<1>2. PICK n, c, y : Promised(b, n, c, y, result)
  BY <1>1, TopPromises
<1>3. y = Top.node.value
  BY <1>1, <1>2 DEF Promised, Awaits, NodeMeans
<1> QED
  BY <1>1, <1>2, <1>3, MeansReturn DEF Promised

LEMMA MeansIdentifier ==
  ASSUME OwnInv, Identifier, NEW b, Leads(program, stack, b, Given(result, scopes))
  PROVE  Leads(program, stack', b, Given(result', scopes'))
<1> DEFINE name == Top.node.name
           node == Node(name)
<1>1. /\ Running /\ Top.at = "expr" /\ Top.node.kind = "identifier" /\ scopes' = scopes
      /\ IF node.kind = "const" THEN Continue(Eval(node.init)) ELSE Return(Null)
  BY DEF Identifier, AtExpr, At, NoCalls
<1>2. PICK n \in 0..MaxRules : \E c \in Contexts : \E y :
        /\ y # Unknown /\ Leads(program, Rest, b, Given(y, scopes))
        /\ Knows(program, c, scopes)
        /\ y = ExprMeans(program, Rules(program)[n], Top.node, c)
  BY <1>1, TopExpression
<1>3. PICK c \in Contexts : \E y :
        /\ y # Unknown /\ Leads(program, Rest, b, Given(y, scopes))
        /\ Knows(program, c, scopes)
        /\ y = ExprMeans(program, Rules(program)[n], Top.node, c)
  BY <1>2
<1>4. PICK y :
        /\ y # Unknown /\ Leads(program, Rest, b, Given(y, scopes))
        /\ Knows(program, c, scopes)
        /\ y = ExprMeans(program, Rules(program)[n], Top.node, c)
  BY <1>3
<1>5. y = IdentifierMeans(program, Rules(program)[n], name, c)
  BY <1>1, <1>4 DEF ExprMeans
<1>6. node = Found(scopes, name)
  BY NodeIsFound
<1> HIDE DEF name, node
<1>7. CASE name \in BoundIn(c)
  <2>1. /\ node.kind = "const" /\ node.init.kind = "literal" /\ node.init.value = y
    BY <1>4, <1>5, <1>6, <1>7 DEF Knows, IdentifierMeans
  <2>2. Eval(node.init).at = "expr" /\ Eval(node.init).node = node.init
    BY DEF Eval
  <2>3. Awaits(Rules(program)[n], c, Eval(node.init), y, Pending)
    BY <2>1, <2>2 DEF Awaits, NodeMeans
  <2>4. HandsOn(program, Eval(node.init), Given(y, scopes), Given(Pending, scopes))
    BY <1>4, <2>2, <2>3, FrameHandsOn
  <2> QED
    BY <1>1, <1>4, <2>1, <2>4, MeansContinue
<1>8. CASE name \notin BoundIn(c)
  <2>1. name \notin c.outer
    BY <1>4, <1>5, <1>8 DEF IdentifierMeans
  <2>2. node = Global(program, name)
    BY <1>4, <1>6, <1>8, <2>1 DEF Knows
  <2>3. CASE node.kind = "const"
    <3>1. y = Rules(program)[n].expr[node.init][Globally(c)]
      BY <1>5, <1>8, <2>1, <2>2, <2>3 DEF IdentifierMeans
    <3>2. node.init \in Nodes
      BY <2>2, <2>3, GlobalFacts DEF OwnInv
    <3>3. Globally(c) \in Contexts /\ Knows(program, Globally(c), scopes)
      BY <1>4, GloballyFits, KnowsGlobally
    <3>4. HandsOn(program, Eval(node.init), Given(y, scopes), Given(Pending, scopes))
      BY <1>4, <3>1, <3>2, <3>3, EvalHandsOn
    <3> QED
      BY <1>1, <1>4, <2>3, <3>4, MeansContinue
  <2>4. CASE node.kind # "const"
    <3>1. y = Null
      BY <1>5, <1>8, <2>1, <2>2, <2>4 DEF IdentifierMeans
    <3> QED
      BY <1>1, <1>4, <2>4, <3>1, MeansReturn
  <2> QED
    BY <2>3, <2>4
<1> QED
  BY <1>7, <1>8

LEMMA MeansBinary ==
  ASSUME OwnInv, Binary, NEW b, Leads(program, stack, b, Given(result, scopes))
  PROVE  Leads(program, stack', b, Given(result', scopes'))
<1> DEFINE f == [at |-> "left", node |-> Top.node]
<1>1. /\ Running /\ Top.at = "expr" /\ Top.node.kind = "binary" /\ scopes' = scopes
      /\ CallThen(Top.node.left, f)
  BY DEF Binary, AtExpr, At, NoCalls
<1>2. PICK n \in 0..MaxRules : \E c \in Contexts : \E y :
        /\ y # Unknown /\ Leads(program, Rest, b, Given(y, scopes))
        /\ Knows(program, c, scopes)
        /\ Top.node \in Nodes /\ y = ExprMeans(program, Rules(program)[n], Top.node, c)
  BY <1>1, TopExpression
<1>3. PICK c \in Contexts : \E y :
        /\ y # Unknown /\ Leads(program, Rest, b, Given(y, scopes))
        /\ Knows(program, c, scopes)
        /\ Top.node \in Nodes /\ y = ExprMeans(program, Rules(program)[n], Top.node, c)
  BY <1>2
<1>4. PICK y :
        /\ y # Unknown /\ Leads(program, Rest, b, Given(y, scopes))
        /\ Knows(program, c, scopes)
        /\ Top.node \in Nodes /\ y = ExprMeans(program, Rules(program)[n], Top.node, c)
  BY <1>3
<1> DEFINE l == Rules(program)[n].expr[Top.node.left][c]
           r == Rules(program)[n].expr[Top.node.right][c]
<1>5. y = BinaryMeans(Top.node.op, l, r)
  BY <1>1, <1>4 DEF ExprMeans
<1>6. Top.node.left \in Nodes
  BY <1>1, <1>4, NodesAssumption
<1>7. l # Unknown
  <2> HIDE DEF l, r
  <2> QED
    BY <1>4, <1>5 DEF BinaryMeans, Failed
<1>8. f.at = "left" /\ f.node = Top.node
  OBVIOUS
<1> HIDE DEF f
<1>9. Awaits(Rules(program)[n], c, f, y, l)
  BY <1>5, <1>8 DEF Awaits
<1>10. f.at \notin {"call", "body"}
  BY <1>8
<1> HIDE DEF l, r
<1>11. l = Rules(program)[n].expr[Top.node.left][c]
  BY DEF l
<1> QED
  BY <1>1, <1>4, <1>6, <1>7, <1>9, <1>10, <1>11, MeansCall

LEMMA MeansLeft ==
  ASSUME OwnInv, Left, NEW b, Leads(program, stack, b, Given(result, scopes))
  PROVE  Leads(program, stack', b, Given(result', scopes'))
<1> DEFINE f == [at |-> "right", op |-> Top.node.op, left |-> result]
<1>1. /\ Running /\ Top.at = "left" /\ scopes' = scopes
      /\ IF result = Null THEN Return(Null) ELSE CallThen(Top.node.right, f)
  BY DEF Left, At, NoCalls
<1>2. PICK n \in 0..MaxRules : \E c \in Contexts : \E y : Promised(b, n, c, y, result)
  BY <1>1, TopPromises
<1>3. PICK c \in Contexts : \E y : Promised(b, n, c, y, result)
  BY <1>2
<1>4. PICK y : Promised(b, n, c, y, result)
  BY <1>3
<1>5. /\ y # Unknown /\ Leads(program, Rest, b, Given(y, scopes))
      /\ Knows(program, c, scopes) /\ Awaits(Rules(program)[n], c, Top, y, result)
  BY <1>4 DEF Promised
<1> DEFINE r == Rules(program)[n].expr[Top.node.right][c]
<1>6. y = BinaryMeans(Top.node.op, result, r)
  BY <1>1, <1>5 DEF Awaits
<1>7. CASE result = Null
  <2>1. y = Null
    BY <1>6, <1>7 DEF BinaryMeans, Failed
  <2> QED
    BY <1>1, <1>5, <1>7, <2>1, MeansReturn
<1>8. CASE result # Null
  <2>1. ~ Failed(result) /\ r # Unknown
    <3> HIDE DEF r
    <3> QED
      BY <1>5, <1>6, <1>8 DEF BinaryMeans, Failed
  <2>2. Top.node.right \in Nodes
    <3>1. Top.node \in Nodes /\ Top.node.kind = "binary"
      BY <1>1, OwnPopped DEF Formed
    <3> QED
      BY <3>1, NodesAssumption
  <2>3. f.at = "right" /\ f.op = Top.node.op /\ f.left = result
    OBVIOUS
  <2> HIDE DEF f
  <2>4. Awaits(Rules(program)[n], c, f, y, r)
    BY <1>6, <2>1, <2>3 DEF Awaits
  <2>5. f.at \notin {"call", "body"}
    BY <2>3
  <2>6. r = Rules(program)[n].expr[Top.node.right][c]
    OBVIOUS
  <2> HIDE DEF r
  <2> QED
    BY <1>1, <1>5, <1>8, <2>1, <2>2, <2>4, <2>5, <2>6, MeansCall
<1> QED
  BY <1>7, <1>8

LEMMA MeansRight ==
  ASSUME OwnInv, Right, NEW b, Leads(program, stack, b, Given(result, scopes))
  PROVE  Leads(program, stack', b, Given(result', scopes'))
<1>1. /\ Running /\ Top.at = "right" /\ scopes' = scopes
      /\ Return(IF result = Null THEN Null ELSE BinaryOp(Top.op, Top.left, result))
  BY DEF Right, At, NoCalls
<1>2. PICK n \in 0..MaxRules : \E c \in Contexts : \E y : Promised(b, n, c, y, result)
  BY <1>1, TopPromises
<1>3. PICK c \in Contexts : \E y : Promised(b, n, c, y, result)
  BY <1>2
<1>4. PICK y : Promised(b, n, c, y, result)
  BY <1>3
<1>5. /\ y # Unknown /\ Leads(program, Rest, b, Given(y, scopes))
      /\ Knows(program, c, scopes) /\ Awaits(Rules(program)[n], c, Top, y, result)
  BY <1>4 DEF Promised
<1>6. y = IF result = Null THEN Null ELSE BinaryOp(Top.op, Top.left, result)
  <2>1. ~ Failed(Top.left) /\ y = BinaryMeans(Top.op, Top.left, result)
    BY <1>1, <1>5 DEF Awaits
  <2>2. CASE result = Null
    BY <2>1, <2>2 DEF BinaryMeans, Failed
  <2>3. CASE result # Null
    <3>1. y = OperationMeans(Top.op, Top.left, result)
      BY <1>5, <2>1, <2>3 DEF BinaryMeans, Failed
    <3> QED
      BY <1>5, <2>3, <3>1, OperationAgrees
  <2> QED
    BY <2>2, <2>3
<1> QED
  BY <1>1, <1>5, <1>6, MeansReturn

LEMMA MeansUnary ==
  ASSUME OwnInv, Unary, NEW b, Leads(program, stack, b, Given(result, scopes))
  PROVE  Leads(program, stack', b, Given(result', scopes'))
<1> DEFINE f == [at |-> "operand", op |-> Top.node.op]
<1>1. /\ Running /\ Top.at = "expr" /\ Top.node.kind = "unary" /\ scopes' = scopes
      /\ CallThen(Top.node.operand, f)
  BY DEF Unary, AtExpr, At, NoCalls
<1>2. PICK n \in 0..MaxRules : \E c \in Contexts : \E y :
        /\ y # Unknown /\ Leads(program, Rest, b, Given(y, scopes))
        /\ Knows(program, c, scopes)
        /\ Top.node \in Nodes /\ y = ExprMeans(program, Rules(program)[n], Top.node, c)
  BY <1>1, TopExpression
<1>3. PICK c \in Contexts : \E y :
        /\ y # Unknown /\ Leads(program, Rest, b, Given(y, scopes))
        /\ Knows(program, c, scopes)
        /\ Top.node \in Nodes /\ y = ExprMeans(program, Rules(program)[n], Top.node, c)
  BY <1>2
<1>4. PICK y :
        /\ y # Unknown /\ Leads(program, Rest, b, Given(y, scopes))
        /\ Knows(program, c, scopes)
        /\ Top.node \in Nodes /\ y = ExprMeans(program, Rules(program)[n], Top.node, c)
  BY <1>3
<1> DEFINE x == Rules(program)[n].expr[Top.node.operand][c]
<1>5. y = UnaryMeans(Top.node.op, x)
  BY <1>1, <1>4 DEF ExprMeans
<1>6. Top.node.operand \in Nodes
  BY <1>1, <1>4, NodesAssumption
<1>7. x # Unknown
  <2> HIDE DEF x
  <2> QED
    BY <1>4, <1>5 DEF UnaryMeans, Failed
<1>8. f.at = "operand" /\ f.op = Top.node.op
  OBVIOUS
<1> HIDE DEF f
<1>9. Awaits(Rules(program)[n], c, f, y, x)
  BY <1>5, <1>8 DEF Awaits
<1>10. f.at \notin {"call", "body"}
  BY <1>8
<1> HIDE DEF x
<1>11. x = Rules(program)[n].expr[Top.node.operand][c]
  BY DEF x
<1> QED
  BY <1>1, <1>4, <1>6, <1>7, <1>9, <1>10, <1>11, MeansCall

LEMMA MeansOperand ==
  ASSUME OwnInv, Operand, NEW b, Leads(program, stack, b, Given(result, scopes))
  PROVE  Leads(program, stack', b, Given(result', scopes'))
<1>1. /\ Running /\ Top.at = "operand" /\ scopes' = scopes
      /\ Return(IF result = Null THEN Null ELSE UnaryOp(Top.op, result))
  BY DEF Operand, At, NoCalls
<1>2. PICK n \in 0..MaxRules : \E c \in Contexts : \E y : Promised(b, n, c, y, result)
  BY <1>1, TopPromises
<1>3. PICK c \in Contexts : \E y : Promised(b, n, c, y, result)
  BY <1>2
<1>4. PICK y : Promised(b, n, c, y, result)
  BY <1>3
<1>5. /\ y # Unknown /\ Leads(program, Rest, b, Given(y, scopes))
      /\ Knows(program, c, scopes) /\ Awaits(Rules(program)[n], c, Top, y, result)
  BY <1>4 DEF Promised
<1>6. y = IF result = Null THEN Null ELSE UnaryOp(Top.op, result)
  <2>1. y = UnaryMeans(Top.op, result)
    BY <1>1, <1>5 DEF Awaits
  <2>2. CASE result = Null
    BY <2>1, <2>2 DEF UnaryMeans, Failed
  <2>3. CASE result # Null
    <3>1. y = SignMeans(Top.op, result)
      BY <1>5, <2>1, <2>3 DEF UnaryMeans, Failed
    <3> QED
      BY <1>5, <2>3, <3>1, SignAgrees
  <2> QED
    BY <2>2, <2>3
<1> QED
  BY <1>1, <1>5, <1>6, MeansReturn

LEMMA MeansCallBegins ==
  ASSUME OwnInv, Call, NEW b, Leads(program, stack, b, Given(result, scopes))
  PROVE  Leads(program, stack', b, Given(result', scopes'))
<1> DEFINE name == Top.node.name
           func == Node(name)
           f == [at |-> "args", func |-> func, args |-> Top.node.args, done |-> << >>]
<1>1. /\ Running /\ Top.at = "expr" /\ Top.node.kind = "call" /\ scopes' = scopes
      /\ IF func.kind = "function" /\ func.is_comptime THEN Continue(f) ELSE Return(Null)
  BY DEF Call, AtExpr, At, NoCalls
<1>2. PICK n \in 0..MaxRules : \E c \in Contexts : \E y :
        /\ y # Unknown /\ Leads(program, Rest, b, Given(y, scopes))
        /\ Knows(program, c, scopes)
        /\ Top.node \in Nodes /\ y = ExprMeans(program, Rules(program)[n], Top.node, c)
  BY <1>1, TopExpression
<1>3. PICK c \in Contexts : \E y :
        /\ y # Unknown /\ Leads(program, Rest, b, Given(y, scopes))
        /\ Knows(program, c, scopes)
        /\ Top.node \in Nodes /\ y = ExprMeans(program, Rules(program)[n], Top.node, c)
  BY <1>2
<1>4. PICK y :
        /\ y # Unknown /\ Leads(program, Rest, b, Given(y, scopes))
        /\ Knows(program, c, scopes)
        /\ Top.node \in Nodes /\ y = ExprMeans(program, Rules(program)[n], Top.node, c)
  BY <1>3
<1>5. y = CallMeans(program, Rules(program)[n], Top.node, c)
  BY <1>1, <1>4 DEF ExprMeans
<1>6. func = Found(scopes, name)
  BY NodeIsFound
<1> HIDE DEF func
<1>7. CASE name \in BoundIn(c)
  <2>1. func.kind = "const"
    BY <1>4, <1>6, <1>7 DEF Knows
  <2>2. y = Null
    BY <1>5, <1>7 DEF CallMeans
  <2> QED
    BY <1>1, <1>4, <2>1, <2>2, MeansReturn
<1>8. CASE name \notin BoundIn(c)
  <2>1. name \notin c.outer
    BY <1>4, <1>5, <1>8 DEF CallMeans
  <2>2. func = Global(program, name)
    BY <1>4, <1>6, <1>8, <2>1 DEF Knows
  <2>3. CASE func.kind = "function" /\ func.is_comptime
    <3>1. y = ApplicationMeans(Rules(program)[n], func,
                               ArgumentsMean(Rules(program)[n], Top.node.args, c), c)
      BY <1>5, <1>8, <2>1, <2>2, <2>3 DEF CallMeans
    <3>2. func \in Functions
      BY <2>2, <2>3, GlobalFacts DEF OwnInv
    <3>3. Len(Top.node.args) \in Nat /\ Len(<< >>) = 0
      BY <1>1, <1>4, NodesAssumption
    <3>4. f.at = "args" /\ f.func = func /\ f.args = Top.node.args /\ f.done = << >>
      OBVIOUS
    <3> HIDE DEF f
    <3>5. f.at \notin {"call", "body"} /\ Len(f.done) <= Len(f.args)
          /\ \A k : k \notin 1..Len(f.done)
      BY <3>3, <3>4
    <3>6. Awaits(Rules(program)[n], c, f, y, Pending)
      BY <3>1, <3>2, <3>4, <3>5 DEF Awaits
    <3>7. HandsOn(program, f, Given(y, scopes), Given(Pending, scopes))
      BY <1>4, <3>5, <3>6, FrameHandsOn
    <3> QED
      BY <1>1, <1>4, <2>3, <3>7, MeansContinue
  <2>4. CASE ~ (func.kind = "function" /\ func.is_comptime)
    <3>1. y = Null
      BY <1>5, <1>8, <2>1, <2>2, <2>4 DEF CallMeans
    <3> QED
      BY <1>1, <1>4, <2>4, <3>1, MeansReturn
  <2> QED
    BY <2>3, <2>4
<1> QED
  BY <1>7, <1>8

LEMMA MeansCallEnds ==
  ASSUME OwnInv, CallDone, NEW b, Leads(program, stack, b, Given(result, scopes))
  PROVE  Leads(program, stack', b, Given(result', scopes'))
<1>1. Running /\ Top.at = "call" /\ Return(result) /\ scopes' = scopes
  BY DEF CallDone, At
<1> DEFINE g == Given(result, scopes)
<1>2. PICK v : HandsOn(program, Top, v, g) /\ Leads(program, Rest, b, v)
  BY <1>1, OwnPopped, LeadsPop
<1>3. g.value = result /\ g.tables = scopes
  BY DEF Given
<1> HIDE DEF g
<1>4. v = Given(result, scopes)
  <2>1. Top.at \in {"call", "body"} /\ Top.at # "body"
    BY <1>1
  <2> QED
    BY <1>2, <1>3, <2>1 DEF HandsOn
<1> QED
  BY <1>1, <1>2, <1>4, MeansReturn

LEMMA MeansBodyEnds ==
  ASSUME OwnInv, LeaveBody, NEW b, Leads(program, stack, b, Given(result, scopes))
  PROVE  Leads(program, stack', b, Given(result', scopes'))
<1>1. Running /\ Top.at = "body" /\ Return(result) /\ scopes' = Front(scopes)
  BY DEF LeaveBody, At
<1> DEFINE g == Given(result, scopes)
<1>2. PICK v : HandsOn(program, Top, v, g) /\ Leads(program, Rest, b, v)
  BY <1>1, OwnPopped, LeadsPop
<1>3. g.value = result /\ g.tables = scopes
  BY DEF Given
<1> HIDE DEF g
<1>4. v = Given(result, Front(scopes))
  <2>1. Top.at \in {"call", "body"} /\ Top.at = "body"
    BY <1>1
  <2> QED
    BY <1>2, <1>3, <2>1 DEF HandsOn
<1> QED
  BY <1>1, <1>2, <1>4 DEF Return

(***************************************************************************)
(* Arguments: the first that is not passed on decides what a call means.   *)
(***************************************************************************)
LEMMA FirstRefused ==
  ASSUME NEW m, NEW func, NEW vals, NEW c, NEW n \in Nat, DOMAIN vals = 1..n, NEW k \in 1..n,
         \A j \in 1..(k - 1) : vals[j] \in Passed, vals[k] \notin Passed
  PROVE  ApplicationMeans(m, func, vals, c) = IF vals[k] = Null THEN Null ELSE Unknown
<1> DEFINE refused == {j \in DOMAIN vals : vals[j] \notin Passed}
<1>1. k \in refused /\ refused \subseteq 1..n
  OBVIOUS
<1>2. Min(refused) = k
  <2>1. Min(refused) \in refused /\ Min(refused) <= k
    <3> HIDE DEF refused
    <3> QED
      BY <1>1, EndsAreIn
  <2>2. Min(refused) \notin 1..(k - 1)
    BY <2>1
  <2>3. Min(refused) \in 1..n
    BY <1>1, <2>1
  <2> HIDE DEF refused
  <2> QED
    BY <2>1, <2>2, <2>3
<1>3. refused # {}
  BY <1>1
<1> QED
  BY <1>2, <1>3 DEF ApplicationMeans

\* The call in frame f, which hands on y, awaits arg as its next argument.
AwaitsNext(m, c, f, y, x, d, arg) ==
  /\ y # Unknown /\ Awaits(m, c, f, y, x) /\ f.at = "args" /\ Formed(f)
  /\ d \in Nat /\ d = Len(f.done) /\ d < Len(f.args) /\ arg = m.expr[f.args[d + 1]][c]

NextIsFit(y, arg) == arg # Unknown /\ (arg \notin Passed => arg = Null /\ y = Null)

LEMMA NextArgument ==
  ASSUME NEW m, NEW c, NEW f, NEW y, NEW x, NEW d, NEW arg, AwaitsNext(m, c, f, y, x, d, arg)
  PROVE  NextIsFit(y, arg) /\ f.args[d + 1] \in Nodes
<1> USE DEF AwaitsNext
<1>1. d = Len(f.done)
  OBVIOUS
<1>2. PICK n \in Nat : n = Len(f.args) /\ d < n
  BY <1>1 DEF Formed
<1> DEFINE vals == ArgumentsMean(m, f.args, c)
<1>3. /\ DOMAIN vals = 1..n
      /\ \A k \in 1..n : vals[k] = m.expr[f.args[k]][c] /\ f.args[k] \in Nodes
  <2> DEFINE args == f.args
  <2>1. args \in Seq(Nodes) /\ n = Len(args) /\ vals = ArgumentsMean(m, args, c)
    BY <1>2 DEF Formed
  <2> HIDE DEF args, vals
  <2>2. ValuesOf(vals, m, args, c)
    BY <2>1, ArgumentsFacts
  <2>3. /\ DOMAIN vals = 1..n
        /\ \A k \in 1..n : vals[k] = m.expr[args[k]][c] /\ args[k] \in Nodes
    BY <2>1, <2>2 DEF ValuesOf
  <2> QED
    BY <2>3 DEF args
<1>4. y = ApplicationMeans(m, f.func, vals, c)
  BY DEF Awaits
<1>5. \A k \in 1..d : m.expr[f.args[k]][c] \in Passed
  BY <1>1 DEF Awaits
<1> HIDE DEF vals
<1>6. d + 1 \in 1..n /\ (d + 1) - 1 = d /\ \A k \in 1..d : k \in 1..n
  BY <1>1, <1>2
<1>7. \A k \in 1..d : vals[k] \in Passed
  BY <1>3, <1>5, <1>6
<1>8. vals[d + 1] = arg /\ f.args[d + 1] \in Nodes
  BY <1>3, <1>6
<1>9. arg \notin Passed => y = IF arg = Null THEN Null ELSE Unknown
  <2> SUFFICES ASSUME vals[d + 1] \notin Passed
               PROVE  y = IF vals[d + 1] = Null THEN Null ELSE Unknown
    BY <1>8
  <2> DEFINE k == d + 1
  <2>1. k \in 1..n /\ vals[k] \notin Passed /\ \A j \in 1..(k - 1) : vals[j] \in Passed
    BY <1>6, <1>7
  <2> HIDE DEF k
  <2>2. ApplicationMeans(m, f.func, vals, c) = IF vals[k] = Null THEN Null ELSE Unknown
    BY <1>3, <2>1, FirstRefused
  <2> QED
    BY <1>4, <2>2 DEF k
<1>10. arg \notin Passed => arg = Null /\ y = Null
  BY <1>9
<1>11. arg # Unknown
  BY <1>10, PassedAreValues, SpecialValues
<1> QED
  BY <1>8, <1>10, <1>11 DEF NextIsFit

LEMMA MeansArgument ==
  ASSUME OwnInv, Argument, NEW b, Leads(program, stack, b, Given(result, scopes))
  PROVE  Leads(program, stack', b, Given(result', scopes'))
<1>1. /\ Running /\ Top.at = "args" /\ result = Pending /\ Len(Top.done) < Len(Top.args)
      /\ CallThen(Top.args[Len(Top.done) + 1], Top) /\ scopes' = scopes
  BY DEF Argument, At, Called, NoCalls
<1>2. PICK n \in 0..MaxRules : \E c \in Contexts : \E y : Promised(b, n, c, y, result)
  BY <1>1, TopPromises
<1>3. PICK c \in Contexts : \E y : Promised(b, n, c, y, result)
  BY <1>2
<1>4. PICK y : Promised(b, n, c, y, result)
  BY <1>3
<1>5. /\ y # Unknown /\ Leads(program, Rest, b, Given(y, scopes))
      /\ Knows(program, c, scopes) /\ Awaits(Rules(program)[n], c, Top, y, result)
  BY <1>4 DEF Promised
<1> DEFINE e == Top.args[Len(Top.done) + 1]
           x == Rules(program)[n].expr[e][c]
<1>6. e \in Nodes /\ x # Unknown
  <2>1. Formed(Top)
    BY <1>1, OwnPopped
  <2>2. PICK d \in Nat : d = Len(Top.done)
    BY <1>1, <2>1 DEF Formed, IsSeq
  <2>3. AwaitsNext(Rules(program)[n], c, Top, y, result, d, x)
    BY <1>1, <1>5, <2>1, <2>2 DEF AwaitsNext
  <2>4. NextIsFit(y, x) /\ Top.args[d + 1] \in Nodes
    <3> HIDE DEF x
    <3> QED
      BY <2>3, NextArgument
  <2> QED
    BY <2>2, <2>4 DEF NextIsFit
<1>7. Awaits(Rules(program)[n], c, Top, y, x)
  BY <1>1, <1>5 DEF Awaits
<1>8. CallThen(e, Top) /\ Top.at \notin {"call", "body"}
  BY <1>1
<1>9. x = Rules(program)[n].expr[e][c]
  OBVIOUS
<1> HIDE DEF e, x
<1> QED
  BY <1>1, <1>5, <1>6, <1>7, <1>8, <1>9, MeansCall

LEMMA MeansArgumentDone ==
  ASSUME OwnInv, ArgumentDone, NEW b, Leads(program, stack, b, Given(result, scopes))
  PROVE  Leads(program, stack', b, Given(result', scopes'))
<1> DEFINE f == [Top EXCEPT !.done = Append(@, Literal(NewId, Reread(result)))]
<1>1. /\ Running /\ Top.at = "args" /\ result # Pending /\ scopes' = scopes
      /\ result = Null => Return(Null)
      /\ result # Null => Continue(f)
  BY DEF ArgumentDone, At, Returned
<1>2. PICK n \in 0..MaxRules : \E c \in Contexts : \E y : Promised(b, n, c, y, result)
  BY <1>1, TopPromises
<1>3. PICK c \in Contexts : \E y : Promised(b, n, c, y, result)
  BY <1>2
<1>4. PICK y : Promised(b, n, c, y, result)
  BY <1>3
<1>5. /\ y # Unknown /\ Leads(program, Rest, b, Given(y, scopes))
      /\ Knows(program, c, scopes) /\ Awaits(Rules(program)[n], c, Top, y, result)
  BY <1>4 DEF Promised
<1>6. Formed(Top)
  BY <1>1, OwnPopped
<1>7. PICK d \in Nat : d = Len(Top.done)
  BY <1>1, <1>6 DEF Formed, IsSeq
<1>8. /\ d < Len(Top.args) /\ result = Rules(program)[n].expr[Top.args[d + 1]][c]
  BY <1>1, <1>5, <1>7 DEF Awaits
<1>9. result \notin Passed => result = Null /\ y = Null
  <2>1. AwaitsNext(Rules(program)[n], c, Top, y, result, d, result)
    BY <1>1, <1>5, <1>6, <1>7, <1>8 DEF AwaitsNext
  <2>2. NextIsFit(y, result)
    BY <2>1, NextArgument
  <2> QED
    BY <2>2 DEF NextIsFit
<1>10. CASE result = Null
  <2>1. y = Null
    BY <1>9, <1>10, PassedAreValues
  <2> QED
    BY <1>1, <1>5, <1>10, <2>1, MeansReturn
<1>11. CASE result # Null
  <2>1. result \in Passed /\ Reread(result) = result
    BY <1>9, <1>11, PassedAreValues
  <2> DEFINE literal == Literal(NewId, Reread(result))
             done == Append(Top.done, literal)
  <2>2. literal.value = result
    BY <2>1 DEF Literal
  <2>3. PushedOn(Top.done, literal, done)
    <3> HIDE DEF literal
    <3> QED
      BY <1>1, <1>6, AppendPushes DEF Formed
  <2> HIDE DEF literal
  <2>4. /\ Len(done) = d + 1 /\ done[d + 1].value = result
        /\ \A k \in 1..d : done[k] = Top.done[k]
    BY <1>7, <2>2, <2>3 DEF PushedOn
  <2>5. f.at = "args" /\ f.func = Top.func /\ f.args = Top.args /\ f.done = done
    <3>1. {"func", "args", "done"} \subseteq DOMAIN Top
      BY <1>1, <1>6 DEF Formed
    <3>2. "done" \in DOMAIN Top
      BY <3>1
    <3> QED
      BY <1>1, <3>2 DEF literal
  <2> HIDE DEF f, done
  <2>6. \A k \in 1..(d + 1) : /\ f.done[k].value \in Passed
                              /\ f.done[k].value = Rules(program)[n].expr[f.args[k]][c]
    <3> SUFFICES ASSUME NEW k \in 1..(d + 1)
                 PROVE  /\ f.done[k].value \in Passed
                        /\ f.done[k].value = Rules(program)[n].expr[f.args[k]][c]
      OBVIOUS
    <3>1. CASE k \in 1..d
      <4>1. f.done[k] = Top.done[k]
        BY <2>4, <2>5, <3>1
      <4>2. /\ Top.done[k].value \in Passed
            /\ Top.done[k].value = Rules(program)[n].expr[Top.args[k]][c]
        BY <1>1, <1>5, <1>7, <3>1 DEF Awaits
      <4> QED
        BY <2>5, <4>1, <4>2
    <3>2. CASE k = d + 1
      BY <1>8, <2>1, <2>4, <2>5, <3>2
    <3>3. k \in 1..d \/ k = d + 1
      BY <1>7
    <3> QED
      BY <3>1, <3>2, <3>3
  <2>7. Len(f.done) = d + 1 /\ Len(f.done) <= Len(f.args)
    <3>1. PICK l \in Nat : l = Len(Top.args)
      BY <1>1, <1>6 DEF Formed
    <3>2. d < l
      BY <1>8, <3>1
    <3>3. d + 1 <= l
      BY <3>2
    <3>4. Len(f.done) = d + 1 /\ Len(f.args) = l
      BY <2>4, <2>5, <3>1
    <3> QED
      BY <3>3, <3>4
  <2>8. /\ f.func \in Functions
        /\ y = ApplicationMeans(Rules(program)[n], f.func,
                                ArgumentsMean(Rules(program)[n], f.args, c), c)
    BY <1>1, <1>5, <2>5 DEF Awaits
  <2>9. Awaits(Rules(program)[n], c, f, y, Pending)
    BY <2>5, <2>6, <2>7, <2>8 DEF Awaits
  <2>10. f.at \notin {"call", "body"}
    BY <2>5
  <2>11. HandsOn(program, f, Given(y, scopes), Given(Pending, scopes))
    BY <1>5, <2>9, <2>10, FrameHandsOn
  <2>12. Continue(f)
    BY <1>1, <1>11
  <2> QED
    BY <1>1, <1>5, <2>11, <2>12, MeansContinue
<1> QED
  BY <1>10, <1>11

\* Entering a function, or failing to.
LEMMA MeansFrames ==
  ASSUME OwnInv, Running, NEW b, NEW v, Leads(program, Rest, b, v),
         NEW f, NEW g, NEW h, NEW u, NEW w, HandsOn(program, f, v, u), HandsOn(program, g, u, w),
         HandsOn(program, h, w, Given(Pending, scopes')),
         stack' = Rest \o <<f, g, h>>, result' = Pending
  PROVE  Leads(program, stack', b, Given(result', scopes'))
<1> DEFINE r1 == Append(Rest, f)
           r2 == Append(r1, g)
<1>1. IsSeq(Rest)
  BY OwnPopped
<1>2. stack' = Append(r2, h)
  BY <1>1, AppendedTogether DEF IsSeq
<1>3. PushedOn(Rest, f, r1) /\ IsSeq(r1)
  BY <1>1, AppendPushes
<1> HIDE DEF r1
<1>4. PushedOn(r1, g, r2) /\ IsSeq(r2)
  BY <1>3, AppendPushes
<1> HIDE DEF r2
<1>5. PushedOn(r2, h, stack')
  BY <1>2, <1>4, AppendPushes
<1>6. Leads(program, r1, b, u)
  BY <1>3, LeadsPush
<1>7. Leads(program, r2, b, w)
  BY <1>4, <1>6, LeadsPush
<1>8. Leads(program, stack', b, Given(Pending, scopes'))
  BY <1>5, <1>7, LeadsPush
<1> QED
  BY <1>8

LEMMA MeansEnter ==
  ASSUME OwnInv, Enter, NEW b, Leads(program, stack, b, Given(result, scopes))
  PROVE  Leads(program, stack', b, Given(result', scopes'))
<1> DEFINE func == Top.func
           table == ParameterTable(Top.func.params, Top.done)
           f == [at |-> "call", done |-> Top.done]
           g == [at |-> "body"]
           h == [at |-> "block", rest |-> Top.func.body]
<1>1. /\ Running /\ Top.at = "args" /\ result = Pending /\ Len(Top.done) = Len(Top.args)
      /\ CanEnter(Top.func, Top.done) => /\ scopes' = Append(scopes, table) /\ result' = Pending
                                         /\ stack' = Rest \o <<f, g, h>>
      /\ ~ CanEnter(Top.func, Top.done) => Return(Null) /\ scopes' = scopes
  BY DEF Enter, At, Called, ParameterTable
<1>2. PICK n \in 0..MaxRules : \E c \in Contexts : \E y : Promised(b, n, c, y, result)
  BY <1>1, TopPromises
<1>3. PICK c \in Contexts : \E y : Promised(b, n, c, y, result)
  BY <1>2
<1>4. PICK y : Promised(b, n, c, y, result)
  BY <1>3
<1>5. /\ y # Unknown /\ Leads(program, Rest, b, Given(y, scopes))
      /\ Knows(program, c, scopes) /\ Awaits(Rules(program)[n], c, Top, y, result)
  BY <1>4 DEF Promised
<1>6. /\ Formed(Top) /\ IsSeq(Top.done) /\ Top.args \in Seq(Nodes)
      /\ Top.func.body \in Seq(Statements)
  BY <1>1, OwnPopped DEF Formed
<1>7. PICK d \in Nat : d = Len(Top.done) /\ DOMAIN Top.done = 1..d /\ Len(Top.args) = d
  BY <1>1, <1>6 DEF IsSeq
<1> DEFINE m == Rules(program)[n]
           vals == ArgumentsMean(m, Top.args, c)
<1>8. /\ IsSeq(vals) /\ Len(vals) = d /\ DOMAIN vals = 1..d
      /\ \A k \in 1..d : vals[k] = m.expr[Top.args[k]][c]
  <2> DEFINE args == Top.args
  <2>1. args \in Seq(Nodes) /\ d = Len(args) /\ vals = ArgumentsMean(m, args, c)
    BY <1>6, <1>7
  <2> HIDE DEF args, vals, m
  <2>2. ValuesOf(vals, m, args, c)
    BY <2>1, ArgumentsFacts
  <2>3. /\ IsSeq(vals) /\ Len(vals) = d /\ DOMAIN vals = 1..d
        /\ \A k \in 1..d : vals[k] = m.expr[args[k]][c]
    BY <2>1, <2>2 DEF ValuesOf
  <2> QED
    BY <2>3 DEF args
<1>9. /\ Top.func \in Functions /\ y = ApplicationMeans(m, Top.func, vals, c)
      /\ \A k \in 1..d : Top.done[k].value \in Passed
                         /\ Top.done[k].value = m.expr[Top.args[k]][c]
  BY <1>1, <1>5, <1>7 DEF Awaits
<1> HIDE DEF vals, f, g, h, table
<1>10. \A k \in DOMAIN vals : vals[k] \in Passed /\ Top.done[k].value = vals[k]
  BY <1>8, <1>9
<1>11. CanEnter(Top.func, Top.done) <=>
         ~ (c.depth = MAX_RECURSION_DEPTH \/ Len(vals) # Len(Top.func.params))
  <2>1. c.depth = current_recursion_depth
    <3>1. c.depth = Len(scopes) - 1
      BY <1>5 DEF Knows
    <3>2. /\ current_recursion_depth = Cardinality(Calls) /\ Len(scopes) = 1 + Cardinality(Calls)
          /\ current_recursion_depth \in Nat
      BY DEF OwnInv, CallsInv, CallsBalance
    <3> QED
      BY <3>1, <3>2
  <2>2. c.depth \in 0..MAX_RECURSION_DEPTH
    BY DEF Contexts
  <2> QED
    BY <1>7, <1>8, <2>1, <2>2, MaxDepthAssumption DEF CanEnter
<1>12. y = IF ~ CanEnter(Top.func, Top.done) THEN Null
           ELSE Shown(m.body[Top.func.body][Inside(c, Top.func.params, vals)])
  <2>1. {k \in DOMAIN vals : vals[k] \notin Passed} = {}
    BY <1>10
  <2> HIDE DEF m
  <2> QED
    BY <1>9, <1>11, <2>1 DEF ApplicationMeans
<1>13. CASE ~ CanEnter(Top.func, Top.done)
  <2>1. y = Null /\ Return(Null) /\ scopes' = scopes
    BY <1>1, <1>12, <1>13
  <2> QED
    BY <1>5, <2>1, MeansReturn
<1>14. CASE CanEnter(Top.func, Top.done)
  <2> DEFINE i == Inside(c, Top.func.params, vals)
  <2>1. i \in Contexts
    BY <1>8, <1>10, <1>11, <1>14, InsideFits
  <2>2. PushedOn(scopes, table, scopes') /\ IsSeq(scopes)
    <3>1. IsSeq(scopes)
      BY DEF OwnInv, CallsInv, IsSeq
    <3> QED
      BY <1>1, <1>14, <3>1, AppendPushes
  <2>3. Knows(program, i, scopes')
    <3>1. DOMAIN Top.done \subseteq DOMAIN Top.func.params
      <4>1. Len(Top.func.params) \in Nat /\ DOMAIN Top.func.params = 1..Len(Top.func.params)
        BY <1>9, ProgramsAssumption DEF Functions
      <4> QED
        BY <1>7, <1>8, <1>11, <1>14, <4>1
    <3>2. /\ DOMAIN vals = DOMAIN Top.done
          /\ \A k \in DOMAIN Top.done :
               Top.done[k].value \in Passed /\ Top.done[k].value = vals[k]
      BY <1>7, <1>8, <1>9
    <3>3. PushedOn(scopes, ParameterTable(Top.func.params, Top.done), scopes')
      BY <2>2 DEF table
    <3> DEFINE fn == Top.func
               done == Top.done
    <3>4. /\ fn \in Functions /\ IsSeq(done) /\ DOMAIN done \subseteq DOMAIN fn.params
          /\ DOMAIN vals = DOMAIN done
          /\ \A k \in DOMAIN done : done[k].value \in Passed /\ done[k].value = vals[k]
          /\ PushedOn(scopes, ParameterTable(fn.params, done), scopes')
      BY <1>6, <1>9, <3>1, <3>2, <3>3
    <3>5. Knows(program, c, scopes)
      BY <1>5
    <3> HIDE DEF fn, done
    <3>6. Knows(program, Inside(c, fn.params, vals), scopes')
      BY <3>4, <3>5, KnowsInside
    <3> QED
      BY <3>6 DEF fn
  <2> DEFINE v == Given(y, scopes)
             w == Given(y, scopes')
  <2>4. HandsOn(program, f, v, v)
    <3>1. f.at = "call"
      BY DEF f
    <3>2. f.at \in {"call", "body"} /\ f.at # "body"
      BY <3>1
    <3> QED
      BY <1>5, <3>2 DEF HandsOn, Given
  <2>5. HandsOn(program, g, v, w)
    <3>1. g.at = "body"
      BY DEF g
    <3>2. Front(scopes') = scopes
      BY <2>2, FrontOfPushed
    <3>3. g.at \in {"call", "body"}
      BY <3>1
    <3> QED
      BY <1>5, <3>1, <3>2, <3>3 DEF HandsOn, Given
  <2>6. HandsOn(program, h, w, Given(Pending, scopes'))
    <3>1. h.at = "block" /\ h.rest = Top.func.body
      BY DEF h
    <3>2. y = Shown(m.body[h.rest][i])
      BY <1>12, <1>14, <3>1
    <3>3. Awaits(m, i, h, y, Pending)
      <4> HIDE DEF i, m
      <4> QED
        BY <3>1, <3>2 DEF Awaits
    <3>4. h.at \notin {"call", "body"}
      BY <3>1
    <3> HIDE DEF i
    <3> QED
      BY <1>5, <2>1, <2>3, <3>3, <3>4, FrameHandsOn
  <2>7. stack' = Rest \o <<f, g, h>> /\ result' = Pending
    BY <1>1, <1>14
  <2>8. Leads(program, Rest, b, v)
    BY <1>5
  <2> HIDE DEF v, w, i
  <2> QED
    BY <1>1, <2>4, <2>5, <2>6, <2>7, <2>8, MeansFrames
<1> QED
  BY <1>13, <1>14

\* The statements of a block.
LEMMA MeansBlock ==
  ASSUME OwnInv, Block, NEW b, Leads(program, stack, b, Given(result, scopes))
  PROVE  Leads(program, stack', b, Given(result', scopes'))
<1> DEFINE s == Head(Top.rest)
           rest == Tail(Top.rest)
           f == [at |-> "cond", stmt |-> s, rest |-> rest]
           g == [Top EXCEPT !.rest = Tail(@)]
<1>1. /\ Running /\ Top.at = "block" /\ result = Pending /\ scopes' = scopes
      /\ Top.rest = << >> => Return(Null)
      /\ Top.rest # << >> /\ s.kind = "return" => Continue(Eval(s.expr))
      /\ Top.rest # << >> /\ s.kind = "if" => CallThen(s.cond, f)
      /\ Top.rest # << >> /\ s.kind \notin {"return", "if"} => Continue(g)
  BY DEF Block, At, Called, NoCalls
<1>2. PICK n \in 0..MaxRules : \E c \in Contexts : \E y : Promised(b, n, c, y, result)
  BY <1>1, TopPromises
<1>3. PICK c \in Contexts : \E y : Promised(b, n, c, y, result)
  BY <1>2
<1>4. PICK y : Promised(b, n, c, y, result)
  BY <1>3
<1>5. /\ y # Unknown /\ Leads(program, Rest, b, Given(y, scopes))
      /\ Knows(program, c, scopes) /\ Awaits(Rules(program)[n], c, Top, y, result)
  BY <1>4 DEF Promised
<1>6. Top.rest \in Seq(Statements) /\ "rest" \in DOMAIN Top
  BY <1>1, OwnPopped DEF Formed
<1> DEFINE body == Rules(program)[n].body[Top.rest][c]
           m == Rules(program)[n - 1]
<1>7. y = Shown(body)
  BY <1>1, <1>5 DEF Awaits
<1>8. body # Unknown
  <2> HIDE DEF body
  <2> QED
    BY <1>5, <1>7, SpecialValues DEF Shown
<1>9. n - 1 \in 0..MaxRules /\ body = BodyMeans(m, Top.rest, c)
  BY <1>6, <1>8, BodyKnown
<1> HIDE DEF body, m
<1>10. CASE Top.rest = << >>
  <2>1. y = Null
    BY <1>7, <1>9, <1>10 DEF BodyMeans, Shown
  <2> QED
    BY <1>1, <1>5, <1>10, <2>1, MeansReturn
<1>11. CASE Top.rest # << >>
  <2>1. s \in Statements /\ rest \in Seq(Statements)
    BY <1>6, <1>11
  <2>2. CASE s.kind = "return"
    <3>1. body = m.expr[s.expr][c] /\ s.expr \in Nodes
      BY <1>9, <1>11, <2>1, <2>2, StatementsAssumption DEF BodyMeans
    <3>2. m.expr[s.expr][c] # NoReturn
      BY <1>9, <3>1, RulesAreSound DEF m, Sound, OwnInv
    <3>3. y = Rules(program)[n - 1].expr[s.expr][c]
      BY <1>7, <3>1, <3>2 DEF Shown, m
    <3> DEFINE e == s.expr
    <3>4. y = Rules(program)[n - 1].expr[e][c] /\ e \in Nodes /\ Continue(Eval(e))
      BY <1>1, <1>11, <2>2, <3>1, <3>3
    <3> HIDE DEF e, s
    <3>5. HandsOn(program, Eval(e), Given(y, scopes), Given(Pending, scopes))
      BY <1>5, <1>9, <3>4, EvalHandsOn
    <3> QED
      BY <1>1, <1>5, <3>4, <3>5, MeansContinue
  <2>3. CASE s.kind = "if"
    <3> DEFINE e == s.cond
               x == m.expr[e][c]
    <3>1. body = IfMeans(m, x, s, rest, c) /\ e \in Nodes
      BY <1>9, <1>11, <2>1, <2>3, StatementsAssumption DEF BodyMeans
    <3>2. x = Rules(program)[n - 1].expr[e][c] /\ CallThen(e, f)
      BY <1>1, <1>11, <2>3 DEF m
    <3>3. f.at = "cond" /\ f.stmt = s /\ f.rest = rest /\ f.at \notin {"call", "body"}
      OBVIOUS
    <3> HIDE DEF f, x, e, s, rest
    <3>4. x # Unknown
      BY <1>8, <3>1 DEF IfMeans
    <3>5. Awaits(m, c, f, y, x)
      BY <1>7, <3>1, <3>3 DEF Awaits
    <3>6. Awaits(Rules(program)[n - 1], c, f, y, x)
      BY <3>5 DEF m
    <3> DEFINE k == n - 1
    <3>7. /\ k \in 0..MaxRules /\ Awaits(Rules(program)[k], c, f, y, x)
          /\ x = Rules(program)[k].expr[e][c]
      BY <1>9, <3>2, <3>6
    <3> HIDE DEF k
    <3> QED
      BY <1>1, <1>5, <3>1, <3>2, <3>3, <3>4, <3>7, MeansCall
  <2>4. CASE s.kind \notin {"return", "if"}
    <3>1. body = m.body[rest][c]
      BY <1>9, <1>11, <2>4 DEF BodyMeans
    <3>2. g.at = "block" /\ g.rest = rest
      BY <1>1, <1>6
    <3>3. Continue(g)
      BY <1>1, <1>11, <2>4
    <3> HIDE DEF g, rest
    <3>4. Awaits(m, c, g, y, Pending)
      BY <1>7, <3>1, <3>2 DEF Awaits
    <3>5. g.at \notin {"call", "body"}
      BY <3>2
    <3>6. HandsOn(program, g, Given(y, scopes), Given(Pending, scopes))
      <4> DEFINE k == n - 1
      <4>1. k \in 0..MaxRules /\ Awaits(Rules(program)[k], c, g, y, Pending)
        BY <1>9, <3>4 DEF m
      <4> HIDE DEF k
      <4> QED
        BY <1>5, <3>5, <4>1, FrameHandsOn
    <3> QED
      BY <1>1, <1>5, <3>3, <3>6, MeansContinue
  <2> QED
    BY <2>2, <2>3, <2>4
<1> QED
  BY <1>10, <1>11

LEMMA MeansCondition ==
  ASSUME OwnInv, Condition, NEW b, Leads(program, stack, b, Given(result, scopes))
  PROVE  Leads(program, stack', b, Given(result', scopes'))
<1> DEFINE f == [at |-> "block", rest |-> Top.rest]
           stmts == IF result.n = 1 THEN Top.stmt.then ELSE Top.stmt.else
           g == [at |-> "block", rest |-> stmts]
<1>1. /\ Running /\ Top.at = "cond" /\ scopes' = scopes
      /\ result.kind # "bool" => Return(Null)
      /\ result.kind = "bool" => result' = Pending /\ stack' = Rest \o <<f, g>>
  BY DEF Condition, At, NoCalls, AfterIf
<1>2. PICK n \in 0..MaxRules : \E c \in Contexts : \E y : Promised(b, n, c, y, result)
  BY <1>1, TopPromises
<1>3. PICK c \in Contexts : \E y : Promised(b, n, c, y, result)
  BY <1>2
<1>4. PICK y : Promised(b, n, c, y, result)
  BY <1>3
<1>5. /\ y # Unknown /\ Leads(program, Rest, b, Given(y, scopes))
      /\ Knows(program, c, scopes) /\ Awaits(Rules(program)[n], c, Top, y, result)
  BY <1>4 DEF Promised
<1> DEFINE m == Rules(program)[n]
           x == m.body[stmts][c]
           z == Shown(x)
<1>6. y = Shown(IfMeans(m, result, Top.stmt, Top.rest, c))
  BY <1>1, <1>5 DEF Awaits
<1>7. /\ stmts \in Seq(Statements) /\ Top.rest \in Seq(Statements)
  <2>1. /\ Top.rest \in Seq(Statements) /\ Top.stmt \in Statements /\ Top.stmt.kind = "if"
    BY <1>1, OwnPopped DEF Formed
  <2> QED
    BY <2>1, StatementsAssumption
<1>8. CASE result.kind # "bool"
  <2> HIDE DEF m
  <2>1. IfMeans(m, result, Top.stmt, Top.rest, c) \in {Unknown, Null}
    BY <1>8 DEF IfMeans
  <2>2. Shown(Unknown) = Unknown /\ Shown(Null) = Null
    BY SpecialValues DEF Shown
  <2>3. y = Null
    BY <1>5, <1>6, <2>1, <2>2
  <2> QED
    BY <1>1, <1>5, <1>8, <2>3, MeansReturn
<1>9. CASE result.kind = "bool"
  <2>1. result # Unknown
    <3>1. Unknown.kind = "open"
      BY DEF Unknown, Value
    <3> QED
      BY <1>9, <3>1
  <2>2. IfMeans(m, result, Top.stmt, Top.rest, c) =
          IF x = NoReturn THEN m.body[Top.rest][c]
          ELSE IF x = Null /\ Top.rest # << >> THEN Unknown ELSE x
    BY <1>9, <2>1 DEF IfMeans
  <2> DEFINE after == m.body[Top.rest][c]
  <2>3. x # Pending /\ after # Pending
    <3>1. Sound(m)
      BY RulesAreSound DEF OwnInv
    <3> HIDE DEF m, stmts
    <3> QED
      BY <1>7, <3>1 DEF Sound
  <2>4. x # Unknown
    <3> HIDE DEF x
    <3> QED
      BY <1>5, <1>6, <2>2, SpecialValues DEF Shown
  <2>5. Top.rest = << >> => Shown(after) = Null
    <3> SUFFICES ASSUME Top.rest = << >> PROVE Shown(after) = Null
      OBVIOUS
    <3>1. n # 0
      <4>1. NoRules.body[stmts][c] = Unknown
        BY <1>7 DEF NoRules
      <4> HIDE DEF stmts
      <4> QED
        BY <2>4, <4>1, RulesAre
    <3>2. n \in 1..MaxRules
      BY <3>1, MaxRulesAssumption
    <3>3. m = Applied(program, Rules(program)[n - 1])
      BY <3>2, RulesAre
    <3>4. \A k : Applied(program, k).body[Top.rest][c] = BodyMeans(k, Top.rest, c)
      BY <1>7 DEF Applied
    <3>5. after = NoReturn
      BY <3>3, <3>4 DEF BodyMeans
    <3> QED
      BY <3>5 DEF Shown
  <2> HIDE DEF x, after
  <2>6. y = IF z \in {Pending, Null} THEN Shown(after) ELSE z
    <3>1. CASE x = NoReturn
      BY <1>6, <2>2, <3>1 DEF Shown, after
    <3>2. CASE x = Null
      BY <1>5, <1>6, <2>2, <2>5, <3>2, SpecialValues DEF Shown
    <3>3. CASE x \notin {NoReturn, Null}
      BY <1>6, <2>2, <2>3, <3>3 DEF Shown
    <3> QED
      BY <3>1, <3>2, <3>3
  <2>7. z # Unknown
    BY <2>4, SpecialValues DEF Shown
  <2>8. /\ f.at = "block" /\ f.rest = Top.rest /\ f.at \notin {"call", "body"}
        /\ g.at = "block" /\ g.rest = stmts /\ g.at \notin {"call", "body"}
    OBVIOUS
  <2>9. stack' = Rest \o <<f, g>> /\ result' = Pending
    BY <1>1, <1>9
  <2>10. z = Shown(m.body[g.rest][c])
    BY <2>8 DEF x
  <2> HIDE DEF f, g, z
  <2>11. Awaits(m, c, f, y, z)
    BY <2>6, <2>8 DEF Awaits, after
  <2>12. Awaits(m, c, g, z, Pending)
    BY <2>8, <2>10 DEF Awaits
  <2>13. HandsOn(program, f, Given(y, scopes), Given(z, scopes))
    BY <1>5, <2>8, <2>11, FrameHandsOn
  <2>14. HandsOn(program, g, Given(z, scopes), Given(Pending, scopes))
    BY <1>5, <2>7, <2>8, <2>12, FrameHandsOn
  <2> QED
    BY <1>1, <1>5, <2>9, <2>13, <2>14, MeansTwo
<1> QED
  BY <1>8, <1>9

LEMMA MeansNestedDone ==
  ASSUME OwnInv, NestedDone, NEW b, Leads(program, stack, b, Given(result, scopes))
  PROVE  Leads(program, stack', b, Given(result', scopes'))
<1>1. /\ Running /\ Top.at = "block" /\ result # Pending /\ scopes' = scopes
      /\ IF result = Null THEN Continue(Top) ELSE Return(result)
  BY DEF NestedDone, At, Returned, NoCalls
<1>2. PICK n \in 0..MaxRules : \E c \in Contexts : \E y : Promised(b, n, c, y, result)
  BY <1>1, TopPromises
<1>3. PICK c \in Contexts : \E y : Promised(b, n, c, y, result)
  BY <1>2
<1>4. PICK y : Promised(b, n, c, y, result)
  BY <1>3
<1>5. /\ y # Unknown /\ Leads(program, Rest, b, Given(y, scopes))
      /\ Knows(program, c, scopes) /\ Awaits(Rules(program)[n], c, Top, y, result)
  BY <1>4 DEF Promised
<1>6. CASE result = Null
  <2>1. y = Shown(Rules(program)[n].body[Top.rest][c])
    BY <1>1, <1>5, <1>6 DEF Awaits
  <2>2. Awaits(Rules(program)[n], c, Top, y, Pending)
    BY <1>1, <2>1 DEF Awaits
  <2>3. Top.at \notin {"call", "body"}
    BY <1>1
  <2>4. HandsOn(program, Top, Given(y, scopes), Given(Pending, scopes))
    BY <1>5, <2>2, <2>3, FrameHandsOn
  <2> QED
    BY <1>1, <1>5, <1>6, <2>4, MeansContinue
<1>7. CASE result # Null
  <2>1. y = result
    BY <1>1, <1>5, <1>7 DEF Awaits
  <2> QED
    BY <1>1, <1>5, <1>7, <2>1, MeansReturn
<1> QED
  BY <1>6, <1>7

-----------------------------------------------------------------------------
(***************************************************************************)
(* The stack leads from what is returned to what the expression means.     *)
(***************************************************************************)
MeaningOf(p, e) == Given(Meaning(p, e), <<p.globals>>)

MeaningInv ==
  /\ OwnInv
  /\ expression # NoExpression => expression \in program.exprs
  /\ expression # NoExpression /\ Meaning(program, expression) # Unknown =>
       Leads(program, stack, MeaningOf(program, expression), Given(result, scopes))

LEMMA MeansEvaluate ==
  ASSUME OwnInv, Evaluate, Meaning(program, expression') # Unknown
  PROVE  Leads(program, stack', MeaningOf(program, expression'), Given(result', scopes'))
<1> DEFINE e == expression'
           y == Meaning(program, e)
           b == Given(y, scopes)
<1>1. /\ stack = << >> /\ e \in program.exprs /\ stack' = <<Eval(e)>>
      /\ result' = Pending /\ scopes' = scopes
  BY DEF Evaluate, Running
<1>2. e \in Nodes
  BY <1>1, ProgramsAssumption DEF OwnInv
<1>3. scopes = <<program.globals>>
  <2>1. Calls = {}
    BY <1>1 DEF Calls
  <2>2. Len(scopes) = 1
    BY <2>1, FS_EmptySet DEF OwnInv, CallsInv, CallsBalance
  <2>3. scopes[1] = program.globals
    BY DEF OwnInv
  <2>4. PICK S : scopes \in Seq(S)
    BY DEF OwnInv, CallsInv
  <2> QED
    BY <2>2, <2>3, <2>4
<1>4. Knows(program, Outside, scopes) /\ Outside \in Contexts
  BY <1>3, KnowsOutside, OutsideFits
<1>5. y = Rules(program)[MaxRules].expr[e][Outside] /\ MaxRules \in 0..MaxRules
  BY MaxRulesAssumption DEF Meaning
<1>6. y # Unknown
  OBVIOUS
<1> HIDE DEF e, y
<1>7. HandsOn(program, Eval(e), Given(y, scopes), Given(Pending, scopes))
  BY <1>2, <1>4, <1>5, <1>6, EvalHandsOn
<1>8. PushedOn(<< >>, Eval(e), stack')
  <2>1. stack' = Append(<< >>, Eval(e)) /\ IsSeq(<< >>)
    <3>1. << >> \in Seq({})
      OBVIOUS
    <3> QED
      BY <1>1, <3>1 DEF IsSeq
  <2> QED
    BY <2>1, AppendPushes
<1>9. Leads(program, << >>, b, b)
  BY LeadsEmpty
<1>10. Leads(program, stack', b, Given(Pending, scopes))
  BY <1>7, <1>8, <1>9, LeadsPush
<1>11. b = MeaningOf(program, e)
  BY <1>3 DEF MeaningOf, y
<1> QED
  BY <1>1, <1>10, <1>11 DEF e

LEMMA StepLeads ==
  ASSUME OwnInv, Step, NEW b, Leads(program, stack, b, Given(result, scopes))
  PROVE  Leads(program, stack', b, Given(result', scopes'))
BY MeansLiteral, MeansIdentifier, MeansBinary, MeansLeft, MeansRight, MeansUnary, MeansOperand,
   MeansCallBegins, MeansArgument, MeansArgumentDone, MeansEnter, MeansBlock, MeansCondition,
   MeansNestedDone, MeansBodyEnds, MeansCallEnds
   DEF Step

LEMMA StepKeeps ==
  ASSUME Step PROVE program' = program /\ expression' = expression
<1> USE DEF NoCalls
<1>1. CASE LiteralStep
  BY <1>1 DEF LiteralStep
<1>2. CASE Identifier
  BY <1>2 DEF Identifier
<1>3. CASE Binary
  BY <1>3 DEF Binary
<1>4. CASE Left
  BY <1>4 DEF Left
<1>5. CASE Right
  BY <1>5 DEF Right
<1>6. CASE Unary
  BY <1>6 DEF Unary
<1>7. CASE Operand
  BY <1>7 DEF Operand
<1>8. CASE Call
  BY <1>8 DEF Call
<1>9. CASE Argument
  BY <1>9 DEF Argument
<1>10. CASE ArgumentDone
  BY <1>10 DEF ArgumentDone
<1>11. CASE Enter
  BY <1>11 DEF Enter
<1>12. CASE Block
  BY <1>12 DEF Block
<1>13. CASE Condition
  BY <1>13 DEF Condition
<1>14. CASE NestedDone
  BY <1>14 DEF NestedDone
<1>15. CASE LeaveBody
  BY <1>15 DEF LeaveBody
<1>16. CASE CallDone
  BY <1>16 DEF CallDone
<1> QED
  BY <1>1, <1>2, <1>3, <1>4, <1>5, <1>6, <1>7, <1>8, <1>9, <1>10, <1>11, <1>12, <1>13, <1>14,
     <1>15, <1>16 DEF Step

(***************************************************************************)
(* The evaluator finds the value that an expression means: for any         *)
(* programs, any limit of the recursion and any sequence of evaluations,   *)
(* whatever the ones before left when they failed.                         *)
(***************************************************************************)
THEOREM ResultsAreMeant == Spec => []ResultIsMeaning
<1>1. Init => MeaningInv
  BY InitOwns DEF Init, MeaningInv
<1>2. MeaningInv /\ [Next]_vars => MeaningInv'
  <2> SUFFICES ASSUME MeaningInv, [Next]_vars PROVE MeaningInv'
    OBVIOUS
  <2>1. OwnInv /\ OwnInv'
    BY NextOwns DEF MeaningInv
  <2>2. CASE Evaluate
    <3>1. program' = program /\ expression' \in program'.exprs
      BY <2>2 DEF Evaluate
    <3>2. Meaning(program, expression') # Unknown =>
            Leads(program, stack', MeaningOf(program, expression'), Given(result', scopes'))
      BY <2>1, <2>2, MeansEvaluate
    <3>3. /\ Meaning(program, expression)' = Meaning(program, expression')
          /\ MeaningOf(program, expression)' = MeaningOf(program, expression')
          /\ Leads(program, stack, MeaningOf(program, expression), Given(result, scopes))'
               = Leads(program, stack', MeaningOf(program, expression'), Given(result', scopes'))
      BY <3>1
    <3> QED
      BY <2>1, <3>1, <3>2, <3>3 DEF MeaningInv
  <2>3. CASE Step
    <3>1. program' = program /\ expression' = expression
      BY <2>3, StepKeeps
    <3> DEFINE b == MeaningOf(program, expression)
    <3>2. Leads(program, stack, b, Given(result, scopes)) =>
            Leads(program, stack', b, Given(result', scopes'))
      BY <2>1, <2>3, StepLeads
    <3> QED
      BY <2>1, <3>1, <3>2 DEF MeaningInv
  <2>4. CASE UNCHANGED vars
    BY <2>1, <2>4 DEF MeaningInv, vars
  <2> QED
    BY <2>2, <2>3, <2>4 DEF Next
<1>3. MeaningInv => ResultIsMeaning
  <2> SUFFICES ASSUME MeaningInv, ~ Running, expression # NoExpression
               PROVE  \/ result = Meaning(program, expression)
                      \/ Meaning(program, expression) = Unknown /\ program \notin PlainPrograms
    BY DEF ResultIsMeaning
  <2>1. expression \in program.exprs /\ stack = << >>
    BY DEF MeaningInv, Running
  <2> DEFINE y == Meaning(program, expression)
  <2>2. CASE y = Unknown
    BY <2>1, <2>2, PlainAssumption
  <2>3. CASE y # Unknown
    <3>1. MeaningOf(program, expression) = Given(result, scopes)
      BY <2>1, <2>3, LeadsEmpty DEF MeaningInv
    <3> HIDE DEF y
    <3>2. MeaningOf(program, expression).value = y /\ Given(result, scopes).value = result
      BY DEF MeaningOf, Given, y
    <3> QED
      BY <3>1, <3>2 DEF y
  <2> QED
    BY <2>2, <2>3
<1> QED
  BY <1>1, <1>2, <1>3, PTL DEF Spec
=============================================================================
