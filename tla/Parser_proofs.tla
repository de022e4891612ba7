---------------------------- MODULE Parser_proofs ---------------------------
(***************************************************************************)
(* What the parser does with memory and errors, for any tokens that end    *)
(* with the end of the file and any calls over them.                       *)
(*                                                                         *)
(* Every function of the descent keeps one contract with its caller,       *)
(* Gives: its node, of which it says the size, is all that it leaves in    *)
(* memory, it has read something if it returns a node, and it has reported *)
(* an error if it returns none. The contract follows for a level from the  *)
(* one below it, for a loop by induction over its rounds, and for the      *)
(* functions that call themselves by induction over the depth of the       *)
(* nesting: each nested call begins at least one token later (FitsFrom),   *)
(* so that a descent as deep as there are tokens is never left at its      *)
(* bottom. What a loop over statements or parameters has gathered is in    *)
(* memory until it is made part of a node or freed (Lists). The induction  *)
(* over the numbers is in terms of sets, with the minimum of a well-       *)
(* founded relation.                                                       *)
(***************************************************************************)
EXTENDS Parser, SequenceTheorems, WellFoundedInduction, TLAPS

-----------------------------------------------------------------------------
(* Induction over the natural numbers, for sets. *)

LessThan == {p \in Nat \X Nat : p[1] < p[2]}

\* The order of the numbers, as the library's theorems take it.
LEMMA LessThanIsWellFounded == IsWellFoundedOn(LessThan, Nat)
BY NatLessThanWellFounded, Zenon DEF OpToRel, LessThan

\* A set that holds 0 and with each number the next one holds them all.
LEMMA InductionInASet ==
  ASSUME NEW T, 0 \in T, \A n \in Nat : n \in T => n + 1 \in T
  PROVE  Nat \subseteq T
<1> DEFINE M == Nat \ T
<1>1. SUFFICES ASSUME M # {} PROVE FALSE
  OBVIOUS
<1>2. M \subseteq Nat
  OBVIOUS
<1>3. PICK x \in M : \A y \in M : ~(<<y, x>> \in LessThan)
  <2> HIDE DEF M
  <2> QED
    BY <1>1, <1>2, LessThanIsWellFounded, WFMin, Zenon
<1>4. x \in Nat /\ x # 0
  OBVIOUS
<1>5. x - 1 \in Nat /\ x - 1 < x /\ x - 1 + 1 = x
  BY <1>4
<1>6. x - 1 \notin M
  BY <1>3, <1>4, <1>5 DEF LessThan
<1> QED
  BY <1>4, <1>5, <1>6

-----------------------------------------------------------------------------
(* Sizes *)

\* sum adds up the sizes as SizeOf does, as far as n.
SumUpto(nodes, n, sum) ==
  sum = [k \in 0 .. n |-> IF k = 0 THEN 0 ELSE sum[k - 1] + nodes[k].size]

\* There is such a function for every n, so that SizeOf is not an empty CHOOSE.
LEMMA SumExists ==
  ASSUME NEW nodes, NEW n \in Nat
  PROVE  \E sum : SumUpto(nodes, n, sum)
<1> DEFINE T == {m \in Nat : \E sum : SumUpto(nodes, m, sum)}
<1>1. 0 \in T
  <2>1. SumUpto(nodes, 0, [k \in 0 .. 0 |-> 0])
    BY DEF SumUpto
  <2> QED
    BY <2>1
<1>2. ASSUME NEW m \in Nat, m \in T PROVE m + 1 \in T
  <2>1. PICK sum : SumUpto(nodes, m, sum)
    BY <1>2
  <2>2. SumUpto(nodes, m + 1, [k \in 0 .. m + 1 |->
                    IF k = m + 1 THEN sum[m] + nodes[m + 1].size ELSE sum[k]])
    BY <2>1 DEF SumUpto
  <2>3. \E f : SumUpto(nodes, m + 1, f)
    BY <2>2
  <2> QED
    BY <2>3
<1> HIDE DEF T
<1>3. n \in T
  BY <1>1, <1>2, InductionInASet
<1> QED
  BY <1>3 DEF T

LEMMA SumIsSizeOf ==
  ASSUME NEW nodes, Len(nodes) \in Nat
  PROVE  \E sum : SumUpto(nodes, Len(nodes), sum) /\ SizeOf(nodes) = sum[Len(nodes)]
<1>1. SumUpto(nodes, Len(nodes), CHOOSE sum : SumUpto(nodes, Len(nodes), sum))
  BY SumExists
<1> QED
  BY <1>1 DEF SumUpto, SizeOf

\* A sequence of nodes each of which knows its size.
Sized(nodes) ==
  nodes \in Seq(Range(nodes)) /\ \A i \in DOMAIN nodes : nodes[i].size \in Nat

\* An empty list frees nothing, and one more node adds its own size.
LEMMA SizeOfNone == Sized(<<>>) /\ SizeOf(<<>>) = 0
<1>1. Len(<<>>) = 0 /\ <<>> \in Seq(Range(<<>>)) /\ DOMAIN <<>> = {}
  OBVIOUS
<1> QED
  BY <1>1, SumIsSizeOf DEF SumUpto, Sized

\* The elements of a sequence with one more at its end.
LEMMA AppendIsSized ==
  ASSUME NEW nodes, Sized(nodes), NEW node, node.size \in Nat
  PROVE  /\ Sized(Append(nodes, node))
         /\ Len(nodes) \in Nat /\ DOMAIN nodes = 1 .. Len(nodes)
         /\ Len(Append(nodes, node)) = Len(nodes) + 1
         /\ \A i \in 1 .. Len(nodes) : Append(nodes, node)[i] = nodes[i]
         /\ Append(nodes, node)[Len(nodes) + 1] = node
<1> DEFINE more == Append(nodes, node)
           S    == Range(nodes) \cup {node}
<1>1. nodes \in Seq(S) /\ node \in S
  BY DEF Sized
<1>2. /\ more \in Seq(S) /\ Len(nodes) \in Nat /\ DOMAIN nodes = 1 .. Len(nodes)
      /\ Len(more) = Len(nodes) + 1
      /\ \A i \in 1 .. Len(nodes) : more[i] = nodes[i]
      /\ more[Len(nodes) + 1] = node
  BY <1>1, AppendProperties
<1>3. DOMAIN more = 1 .. Len(nodes) + 1
  BY <1>2
<1> HIDE DEF more, S
<1>4. more \in Seq(Range(more))
  <2>1. \A i \in 1 .. Len(more) : more[i] \in Range(more)
    BY <1>2, <1>3 DEF Range
  <2>2. more = [i \in 1 .. Len(more) |-> more[i]]
    BY <1>2
  <2>3. Len(more) \in Nat
    BY <1>2
  <2> QED
    BY <2>1, <2>2, <2>3
<1>5. \A i \in DOMAIN more : more[i].size \in Nat
  BY <1>2, <1>3 DEF Sized
<1> QED
  BY <1>2, <1>4, <1>5 DEF more, Sized

LEMMA SizeOfAppend ==
  ASSUME NEW nodes, Sized(nodes), NEW node, node.size \in Nat
  PROVE  SizeOf(Append(nodes, node)) = SizeOf(nodes) + node.size
<1> DEFINE more == Append(nodes, node)
           n    == Len(nodes)
<1>1. /\ n \in Nat /\ Len(more) = n + 1
      /\ \A i \in 1 .. n : more[i] = nodes[i]
      /\ more[n + 1] = node
  BY AppendIsSized
<1> HIDE DEF more, n
<1>2. PICK sum : SumUpto(nodes, n, sum) /\ SizeOf(nodes) = sum[n]
  BY <1>1, SumIsSizeOf DEF n
<1>3. PICK next : SumUpto(more, n + 1, next) /\ SizeOf(more) = next[n + 1]
  BY <1>1, SumIsSizeOf
<1> DEFINE T == {k \in Nat : k <= n => next[k] = sum[k]}
<1>4. 0 \in T
  BY <1>1, <1>2, <1>3 DEF SumUpto
<1>5. ASSUME NEW k \in Nat, k \in T PROVE k + 1 \in T
  <2>1. SUFFICES ASSUME k + 1 <= n PROVE next[k + 1] = sum[k + 1]
    OBVIOUS
  <2>2. next[k] = sum[k] /\ more[k + 1] = nodes[k + 1]
    BY <1>1, <1>5, <2>1
  <2>3. next[k + 1] = next[k] + more[k + 1].size
    BY <1>1, <1>3, <2>1 DEF SumUpto
  <2>4. sum[k + 1] = sum[k] + nodes[k + 1].size
    BY <1>1, <1>2, <2>1 DEF SumUpto
  <2> QED
    BY <2>2, <2>3, <2>4
<1> HIDE DEF T
<1>6. n \in T
  BY <1>1, <1>4, <1>5, InductionInASet
<1>7. next[n] = sum[n]
  BY <1>1, <1>6 DEF T
<1>8. next[n + 1] = next[n] + more[n + 1].size
  BY <1>1, <1>3 DEF SumUpto
<1> QED
  BY <1>1, <1>2, <1>3, <1>7, <1>8 DEF more

\* A list frees a number of nodes, and a list of one node frees that node.
LEMMA SizeOfIsNat ==
  ASSUME NEW nodes, Sized(nodes)
  PROVE  SizeOf(nodes) \in Nat
<1>1. Len(nodes) \in Nat /\ \A i \in 1 .. Len(nodes) : nodes[i].size \in Nat
  BY DEF Sized
<1>2. PICK sum : SumUpto(nodes, Len(nodes), sum) /\ SizeOf(nodes) = sum[Len(nodes)]
  BY <1>1, SumIsSizeOf
<1> DEFINE T == {k \in Nat : k <= Len(nodes) => sum[k] \in Nat}
<1>3. 0 \in T
  BY <1>1, <1>2 DEF SumUpto
<1>4. ASSUME NEW k \in Nat, k \in T PROVE k + 1 \in T
  <2>1. SUFFICES ASSUME k + 1 <= Len(nodes) PROVE sum[k + 1] \in Nat
    OBVIOUS
  <2>2. sum[k + 1] = sum[k] + nodes[k + 1].size
    BY <1>1, <1>2, <2>1 DEF SumUpto
  <2> QED
    BY <1>1, <1>4, <2>1, <2>2
<1> HIDE DEF T
<1>5. Len(nodes) \in T
  BY <1>1, <1>3, <1>4, InductionInASet
<1> QED
  BY <1>1, <1>2, <1>5 DEF T

LEMMA SizeOfOne ==
  ASSUME NEW node, node.size \in Nat
  PROVE  SizeOf(<<node>>) = node.size
<1>1. <<node>> = Append(<<>>, node)
  OBVIOUS
<1>2. SizeOf(Append(<<>>, node)) = SizeOf(<<>>) + node.size
  <2>1. ASSUME NEW none, Sized(none)
        PROVE  SizeOf(Append(none, node)) = SizeOf(none) + node.size
    BY <2>1, SizeOfAppend
  <2> QED
    BY <2>1, SizeOfNone, Zenon
<1>3. SizeOf(<<node>>) = 0 + node.size
  BY <1>1, <1>2, SizeOfNone, Zenon
<1> QED
  BY <1>3

-----------------------------------------------------------------------------
(* The state of the parser is a record; its fields one at a time. *)

\* A state with these fields, and what an EXCEPT makes of a state.
Fields(current_, had_error_, live_, ok_, node_) ==
  [current |-> current_, had_error |-> had_error_, live |-> live_, ok |-> ok_, node |-> node_]

IsState(r) == r = Fields(r.current, r.had_error, r.live, r.ok, r.node)

LEMMA WithError ==
  ASSUME NEW r, IsState(r), NEW e
  PROVE  [r EXCEPT !.had_error = e] = Fields(r.current, e, r.live, r.ok, r.node)
<1>1. r = [current |-> r.current, had_error |-> r.had_error, live |-> r.live,
           ok |-> r.ok, node |-> r.node]
  BY DEF IsState, Fields
<1>2. [r EXCEPT !.had_error = e] =
        [current |-> r.current, had_error |-> e, live |-> r.live,
         ok |-> r.ok, node |-> r.node]
  BY <1>1
<1> QED
  BY <1>2 DEF Fields

LEMMA WithLive ==
  ASSUME NEW r, IsState(r), NEW e
  PROVE  [r EXCEPT !.live = e] = Fields(r.current, r.had_error, e, r.ok, r.node)
<1>1. r = [current |-> r.current, had_error |-> r.had_error, live |-> r.live,
           ok |-> r.ok, node |-> r.node]
  BY DEF IsState, Fields
<1>2. [r EXCEPT !.live = e] =
        [current |-> r.current, had_error |-> r.had_error, live |-> e,
         ok |-> r.ok, node |-> r.node]
  BY <1>1
<1> QED
  BY <1>2 DEF Fields

LEMMA WithOk ==
  ASSUME NEW r, IsState(r), NEW e
  PROVE  [r EXCEPT !.ok = e] = Fields(r.current, r.had_error, r.live, e, r.node)
<1>1. r = [current |-> r.current, had_error |-> r.had_error, live |-> r.live,
           ok |-> r.ok, node |-> r.node]
  BY DEF IsState, Fields
<1>2. [r EXCEPT !.ok = e] =
        [current |-> r.current, had_error |-> r.had_error, live |-> r.live,
         ok |-> e, node |-> r.node]
  BY <1>1
<1> QED
  BY <1>2 DEF Fields

LEMMA WithNode ==
  ASSUME NEW r, IsState(r), NEW e
  PROVE  [r EXCEPT !.node = e] = Fields(r.current, r.had_error, r.live, r.ok, e)
<1>1. r = [current |-> r.current, had_error |-> r.had_error, live |-> r.live,
           ok |-> r.ok, node |-> r.node]
  BY DEF IsState, Fields
<1>2. [r EXCEPT !.node = e] =
        [current |-> r.current, had_error |-> r.had_error, live |-> r.live,
         ok |-> r.ok, node |-> e]
  BY <1>1
<1> QED
  BY <1>2 DEF Fields

LEMMA FieldsAreState ==
  ASSUME NEW c, NEW h, NEW l, NEW o, NEW n
  PROVE  /\ IsState(Fields(c, h, l, o, n))
         /\ Fields(c, h, l, o, n).current = c /\ Fields(c, h, l, o, n).had_error = h
         /\ Fields(c, h, l, o, n).live = l /\ Fields(c, h, l, o, n).ok = o
         /\ Fields(c, h, l, o, n).node = n
BY DEF IsState, Fields

HasFields(q, c, h, l, o, n) ==
  /\ IsState(q) /\ q.current = c /\ q.had_error = h /\ q.live = l /\ q.ok = o /\ q.node = n

LEMMA HasItsFields ==
  ASSUME NEW c, NEW h, NEW l, NEW o, NEW n
  PROVE  HasFields(Fields(c, h, l, o, n), c, h, l, o, n)
BY FieldsAreState DEF HasFields

LEMMA FailFields ==
  ASSUME NEW r, IsState(r), NEW t, NEW f
  PROVE  [r EXCEPT !.had_error = t, !.ok = f] = Fields(r.current, t, r.live, f, r.node)
<1> DEFINE q == [r EXCEPT !.had_error = t]
<1>1. q = Fields(r.current, t, r.live, r.ok, r.node)
  BY WithError
<1>2. [q EXCEPT !.ok = f] = Fields(r.current, t, r.live, f, r.node)
  <2> HIDE DEF q
  <2> QED
    BY <1>1, FieldsAreState, WithOk
<1> QED
  BY <1>2

LEMMA MakeFields ==
  ASSUME NEW r, IsState(r), NEW node
  PROVE  Make(r, node) = Fields(r.current, r.had_error, r.live + 1, r.ok, node)
<1> DEFINE q == [r EXCEPT !.node = node]
<1>1. q = Fields(r.current, r.had_error, r.live, r.ok, node)
  BY WithNode
<1>2. [q EXCEPT !.live = r.live + 1] = Fields(r.current, r.had_error, r.live + 1, r.ok, node)
  <2> HIDE DEF q
  <2> QED
    BY <1>1, FieldsAreState, WithLive
<1> QED
  BY <1>2 DEF Make

LEMMA FreeFields ==
  ASSUME NEW r, IsState(r), NEW f, NEW l
  PROVE  [r EXCEPT !.ok = f, !.live = l] = Fields(r.current, r.had_error, l, f, r.node)
<1> DEFINE q == [r EXCEPT !.ok = f]
<1>1. q = Fields(r.current, r.had_error, r.live, f, r.node)
  BY WithOk
<1>2. [q EXCEPT !.live = l] = Fields(r.current, r.had_error, l, f, r.node)
  <2> HIDE DEF q
  <2> QED
    BY <1>1, FieldsAreState, WithLive
<1> QED
  BY <1>2

-----------------------------------------------------------------------------
(* What every state of the parser keeps *)

\* The position is at or before the end of the file; a function that failed has said so.
Result(r) ==
  /\ IsState(r)
  /\ r.current \in 0 .. Len(tokens) - 1
  /\ r.had_error \in BOOLEAN /\ r.ok \in BOOLEAN /\ r.live \in Int
  /\ r.ok \/ r.had_error

\* Between r and q tokens were read and errors reported, and no node was made or freed.
ReadsOn(r, q) ==
  /\ r.current <= q.current /\ q.live = r.live
  /\ r.had_error => q.had_error
  /\ q.ok => r.ok

\* A function called in s returns r: its node is all that it leaves behind.
Gives(s, r) ==
  /\ Result(r) /\ s.current <= r.current
  /\ s.had_error => r.had_error
  /\ r.ok => s.current < r.current /\ r.node.size \in Nat
  /\ r.live = s.live + (IF r.ok THEN r.node.size ELSE 0)

\* What is not the end of the file is followed by a token.
LEMMA LastIsTheEnd ==
  ASSUME IsProgram(tokens), NEW r, Result(r), Peek(r).type # "EOF"
  PROVE  r.current + 1 \in 0 .. Len(tokens) - 1
<1>1. Len(tokens) \in Nat /\ tokens[Len(tokens)].type = "EOF"
  BY DEF IsProgram
<1>2. r.current \in 0 .. Len(tokens) - 1 /\ r.current + 1 # Len(tokens)
  BY <1>1 DEF Result, Peek
<1> QED
  BY <1>1, <1>2

\* What each primitive of the parser keeps, and how far it reads.
LEMMA AdvanceResult ==
  ASSUME IsProgram(tokens), NEW r, Result(r), Peek(r).type # "EOF"
  PROVE  /\ Result(Advance(r)) /\ ReadsOn(r, Advance(r))
         /\ Advance(r).current = r.current + 1
         /\ Advance(r).ok = r.ok /\ Advance(r).node = r.node
         /\ Advance(r).had_error = r.had_error
<1>1. r.current + 1 \in 0 .. Len(tokens) - 1
  BY LastIsTheEnd
<1>2. Advance(r) = Fields(r.current + 1, r.had_error, r.live, r.ok, r.node)
  BY DEF Result, IsState, Fields, Advance
<1> QED
  BY <1>1, <1>2, FieldsAreState DEF Result, ReadsOn

LEMMA FailResult ==
  ASSUME NEW r, Result(r)
  PROVE  /\ Result(Fail(r)) /\ ReadsOn(r, Fail(r))
         /\ ~Fail(r).ok /\ Fail(r).had_error /\ Fail(r).current = r.current
<1> DEFINE q == Fail(r)
           t == TRUE
           f == FALSE
<1>1. q = [r EXCEPT !.had_error = t, !.ok = f]
  BY DEF Fail
<1>2. t /\ ~f /\ t \in BOOLEAN /\ f \in BOOLEAN
  OBVIOUS
<1> HIDE DEF q, t, f
<1>3. q = Fields(r.current, t, r.live, f, r.node)
  BY <1>1, FailFields DEF Result
<1>4. /\ IsState(q) /\ q.current = r.current /\ q.had_error = t
      /\ q.live = r.live /\ q.ok = f
  BY <1>3, FieldsAreState
<1>5. Result(q) /\ ReadsOn(r, q) /\ ~q.ok /\ q.had_error /\ q.current = r.current
  BY <1>2, <1>4 DEF Result, ReadsOn
<1> QED
  BY <1>5 DEF q

LEMMA MakeResult ==
  ASSUME NEW r, Result(r), NEW node
  PROVE  /\ Result(Make(r, node))
         /\ Make(r, node).live = r.live + 1 /\ Make(r, node).node = node
         /\ Make(r, node).current = r.current /\ Make(r, node).ok = r.ok
         /\ Make(r, node).had_error = r.had_error
BY MakeFields, FieldsAreState DEF Result

LEMMA FreeResult ==
  ASSUME NEW r, Result(r), r.had_error, NEW nodes, SizeOf(nodes) \in Int
  PROVE  /\ Result(Free(r, nodes))
         /\ Free(r, nodes).live = r.live - SizeOf(nodes) /\ ~Free(r, nodes).ok
         /\ Free(r, nodes).current = r.current /\ Free(r, nodes).had_error
<1> DEFINE q == Free(r, nodes)
           h == r.had_error
           f == FALSE
           l == r.live - SizeOf(nodes)
<1>1. q = [r EXCEPT !.ok = f, !.live = l]
  BY DEF Free
<1>2. l \in Int /\ ~f /\ f \in BOOLEAN /\ h /\ h \in BOOLEAN
  BY DEF Result
<1>3. [r EXCEPT !.ok = f, !.live = l] = Fields(r.current, h, l, f, r.node)
  BY FreeFields DEF Result
<1> HIDE DEF q, f, l, h
<1>4. HasFields(q, r.current, h, l, f, r.node)
  BY <1>1, <1>3, HasItsFields
<1>5. Result(q) /\ q.live = l /\ ~q.ok /\ q.current = r.current /\ q.had_error
  BY <1>2, <1>4 DEF Result, HasFields
<1> QED
  BY <1>5 DEF q, l

\* match, match with a text, an optional token and an annotation read on and keep the nodes.
LEMMA MatchResult ==
  ASSUME IsProgram(tokens), NEW r, Result(r), NEW type, type # "EOF"
  PROVE  /\ Result(Match(r, type)) /\ ReadsOn(r, Match(r, type))
         /\ Match(r, type).ok => r.current < Match(r, type).current
<1>1. CASE r.ok /\ Peek(r).type = type
  <2>1. Match(r, type) = Advance(r) /\ Peek(r).type # "EOF"
    BY <1>1 DEF Match
  <2> QED
    BY <2>1, AdvanceResult DEF Result
<1>2. CASE r.ok /\ Peek(r).type # type
  BY <1>2, FailResult DEF Match
<1>3. CASE ~r.ok
  BY <1>3 DEF Match, Result, ReadsOn
<1> QED
  BY <1>1, <1>2, <1>3 DEF Result

LEMMA MatchTextResult ==
  ASSUME IsProgram(tokens), NEW r, Result(r), NEW type, type # "EOF", NEW text
  PROVE  /\ Result(MatchText(r, type, text)) /\ ReadsOn(r, MatchText(r, type, text))
         /\ MatchText(r, type, text).ok => r.current < MatchText(r, type, text).current
<1> DEFINE next == Match(r, type)
<1>1. Result(next) /\ ReadsOn(r, next) /\ (next.ok => r.current < next.current)
  BY MatchResult
<1>2. Result(Fail(next)) /\ ReadsOn(next, Fail(next)) /\ ~Fail(next).ok
  BY <1>1, FailResult
<1> HIDE DEF next
<1>3. MatchText(r, type, text) \in {next, Fail(next)}
  BY DEF MatchText, next
<1>4. ReadsOn(r, Fail(next))
  BY <1>1, <1>2 DEF ReadsOn, Result
<1> QED
  BY <1>1, <1>2, <1>3, <1>4

LEMMA OptionalResult ==
  ASSUME IsProgram(tokens), NEW r, Result(r), NEW type, type # "EOF"
  PROVE  /\ Result(Optional(r, type)) /\ ReadsOn(r, Optional(r, type))
         /\ Optional(r, type).ok = r.ok /\ Optional(r, type).node = r.node
         /\ Optional(r, type).current = r.current => Optional(r, type) = r
<1>1. CASE r.ok /\ Peek(r).type = type
  <2>1. Optional(r, type) = Advance(r) /\ Peek(r).type # "EOF"
    BY <1>1 DEF Optional
  <2> QED
    BY <2>1, AdvanceResult DEF Result
<1>2. CASE ~(r.ok /\ Peek(r).type = type)
  BY <1>2 DEF Optional, ReadsOn, Result
<1> QED
  BY <1>1, <1>2

LEMMA AnnotationResult ==
  ASSUME IsProgram(tokens), NEW r, Result(r)
  PROVE  Result(Annotation(r)) /\ ReadsOn(r, Annotation(r))
<1>1. CASE r.ok /\ Peek(r).type = "COLON"
  <2>1. Result(Advance(r)) /\ ReadsOn(r, Advance(r))
    BY <1>1, AdvanceResult
  <2>2. /\ Result(Match(Advance(r), "KEYWORD"))
        /\ ReadsOn(Advance(r), Match(Advance(r), "KEYWORD"))
    BY <2>1, MatchResult
  <2>3. Annotation(r) = Match(Advance(r), "KEYWORD")
    BY <1>1 DEF Annotation
  <2> QED
    BY <2>1, <2>2, <2>3 DEF ReadsOn, Result
<1>2. CASE ~(r.ok /\ Peek(r).type = "COLON")
  BY <1>2 DEF Annotation, ReadsOn, Result
<1> QED
  BY <1>1, <1>2

-----------------------------------------------------------------------------
(* Expressions *)

\* The function f may be called from position p on.
FitsFrom(f, p) ==
  \A s \in States : p <= s.current /\ s.current < Len(tokens) => Gives(s, f[s])

\* So may the three functions of a descent.
DescentFits(d, p) ==
  FitsFrom(d.assignment, p) /\ FitsFrom(d.unary, p) /\ FitsFrom(d.power, p)

\* What a parse function is called with is a state, and a caller makes one of its own.
LEMMA StateIsResult ==
  ASSUME NEW s \in States, s.current < Len(tokens), IsProgram(tokens)
  PROVE  Result(s) /\ s.ok /\ s.node = NoNode
<1>1. Len(tokens) \in Nat
  BY DEF IsProgram
<1>2. IsState(s)
  BY DEF IsState, States, Fields
<1>3. s.ok
  BY DEF States
<1>4. s.current \in 0 .. Len(tokens) - 1 /\ s.live \in Int /\ s.node = NoNode
  BY <1>1 DEF States
<1>5. s.had_error \in BOOLEAN /\ s.ok \in BOOLEAN
  BY DEF States
<1> QED
  BY <1>2, <1>3, <1>4, <1>5 DEF Result

LEMMA EnterIsState ==
  ASSUME NEW r, Result(r), r.ok, IsProgram(tokens)
  PROVE  /\ Enter(r) \in States /\ Result(Enter(r)) /\ Enter(r).current = r.current
         /\ Enter(r).live = r.live /\ Enter(r).had_error = r.had_error
<1> DEFINE q == Enter(r)
           h == r.had_error
           o == r.ok
<1>1. Len(tokens) \in Nat
  BY DEF IsProgram
<1>2. q = Fields(r.current, h, r.live, o, NoNode)
  BY WithNode DEF Enter, Result
<1>3. h \in BOOLEAN /\ o = TRUE /\ r.live \in Int /\ r.current \in 0 .. Len(tokens) - 1
  BY DEF Result
<1> HIDE DEF q, h, o
<1>4. q \in States
  BY <1>1, <1>2, <1>3 DEF States, Fields
<1>5. HasFields(q, r.current, h, r.live, o, NoNode)
  BY <1>2, HasItsFields
<1>6. q.current = r.current /\ q.live = r.live /\ q.had_error = h
  BY <1>5 DEF HasFields
<1>7. q.current < Len(tokens)
  BY <1>1, <1>3, <1>6
<1>8. Result(q)
  BY <1>4, <1>7, StateIsResult
<1> QED
  BY <1>4, <1>6, <1>8 DEF q, h

\* A call of a function that may be called there keeps the contract.
LEMMA CallGives ==
  ASSUME IsProgram(tokens), NEW p \in Int, NEW f, FitsFrom(f, p),
         NEW r, Result(r), r.ok, p <= r.current
  PROVE  Gives(Enter(r), f[Enter(r)])
<1>1. r.current < Len(tokens)
  BY DEF Result, IsProgram
<1>2. Enter(r) \in States /\ Enter(r).current = r.current
  BY EnterIsState
<1> QED
  BY <1>1, <1>2 DEF FitsFrom

\* A binary node owns both operands; a failed right one leaves nothing of the left one.
LEMMA CombinedGives ==
  ASSUME NEW s, Result(s), NEW left, Gives(s, left), left.ok,
         NEW q, Result(q), ReadsOn(left, q), NEW right, Gives(q, right)
  PROVE  Gives(s, Combined(left, right))
<1> DEFINE node == BinaryExpr(Peek(left).value, left.node, right.node)
<1>1. /\ Result(left) /\ Result(right) /\ s.live \in Int /\ q.live = left.live
      /\ s.current < left.current /\ left.current <= q.current
      /\ left.node.size \in Nat /\ left.live = s.live + left.node.size
      /\ q.current <= right.current
      /\ s.had_error => left.had_error /\ q.had_error /\ right.had_error
  BY DEF Gives, ReadsOn, Result
<1>2. s.current < right.current /\ s.current \in Int /\ right.current \in Int
  BY <1>1 DEF Result
<1>3. CASE right.ok
  <2>1. /\ right.node.size \in Nat /\ right.live = q.live + right.node.size
        /\ node.size = 1 + left.node.size + right.node.size
    BY <1>3 DEF Gives, BinaryExpr
  <2> HIDE DEF node
  <2>2. Combined(left, right) = Make(right, node)
    BY <1>3 DEF Combined, node
  <2>3. /\ Result(Make(right, node)) /\ Make(right, node).live = right.live + 1
        /\ Make(right, node).node = node
        /\ Make(right, node).current = right.current /\ Make(right, node).ok
        /\ Make(right, node).had_error = right.had_error
    BY <1>1, <1>3, MakeResult
  <2> HIDE DEF node
  <2> QED
    BY <1>1, <1>2, <2>1, <2>2, <2>3 DEF Gives
<1>4. CASE ~right.ok
  <2>1. SizeOf(<<left.node>>) = left.node.size /\ right.had_error /\ right.live = q.live
    BY <1>1, <1>4, SizeOfOne DEF Gives, Result
  <2>2. Combined(left, right) = Free(right, <<left.node>>)
    BY <1>4 DEF Combined
  <2> DEFINE freed == Free(right, <<left.node>>)
  <2>3. /\ Result(freed) /\ freed.live = right.live - left.node.size /\ ~freed.ok
        /\ freed.current = right.current /\ freed.had_error
    BY <1>1, <2>1, FreeResult
  <2> HIDE DEF freed
  <2>4. Gives(s, freed)
    BY <1>1, <1>2, <2>1, <2>3 DEF Gives
  <2> QED
    BY <2>2, <2>4 DEF freed
<1> QED
  BY <1>3, <1>4

\* A round of a while loop keeps the contract of the function the loop is in.
LEMMA RoundGives ==
  ASSUME IsProgram(tokens), NEW p \in Int, NEW below, FitsFrom(below, p),
         NEW ops, \A t \in ops : t.type # "EOF",
         NEW s, Result(s), p <= s.current, NEW left, Gives(s, left)
  PROVE  Gives(s, Round(ops, left, below))
<1>1. CASE left.ok /\ Peek(left) \in ops
  <2> DEFINE q == Advance(left)
             e == Enter(q)
  <2>1. /\ Result(q) /\ ReadsOn(left, q) /\ q.ok /\ q.current = left.current + 1
        /\ q.had_error = left.had_error
    BY <1>1, AdvanceResult DEF Gives
  <2>2. p <= q.current
    BY <2>1 DEF Gives, Result
  <2> HIDE DEF q
  <2>3. Gives(e, below[e])
    BY <2>1, <2>2, CallGives
  <2>4. Result(e) /\ ReadsOn(left, e)
    BY <2>1, <1>1, EnterIsState DEF ReadsOn
  <2> HIDE DEF e
  <2>5. Gives(s, Combined(left, below[e]))
    BY <1>1, <2>3, <2>4, CombinedGives
  <2> QED
    BY <1>1, <2>5 DEF Round, e, q
<1>2. CASE ~(left.ok /\ Peek(left) \in ops)
  BY <1>2 DEF Round
<1> QED
  BY <1>1, <1>2

\* round is the state after each round, as Loop defines it, as far as n.
LoopUpto(ops, left, below, n, round) ==
  round = [k \in 0 .. n |-> IF k = 0 THEN left ELSE Round(ops, round[k - 1], below)]

LEMMA LoopExists ==
  ASSUME NEW ops, NEW left, NEW below, NEW n \in Nat
  PROVE  \E round : LoopUpto(ops, left, below, n, round)
<1> DEFINE Exists(m) == \E round : LoopUpto(ops, left, below, m, round)
           T == {m \in Nat : Exists(m)}
<1>1. 0 \in T
  <2>1. LoopUpto(ops, left, below, 0, [k \in 0 .. 0 |-> left])
    BY DEF LoopUpto
  <2> QED
    BY <2>1
<1>2. ASSUME NEW m \in Nat, m \in T PROVE m + 1 \in T
  <2>1. PICK round : LoopUpto(ops, left, below, m, round)
    BY <1>2
  <2>2. LoopUpto(ops, left, below, m + 1, [k \in 0 .. m + 1 |->
                    IF k = m + 1 THEN Round(ops, round[m], below) ELSE round[k]])
    BY <2>1 DEF LoopUpto
  <2>3. Exists(m + 1)
    BY <2>2
  <2> QED
    BY <2>3
<1> HIDE DEF T
<1>3. n \in T
  BY <1>1, <1>2, InductionInASet
<1> QED
  BY <1>3 DEF T

LEMMA LoopIsItsRounds ==
  ASSUME IsProgram(tokens), NEW ops, NEW left, NEW below
  PROVE  \E round : /\ LoopUpto(ops, left, below, Len(tokens), round)
                    /\ Loop(ops, left, below) = round[Len(tokens)]
<1>1. Len(tokens) \in Nat
  BY DEF IsProgram
<1>2. LoopUpto(ops, left, below, Len(tokens),
               CHOOSE round : LoopUpto(ops, left, below, Len(tokens), round))
  BY <1>1, LoopExists
<1> QED
  BY <1>2 DEF LoopUpto, Loop

\* So do all its rounds, by induction.
LEMMA LoopGives ==
  ASSUME IsProgram(tokens), NEW p \in Int, NEW below, FitsFrom(below, p),
         NEW ops, \A t \in ops : t.type # "EOF",
         NEW s, Result(s), p <= s.current, NEW left, Gives(s, left)
  PROVE  Gives(s, Loop(ops, left, below))
<1>1. Len(tokens) \in Nat
  BY DEF IsProgram
<1>2. PICK round : /\ LoopUpto(ops, left, below, Len(tokens), round)
                   /\ Loop(ops, left, below) = round[Len(tokens)]
  BY LoopIsItsRounds
<1> DEFINE T == {k \in Nat : k <= Len(tokens) => Gives(s, round[k])}
<1>3. 0 \in T
  BY <1>1, <1>2 DEF LoopUpto
<1>4. ASSUME NEW k \in Nat, k \in T PROVE k + 1 \in T
  <2>1. SUFFICES ASSUME k + 1 <= Len(tokens) PROVE Gives(s, round[k + 1])
    OBVIOUS
  <2>2. round[k + 1] = Round(ops, round[k], below) /\ Gives(s, round[k])
    BY <1>1, <1>2, <1>4, <2>1 DEF LoopUpto
  <2> QED
    BY <2>2, RoundGives
<1> HIDE DEF T
<1>5. Len(tokens) \in T
  BY <1>1, <1>3, <1>4, InductionInASet
<1> QED
  BY <1>1, <1>2, <1>5 DEF T

(***************************************************************************)
(* As many rounds as there are tokens are enough: the condition of the     *)
(* while loop no longer holds, and one more round would change nothing.    *)
(***************************************************************************)
LEMMA RoundReads ==
  ASSUME IsProgram(tokens), NEW p \in Int, NEW below, FitsFrom(below, p),
         NEW ops, \A t \in ops : t.type # "EOF",
         NEW s, Result(s), p <= s.current, NEW left, Gives(s, left)
  PROVE  Round(ops, left, below) = left \/ left.current < Round(ops, left, below).current
<1> SUFFICES ASSUME left.ok, Peek(left) \in ops
             PROVE  left.current < Round(ops, left, below).current
  BY DEF Round
<1> DEFINE q == Advance(left)
           e == Enter(q)
           right == below[e]
           node == BinaryExpr(Peek(left).value, left.node, right.node)
<1>1. /\ Result(q) /\ ReadsOn(left, q) /\ q.ok /\ q.current = left.current + 1
  BY AdvanceResult DEF Gives
<1>2. p <= q.current
  BY <1>1 DEF Gives, Result
<1>3. Round(ops, left, below) = IF right.ok THEN Make(right, node)
                                ELSE Free(right, <<left.node>>)
  BY DEF Round, Combined
<1> HIDE DEF q
<1>4. Gives(e, right) /\ e.current = q.current
  BY <1>1, <1>2, CallGives, EnterIsState
<1> HIDE DEF e, right, node
<1>5. Result(right) /\ left.current < right.current
  BY <1>1, <1>4 DEF Gives, Result
<1>6. CASE right.ok
  BY <1>3, <1>5, <1>6, MakeResult
<1>7. CASE ~right.ok
  <2>1. SizeOf(<<left.node>>) \in Int /\ right.had_error
    BY <1>5, <1>7, SizeOfOne DEF Gives, Result
  <2> QED
    BY <1>3, <1>5, <1>7, <2>1, FreeResult
<1> QED
  BY <1>6, <1>7

LEMMA LoopEnds ==
  ASSUME IsProgram(tokens), NEW p \in Int, NEW below, FitsFrom(below, p),
         NEW ops, \A t \in ops : t.type # "EOF",
         NEW s, Result(s), p <= s.current, NEW left, Gives(s, left)
  PROVE  Round(ops, Loop(ops, left, below), below) = Loop(ops, left, below)
<1>1. Len(tokens) \in Nat
  BY DEF IsProgram
<1>2. PICK round : /\ LoopUpto(ops, left, below, Len(tokens), round)
                   /\ Loop(ops, left, below) = round[Len(tokens)]
  BY LoopIsItsRounds
<1> DEFINE Still(r) == Round(ops, r, below) = r
           T == {k \in Nat : k <= Len(tokens) =>
                   Gives(s, round[k]) /\ (Still(round[k]) \/ k <= round[k].current)}
<1>3. 0 \in T
  BY <1>1, <1>2 DEF LoopUpto, Gives, Result
<1>4. ASSUME NEW k \in Nat, k \in T PROVE k + 1 \in T
  <2> SUFFICES ASSUME k + 1 <= Len(tokens)
               PROVE  /\ Gives(s, round[k + 1])
                      /\ Still(round[k + 1]) \/ k + 1 <= round[k + 1].current
    OBVIOUS
  <2>1. round[k + 1] = Round(ops, round[k], below)
    BY <1>1, <1>2 DEF LoopUpto
  <2>2. Gives(s, round[k]) /\ (Still(round[k]) \/ k <= round[k].current)
    BY <1>1, <1>4
  <2>3. Gives(s, round[k + 1])
    BY <2>1, <2>2, RoundGives
  <2>4. round[k + 1] = round[k] \/ round[k].current < round[k + 1].current
    BY <2>1, <2>2, RoundReads
  <2>5. CASE Still(round[k])
    BY <2>1, <2>3, <2>5
  <2>6. CASE ~Still(round[k])
    <3>1. k <= round[k].current /\ round[k].current < round[k + 1].current
      BY <2>1, <2>2, <2>4, <2>6
    <3>2. round[k].current \in Int /\ round[k + 1].current \in Int
      BY <2>2, <2>3 DEF Gives, Result
    <3>3. k + 1 <= round[k + 1].current
      BY <3>1, <3>2
    <3> QED
      BY <2>3, <3>3
  <2> QED
    BY <2>5, <2>6
<1> HIDE DEF T
<1>5. Len(tokens) \in T
  BY <1>1, <1>3, <1>4, InductionInASet
<1>6. /\ Gives(s, round[Len(tokens)])
      /\ Still(round[Len(tokens)]) \/ Len(tokens) <= round[Len(tokens)].current
  BY <1>1, <1>5 DEF T
<1> QED
  BY <1>1, <1>2, <1>6 DEF Gives, Result

\* A level of binary operators may be called wherever the level below may.
LEMMA LevelFits ==
  ASSUME IsProgram(tokens), NEW p \in Int, NEW below, FitsFrom(below, p),
         NEW ops, \A t \in ops : t.type # "EOF"
  PROVE  FitsFrom(Level(ops, below), p)
<1>1. SUFFICES ASSUME NEW s \in States, p <= s.current, s.current < Len(tokens)
               PROVE  Gives(s, Level(ops, below)[s])
  BY DEF FitsFrom
<1>2. Result(s) /\ Gives(s, below[s])
  BY <1>1, StateIsResult DEF FitsFrom
<1>3. Gives(s, Loop(ops, below[s], below))
  BY <1>1, <1>2, LoopGives
<1> QED
  BY <1>3 DEF Level

\* Making a node over what is held, and freeing what is held, are ways to return.
LEMMA MakeGives ==
  ASSUME NEW s, Result(s), NEW r, Result(r), r.ok, s.current < r.current,
         s.had_error => r.had_error,
         NEW held \in Nat, r.live = s.live + held, NEW node, node.size = 1 + held
  PROVE  Gives(s, Make(r, node))
<1> DEFINE made == Make(r, node)
<1>1. /\ Result(made) /\ made.live = r.live + 1 /\ made.node = node
      /\ made.current = r.current /\ made.ok /\ made.had_error = r.had_error
  BY MakeResult
<1>2. s.live \in Int /\ s.current \in Int /\ r.current \in Int
  BY DEF Result
<1> HIDE DEF made
<1>3. Gives(s, made)
  BY <1>1, <1>2 DEF Gives
<1> QED
  BY <1>3 DEF made

LEMMA FreeGives ==
  ASSUME NEW s, Result(s), NEW r, Result(r), r.had_error, s.current <= r.current,
         NEW nodes, SizeOf(nodes) \in Nat, r.live = s.live + SizeOf(nodes)
  PROVE  Gives(s, Free(r, nodes)) /\ ~Free(r, nodes).ok
<1> DEFINE freed == Free(r, nodes)
<1>1. /\ Result(freed) /\ freed.live = r.live - SizeOf(nodes) /\ ~freed.ok
      /\ freed.current = r.current /\ freed.had_error
  BY FreeResult
<1>2. s.live \in Int /\ s.current \in Int /\ r.current \in Int
  BY DEF Result
<1> HIDE DEF freed
<1>3. Gives(s, freed)
  BY <1>1, <1>2 DEF Gives
<1> QED
  BY <1>1, <1>3 DEF freed

\* What is read before the call belongs to it as well.
LEMMA GivesEarlier ==
  ASSUME NEW s, Result(s), NEW e, Result(e), ReadsOn(s, e), NEW r, Gives(e, r)
  PROVE  Gives(s, r)
BY DEF Gives, ReadsOn, Result

LEMMA GivesLater ==
  ASSUME NEW s, Result(s), NEW r, Gives(s, r), NEW q, Result(q), ReadsOn(r, q),
         q.ok = r.ok, q.node = r.node
  PROVE  Gives(s, q)
BY DEF Gives, ReadsOn, Result

\* A call behind a token that was read keeps the contract for the caller.
LEMMA NestedCall ==
  ASSUME IsProgram(tokens), NEW p \in Int, NEW f, FitsFrom(f, p + 1),
         NEW s, Result(s), p <= s.current, NEW r, Result(r), r.ok, ReadsOn(s, r),
         s.current < r.current
  PROVE  Gives(s, f[Enter(r)])
<1>1. p + 1 \in Int /\ p + 1 <= r.current
  BY DEF Result
<1>2. Gives(Enter(r), f[Enter(r)])
  BY <1>1, CallGives
<1>3. Result(Enter(r)) /\ ReadsOn(s, Enter(r))
  BY EnterIsState DEF ReadsOn
<1> QED
  BY <1>2, <1>3, GivesEarlier

\* The functions of the descent from the lowest to the highest, each from those below.
LEMMA PrimaryGives ==
  ASSUME IsProgram(tokens), NEW p \in Int, NEW d, DescentFits(d, p + 1),
         NEW s, Result(s), s.ok, p <= s.current
  PROVE  Gives(s, Primary(d, s))
<1> DEFINE next  == Advance(s)
           inner == d.assignment[Enter(next)]
<1>1. ASSUME Peek(s).type # "EOF"
      PROVE  /\ Result(next) /\ ReadsOn(s, next) /\ next.ok /\ s.current < next.current
             /\ next.had_error = s.had_error
  <2>1. /\ Result(next) /\ ReadsOn(s, next) /\ next.current = s.current + 1
        /\ next.ok = s.ok /\ next.had_error = s.had_error
    BY <1>1, AdvanceResult
  <2> HIDE DEF next
  <2> QED
    BY <2>1 DEF Result
<1>2. ASSUME Peek(s).type # "EOF", NEW node, node.size = 1
      PROVE  Gives(s, Make(next, node))
  <2> HIDE DEF next
  <2>1. 0 \in Nat /\ node.size = 1 + 0 /\ next.live = s.live + 0
    BY <1>1, <1>2 DEF ReadsOn, Result
  <2> QED
    BY <1>1, <1>2, <2>1, MakeGives
<1>3. CASE IsLiteral(s)
  <2>1. Peek(s).type \notin {"EOF", "IDENTIFIER", "LPAREN"}
    BY <1>3 DEF IsLiteral, Keyword
  <2>2. Primary(d, s) = Make(next, Leaf("literal", Peek(s).value))
    BY <1>3, <2>1 DEF Primary
  <2>3. Leaf("literal", Peek(s).value).size = 1
    BY DEF Leaf
  <2> QED
    BY <1>2, <2>1, <2>2, <2>3
<1>4. CASE ~IsLiteral(s) /\ Peek(s).type = "IDENTIFIER"
  <2>1. Primary(d, s) = Make(next, Leaf("identifier", Peek(s).value))
    BY <1>4 DEF Primary
  <2>2. Leaf("identifier", Peek(s).value).size = 1 /\ Peek(s).type # "EOF"
    BY <1>4 DEF Leaf
  <2> QED
    BY <1>2, <2>1, <2>2
<1>5. CASE ~IsLiteral(s) /\ Peek(s).type = "LPAREN"
  <2>1. Gives(s, inner)
    <3>1. Peek(s).type # "EOF"
      BY <1>5
    <3>2. Result(next) /\ ReadsOn(s, next) /\ next.ok /\ s.current < next.current
      BY <1>1, <3>1
    <3> HIDE DEF next
    <3> QED
      BY <3>2, NestedCall DEF DescentFits
  <2>2. Primary(d, s) = IF Peek(inner).type = "RPAREN" THEN Advance(inner)
                        ELSE [inner EXCEPT !.had_error = TRUE]
    BY <1>5 DEF Primary
  <2> HIDE DEF inner
  <2>3. Result(inner)
    BY <2>1 DEF Gives
  <2>4. CASE Peek(inner).type = "RPAREN"
    <3>1. /\ Result(Advance(inner)) /\ ReadsOn(inner, Advance(inner))
          /\ Advance(inner).ok = inner.ok /\ Advance(inner).node = inner.node
      BY <2>3, <2>4, AdvanceResult
    <3> QED
      BY <2>1, <2>2, <2>4, <3>1, GivesLater
  <2>5. CASE Peek(inner).type # "RPAREN"
    <3> DEFINE t == TRUE
               q == [inner EXCEPT !.had_error = t]
    <3>1. t /\ t \in BOOLEAN /\ Primary(d, s) = q
      BY <2>2, <2>5
    <3> HIDE DEF t
    <3>2. q = Fields(inner.current, t, inner.live, inner.ok, inner.node)
      BY <2>3, WithError DEF Result
    <3> HIDE DEF q
    <3>3. HasFields(q, inner.current, t, inner.live, inner.ok, inner.node)
      BY <3>2, HasItsFields
    <3>4. Result(q) /\ ReadsOn(inner, q) /\ q.ok = inner.ok /\ q.node = inner.node
      BY <2>3, <3>1, <3>3 DEF HasFields, Result, ReadsOn
    <3>5. Gives(s, q)
      BY <2>1, <3>4, GivesLater
    <3> QED
      BY <3>1, <3>5
  <2> QED
    BY <2>4, <2>5
<1>6. CASE ~IsLiteral(s) /\ Peek(s).type \notin {"IDENTIFIER", "LPAREN"}
  <2>1. Primary(d, s) = Fail(s)
    BY <1>6 DEF Primary
  <2>2. Gives(s, Fail(s))
    <3> DEFINE failed == Fail(s)
    <3>1. Result(failed) /\ ReadsOn(s, failed) /\ ~failed.ok
      BY FailResult
    <3> HIDE DEF failed
    <3>2. Gives(s, failed)
      BY <3>1 DEF Gives, ReadsOn, Result
    <3> QED
      BY <3>2 DEF failed
  <2> QED
    BY <2>1, <2>2
<1> QED
  BY <1>3, <1>4, <1>5, <1>6

LEMMA UnaryGives ==
  ASSUME IsProgram(tokens), NEW p \in Int, NEW d, DescentFits(d, p + 1),
         NEW s, Result(s), s.ok, p <= s.current
  PROVE  Gives(s, Unary(d, s))
<1> DEFINE next    == Advance(s)
           operand == d.unary[Enter(next)]
           node    == UnaryExpr(Peek(s).value, operand.node)
           signs   == Operators({"-", "+"}) \cup {Keyword("not")}
<1>1. CASE Peek(s) \notin signs
  BY <1>1, PrimaryGives DEF Unary
<1>2. CASE Peek(s) \in signs
  <2>1. Peek(s).type # "EOF"
    BY <1>2 DEF Operators, Operator, Keyword
  <2>2. /\ Result(next) /\ ReadsOn(s, next) /\ next.current = s.current + 1
        /\ next.ok = s.ok
    BY <2>1, AdvanceResult
  <2>3. Unary(d, s) = IF operand.ok THEN Make(operand, node) ELSE operand
    BY <1>2 DEF Unary
  <2> HIDE DEF next
  <2>4. next.ok /\ s.current < next.current
    BY <2>2 DEF Result
  <2>5. Gives(s, operand)
    BY <2>2, <2>4, NestedCall DEF DescentFits
  <2> HIDE DEF operand
  <2>6. CASE operand.ok
    <3>1. /\ operand.node.size \in Nat /\ node.size = 1 + operand.node.size
          /\ Result(operand) /\ s.current < operand.current
          /\ s.had_error => operand.had_error
          /\ operand.live = s.live + operand.node.size
      BY <2>5, <2>6 DEF Gives, UnaryExpr
    <3> HIDE DEF node
    <3> QED
      BY <2>3, <2>6, <3>1, MakeGives
  <2>7. CASE ~operand.ok
    BY <2>3, <2>5, <2>7
  <2> QED
    BY <2>6, <2>7
<1> QED
  BY <1>1, <1>2

LEMMA PowerGives ==
  ASSUME IsProgram(tokens), NEW p \in Int, NEW d, DescentFits(d, p + 1),
         NEW s, Result(s), s.ok, p <= s.current
  PROVE  Gives(s, Power(d, s))
<1> DEFINE left  == Unary(d, s)
           next  == Advance(left)
           right == d.power[Enter(next)]
<1>1. Gives(s, left)
  BY UnaryGives
<1>2. CASE left.ok /\ Peek(left) = Operator("**")
  <2>1. Power(d, s) = Combined(left, right)
    BY <1>2 DEF Power
  <2> HIDE DEF left
  <2>2. Peek(left).type # "EOF" /\ Result(left) /\ p <= left.current
    BY <1>1, <1>2 DEF Operator, Gives, Result
  <2>3. /\ Result(next) /\ ReadsOn(left, next) /\ next.current = left.current + 1
        /\ next.ok = left.ok
    BY <2>2, AdvanceResult
  <2> HIDE DEF next
  <2>4. next.ok /\ left.current < next.current /\ ReadsOn(left, left)
    BY <1>2, <2>2, <2>3 DEF Result, ReadsOn
  <2>5. Gives(left, right)
    BY <2>2, <2>3, <2>4, NestedCall DEF DescentFits
  <2> HIDE DEF right
  <2>6. Gives(s, Combined(left, right))
    BY <1>1, <1>2, <2>2, <2>4, <2>5, CombinedGives
  <2> QED
    BY <2>1, <2>6
<1>3. CASE ~(left.ok /\ Peek(left) = Operator("**"))
  BY <1>1, <1>3 DEF Power
<1> QED
  BY <1>2, <1>3

LEMMA OperatorsAreTokens ==
  ASSUME NEW texts
  PROVE  \A t \in Operators(texts) : t.type # "EOF"
BY DEF Operators, Operator

LEMMA BinaryFits ==
  ASSUME IsProgram(tokens), NEW p \in Int, NEW d, DescentFits(d, p + 1)
  PROVE  FitsFrom(LogicalOr(d), p)
<1> DEFINE power == [s \in States |-> Power(d, s)]
<1>1. FitsFrom(power, p)
  BY PowerGives, StateIsResult DEF FitsFrom
<1> HIDE DEF power
<1>2. FitsFrom(Multiplicative(d), p)
  BY <1>1, LevelFits, OperatorsAreTokens DEF Multiplicative, power
<1>3. FitsFrom(Additive(d), p)
  BY <1>2, LevelFits, OperatorsAreTokens DEF Additive
<1>4. FitsFrom(Relational(d), p)
  BY <1>3, LevelFits, OperatorsAreTokens DEF Relational
<1>5. FitsFrom(Equality(d), p)
  BY <1>4, LevelFits, OperatorsAreTokens DEF Equality
<1>6. /\ \A t \in {Keyword("and")} : t.type # "EOF"
      /\ \A t \in {Keyword("or")} : t.type # "EOF"
  BY DEF Keyword
<1>7. FitsFrom(LogicalAnd(d), p)
  BY <1>5, <1>6, LevelFits DEF LogicalAnd
<1> QED
  BY <1>6, <1>7, LevelFits DEF LogicalOr

LEMMA AssignmentKeeps ==
  ASSUME IsProgram(tokens), NEW p \in Int, NEW d, DescentFits(d, p + 1),
         NEW s, Result(s), p <= s.current, Gives(s, LogicalOr(d)[s])
  PROVE  Gives(s, Assignment(d, s))
<1> DEFINE left   == LogicalOr(d)[s]
           next   == Optional(left, "OPERATOR")
           right  == d.assignment[Enter(next)]
           node   == AssignExpr(left.node, right.node)
           only   == ~left.ok \/ next.current = left.current \/ Previous(next).value # "="
<1>1. Result(s) /\ Gives(s, left)
  OBVIOUS
<1>2. Assignment(d, s) =
        IF only THEN next
        ELSE IF left.node.kind # "identifier" THEN Free(Fail(next), <<left.node>>)
        ELSE IF ~right.ok THEN Free(right, <<left.node>>)
        ELSE Make(right, node)
  BY DEF Assignment
<1> HIDE DEF left
<1>3. Result(left)
  BY <1>1 DEF Gives
<1>4. /\ Result(next) /\ ReadsOn(left, next)
      /\ next.ok = left.ok /\ next.node = left.node
  BY <1>3, OptionalResult
<1>5. CASE only
  <2>1. Gives(s, next)
    BY <1>1, <1>3, <1>4, GivesLater
  <2> QED
    BY <1>2, <1>5, <2>1
<1>6. CASE ~only
  <2> HIDE DEF next
  <2>1. next.ok /\ left.current < next.current
    BY <1>3, <1>4, <1>6 DEF Result, ReadsOn
  <2>2. /\ left.ok /\ left.node.size \in Nat /\ left.live = s.live + left.node.size
        /\ SizeOf(<<left.node>>) = left.node.size
        /\ s.current < left.current /\ p <= left.current
        /\ s.had_error => left.had_error
    BY <1>1, <1>3, <1>6, SizeOfOne DEF Gives, Result
  <2>3. Gives(left, right)
    BY <1>3, <1>4, <2>1, <2>2, NestedCall DEF DescentFits
  <2> HIDE DEF right, only
  <2>4. Result(right) /\ s.current < right.current /\ (s.had_error => right.had_error)
    <3>1. /\ Result(right) /\ left.current <= right.current
          /\ left.had_error => right.had_error
      BY <2>3 DEF Gives
    <3>2. s.current \in Int /\ left.current \in Int /\ right.current \in Int
      BY <1>1, <1>3, <3>1 DEF Result
    <3>3. s.current < right.current
      BY <2>2, <3>1, <3>2
    <3> QED
      BY <2>2, <3>1, <3>3
  <2>5. CASE left.node.kind # "identifier"
    <3> DEFINE failed == Fail(next)
    <3>1. Result(failed) /\ ReadsOn(next, failed) /\ failed.had_error
      BY <1>4, FailResult
    <3> HIDE DEF failed
    <3>2. failed.live = s.live + SizeOf(<<left.node>>) /\ s.current <= failed.current
      BY <1>1, <1>3, <1>4, <2>2, <3>1 DEF ReadsOn, Result
    <3>3. Gives(s, Free(failed, <<left.node>>))
      BY <1>1, <2>2, <3>1, <3>2, FreeGives
    <3> QED
      BY <1>2, <1>6, <2>5, <3>3 DEF failed
  <2>6. CASE left.node.kind = "identifier" /\ ~right.ok
    <3>1. right.had_error /\ right.live = s.live + SizeOf(<<left.node>>)
      BY <1>3, <2>2, <2>3, <2>6 DEF Gives, Result
    <3>2. s.current <= right.current
      BY <1>1, <2>4 DEF Result
    <3>3. Gives(s, Free(right, <<left.node>>))
      BY <1>1, <2>2, <2>4, <3>1, <3>2, FreeGives
    <3> QED
      BY <1>2, <1>6, <2>6, <3>3
  <2>7. CASE left.node.kind = "identifier" /\ right.ok
    <3> DEFINE held == left.node.size + right.node.size
    <3>1. right.node.size \in Nat /\ right.live = left.live + right.node.size
      BY <2>3, <2>7 DEF Gives
    <3>2. node.size = 1 + left.node.size + right.node.size
      BY DEF AssignExpr
    <3> HIDE DEF node
    <3>5. s.live \in Int
      BY <1>1 DEF Result
    <3>3. held \in Nat /\ right.live = s.live + held /\ node.size = 1 + held
      BY <2>2, <3>1, <3>2, <3>5
    <3> HIDE DEF held
    <3>4. Gives(s, Make(right, node))
      BY <1>1, <2>4, <2>7, <3>3, MakeGives
    <3> QED
      BY <1>2, <1>6, <2>7, <3>4
  <2> QED
    BY <2>5, <2>6, <2>7
<1> QED
  BY <1>5, <1>6

LEMMA AssignmentGives ==
  ASSUME IsProgram(tokens), NEW p \in Int, NEW d, DescentFits(d, p + 1),
         NEW s \in States, p <= s.current, s.current < Len(tokens)
  PROVE  Gives(s, Assignment(d, s))
<1>1. Result(s) /\ Gives(s, LogicalOr(d)[s])
  BY StateIsResult, BinaryFits DEF FitsFrom
<1> QED
  BY <1>1, AssignmentKeeps

\* One more depth of nesting may begin one token earlier.
LEMMA DeeperFits ==
  ASSUME IsProgram(tokens), NEW p \in Int, NEW d, DescentFits(d, p + 1)
  PROVE  DescentFits(Deeper(d), p)
<1>1. FitsFrom(Deeper(d).assignment, p)
  BY AssignmentGives DEF Deeper, FitsFrom
<1>2. FitsFrom(Deeper(d).unary, p)
  BY UnaryGives, StateIsResult DEF Deeper, FitsFrom
<1>3. FitsFrom(Deeper(d).power, p)
  BY PowerGives, StateIsResult DEF Deeper, FitsFrom
<1> QED
  BY <1>1, <1>2, <1>3 DEF DescentFits

\* descent is the descent of each depth, as Descent defines it, as far as n.
DescentUpto(n, descent) ==
  descent = [k \in 0 .. n |-> IF k = 0 THEN NoDescent ELSE Deeper(descent[k - 1])]

LEMMA DescentExists ==
  ASSUME NEW n \in Nat
  PROVE  \E descent : DescentUpto(n, descent)
<1> DEFINE Exists(m) == \E descent : DescentUpto(m, descent)
           T == {m \in Nat : Exists(m)}
<1>1. 0 \in T
  <2>1. DescentUpto(0, [k \in 0 .. 0 |-> NoDescent])
    BY DEF DescentUpto
  <2> QED
    BY <2>1
<1>2. ASSUME NEW m \in Nat, m \in T PROVE m + 1 \in T
  <2>1. PICK descent : DescentUpto(m, descent)
    BY <1>2
  <2>2. DescentUpto(m + 1, [k \in 0 .. m + 1 |->
                      IF k = m + 1 THEN Deeper(descent[m]) ELSE descent[k]])
    BY <2>1 DEF DescentUpto
  <2>3. Exists(m + 1)
    BY <2>2
  <2> QED
    BY <2>3
<1> HIDE DEF T
<1>3. n \in T
  BY <1>1, <1>2, InductionInASet
<1> QED
  BY <1>3 DEF T

\* A descent n calls deep may be started n tokens before the end.
LEMMA DescentIsDeepEnough ==
  ASSUME IsProgram(tokens)
  PROVE  DescentFits(Descent[Len(tokens)], 0)
<1>1. Len(tokens) \in Nat
  BY DEF IsProgram
<1>2. DescentUpto(Len(tokens), Descent)
  <2>1. DescentUpto(Len(tokens), CHOOSE descent : DescentUpto(Len(tokens), descent))
    BY <1>1, DescentExists
  <2> QED
    BY <2>1 DEF DescentUpto, Descent
<1> DEFINE T == {n \in Nat : n <= Len(tokens) => DescentFits(Descent[n], Len(tokens) - n)}
<1>3. 0 \in T
  <2>1. ASSUME NEW f PROVE FitsFrom(f, Len(tokens))
    <3>1. \A s \in States : s.current \in Int
      BY <1>1 DEF States
    <3> QED
      BY <1>1, <3>1 DEF FitsFrom
  <2>2. DescentFits(Descent[0], Len(tokens))
    BY <2>1 DEF DescentFits
  <2> QED
    BY <1>1, <2>2
<1>4. ASSUME NEW n \in Nat, n \in T PROVE n + 1 \in T
  <2>1. SUFFICES ASSUME n + 1 <= Len(tokens)
                 PROVE  DescentFits(Descent[n + 1], Len(tokens) - (n + 1))
    OBVIOUS
  <2> DEFINE p == Len(tokens) - (n + 1)
             d == Descent[n]
  <2>2. p \in Int /\ p + 1 = Len(tokens) - n /\ DescentFits(d, Len(tokens) - n)
    BY <1>1, <1>4, <2>1
  <2>3. Descent[n + 1] = Deeper(d)
    BY <1>1, <1>2, <2>1 DEF DescentUpto
  <2> HIDE DEF p, d
  <2>4. DescentFits(Deeper(d), p)
    BY <2>2, DeeperFits
  <2> QED
    BY <2>3, <2>4 DEF p
<1> HIDE DEF T
<1>5. Len(tokens) \in T
  BY <1>1, <1>3, <1>4, InductionInASet
<1> QED
  BY <1>1, <1>5 DEF T

\* parse_expression keeps the contract.
LEMMA ExpressionGives ==
  ASSUME IsProgram(tokens), NEW r, Result(r), r.ok
  PROVE  Gives(r, Expression(r))
<1> DEFINE assignment == Descent[Len(tokens)].assignment
           result     == assignment[Enter(r)]
<1>1. FitsFrom(assignment, 0)
  BY DescentIsDeepEnough DEF DescentFits
<1>2. Expression(r) = result
  BY DEF Expression
<1> HIDE DEF assignment
<1>3. 0 \in Int /\ 0 <= r.current
  BY DEF Result
<1>4. Gives(Enter(r), result)
  BY <1>1, <1>3, CallGives
<1>5. Result(Enter(r)) /\ ReadsOn(r, Enter(r))
  <2>1. /\ Result(Enter(r)) /\ Enter(r).current = r.current /\ Enter(r).live = r.live
        /\ Enter(r).had_error = r.had_error
    BY EnterIsState
  <2> QED
    BY <2>1 DEF ReadsOn, Result
<1> QED
  BY <1>2, <1>4, <1>5, GivesEarlier

-----------------------------------------------------------------------------
(* Declarations *)

\* A loop that was entered in s has gathered the nodes that are in memory since.
Lists(s, r) ==
  /\ Result(r) /\ s.current <= r.current
  /\ s.had_error => r.had_error
  /\ r.ok => Sized(r.node)
  /\ r.live = s.live + (IF r.ok THEN SizeOf(r.node) ELSE 0)

\* So does parse_var_declaration: without the semicolon the initializer is freed.
LEMMA InitializedGives ==
  ASSUME IsProgram(tokens), NEW s, Result(s), NEW q, Result(q), ReadsOn(s, q),
         NEW modifier, NEW named, NEW typed
  PROVE  Gives(s, Initialized(modifier, named, typed, Expression(q)))
<1> DEFINE initializer == Expression(q)
           end  == Match(initializer, "SEMICOLON")
           node == Declared(Previous(modifier) = Keyword("const"), Previous(named).value,
                            AnnotationOf(named, typed), initializer.node)
<1>1. Initialized(modifier, named, typed, initializer) =
        IF end.ok THEN Make(end, node)
        ELSE IF initializer.ok THEN Free(end, <<initializer.node>>) ELSE end
  BY DEF Initialized
<1>2. node.size = 1 + initializer.node.size
  BY DEF Declared
<1>3. Gives(s, initializer)
  <2>1. CASE q.ok
    BY <2>1, ExpressionGives, GivesEarlier
  <2>2. CASE ~q.ok
    <3>1. initializer = q
      BY <2>2 DEF Expression
    <3> HIDE DEF initializer
    <3> QED
      BY <2>2, <3>1 DEF Gives, ReadsOn, Result
  <2> QED
    BY <2>1, <2>2
<1> HIDE DEF initializer, node
<1>4. Result(initializer)
  BY <1>3 DEF Gives
<1>5. Result(end) /\ ReadsOn(initializer, end)
  BY <1>4, MatchResult
<1> HIDE DEF end
<1>6. s.current <= end.current /\ (s.had_error => end.had_error) /\ end.live = initializer.live
  BY <1>3, <1>4, <1>5 DEF Gives, ReadsOn, Result
<1>7. CASE end.ok
  <2>1. initializer.ok
    BY <1>5, <1>7 DEF ReadsOn
  <2>2. initializer.node.size \in Nat /\ end.live = s.live + initializer.node.size
    BY <1>3, <1>6, <2>1 DEF Gives
  <2>3. s.current < end.current
    BY <1>3, <1>4, <1>5, <2>1 DEF Gives, ReadsOn, Result
  <2>4. Gives(s, Make(end, node))
    BY <1>2, <1>5, <1>6, <1>7, <2>2, <2>3, MakeGives
  <2> QED
    BY <1>1, <1>7, <2>4 DEF initializer
<1>8. CASE ~end.ok /\ initializer.ok
  <2>1. /\ SizeOf(<<initializer.node>>) = initializer.node.size
        /\ initializer.node.size \in Nat /\ initializer.live = s.live + initializer.node.size
    BY <1>3, <1>8, SizeOfOne DEF Gives
  <2>2. end.had_error
    BY <1>5, <1>8 DEF Result
  <2>3. Gives(s, Free(end, <<initializer.node>>))
    BY <1>5, <1>6, <2>1, <2>2, FreeGives
  <2> QED
    BY <1>1, <1>8, <2>3 DEF initializer
<1>9. CASE ~end.ok /\ ~initializer.ok
  <2>1. Gives(s, end)
    BY <1>3, <1>5, <1>6, <1>9 DEF Gives
  <2> QED
    BY <1>1, <1>9, <2>1 DEF initializer
<1> QED
  BY <1>7, <1>8, <1>9

LEMMA ReadsOnAgain ==
  ASSUME NEW s, Result(s), NEW r, Result(r), ReadsOn(s, r), NEW q, Result(q), ReadsOn(r, q)
  PROVE  ReadsOn(s, q)
BY DEF ReadsOn, Result

LEMMA VarDeclarationGives ==
  ASSUME IsProgram(tokens), NEW r, Result(r)
  PROVE  Gives(r, VarDeclaration(r))
<1> DEFINE let      == MatchText(r, "KEYWORD", "let")
           modifier == Optional(let, "KEYWORD")
           named    == Match(modifier, "IDENTIFIER")
           typed    == Annotation(named)
           equals   == MatchText(typed, "OPERATOR", "=")
<1>1. VarDeclaration(r) = Initialized(modifier, named, typed, Expression(equals))
  BY DEF VarDeclaration
<1>2. Result(let) /\ ReadsOn(r, let)
  BY MatchTextResult
<1> HIDE DEF let
<1>3. Result(modifier) /\ ReadsOn(let, modifier)
  BY <1>2, OptionalResult
<1> HIDE DEF modifier
<1>4. Result(named) /\ ReadsOn(modifier, named)
  BY <1>3, MatchResult
<1> HIDE DEF named
<1>5. Result(typed) /\ ReadsOn(named, typed)
  BY <1>4, AnnotationResult
<1> HIDE DEF typed
<1>6. Result(equals) /\ ReadsOn(typed, equals)
  BY <1>5, MatchTextResult
<1> HIDE DEF equals
<1>7. ReadsOn(r, modifier)
  BY <1>2, <1>3, ReadsOnAgain
<1>8. ReadsOn(r, named)
  BY <1>3, <1>4, <1>7, ReadsOnAgain
<1>9. ReadsOn(r, typed)
  BY <1>4, <1>5, <1>8, ReadsOnAgain
<1>10. ReadsOn(r, equals)
  BY <1>5, <1>6, <1>9, ReadsOnAgain
<1> QED
  BY <1>1, <1>6, <1>10, InitializedGives

LEMMA NodeResult ==
  ASSUME NEW r, Result(r), NEW node
  PROVE  /\ Result([r EXCEPT !.node = node]) /\ ReadsOn(r, [r EXCEPT !.node = node])
         /\ [r EXCEPT !.node = node].node = node /\ [r EXCEPT !.node = node].ok = r.ok
         /\ [r EXCEPT !.node = node].current = r.current
<1> DEFINE q == [r EXCEPT !.node = node]
           h == r.had_error
           o == r.ok
<1>1. q = Fields(r.current, h, r.live, o, node)
  BY WithNode DEF Result
<1>2. h \in BOOLEAN /\ o \in BOOLEAN /\ (o \/ h)
  BY DEF Result
<1> HIDE DEF q, h, o
<1>3. HasFields(q, r.current, h, r.live, o, node)
  BY <1>1, HasItsFields
<1>4. Result(q) /\ q.node = node /\ q.ok = o /\ q.current = r.current /\ q.live = r.live
      /\ q.had_error = h
  BY <1>2, <1>3 DEF HasFields, Result
<1>5. ReadsOn(r, q)
  BY <1>4 DEF ReadsOn, Result, h, o
<1> QED
  BY <1>4, <1>5 DEF q, o

\* Freeing what a loop has gathered leaves nothing of it.
LEMMA ListsWhatIsFreed ==
  ASSUME NEW s, Result(s), NEW r, Lists(s, r), r.ok,
         NEW q, Result(q), ~q.ok, r.current <= q.current, r.had_error => q.had_error,
         q.live = r.live
  PROVE  Lists(s, Free(q, r.node)) /\ Gives(s, Free(q, r.node))
<1> DEFINE freed == Free(q, r.node)
<1>1. /\ SizeOf(r.node) \in Nat /\ q.had_error /\ Result(r)
      /\ r.live = s.live + SizeOf(r.node) /\ s.current <= r.current
  BY SizeOfIsNat DEF Lists, Result
<1>2. s.current <= q.current
  BY <1>1 DEF Result
<1>3. Gives(s, freed) /\ ~freed.ok
  BY <1>1, <1>2, FreeGives
<1> HIDE DEF freed
<1>4. Lists(s, freed)
  BY <1>3 DEF Lists, Gives
<1> QED
  BY <1>3, <1>4 DEF freed

\* A round of the loop over the statements adds its node to the list or frees the list.
LEMMA NextStatementLists ==
  ASSUME IsProgram(tokens), NEW s, Result(s), NEW r, Lists(s, r)
  PROVE  Lists(s, NextStatement(r))
<1> DEFINE stmt == VarDeclaration(r)
           more == Append(r.node, stmt.node)
           ends == ~r.ok \/ Peek(r).type \in {"RBRACE", "EOF"}
<1>1. NextStatement(r) = IF ends THEN r
                         ELSE IF stmt.ok THEN [stmt EXCEPT !.node = more]
                         ELSE Free(stmt, r.node)
  BY DEF NextStatement
<1>2. Gives(r, stmt) /\ Result(r)
  BY VarDeclarationGives DEF Lists
<1> HIDE DEF stmt
<1>3. CASE ends
  BY <1>1, <1>3
<1>4. CASE ~ends /\ stmt.ok
  <2>1. /\ r.ok /\ Sized(r.node) /\ SizeOf(r.node) \in Nat
        /\ r.live = s.live + SizeOf(r.node)
    BY <1>4, SizeOfIsNat DEF Lists
  <2>2. stmt.node.size \in Nat /\ stmt.live = r.live + stmt.node.size /\ Result(stmt)
    BY <1>2, <1>4 DEF Gives
  <2>3. Sized(more) /\ SizeOf(more) = SizeOf(r.node) + stmt.node.size
    BY <2>1, <2>2, AppendIsSized, SizeOfAppend
  <2>4. stmt.live = s.live + SizeOf(more)
    BY <2>1, <2>2, <2>3 DEF Result
  <2> HIDE DEF more
  <2> DEFINE q == [stmt EXCEPT !.node = more]
  <2>5. Result(q) /\ ReadsOn(stmt, q) /\ q.node = more /\ q.ok = stmt.ok
    BY <2>2, NodeResult
  <2> HIDE DEF q
  <2>6. q.live = s.live + SizeOf(q.node) /\ q.ok
    BY <1>4, <2>2, <2>4, <2>5 DEF ReadsOn, Result
  <2>7. s.current <= q.current /\ (s.had_error => q.had_error)
    BY <1>2, <2>2, <2>5 DEF Lists, Gives, ReadsOn, Result
  <2>8. Lists(s, q)
    BY <2>3, <2>5, <2>6, <2>7 DEF Lists
  <2> QED
    BY <1>1, <1>4, <2>8 DEF q
<1>5. CASE ~ends /\ ~stmt.ok
  <2>1. /\ r.ok /\ Result(stmt) /\ r.current <= stmt.current
        /\ r.had_error => stmt.had_error
        /\ stmt.live = r.live
    BY <1>2, <1>5 DEF Gives, Result
  <2>2. Lists(s, Free(stmt, r.node))
    BY <1>5, <2>1, ListsWhatIsFreed
  <2> QED
    BY <1>1, <1>5, <2>2
<1> QED
  BY <1>3, <1>4, <1>5

\* round is the state after each round, as Statements defines it, as far as n.
StatementsUpto(none, n, round) ==
  round = [k \in 0 .. n |-> IF k = 0 THEN none ELSE NextStatement(round[k - 1])]

LEMMA StatementsExist ==
  ASSUME NEW none, NEW n \in Nat
  PROVE  \E round : StatementsUpto(none, n, round)
<1> DEFINE Exists(m) == \E round : StatementsUpto(none, m, round)
           T == {m \in Nat : Exists(m)}
<1>1. 0 \in T
  <2>1. StatementsUpto(none, 0, [k \in 0 .. 0 |-> none])
    BY DEF StatementsUpto
  <2> QED
    BY <2>1
<1>2. ASSUME NEW m \in Nat, m \in T PROVE m + 1 \in T
  <2>1. PICK round : StatementsUpto(none, m, round)
    BY <1>2
  <2>2. StatementsUpto(none, m + 1, [k \in 0 .. m + 1 |->
                    IF k = m + 1 THEN NextStatement(round[m]) ELSE round[k]])
    BY <2>1 DEF StatementsUpto
  <2>3. Exists(m + 1)
    BY <2>2
  <2> QED
    BY <2>3
<1> HIDE DEF T
<1>3. n \in T
  BY <1>1, <1>2, InductionInASet
<1> QED
  BY <1>3 DEF T

LEMMA StatementsAreTheirRounds ==
  ASSUME IsProgram(tokens), NEW opened
  PROVE  \E round : /\ StatementsUpto([opened EXCEPT !.node = <<>>], Len(tokens), round)
                    /\ Statements(opened) = round[Len(tokens)]
<1>1. Len(tokens) \in Nat
  BY DEF IsProgram
<1> DEFINE none == [opened EXCEPT !.node = <<>>]
           rounds == CHOOSE round : StatementsUpto(none, Len(tokens), round)
<1>2. StatementsUpto(none, Len(tokens), rounds)
  <2> HIDE DEF none
  <2>1. \E round : StatementsUpto(none, Len(tokens), round)
    BY <1>1, StatementsExist
  <2> QED
    BY <2>1
<1>3. Statements(opened) = rounds[Len(tokens)]
  BY DEF StatementsUpto, Statements
<1> QED
  BY <1>2, <1>3

\* No node has been gathered yet.
LEMMA NoneIsListed ==
  ASSUME NEW s, Result(s), NEW r, Result(r), ReadsOn(s, r)
  PROVE  Lists(s, [r EXCEPT !.node = <<>>])
<1> DEFINE none == [r EXCEPT !.node = <<>>]
<1>1. Result(none) /\ ReadsOn(r, none) /\ none.node = <<>>
  BY NodeResult
<1>2. Sized(none.node) /\ SizeOf(none.node) = 0
  BY <1>1, SizeOfNone
<1> HIDE DEF none
<1>3. s.current <= none.current /\ (s.had_error => none.had_error) /\ none.live = s.live
  BY <1>1 DEF ReadsOn, Result
<1>4. s.live \in Int
  BY DEF Result
<1>5. Lists(s, none)
  BY <1>1, <1>2, <1>3, <1>4 DEF Lists
<1> QED
  BY <1>5 DEF none

\* So do all its rounds, by induction.
LEMMA StatementsList ==
  ASSUME IsProgram(tokens), NEW s, Result(s), NEW opened, Result(opened), ReadsOn(s, opened)
  PROVE  Lists(s, Statements(opened))
<1>1. Len(tokens) \in Nat
  BY DEF IsProgram
<1>2. PICK round : /\ StatementsUpto([opened EXCEPT !.node = <<>>], Len(tokens), round)
                   /\ Statements(opened) = round[Len(tokens)]
  BY StatementsAreTheirRounds
<1> DEFINE T == {k \in Nat : k <= Len(tokens) => Lists(s, round[k])}
<1>3. 0 \in T
  <2>1. round[0] = [opened EXCEPT !.node = <<>>]
    BY <1>1, <1>2 DEF StatementsUpto
  <2>2. Lists(s, [opened EXCEPT !.node = <<>>])
    BY NoneIsListed
  <2> QED
    BY <2>1, <2>2
<1>4. ASSUME NEW k \in Nat, k \in T PROVE k + 1 \in T
  <2>1. SUFFICES ASSUME k + 1 <= Len(tokens) PROVE Lists(s, round[k + 1])
    OBVIOUS
  <2>2. round[k + 1] = NextStatement(round[k]) /\ Lists(s, round[k])
    BY <1>1, <1>2, <1>4, <2>1 DEF StatementsUpto
  <2> QED
    BY <2>2, NextStatementLists
<1> HIDE DEF T
<1>5. Len(tokens) \in T
  BY <1>1, <1>3, <1>4, InductionInASet
<1> QED
  BY <1>1, <1>2, <1>5 DEF T

\* Every round of the loop over the statements reads a token, or it is over.
LEMMA NextStatementReads ==
  ASSUME IsProgram(tokens), NEW s, Result(s), NEW r, Lists(s, r)
  PROVE  NextStatement(r) = r \/ r.current < NextStatement(r).current \/ ~NextStatement(r).ok
<1> DEFINE stmt == VarDeclaration(r)
           more == Append(r.node, stmt.node)
           ends == ~r.ok \/ Peek(r).type \in {"RBRACE", "EOF"}
<1>1. NextStatement(r) = IF ends THEN r
                         ELSE IF stmt.ok THEN [stmt EXCEPT !.node = more]
                         ELSE Free(stmt, r.node)
  BY DEF NextStatement
<1>2. Gives(r, stmt) /\ Result(r)
  BY VarDeclarationGives DEF Lists
<1> HIDE DEF stmt, more
<1>3. CASE ends
  BY <1>1, <1>3
<1>4. CASE ~ends /\ stmt.ok
  <2>1. r.current < stmt.current /\ Result(stmt)
    BY <1>2, <1>4 DEF Gives
  <2>2. [stmt EXCEPT !.node = more].current = stmt.current
    BY <2>1, NodeResult
  <2> QED
    BY <1>1, <1>4, <2>1, <2>2
<1>5. CASE ~ends /\ ~stmt.ok
  <2>1. Result(stmt) /\ stmt.had_error /\ SizeOf(r.node) \in Int
    BY <1>2, <1>5, SizeOfIsNat DEF Gives, Lists, Result
  <2>2. ~Free(stmt, r.node).ok
    BY <2>1, FreeResult
  <2> QED
    BY <1>1, <1>5, <2>2
<1> QED
  BY <1>3, <1>4, <1>5

\* As many rounds as there are tokens are enough: the loop has been left.
LEMMA StatementsEnd ==
  ASSUME IsProgram(tokens), NEW s, Result(s), NEW opened, Result(opened), ReadsOn(s, opened)
  PROVE  NextStatement(Statements(opened)) = Statements(opened)
<1>1. Len(tokens) \in Nat
  BY DEF IsProgram
<1>2. PICK round : /\ StatementsUpto([opened EXCEPT !.node = <<>>], Len(tokens), round)
                   /\ Statements(opened) = round[Len(tokens)]
  BY StatementsAreTheirRounds
<1> DEFINE Still(r) == NextStatement(r) = r
           T == {k \in Nat : k <= Len(tokens) =>
                   Lists(s, round[k]) /\ (Still(round[k]) \/ k <= round[k].current)}
<1>3. 0 \in T
  <2>1. round[0] = [opened EXCEPT !.node = <<>>]
    BY <1>1, <1>2 DEF StatementsUpto
  <2>2. Lists(s, round[0])
    BY <2>1, NoneIsListed
  <2> QED
    BY <2>2 DEF Lists, Result
<1>4. ASSUME NEW k \in Nat, k \in T PROVE k + 1 \in T
  <2> SUFFICES ASSUME k + 1 <= Len(tokens)
               PROVE  /\ Lists(s, round[k + 1])
                      /\ Still(round[k + 1]) \/ k + 1 <= round[k + 1].current
    OBVIOUS
  <2>1. round[k + 1] = NextStatement(round[k])
    BY <1>1, <1>2 DEF StatementsUpto
  <2>2. Lists(s, round[k]) /\ (Still(round[k]) \/ k <= round[k].current)
    BY <1>1, <1>4
  <2>3. Lists(s, round[k + 1])
    BY <2>1, <2>2, NextStatementLists
  <2>4. \/ round[k + 1] = round[k] \/ round[k].current < round[k + 1].current
        \/ ~round[k + 1].ok
    BY <2>1, <2>2, NextStatementReads
  <2>5. CASE Still(round[k]) \/ ~round[k + 1].ok
    <3>1. ~round[k + 1].ok => Still(round[k + 1])
      BY DEF NextStatement
    <3> QED
      BY <2>1, <2>3, <2>5, <3>1
  <2>6. CASE ~(Still(round[k]) \/ ~round[k + 1].ok)
    <3>1. k <= round[k].current /\ round[k].current < round[k + 1].current
      BY <2>1, <2>2, <2>4, <2>6
    <3> QED
      BY <2>2, <2>3, <3>1 DEF Lists, Result
  <2> QED
    BY <2>5, <2>6
<1> HIDE DEF T
<1>5. Len(tokens) \in T
  BY <1>1, <1>3, <1>4, InductionInASet
<1>6. /\ Lists(s, round[Len(tokens)])
      /\ Still(round[Len(tokens)]) \/ Len(tokens) <= round[Len(tokens)].current
  BY <1>1, <1>5 DEF T
<1> QED
  BY <1>1, <1>2, <1>6 DEF Lists, Result

\* parse_block keeps the contract.
LEMMA BlockGives ==
  ASSUME IsProgram(tokens), NEW r, Result(r)
  PROVE  Gives(r, Block(r))
<1> DEFINE opened == Match(r, "LBRACE")
           last   == Statements(opened)
           end    == Match(last, "RBRACE")
<1>1. Result(opened) /\ ReadsOn(r, opened) /\ (opened.ok => r.current < opened.current)
  BY MatchResult
<1>2. Block(r) = IF opened.ok THEN EndOfBlock(last) ELSE opened
  BY DEF Block
<1> HIDE DEF opened
<1>3. CASE ~opened.ok
  <2>1. Gives(r, opened)
    BY <1>1, <1>3 DEF Gives, ReadsOn, Result
  <2> QED
    BY <1>2, <1>3, <2>1
<1>4. CASE opened.ok
  <2>1. ReadsOn(opened, opened)
    BY <1>1 DEF ReadsOn, Result
  <2>2. Lists(r, last) /\ Lists(opened, last)
    BY <1>1, <2>1, StatementsList
  <2>3. EndOfBlock(last) = IF end.ok THEN Make(end, BlockOf(last.node))
                           ELSE IF last.ok THEN Free(end, last.node) ELSE end
    BY DEF EndOfBlock
  <2> HIDE DEF last
  <2>4. Result(last)
    BY <2>2 DEF Lists
  <2>5. Result(end) /\ ReadsOn(last, end)
    BY <2>4, MatchResult
  <2> HIDE DEF end
  <2>6. /\ last.current <= end.current /\ r.current < end.current
        /\ last.had_error => end.had_error
        /\ r.had_error => end.had_error
        /\ end.live = last.live
    BY <1>1, <1>4, <2>2, <2>4, <2>5 DEF Lists, ReadsOn, Result
  <2>7. CASE end.ok
    <3> DEFINE node == BlockOf(last.node)
    <3>1. last.ok
      BY <2>5, <2>7 DEF ReadsOn
    <3>2. SizeOf(last.node) \in Nat /\ end.live = r.live + SizeOf(last.node)
      BY <2>2, <2>6, <3>1, SizeOfIsNat DEF Lists
    <3>3. node.size = 1 + SizeOf(last.node)
      BY DEF BlockOf
    <3> HIDE DEF node
    <3>4. Gives(r, Make(end, node))
      BY <2>5, <2>6, <2>7, <3>2, <3>3, MakeGives
    <3> QED
      BY <1>2, <1>4, <2>3, <2>7, <3>4 DEF node
  <2>8. CASE ~end.ok /\ last.ok
    <3>1. Gives(r, Free(end, last.node))
      BY <2>2, <2>5, <2>6, <2>8, ListsWhatIsFreed
    <3> QED
      BY <1>2, <1>4, <2>3, <2>8, <3>1
  <2>9. CASE ~end.ok /\ ~last.ok
    <3>1. r.current <= end.current
      BY <2>5, <2>6 DEF Result
    <3>2. Gives(r, end)
      BY <2>2, <2>5, <2>6, <2>9, <3>1 DEF Lists, Gives
    <3> QED
      BY <1>2, <1>4, <2>3, <2>9, <3>2
  <2> QED
    BY <2>7, <2>8, <2>9
<1> QED
  BY <1>3, <1>4

\* A parameter is added to the list, or the list is freed; then for all the rounds.
LEMMA AddParameterLists ==
  ASSUME IsProgram(tokens), NEW s, Result(s), NEW r, Lists(s, r), r.ok
  PROVE  Lists(s, AddParameter(r))
<1> DEFINE named == Match(r, "IDENTIFIER")
           typed == Annotation(named)
           param == Declared(FALSE, Previous(named).value, AnnotationOf(named, typed), NoNode)
           more  == Append(r.node, param)
<1>1. AddParameter(r) = IF typed.ok THEN Make(typed, more) ELSE Free(typed, r.node)
  BY DEF AddParameter
<1>2. param.size = 1
  BY DEF Declared, NoNode
<1>3. Result(r)
  BY DEF Lists
<1>4. Result(named) /\ ReadsOn(r, named)
  BY <1>3, MatchResult
<1> HIDE DEF named, param
<1>5. Result(typed) /\ ReadsOn(named, typed)
  BY <1>4, AnnotationResult
<1> HIDE DEF typed
<1>6. ReadsOn(r, typed)
  BY <1>3, <1>4, <1>5, ReadsOnAgain
<1>7. CASE typed.ok
  <2>1. /\ Sized(r.node) /\ SizeOf(r.node) \in Nat /\ r.live = s.live + SizeOf(r.node)
        /\ param.size \in Nat
    BY <1>2, SizeOfIsNat DEF Lists
  <2>2. Sized(more) /\ SizeOf(more) = SizeOf(r.node) + 1
    BY <1>2, <2>1, AppendIsSized, SizeOfAppend
  <2> HIDE DEF more
  <2> DEFINE made == Make(typed, more)
  <2>3. /\ Result(made) /\ made.live = typed.live + 1 /\ made.node = more
        /\ made.current = typed.current /\ made.ok = typed.ok
        /\ made.had_error = typed.had_error
    BY <1>5, MakeResult
  <2> HIDE DEF made
  <2>4. made.live = s.live + SizeOf(made.node)
    BY <1>6, <2>1, <2>2, <2>3 DEF ReadsOn, Result
  <2>5. s.current <= made.current /\ (s.had_error => made.had_error) /\ made.ok
    BY <1>3, <1>5, <1>6, <1>7, <2>3 DEF Lists, ReadsOn, Result
  <2>6. Lists(s, made)
    BY <2>2, <2>3, <2>4, <2>5 DEF Lists
  <2> QED
    BY <1>1, <1>7, <2>6 DEF made
<1>8. CASE ~typed.ok
  <2>1. /\ r.current <= typed.current /\ typed.live = r.live
        /\ r.had_error => typed.had_error
    BY <1>6 DEF ReadsOn
  <2>2. Lists(s, Free(typed, r.node))
    BY <1>5, <1>8, <2>1, ListsWhatIsFreed
  <2> QED
    BY <1>1, <1>8, <2>2
<1> QED
  BY <1>7, <1>8

LEMMA NextParameterLists ==
  ASSUME IsProgram(tokens), NEW s, Result(s), NEW r, Lists(s, r)
  PROVE  Lists(s, NextParameter(r))
<1>1. CASE r.ok /\ Peek(r).type = "COMMA"
  <2> DEFINE next == Advance(r)
  <2>1. Result(r) /\ Peek(r).type # "EOF"
    BY <1>1 DEF Lists
  <2>2. /\ Result(next) /\ ReadsOn(r, next) /\ next.ok = r.ok /\ next.node = r.node
        /\ next.had_error = r.had_error
    BY <2>1, AdvanceResult
  <2>3. NextParameter(r) = AddParameter(next)
    BY <1>1 DEF NextParameter
  <2> HIDE DEF next
  <2>4. next.ok /\ Lists(s, next)
    BY <1>1, <2>1, <2>2 DEF Lists, ReadsOn, Result
  <2> QED
    BY <2>3, <2>4, AddParameterLists
<1>2. CASE ~(r.ok /\ Peek(r).type = "COMMA")
  BY <1>2 DEF NextParameter
<1> QED
  BY <1>1, <1>2

\* round is the state after each round, as Parameters defines it, as far as n.
ParametersUpto(r, n, round) ==
  round = [k \in 0 .. n |-> IF k = 0 THEN AddParameter(r) ELSE NextParameter(round[k - 1])]

LEMMA ParametersExist ==
  ASSUME NEW r, NEW n \in Nat
  PROVE  \E round : ParametersUpto(r, n, round)
<1> DEFINE Exists(m) == \E round : ParametersUpto(r, m, round)
           T == {m \in Nat : Exists(m)}
<1>1. 0 \in T
  <2>1. ParametersUpto(r, 0, [k \in 0 .. 0 |-> AddParameter(r)])
    BY DEF ParametersUpto
  <2> QED
    BY <2>1
<1>2. ASSUME NEW m \in Nat, m \in T PROVE m + 1 \in T
  <2>1. PICK round : ParametersUpto(r, m, round)
    BY <1>2
  <2>2. ParametersUpto(r, m + 1, [k \in 0 .. m + 1 |->
                    IF k = m + 1 THEN NextParameter(round[m]) ELSE round[k]])
    BY <2>1 DEF ParametersUpto
  <2>3. Exists(m + 1)
    BY <2>2
  <2> QED
    BY <2>3
<1> HIDE DEF T
<1>3. n \in T
  BY <1>1, <1>2, InductionInASet
<1> QED
  BY <1>3 DEF T

LEMMA ParametersAreTheirRounds ==
  ASSUME IsProgram(tokens), NEW r
  PROVE  \E round : /\ ParametersUpto(r, Len(tokens), round)
                    /\ Parameters(r) = round[Len(tokens)]
<1>1. Len(tokens) \in Nat
  BY DEF IsProgram
<1>2. ParametersUpto(r, Len(tokens), CHOOSE round : ParametersUpto(r, Len(tokens), round))
  BY <1>1, ParametersExist
<1> QED
  BY <1>2 DEF ParametersUpto, Parameters

LEMMA ParametersList ==
  ASSUME IsProgram(tokens), NEW s, Result(s), NEW r, Lists(s, r), r.ok
  PROVE  Lists(s, Parameters(r))
<1>1. Len(tokens) \in Nat
  BY DEF IsProgram
<1>2. PICK round : /\ ParametersUpto(r, Len(tokens), round)
                   /\ Parameters(r) = round[Len(tokens)]
  BY ParametersAreTheirRounds
<1> DEFINE T == {k \in Nat : k <= Len(tokens) => Lists(s, round[k])}
<1>3. 0 \in T
  <2>1. round[0] = AddParameter(r)
    BY <1>1, <1>2 DEF ParametersUpto
  <2>2. Lists(s, AddParameter(r))
    BY AddParameterLists
  <2> QED
    BY <2>1, <2>2
<1>4. ASSUME NEW k \in Nat, k \in T PROVE k + 1 \in T
  <2>1. SUFFICES ASSUME k + 1 <= Len(tokens) PROVE Lists(s, round[k + 1])
    OBVIOUS
  <2>2. round[k + 1] = NextParameter(round[k]) /\ Lists(s, round[k])
    BY <1>1, <1>2, <1>4, <2>1 DEF ParametersUpto
  <2> QED
    BY <2>2, NextParameterLists
<1> HIDE DEF T
<1>5. Len(tokens) \in T
  BY <1>1, <1>3, <1>4, InductionInASet
<1> QED
  BY <1>1, <1>2, <1>5 DEF T

\* Reading a parameter does not go back.
LEMMA AddParameterReads ==
  ASSUME IsProgram(tokens), NEW r, Result(r), r.ok, Sized(r.node)
  PROVE  r.current <= AddParameter(r).current
<1> DEFINE named == Match(r, "IDENTIFIER")
           typed == Annotation(named)
           param == Declared(FALSE, Previous(named).value, AnnotationOf(named, typed), NoNode)
           more  == Append(r.node, param)
<1>1. AddParameter(r) = IF typed.ok THEN Make(typed, more) ELSE Free(typed, r.node)
  BY DEF AddParameter
<1>2. Result(named) /\ ReadsOn(r, named)
  BY MatchResult
<1> HIDE DEF named, more
<1>3. Result(typed) /\ ReadsOn(named, typed)
  BY <1>2, AnnotationResult
<1> HIDE DEF typed
<1>4. r.current <= typed.current
  BY <1>2, <1>3, ReadsOnAgain DEF ReadsOn
<1>5. CASE typed.ok
  BY <1>1, <1>3, <1>4, <1>5, MakeResult
<1>6. CASE ~typed.ok
  <2>1. typed.had_error /\ SizeOf(r.node) \in Int
    BY <1>3, <1>6, SizeOfIsNat DEF Result
  <2> QED
    BY <1>1, <1>3, <1>4, <1>6, <2>1, FreeResult
<1> QED
  BY <1>5, <1>6

\* Every round of the loop over the parameters reads the comma, or it is over.
LEMMA NextParameterReads ==
  ASSUME IsProgram(tokens), NEW s, Result(s), NEW r, Lists(s, r)
  PROVE  NextParameter(r) = r \/ r.current < NextParameter(r).current
<1> SUFFICES ASSUME r.ok, Peek(r).type = "COMMA" PROVE r.current < NextParameter(r).current
  BY DEF NextParameter
<1> DEFINE next == Advance(r)
<1>1. Result(r) /\ Peek(r).type # "EOF" /\ Sized(r.node)
  BY DEF Lists
<1>2. Result(next) /\ next.ok = r.ok /\ next.node = r.node /\ next.current = r.current + 1
  BY <1>1, AdvanceResult
<1>3. NextParameter(r) = AddParameter(next)
  BY DEF NextParameter
<1> HIDE DEF next
<1>4. next.current <= AddParameter(next).current
  BY <1>1, <1>2, AddParameterReads
<1>5. r.current < next.current /\ r.current \in Int /\ next.current \in Int
  BY <1>1, <1>2 DEF Result
<1>6. Lists(s, NextParameter(r))
  BY NextParameterLists
<1>7. AddParameter(next).current \in Int
  BY <1>3, <1>6 DEF Lists, Result
<1> QED
  BY <1>3, <1>4, <1>5, <1>7

\* As many rounds as there are tokens are enough: the loop has been left.
LEMMA ParametersEnd ==
  ASSUME IsProgram(tokens), NEW s, Result(s), NEW r, Lists(s, r), r.ok
  PROVE  NextParameter(Parameters(r)) = Parameters(r)
<1>1. Len(tokens) \in Nat
  BY DEF IsProgram
<1>2. PICK round : /\ ParametersUpto(r, Len(tokens), round)
                   /\ Parameters(r) = round[Len(tokens)]
  BY ParametersAreTheirRounds
<1> DEFINE Still(q) == NextParameter(q) = q
           T == {k \in Nat : k <= Len(tokens) =>
                   Lists(s, round[k]) /\ (Still(round[k]) \/ k <= round[k].current)}
<1>3. 0 \in T
  <2>1. round[0] = AddParameter(r)
    BY <1>1, <1>2 DEF ParametersUpto
  <2>2. Lists(s, round[0])
    BY <2>1, AddParameterLists
  <2> QED
    BY <2>2 DEF Lists, Result
<1>4. ASSUME NEW k \in Nat, k \in T PROVE k + 1 \in T
  <2> SUFFICES ASSUME k + 1 <= Len(tokens)
               PROVE  /\ Lists(s, round[k + 1])
                      /\ Still(round[k + 1]) \/ k + 1 <= round[k + 1].current
    OBVIOUS
  <2>1. round[k + 1] = NextParameter(round[k])
    BY <1>1, <1>2 DEF ParametersUpto
  <2>2. Lists(s, round[k]) /\ (Still(round[k]) \/ k <= round[k].current)
    BY <1>1, <1>4
  <2>3. Lists(s, round[k + 1])
    BY <2>1, <2>2, NextParameterLists
  <2>4. round[k + 1] = round[k] \/ round[k].current < round[k + 1].current
    BY <2>1, <2>2, NextParameterReads
  <2>5. CASE Still(round[k])
    BY <2>1, <2>3, <2>5
  <2>6. CASE ~Still(round[k])
    <3>1. k <= round[k].current /\ round[k].current < round[k + 1].current
      BY <2>1, <2>2, <2>4, <2>6
    <3> QED
      BY <2>2, <2>3, <3>1 DEF Lists, Result
  <2> QED
    BY <2>5, <2>6
<1> HIDE DEF T
<1>5. Len(tokens) \in T
  BY <1>1, <1>3, <1>4, InductionInASet
<1>6. /\ Lists(s, round[Len(tokens)])
      /\ Still(round[Len(tokens)]) \/ Len(tokens) <= round[Len(tokens)].current
  BY <1>1, <1>5 DEF T
<1> QED
  BY <1>1, <1>2, <1>6 DEF Lists, Result

LEMMA ParameterListLists ==
  ASSUME IsProgram(tokens), NEW s, Result(s), NEW opened, Result(opened), ReadsOn(s, opened)
  PROVE  Lists(s, ParameterList(opened))
<1> DEFINE none == [opened EXCEPT !.node = <<>>]
<1>1. Lists(s, none)
  BY NoneIsListed
<1>2. none.ok = opened.ok
  BY NodeResult
<1>3. ParameterList(opened) = IF opened.ok /\ Peek(opened).type # "RPAREN"
                              THEN Parameters(none) ELSE none
  BY DEF ParameterList
<1> HIDE DEF none
<1>4. none.ok => Lists(s, Parameters(none))
  BY <1>1, ParametersList
<1>5. CASE opened.ok /\ Peek(opened).type # "RPAREN"
  <2>1. none.ok
    BY <1>1, <1>2, <1>5 DEF Lists, Result
  <2> QED
    BY <1>3, <1>4, <1>5, <2>1
<1>6. CASE ~(opened.ok /\ Peek(opened).type # "RPAREN")
  BY <1>1, <1>3, <1>6
<1> QED
  BY <1>5, <1>6

\* What follows the parameters owns them, whichever part of it is missing.
LEMMA FunctionAfterGives ==
  ASSUME IsProgram(tokens), NEW s, Result(s), NEW params, Lists(s, params),
         NEW is_comptime, NEW name
  PROVE  Gives(s, FunctionAfter(is_comptime, name, params))
<1> DEFINE closed == Match(params, "RPAREN")
           typed  == Annotation(closed)
           body   == Block(typed)
           node   == FuncDef(is_comptime, name, params.node, AnnotationOf(closed, typed), body.node)
           result == FunctionAfter(is_comptime, name, params)
<1>1. result = IF ~params.ok THEN params
               ELSE IF ~body.ok THEN Free(body, params.node) ELSE Make(body, node)
  BY DEF FunctionAfter, FunctionOf
<1>2. Result(params)
  BY DEF Lists
<1>3. Result(closed) /\ ReadsOn(params, closed)
  BY <1>2, MatchResult
<1>4. node.size = 1 + SizeOf(params.node) + body.node.size
  BY DEF FuncDef
<1> HIDE DEF result, node, closed
<1>5. Result(typed) /\ ReadsOn(closed, typed)
  BY <1>3, AnnotationResult
<1> HIDE DEF typed
<1>6. Gives(typed, body) /\ ReadsOn(params, typed)
  BY <1>2, <1>3, <1>5, BlockGives, ReadsOnAgain
<1> HIDE DEF body
<1>7. Gives(params, body)
  BY <1>2, <1>5, <1>6, GivesEarlier
<1>8. CASE ~params.ok
  <2>1. Gives(s, params)
    BY <1>8 DEF Lists, Gives
  <2> QED
    BY <1>1, <1>8, <2>1 DEF result
<1>9. CASE params.ok /\ ~body.ok
  <2>1. /\ Result(body) /\ params.current <= body.current /\ body.live = params.live
        /\ params.had_error => body.had_error
    BY <1>2, <1>7, <1>9 DEF Gives, Result
  <2>2. Gives(s, Free(body, params.node))
    BY <1>9, <2>1, ListsWhatIsFreed
  <2> QED
    BY <1>1, <1>9, <2>2 DEF result
<1>10. CASE params.ok /\ body.ok
  <2> DEFINE held == SizeOf(params.node) + body.node.size
  <2>1. /\ SizeOf(params.node) \in Nat /\ params.live = s.live + SizeOf(params.node)
        /\ s.current <= params.current /\ (s.had_error => params.had_error)
    BY <1>10, SizeOfIsNat DEF Lists
  <2>2. /\ Result(body) /\ params.current < body.current
        /\ params.had_error => body.had_error
        /\ body.node.size \in Nat /\ body.live = params.live + body.node.size
    BY <1>7, <1>10 DEF Gives
  <2>3. held \in Nat /\ body.live = s.live + held /\ node.size = 1 + held
    BY <1>4, <2>1, <2>2 DEF Result
  <2>4. s.current < body.current /\ (s.had_error => body.had_error)
    BY <1>2, <2>1, <2>2 DEF Result
  <2> HIDE DEF held
  <2>5. Gives(s, Make(body, node))
    BY <1>10, <2>2, <2>3, <2>4, MakeGives
  <2> QED
    BY <1>1, <1>10, <2>5 DEF result
<1> QED
  BY <1>8, <1>9, <1>10 DEF result

\* parse_function_declaration keeps the contract.
LEMMA FunctionDeclarationGives ==
  ASSUME IsProgram(tokens), NEW r, Result(r)
  PROVE  Gives(r, FunctionDeclaration(r))
<1> DEFINE is_comptime == Peek(r) = Keyword("comptime")
           modifier == IF is_comptime THEN Advance(r) ELSE r
           fn       == MatchText(modifier, "KEYWORD", "fn")
           named    == Match(fn, "IDENTIFIER")
           opened   == Match(named, "LPAREN")
           name     == Previous(named).value
<1>1. FunctionDeclaration(r) = FunctionAfter(is_comptime, name, ParameterList(opened))
  BY DEF FunctionDeclaration
<1>2. Result(modifier) /\ ReadsOn(r, modifier)
  <2>1. CASE is_comptime
    <3>1. Peek(r).type # "EOF"
      BY <2>1 DEF Keyword
    <3> QED
      BY <2>1, <3>1, AdvanceResult
  <2>2. CASE ~is_comptime
    BY <2>2 DEF ReadsOn, Result
  <2> QED
    BY <2>1, <2>2
<1> HIDE DEF is_comptime, modifier
<1>3. Result(fn) /\ ReadsOn(modifier, fn)
  BY <1>2, MatchTextResult
<1> HIDE DEF fn
<1>4. Result(named) /\ ReadsOn(fn, named)
  BY <1>3, MatchResult
<1> HIDE DEF name
<1> HIDE DEF named
<1>5. Result(opened) /\ ReadsOn(named, opened)
  BY <1>4, MatchResult
<1> HIDE DEF opened
<1>6. ReadsOn(r, fn)
  BY <1>2, <1>3, ReadsOnAgain
<1>7. ReadsOn(r, named)
  BY <1>3, <1>4, <1>6, ReadsOnAgain
<1>8. ReadsOn(r, opened)
  BY <1>4, <1>5, <1>7, ReadsOnAgain
<1>9. Lists(r, ParameterList(opened))
  BY <1>5, <1>8, ParameterListLists
<1> QED
  BY <1>1, <1>9, FunctionAfterGives

-----------------------------------------------------------------------------
(* The calls *)

\* The nodes that calls returned.
Nodes(calls) == [i \in DOMAIN calls |-> calls[i].node]

(***************************************************************************)
(* The position is that of a token, the nodes the caller was given are     *)
(* counted, and their number is that of the nodes in memory.               *)
(***************************************************************************)
Inv ==
  /\ tokens = <<>> => current = 0
  /\ tokens # <<>> => IsProgram(tokens) /\ current \in 0 .. Len(tokens) - 1
  /\ had_error \in BOOLEAN /\ live \in Int
  /\ returned \in Seq(Range(returned))
  /\ Sized(Nodes(returned))
  /\ live = SizeOf(Nodes(returned))

LEMMA InitInv == Init => Inv
<1> SUFFICES ASSUME Init PROVE Inv
  OBVIOUS
<1>1. Nodes(<<>>) = <<>> /\ <<>> \in Seq(Range(<<>>))
  BY DEF Nodes
<1>2. Sized(<<>>) /\ SizeOf(<<>>) = 0
  BY SizeOfNone
<1>4. returned = <<>> /\ live = 0 /\ live \in Int
  BY DEF Init
<1>7. had_error \in BOOLEAN
  BY Zenon DEF Init
<1>8. tokens = <<>> /\ current = 0
  BY Zenon DEF Init
<1>3. had_error \in BOOLEAN /\ live \in Int /\ tokens = <<>> /\ current = 0
  BY <1>4, <1>7, <1>8
<1>5. returned \in Seq(Range(returned)) /\ Nodes(returned) = <<>>
  BY <1>1, <1>4
<1>6. Sized(Nodes(returned)) /\ live = SizeOf(Nodes(returned))
  BY <1>2, <1>4, <1>5
<1> QED
  BY <1>3, <1>5, <1>6 DEF Inv

\* What an entry point is called with is a state of the parser.
LEMMA EntryIsResult ==
  ASSUME Inv, tokens # <<>>
  PROVE  /\ IsProgram(tokens) /\ Result(Entry) /\ Entry.ok /\ Entry.current = current
         /\ Entry.live = live /\ Entry.had_error = had_error
<1> DEFINE t == TRUE
<1>1. Entry = Fields(current, had_error, live, t, NoNode)
  BY DEF Entry, Fields
<1>2. t /\ t \in BOOLEAN
  OBVIOUS
<1> HIDE DEF t
<1>3. HasFields(Entry, current, had_error, live, t, NoNode)
  BY <1>1, HasItsFields
<1> QED
  BY <1>2, <1>3 DEF HasFields, Result, Inv

\* What every entry point does: its result becomes the state.
LEMMA CallStep ==
  ASSUME Inv, NEW r, tokens # <<>> => Gives(Entry, r), Call(r)
  PROVE  /\ Inv'
         /\ returned' = returned => had_error'
         /\ had_error => had_error'
         /\ current' \in current .. Len(tokens) - 1
         /\ returned' # returned => current < current'
<1>1. /\ tokens # <<>> /\ tokens' = tokens /\ current' = r.current
      /\ had_error' = r.had_error /\ live' = r.live
  BY DEF Call
<1>2. /\ IsProgram(tokens) /\ Entry.current = current /\ Entry.live = live
      /\ Entry.had_error = had_error
  BY <1>1, EntryIsResult
<1>3. /\ Result(r) /\ current <= r.current /\ (had_error => r.had_error)
      /\ r.ok => current < r.current /\ r.node.size \in Nat
      /\ r.live = live + (IF r.ok THEN r.node.size ELSE 0)
  BY <1>1, <1>2 DEF Gives
<1>4. IsProgram(tokens)' /\ current' \in current .. Len(tokens) - 1
  BY <1>1, <1>2, <1>3 DEF IsProgram, Result, Inv
<1>5. had_error' \in BOOLEAN /\ live' \in Int /\ (had_error => had_error')
  BY <1>1, <1>3 DEF Result
<1>6. CASE r.ok
  <2> DEFINE call == [node |-> r.node, from |-> current, to |-> r.current]
  <2>1. returned' = Append(returned, call)
    BY <1>6 DEF Call
  <2>2. call.node = r.node
    OBVIOUS
  <2> HIDE DEF call
  <2> DEFINE S == Range(returned) \cup {call}
  <2>3. returned \in Seq(S) /\ call \in S
    BY DEF Inv
  <2>4. /\ returned' \in Seq(S) /\ Len(returned) \in Nat
        /\ DOMAIN returned = 1 .. Len(returned)
        /\ Len(returned') = Len(returned) + 1
        /\ \A i \in 1 .. Len(returned) : returned'[i] = returned[i]
        /\ returned'[Len(returned) + 1] = call
    BY <2>1, <2>3, AppendProperties
  <2>5. DOMAIN returned' = 1 .. Len(returned) + 1
    BY <2>4
  <2> HIDE DEF S
  <2>6. returned' \in Seq(Range(returned'))
    <3>1. \A i \in 1 .. Len(returned') : returned'[i] \in Range(returned')
      BY <2>4, <2>5 DEF Range
    <3>2. returned' = [i \in 1 .. Len(returned') |-> returned'[i]]
      BY <2>4
    <3> QED
      BY <2>4, <3>1, <3>2
  <2>7. Nodes(returned') = Append(Nodes(returned), r.node)
    <3> DEFINE nodes == Nodes(returned)
               more  == Append(nodes, r.node)
    <3>1. /\ Sized(more) /\ Len(nodes) \in Nat /\ DOMAIN nodes = 1 .. Len(nodes)
          /\ Len(more) = Len(nodes) + 1
          /\ \A i \in 1 .. Len(nodes) : more[i] = nodes[i]
          /\ more[Len(nodes) + 1] = r.node
      BY <1>3, <1>6, AppendIsSized DEF Inv
    <3>2. /\ DOMAIN nodes = 1 .. Len(returned)
          /\ \A i \in 1 .. Len(returned) : nodes[i] = returned[i].node
      BY <2>4 DEF Nodes
    <3> HIDE DEF nodes, more
    <3>3. Len(nodes) = Len(returned)
      <4>1. ASSUME NEW m \in Nat, NEW n \in Nat, 1 .. m = 1 .. n PROVE m <= n
        <5>1. m = 0 \/ m \in 1 .. m
          OBVIOUS
        <5>2. m = 0 \/ m \in 1 .. n
          BY <4>1, <5>1
        <5> QED
          BY <5>2
      <4>2. 1 .. Len(nodes) = 1 .. Len(returned)
        BY <3>1, <3>2
      <4>3. Len(nodes) <= Len(returned) /\ Len(returned) <= Len(nodes)
        BY <2>4, <3>1, <4>1, <4>2
      <4>4. ASSUME NEW m \in Nat, NEW n \in Nat, m <= n, n <= m PROVE m = n
        BY <4>4
      <4>5. Len(nodes) \in Nat /\ Len(returned) \in Nat
        BY <2>4, <3>1
      <4> QED
        BY <4>3, <4>4, <4>5, Zenon
    <3>4. more = [i \in 1 .. Len(returned) + 1 |-> more[i]]
      BY <3>1, <3>3 DEF Sized
    <3>5. \A i \in 1 .. Len(returned) + 1 : more[i] = returned'[i].node
      BY <2>2, <2>4, <3>1, <3>2, <3>3
    <3>6. Nodes(returned') = [i \in 1 .. Len(returned) + 1 |-> returned'[i].node]
      BY <2>5 DEF Nodes
    <3>7. Nodes(returned') = more
      BY <3>4, <3>5, <3>6
    <3> QED
      BY <3>7 DEF more, nodes
  <2>8. /\ Sized(Nodes(returned')) /\ live' = SizeOf(Nodes(returned'))
    <3>1. Sized(Nodes(returned)) /\ live = SizeOf(Nodes(returned)) /\ r.node.size \in Nat
      BY <1>3, <1>6 DEF Inv
    <3>2. Sized(Append(Nodes(returned), r.node))
      BY <3>1, AppendIsSized
    <3>3. SizeOf(Append(Nodes(returned), r.node)) = SizeOf(Nodes(returned)) + r.node.size
      BY <3>1, SizeOfAppend
    <3> QED
      BY <1>1, <1>3, <1>6, <2>7, <3>1, <3>2, <3>3
  <2>9. returned' # returned /\ current < current'
    BY <1>1, <1>3, <1>6, <2>4
  <2> QED
    BY <1>1, <1>2, <1>4, <1>5, <2>6, <2>8, <2>9 DEF Inv
<1>7. CASE ~r.ok
  <2>1. returned' = returned /\ live' = live /\ had_error'
    BY <1>1, <1>3, <1>7 DEF Call, Inv, Result
  <2> QED
    BY <1>1, <1>2, <1>4, <1>5, <2>1 DEF Inv
<1> QED
  BY <1>6, <1>7

\* The four entry points keep the contract.
LEMMA EntriesGive ==
  ASSUME Inv, tokens # <<>>
  PROVE  /\ Gives(Entry, Expression(Entry)) /\ Gives(Entry, VarDeclaration(Entry))
         /\ Gives(Entry, Block(Entry)) /\ Gives(Entry, FunctionDeclaration(Entry))
<1>1. IsProgram(tokens) /\ Result(Entry) /\ Entry.ok
  BY EntryIsResult
<1> QED
  BY <1>1, ExpressionGives, VarDeclarationGives, BlockGives, FunctionDeclarationGives

\* A call by the client, the creation of the parser, and any step, keep the invariant.
LEMMA NextStep ==
  ASSUME Inv, Next
  PROVE  /\ Inv'
         /\ returned' = returned => had_error'
         /\ had_error => had_error'
         /\ current' \in current .. Len(tokens) - 1
         /\ returned' # returned => current < current'
<1>1. CASE ParseExpression
  BY <1>1, EntriesGive, CallStep DEF ParseExpression
<1>2. CASE ParseVarDeclaration
  BY <1>2, EntriesGive, CallStep DEF ParseVarDeclaration
<1>3. CASE ParseBlock
  BY <1>3, EntriesGive, CallStep DEF ParseBlock
<1>4. CASE ParseFunctionDeclaration
  BY <1>4, EntriesGive, CallStep DEF ParseFunctionDeclaration
<1> QED
  BY <1>1, <1>2, <1>3, <1>4 DEF Next

LEMMA CreateStep ==
  ASSUME Inv, IsProgram(tokens'), CreateParser(tokens')
  PROVE  Inv' /\ tokens = <<>>
<1>1. /\ tokens = <<>> /\ current' = 0 /\ live' = live /\ returned' = returned
      /\ had_error' \in BOOLEAN
  BY DEF CreateParser
<1>2. IsProgram(tokens)' /\ Len(tokens') \in Nat /\ tokens' # <<>> /\ Len(tokens') # 0
  BY DEF IsProgram
<1> QED
  BY <1>1, <1>2 DEF Inv

LEMMA Step == Inv /\ [ParserNext]_vars => Inv'
<1> SUFFICES ASSUME Inv, [ParserNext]_vars PROVE Inv'
  OBVIOUS
<1>1. CASE IsProgram(tokens') /\ CreateParser(tokens')
  BY <1>1, CreateStep
<1>2. CASE Next
  BY <1>2, NextStep
<1>3. CASE UNCHANGED vars
  BY <1>3 DEF vars, Inv, IsProgram
<1> QED
  BY <1>1, <1>2, <1>3 DEF ParserNext

LEMMA AlwaysInv == ParserSpec => []Inv
BY InitInv, Step, PTL DEF ParserSpec

(***************************************************************************)
(* Whatever the tokens are and whichever functions are called over them,   *)
(* every node in memory belongs to a tree that the caller was given: each  *)
(* error path of parse_* frees what was built before the error, once.      *)
(***************************************************************************)
THEOREM NodesAreFreed == ParserSpec => []NoNodeIsLost
<1>1. Inv => NoNodeIsLost
  BY DEF Inv, NoNodeIsLost, Nodes
<1> QED
  BY <1>1, AlwaysInv, PTL

(***************************************************************************)
(* Whatever the tokens are, a call that returns no node has reported an    *)
(* error, no error is taken back, and a call that returns a node has read  *)
(* on, but never past the end-of-file token.                               *)
(***************************************************************************)
THEOREM FailuresAreReported == ParserSpec => FailureIsReported
<1> DEFINE Reported ==
      tokens # <<>> => /\ returned' = returned => had_error'
                       /\ had_error => had_error'
                       /\ current' \in current .. Len(tokens) - 1
                       /\ returned' # returned => current' > current
<1>1. Inv /\ [ParserNext]_vars => [Reported]_vars
  <2> SUFFICES ASSUME Inv, ParserNext PROVE Reported
    OBVIOUS
  <2>1. CASE IsProgram(tokens') /\ CreateParser(tokens')
    BY <2>1, CreateStep
  <2>2. CASE Next
    <3>1. /\ returned' = returned => had_error'
          /\ had_error => had_error'
          /\ current' \in current .. Len(tokens) - 1
          /\ returned' # returned => current < current'
      BY <2>2, NextStep
    <3>2. tokens # <<>> => current' \in Int /\ current \in Int
      BY <3>1 DEF Inv, IsProgram
    <3> QED
      BY <3>1, <3>2
  <2> QED
    BY <2>1, <2>2 DEF ParserNext
<1>2. Inv /\ [ParserNext]_vars => [
        tokens # <<>> =>
          /\ returned' = returned => had_error'
          /\ had_error => had_error'
          /\ current' \in current .. Len(tokens) - 1
          /\ returned' # returned => current' > current ]_vars
  BY <1>1
<1> QED
  BY <1>2, AlwaysInv, PTL DEF ParserSpec, FailureIsReported
=============================================================================
