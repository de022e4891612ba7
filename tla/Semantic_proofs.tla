--------------------------- MODULE Semantic_proofs ---------------------------
(***************************************************************************)
(* Theorems about Semantic, for any statements and any depth of nesting.   *)
(*                                                                         *)
(* What is true of the frames, the tables and the two global variables is  *)
(* stated of any values of them, so that a step that closes one construct  *)
(* and opens two others is the composition of what each does.              *)
(***************************************************************************)
EXTENDS Semantic, FiniteSetTheorems, SequenceTheorems, TLAPS

IsSeq(s) == \E S : s \in Seq(S)

IsScopes(sc) == IsSeq(sc) /\ \A k \in DOMAIN sc : IsSeq(sc[k])

Kinds == {"function", "for", "block", "while", "switch", "if", "else"}

\* The frames below the n-th of the given kinds.
Count(f, K, n) == Cardinality({j \in DOMAIN f : f[j].kind \in K /\ j < n})

\* The tables that were open when the n-th construct was entered.
Opened(f, n) ==
  1 + Count(f, {"block", "while", "switch"}, n) + 2 * Count(f, {"function", "for"}, n)

\* The type of the symbol that stands for the function of the k-th frame.
ResultType(f, sc, k) == sc[Opened(f, k)][Len(sc[Opened(f, k)])].type

\* t is the type of the innermost function below the n-th frame.
Encloses(f, sc, t, n) ==
  /\ (\A k \in 1..(n - 1) : f[k].kind # "function") => t = NoType
  /\ \A k \in 1..(n - 1) :
       /\ f[k].kind = "function"
       /\ \A j \in (k + 1)..(n - 1) : f[j].kind # "function"
       => t = ResultType(f, sc, k)

\* Every function frame keeps the type of the function around it.
Chain(f, sc, n) ==
  \A k \in 1..n : f[k].kind = "function" => Encloses(f, sc, f[k].saved, k)

Nested(f, sc, ld, rt) ==
  /\ IsSeq(f) /\ IsScopes(sc)
  /\ \A k \in DOMAIN f : f[k].kind \in Kinds
  /\ Len(f) > 0 /\ f[1].kind = "block"
  /\ ld = Count(f, Loop, Len(f) + 1)
  /\ Len(sc) = Opened(f, Len(f) + 1)
  /\ Encloses(f, sc, rt, Len(f) + 1)
  /\ Chain(f, sc, Len(f))

-----------------------------------------------------------------------------
(***************************************************************************)
(* Sequences of whatever elements.                                         *)
(***************************************************************************)
LEMMA SeqFacts ==
  ASSUME NEW s, IsSeq(s)
  PROVE  Len(s) \in Nat /\ DOMAIN s = 1..Len(s)
BY DEF IsSeq

LEMMA AppendFacts ==
  ASSUME NEW s, IsSeq(s), NEW x
  PROVE  /\ IsSeq(Append(s, x))
         /\ Len(Append(s, x)) = Len(s) + 1
         /\ \A k \in 1..Len(s) : Append(s, x)[k] = s[k]
         /\ Append(s, x)[Len(s) + 1] = x
<1>1. PICK S : s \in Seq(S)
  BY DEF IsSeq
<1> DEFINE T == S \cup {x}
<1>2. s \in Seq(T) /\ x \in T
  BY <1>1
<1> HIDE DEF T
<1> QED
  BY <1>2 DEF IsSeq

LEMMA PrefixFacts ==
  ASSUME NEW s, IsSeq(s), NEW n \in 0..Len(s)
  PROVE  /\ IsSeq(SubSeq(s, 1, n))
         /\ Len(SubSeq(s, 1, n)) = n
         /\ \A k \in 1..n : SubSeq(s, 1, n)[k] = s[k]
<1>1. PICK S : s \in Seq(S)
  BY DEF IsSeq
<1>2. n \in Int /\ n >= 0 /\ \A k \in 1..n : s[k] \in S
  BY <1>1
<1>3. /\ SubSeq(s, 1, n) \in Seq(S)
      /\ Len(SubSeq(s, 1, n)) = IF 1 <= n THEN n - 1 + 1 ELSE 0
      /\ \A k \in 1..(n - 1 + 1) : SubSeq(s, 1, n)[k] = s[1 + k - 1]
  BY <1>2, SubSeqProperties
<1> QED
  BY <1>2, <1>3 DEF IsSeq

\* Appending two is appending one and then the other.
LEMMA TwoAppended ==
  ASSUME NEW s, IsSeq(s), NEW x, NEW y
  PROVE  s \o <<x>> = Append(s, x) /\ s \o <<x, y>> = Append(Append(s, x), y)
<1>1. PICK S : s \in Seq(S)
  BY DEF IsSeq
<1> DEFINE T == S \cup {x, y}
<1>2. s \in Seq(T) /\ x \in T /\ y \in T
  BY <1>1
<1> HIDE DEF T
<1> QED
  BY <1>2

-----------------------------------------------------------------------------
(***************************************************************************)
(* Counting frames.                                                        *)
(***************************************************************************)
LEMMA CountFinite ==
  ASSUME NEW f, IsSeq(f), NEW K, NEW n
  PROVE  IsFiniteSet({j \in DOMAIN f : f[j].kind \in K /\ j < n})
<1> DEFINE A == {j \in DOMAIN f : f[j].kind \in K /\ j < n}
<1>1. IsFiniteSet(DOMAIN f)
  BY SeqFacts, FS_Interval
<1>2. A \subseteq DOMAIN f
  OBVIOUS
<1> HIDE DEF A
<1>3. IsFiniteSet(A)
  BY <1>1, <1>2, FS_Subset
<1> QED
  BY <1>3 DEF A

LEMMA CountType ==
  ASSUME NEW f, IsSeq(f), NEW K, NEW n
  PROVE  Count(f, K, n) \in Nat
<1> DEFINE A == {j \in DOMAIN f : f[j].kind \in K /\ j < n}
<1>1. IsFiniteSet(A)
  BY CountFinite
<1> HIDE DEF A
<1>2. Cardinality(A) \in Nat
  BY <1>1, FS_CardinalityType
<1> QED
  BY <1>2 DEF Count, A

LEMMA CountStep ==
  ASSUME NEW f, IsSeq(f), NEW K, NEW n \in 1..Len(f)
  PROVE  Count(f, K, n + 1) = IF f[n].kind \in K THEN Count(f, K, n) + 1 ELSE Count(f, K, n)
<1> DEFINE A == {j \in DOMAIN f : f[j].kind \in K /\ j < n}
           B == {j \in DOMAIN f : f[j].kind \in K /\ j < n + 1}
<1>1. Len(f) \in Nat /\ DOMAIN f = 1..Len(f)
  BY SeqFacts
<1>2. IsFiniteSet(A)
  BY CountFinite
<1>5. n \notin A
  BY <1>1
<1>3. CASE f[n].kind \in K
  <2>1. B = A \cup {n}
    BY <1>1, <1>3
  <2> HIDE DEF A, B
  <2>2. Cardinality(B) = Cardinality(A) + 1
    BY <1>2, <1>5, <2>1, FS_AddElement
  <2> QED
    BY <1>3, <2>2 DEF Count, A, B
<1>4. CASE f[n].kind \notin K
  <2>1. B = A
    BY <1>1, <1>4
  <2> QED
    BY <1>4, <2>1 DEF Count
<1> QED
  BY <1>3, <1>4

LEMMA CountGrows ==
  ASSUME NEW f, IsSeq(f), NEW K, NEW m \in Nat, NEW n \in Nat, m <= n
  PROVE  Count(f, K, m) <= Count(f, K, n)
<1> DEFINE A == {j \in DOMAIN f : f[j].kind \in K /\ j < m}
           B == {j \in DOMAIN f : f[j].kind \in K /\ j < n}
<1>1. IsFiniteSet(B)
  BY CountFinite
<1>3. A \subseteq B
  BY SeqFacts
<1> HIDE DEF A, B
<1>2. Cardinality(A) <= Cardinality(B)
  BY <1>1, <1>3, FS_Subset
<1> QED
  BY <1>2 DEF Count, A, B

\* f and g begin with the same n frames.
SameFrames(f, g, n) ==
  /\ IsSeq(f) /\ IsSeq(g) /\ n \in 0..Len(f) /\ n \in 0..Len(g)
  /\ \A k \in 1..n : f[k] = g[k]

LEMMA CountSame ==
  ASSUME NEW f, NEW g, NEW n, SameFrames(f, g, n), NEW K, NEW m \in 1..(n + 1)
  PROVE  Count(f, K, m) = Count(g, K, m)
<1>1. /\ Len(f) \in Nat /\ DOMAIN f = 1..Len(f)
      /\ Len(g) \in Nat /\ DOMAIN g = 1..Len(g)
  BY SeqFacts DEF SameFrames
<1>2. {j \in DOMAIN f : f[j].kind \in K /\ j < m} = {j \in DOMAIN g : g[j].kind \in K /\ j < m}
  <2>1. ASSUME NEW j, j < m, m \in 1..(n + 1), j \in 1..Len(f) \/ j \in 1..Len(g)
        PROVE  j \in 1..Len(f) /\ j \in 1..Len(g) /\ f[j] = g[j]
    BY <1>1, <2>1 DEF SameFrames
  <2> QED
    BY <1>1, <2>1
<1> QED
  BY <1>2 DEF Count

LEMMA OpenedFacts ==
  ASSUME NEW f, IsSeq(f), \A k \in DOMAIN f : f[k].kind \in Kinds
  PROVE  /\ \A n \in Nat : Opened(f, n) \in Nat /\ Opened(f, n) >= 1
         /\ \A n \in 1..Len(f) : Opened(f, n + 1) = Opened(f, n) + OpenScopes(f[n].kind)
         /\ \A m, n \in Nat : m <= n => Opened(f, m) <= Opened(f, n)
<1>1. ASSUME NEW n \in Nat PROVE Opened(f, n) \in Nat /\ Opened(f, n) >= 1
  BY CountType DEF Opened
<1>2. ASSUME NEW n \in 1..Len(f)
      PROVE  Opened(f, n + 1) = Opened(f, n) + OpenScopes(f[n].kind)
  <2>1. f[n].kind \in Kinds
    BY SeqFacts
  <2> DEFINE c(m) == Count(f, {"block", "while", "switch"}, m)
             d(m) == Count(f, {"function", "for"}, m)
  <2>4. /\ c(n) \in Nat /\ d(n) \in Nat
        /\ c(n + 1) = IF f[n].kind \in {"block", "while", "switch"} THEN c(n) + 1 ELSE c(n)
        /\ d(n + 1) = IF f[n].kind \in {"function", "for"} THEN d(n) + 1 ELSE d(n)
    BY CountType, CountStep
  <2>5. /\ Opened(f, n) = 1 + c(n) + 2 * d(n)
        /\ Opened(f, n + 1) = 1 + c(n + 1) + 2 * d(n + 1)
    BY DEF Opened
  <2> HIDE DEF c, d
  <2>6. CASE f[n].kind \in {"block", "while", "switch"}
    <3>1. OpenScopes(f[n].kind) = 1
      BY <2>6 DEF OpenScopes
    <3>2. c(n + 1) = c(n) + 1 /\ d(n + 1) = d(n) + 0
      BY <2>4, <2>6
    <3> QED
      BY <2>4, <2>5, <3>1, <3>2
  <2>7. CASE f[n].kind \in {"function", "for"}
    <3>1. OpenScopes(f[n].kind) = 2
      BY <2>7 DEF OpenScopes
    <3>2. c(n + 1) = c(n) + 0 /\ d(n + 1) = d(n) + 1
      BY <2>4, <2>7
    <3> QED
      BY <2>4, <2>5, <3>1, <3>2
  <2>8. CASE f[n].kind \in {"if", "else"}
    <3>1. OpenScopes(f[n].kind) = 0
      BY <2>8 DEF OpenScopes
    <3>2. c(n + 1) = c(n) + 0 /\ d(n + 1) = d(n) + 0
      BY <2>4, <2>8
    <3> QED
      BY <2>4, <2>5, <3>1, <3>2
  <2> QED
    BY <2>1, <2>6, <2>7, <2>8 DEF Kinds
<1>3. ASSUME NEW m \in Nat, NEW n \in Nat, m <= n PROVE Opened(f, m) <= Opened(f, n)
  <2> DEFINE c(i) == Count(f, {"block", "while", "switch"}, i)
             d(i) == Count(f, {"function", "for"}, i)
  <2>1. c(m) \in Nat /\ c(n) \in Nat /\ d(m) \in Nat /\ d(n) \in Nat
    BY CountType
  <2>2. c(m) <= c(n) /\ d(m) <= d(n)
    BY <1>3, CountGrows
  <2>3. Opened(f, m) = 1 + c(m) + 2 * d(m) /\ Opened(f, n) = 1 + c(n) + 2 * d(n)
    BY DEF Opened
  <2> HIDE DEF c, d
  <2> QED
    BY <2>1, <2>2, <2>3
<1> QED
  BY <1>1, <1>2, <1>3

LEMMA OpenedSame ==
  ASSUME NEW f, NEW g, NEW n, SameFrames(f, g, n), NEW m \in 1..(n + 1)
  PROVE  Opened(f, m) = Opened(g, m)
BY CountSame DEF Opened

\* The tables of a function are above the one that holds its symbol.
LEMMA FunctionBelow ==
  ASSUME NEW f, IsSeq(f), \A k \in DOMAIN f : f[k].kind \in Kinds,
         NEW k \in 1..Len(f), f[k].kind = "function", NEW n \in Nat, k < n
  PROVE  Opened(f, k) \in 1..(Opened(f, n) - 2)
<1>1. k \in Nat /\ k + 1 \in Nat /\ k + 1 <= n
  BY SeqFacts
<1>2. Opened(f, k + 1) = Opened(f, k) + 2
  BY OpenedFacts DEF OpenScopes
<1>3. /\ Opened(f, k) \in Nat /\ Opened(f, k) >= 1 /\ Opened(f, n) \in Nat
      /\ Opened(f, k + 1) <= Opened(f, n)
  BY <1>1, OpenedFacts
<1> QED
  BY <1>2, <1>3

\* The tables that the n-th frame was entered with, without the last two, are
\* enough to tell the innermost function.
LEMMA EnclosingKept ==
  ASSUME NEW f, NEW g, NEW n, SameFrames(f, g, n),
         \A k \in DOMAIN f : f[k].kind \in Kinds,
         NEW m \in 1..(n + 1), NEW sc, NEW sd,
         \A k \in 1..(Opened(f, m) - 2) : sc[k] = sd[k],
         NEW t, Encloses(f, sc, t, m)
  PROVE  Encloses(g, sd, t, m)
<1>1. /\ IsSeq(f) /\ Len(f) \in Nat /\ n \in Nat /\ n <= Len(f)
      /\ \A k \in 1..n : f[k] = g[k]
  BY SeqFacts DEF SameFrames
<1>2. \A k \in 1..(m - 1) : f[k] = g[k] /\ k \in 1..Len(f) /\ k \in 1..(n + 1) /\ k < m
  BY <1>1
<1>3. ASSUME NEW k \in 1..(m - 1), f[k].kind = "function"
      PROVE  ResultType(f, sc, k) = ResultType(g, sd, k)
  <2>1. m \in Nat
    BY <1>1
  <2>2. Opened(f, k) \in 1..(Opened(f, m) - 2)
    BY <1>1, <1>2, <1>3, <2>1, FunctionBelow
  <2>3. Opened(f, k) = Opened(g, k)
    BY <1>2, OpenedSame
  <2> QED
    BY <2>2, <2>3 DEF ResultType
<1>4. (\A k \in 1..(m - 1) : g[k].kind # "function") => t = NoType
  BY <1>2 DEF Encloses
<1>5. ASSUME NEW k \in 1..(m - 1), g[k].kind = "function",
             \A j \in (k + 1)..(m - 1) : g[j].kind # "function"
      PROVE  t = ResultType(g, sd, k)
  <2>1. \A j \in (k + 1)..(m - 1) : j \in 1..(m - 1)
    BY <1>1
  <2>2. f[k].kind = "function" /\ \A j \in (k + 1)..(m - 1) : f[j].kind # "function"
    BY <1>2, <1>5, <2>1
  <2>3. t = ResultType(f, sc, k)
    BY <2>2 DEF Encloses
  <2> QED
    BY <1>3, <2>2, <2>3
<1> QED
  BY <1>4, <1>5 DEF Encloses

LEMMA ChainKept ==
  ASSUME NEW f, NEW g, NEW n, SameFrames(f, g, n),
         \A k \in DOMAIN f : f[k].kind \in Kinds,
         NEW sc, NEW sd, \A k \in 1..(Opened(f, n + 1) - 2) : sc[k] = sd[k],
         NEW m, Chain(f, sc, m), m \in Nat, n <= m
  PROVE  Chain(g, sd, n)
<1> SUFFICES ASSUME NEW k \in 1..n, g[k].kind = "function"
             PROVE  Encloses(g, sd, g[k].saved, k)
  BY DEF Chain
<1>1. /\ IsSeq(f) /\ n \in Nat /\ k \in 1..m /\ k \in 1..(n + 1)
      /\ k \in Nat /\ n + 1 \in Nat /\ k <= n + 1 /\ f[k] = g[k]
  BY SeqFacts DEF SameFrames
<1>2. Encloses(f, sc, g[k].saved, k)
  BY <1>1 DEF Chain
<1>3. Opened(f, k) \in Nat /\ Opened(f, n + 1) \in Nat /\ Opened(f, k) <= Opened(f, n + 1)
  BY <1>1, OpenedFacts
<1>4. \A j \in 1..(Opened(f, k) - 2) : sc[j] = sd[j]
  BY <1>3
<1> QED
  BY <1>1, <1>2, <1>4, EnclosingKept

\* What is not a function does not change which function is the innermost.
LEMMA EnclosingSkips ==
  ASSUME NEW f, NEW n \in Nat \ {0}, f[n].kind # "function", NEW sc, NEW t
  PROVE  Encloses(f, sc, t, n) <=> Encloses(f, sc, t, n + 1)
<1>1. /\ \A k \in 1..(n - 1) : k \in 1..((n + 1) - 1)
      /\ \A k \in 1..((n + 1) - 1) : k \in 1..(n - 1) \/ k = n
  OBVIOUS
<1>2. \A k \in 1..(n - 1) : /\ \A j \in (k + 1)..(n - 1) : j \in (k + 1)..((n + 1) - 1)
                            /\ \A j \in (k + 1)..((n + 1) - 1) : j \in (k + 1)..(n - 1) \/ j = n
  OBVIOUS
<1>3. ASSUME Encloses(f, sc, t, n) PROVE Encloses(f, sc, t, n + 1)
  BY <1>1, <1>2, <1>3 DEF Encloses
<1>4. ASSUME Encloses(f, sc, t, n + 1) PROVE Encloses(f, sc, t, n)
  BY <1>1, <1>2, <1>4 DEF Encloses
<1> QED
  BY <1>3, <1>4

-----------------------------------------------------------------------------
(***************************************************************************)
(* Opening and closing constructs.                                         *)
(***************************************************************************)
\* sd has the first n tables of sc.
SameTables(sc, sd, n) == \A k \in 1..n : sc[k] = sd[k]

LEMMA NestedFacts ==
  ASSUME NEW f, NEW sc, NEW ld, NEW rt, Nested(f, sc, ld, rt)
  PROVE  /\ IsSeq(f) /\ Len(f) \in Nat \ {0} /\ DOMAIN f = 1..Len(f)
         /\ IsScopes(sc) /\ Len(sc) \in Nat \ {0} /\ DOMAIN sc = 1..Len(sc)
         /\ Len(sc) = Opened(f, Len(f) + 1)
<1>1. /\ IsSeq(f) /\ Len(f) \in Nat \ {0} /\ DOMAIN f = 1..Len(f)
      /\ IsScopes(sc) /\ Len(sc) = Opened(f, Len(f) + 1)
      /\ \A k \in DOMAIN f : f[k].kind \in Kinds
  BY SeqFacts DEF Nested
<1>2. Len(sc) \in Nat /\ DOMAIN sc = 1..Len(sc)
  BY <1>1, SeqFacts DEF IsScopes
<1>3. Opened(f, Len(f) + 1) >= 1
  BY <1>1, OpenedFacts
<1> QED
  BY <1>1, <1>2, <1>3

\* A declaration changes only the last table.
LEMMA NestedDeclares ==
  ASSUME NEW f, NEW sc, NEW ld, NEW rt, Nested(f, sc, ld, rt),
         NEW sd, IsScopes(sd), Len(sd) = Len(sc), SameTables(sc, sd, Len(sc) - 1)
  PROVE  Nested(f, sd, ld, rt)
<1>1. /\ IsSeq(f) /\ Len(f) \in Nat /\ Len(sc) \in Nat /\ Len(sc) = Opened(f, Len(f) + 1)
      /\ \A k \in DOMAIN f : f[k].kind \in Kinds
  BY NestedFacts DEF Nested
<1>2. SameFrames(f, f, Len(f))
  BY <1>1 DEF SameFrames
<1>3. \A k \in 1..(Opened(f, Len(f) + 1) - 2) : sc[k] = sd[k]
  BY <1>1 DEF SameTables
<1>4. Encloses(f, sc, rt, Len(f) + 1) /\ Chain(f, sc, Len(f)) /\ Len(f) + 1 \in 1..(Len(f) + 1)
  BY <1>1 DEF Nested
<1>5. Encloses(f, sd, rt, Len(f) + 1)
  BY <1>1, <1>2, <1>3, <1>4, EnclosingKept
<1>6. Chain(f, sd, Len(f))
  BY <1>1, <1>2, <1>3, <1>4, ChainKept
<1> QED
  BY <1>5, <1>6 DEF Nested

\* g has one frame more than f.
PushedOn(f, fr, g) ==
  /\ IsSeq(g) /\ Len(g) = Len(f) + 1 /\ g[Len(f) + 1] = fr
  /\ \A k \in 1..Len(f) : g[k] = f[k]

\* What every push does to the frames and the number of tables.
LEMMA PushedFrame ==
  ASSUME NEW f, NEW sc, NEW ld, NEW rt, Nested(f, sc, ld, rt),
         NEW fr, fr.kind \in Kinds, NEW g, PushedOn(f, fr, g)
  PROVE  /\ SameFrames(f, g, Len(f)) /\ Len(g) = Len(f) + 1 /\ g[Len(f) + 1] = fr
         /\ \A k \in DOMAIN g : g[k].kind \in Kinds
         /\ g[1].kind = "block"
         /\ Opened(g, Len(f) + 1) = Len(sc)
         /\ Opened(g, Len(g) + 1) = Len(sc) + OpenScopes(fr.kind)
         /\ Count(g, Loop, Len(g) + 1) = IF fr.kind \in Loop THEN ld + 1 ELSE ld
<1>1. /\ IsSeq(f) /\ Len(f) \in Nat \ {0} /\ DOMAIN f = 1..Len(f)
      /\ \A k \in DOMAIN f : f[k].kind \in Kinds
      /\ f[1].kind = "block"
      /\ Len(sc) = Opened(f, Len(f) + 1) /\ ld = Count(f, Loop, Len(f) + 1)
  BY NestedFacts DEF Nested
<1>2. /\ IsSeq(g) /\ Len(g) = Len(f) + 1 /\ g[Len(f) + 1] = fr
      /\ \A k \in 1..Len(f) : g[k] = f[k]
  BY DEF PushedOn
<1>3. SameFrames(f, g, Len(f))
  BY <1>1, <1>2 DEF SameFrames
<1>4. DOMAIN g = 1..Len(g)
  BY <1>2, SeqFacts
<1>5. \A k \in DOMAIN g : g[k].kind \in Kinds
  BY <1>1, <1>2, <1>4
<1>6. Len(f) + 1 \in 1..(Len(f) + 1) /\ Len(f) + 1 \in 1..Len(g)
  BY <1>1, <1>2
<1>7. Opened(g, Len(f) + 1) = Len(sc)
  BY <1>1, <1>3, <1>6, OpenedSame
<1>8. Opened(g, Len(g) + 1) = Opened(g, Len(f) + 1) + OpenScopes(fr.kind)
  BY <1>2, <1>5, <1>6, OpenedFacts
<1>9. Count(g, Loop, Len(f) + 1) = ld
  BY <1>1, <1>3, <1>6, CountSame
<1>10. Count(g, Loop, Len(g) + 1) = IF fr.kind \in Loop THEN ld + 1 ELSE ld
  <2> DEFINE m == Len(f) + 1
  <2>1. IsSeq(g) /\ m \in 1..Len(g) /\ g[m].kind = fr.kind /\ Len(g) + 1 = m + 1
    BY <1>2, <1>6
  <2>2. Count(g, Loop, m) = ld
    BY <1>9
  <2> HIDE DEF m
  <2>3. Count(g, Loop, m + 1)
          = IF g[m].kind \in Loop THEN Count(g, Loop, m) + 1 ELSE Count(g, Loop, m)
    BY <2>1, CountStep
  <2>4. CASE fr.kind \in Loop
    BY <2>1, <2>2, <2>3, <2>4
  <2>5. CASE fr.kind \notin Loop
    BY <2>1, <2>2, <2>3, <2>5
  <2> QED
    BY <2>4, <2>5
<1> QED
  BY <1>1, <1>2, <1>3, <1>5, <1>7, <1>8, <1>10

LEMMA NestedOpens ==
  ASSUME NEW f, NEW sc, NEW ld, NEW rt, Nested(f, sc, ld, rt),
         NEW fr, fr.kind \in Kinds \ {"function"}, NEW g, PushedOn(f, fr, g),
         NEW sd, IsScopes(sd), Len(sd) = Len(sc) + OpenScopes(fr.kind),
         SameTables(sc, sd, Len(sc))
  PROVE  Nested(g, sd, IF fr.kind \in Loop THEN ld + 1 ELSE ld, rt)
<1> SUFFICES ASSUME NEW n, n = Len(f)
             PROVE  Nested(g, sd, IF fr.kind \in Loop THEN ld + 1 ELSE ld, rt)
  OBVIOUS
<1>1. /\ IsSeq(f) /\ n \in Nat \ {0} /\ Len(sc) \in Nat /\ Len(sc) = Opened(f, n + 1)
      /\ \A k \in DOMAIN f : f[k].kind \in Kinds
      /\ Encloses(f, sc, rt, n + 1) /\ Chain(f, sc, n)
  BY NestedFacts DEF Nested
<1>2. /\ SameFrames(f, g, n) /\ Len(g) = n + 1 /\ g[n + 1] = fr
      /\ \A k \in DOMAIN g : g[k].kind \in Kinds
      /\ g[1].kind = "block"
      /\ Opened(g, Len(g) + 1) = Len(sc) + OpenScopes(fr.kind)
      /\ Count(g, Loop, Len(g) + 1) = IF fr.kind \in Loop THEN ld + 1 ELSE ld
  <2>1. fr.kind \in Kinds
    BY DEF Kinds
  <2> QED
    BY <2>1, PushedFrame
<1>3. IsSeq(g)
  BY <1>2 DEF SameFrames
<1>4. \A k \in 1..(Opened(f, n + 1) - 2) : sc[k] = sd[k]
  BY <1>1 DEF SameTables
<1>5. Encloses(g, sd, rt, n + 1)
  <2>1. n + 1 \in 1..(n + 1)
    BY <1>1
  <2> QED
    BY <1>1, <1>2, <1>4, <2>1, EnclosingKept
<1>6. Encloses(g, sd, rt, Len(g) + 1)
  BY <1>1, <1>2, <1>5, EnclosingSkips
<1>7. Chain(g, sd, n)
  <2>1. n \in Nat /\ n <= n
    BY <1>1
  <2> QED
    BY <1>1, <1>2, <1>4, <2>1, ChainKept
<1>8. Chain(g, sd, Len(g))
  <2>1. \A k \in 1..Len(g) : k \in 1..n \/ k = n + 1
    BY <1>1, <1>2
  <2> QED
    BY <1>2, <1>7, <2>1 DEF Chain
<1>9. Len(g) > 0
  BY <1>1, <1>2
<1> QED
  BY <1>2, <1>3, <1>6, <1>8, <1>9 DEF Nested

\* The symbol of the function is the last of the last table.
LEMMA NestedEntersFunction ==
  ASSUME NEW f, NEW sc, NEW ld, NEW rt, Nested(f, sc, ld, rt),
         NEW fr, fr.kind = "function", fr.saved = rt, NEW g, PushedOn(f, fr, g),
         NEW sd, IsScopes(sd), Len(sd) = Len(sc) + 2, SameTables(sc, sd, Len(sc) - 1),
         NEW t, t = sd[Len(sc)][Len(sd[Len(sc)])].type
  PROVE  Nested(g, sd, ld, t)
<1> SUFFICES ASSUME NEW n, n = Len(f)
             PROVE  Nested(g, sd, ld, t)
  OBVIOUS
<1>1. /\ IsSeq(f) /\ n \in Nat \ {0} /\ Len(sc) \in Nat /\ Len(sc) = Opened(f, n + 1)
      /\ \A k \in DOMAIN f : f[k].kind \in Kinds
      /\ Encloses(f, sc, rt, n + 1) /\ Chain(f, sc, n)
  BY NestedFacts DEF Nested
<1>2. /\ SameFrames(f, g, n) /\ Len(g) = n + 1 /\ g[n + 1] = fr
      /\ \A k \in DOMAIN g : g[k].kind \in Kinds
      /\ g[1].kind = "block"
      /\ Opened(g, n + 1) = Len(sc)
      /\ Opened(g, Len(g) + 1) = Len(sc) + OpenScopes(fr.kind)
      /\ Count(g, Loop, Len(g) + 1) = IF fr.kind \in Loop THEN ld + 1 ELSE ld
  <2>1. fr.kind \in Kinds
    BY DEF Kinds
  <2> QED
    BY <2>1, PushedFrame
<1>3. IsSeq(g) /\ Len(g) > 0
  BY <1>1, <1>2 DEF SameFrames
<1>4. \A k \in 1..(Opened(f, n + 1) - 2) : sc[k] = sd[k]
  BY <1>1 DEF SameTables
<1>5. Encloses(g, sd, rt, n + 1)
  <2>1. n + 1 \in 1..(n + 1)
    BY <1>1
  <2> QED
    BY <1>1, <1>2, <1>4, <2>1, EnclosingKept
<1>6. Encloses(g, sd, t, Len(g) + 1)
  <2>1. n + 1 \in 1..((Len(g) + 1) - 1) /\ g[n + 1].kind = "function"
    BY <1>1, <1>2
  <2>2. ASSUME NEW k \in 1..((Len(g) + 1) - 1), g[k].kind = "function",
               \A j \in (k + 1)..((Len(g) + 1) - 1) : g[j].kind # "function"
        PROVE  t = ResultType(g, sd, k)
    <3>1. k = n + 1
      BY <1>1, <1>2, <2>1, <2>2
    <3> QED
      BY <1>2, <3>1 DEF ResultType
  <2> QED
    BY <2>1, <2>2 DEF Encloses
<1>7. Chain(g, sd, n)
  <2>1. n \in Nat /\ n <= n
    BY <1>1
  <2> QED
    BY <1>1, <1>2, <1>4, <2>1, ChainKept
<1>8. Chain(g, sd, Len(g))
  <2>1. \A k \in 1..Len(g) : k \in 1..n \/ k = n + 1
    BY <1>1, <1>2
  <2> QED
    BY <1>2, <1>5, <1>7, <2>1 DEF Chain
<1>9. OpenScopes(fr.kind) = 2 /\ fr.kind \notin Loop
  BY DEF OpenScopes, Loop
<1> QED
  BY <1>2, <1>3, <1>6, <1>8, <1>9 DEF Nested

LEMMA NestedCloses ==
  ASSUME NEW f, NEW sc, NEW ld, NEW rt, Nested(f, sc, ld, rt), Len(f) > 1,
         NEW fr, fr = f[Len(f)],
         NEW sd, IsScopes(sd), Len(sd) = Len(sc) - OpenScopes(fr.kind),
         SameTables(sc, sd, Len(sd))
  PROVE  Nested(SubSeq(f, 1, Len(f) - 1), sd,
                IF fr.kind \in Loop THEN ld - 1 ELSE ld,
                IF fr.kind = "function" THEN fr.saved ELSE rt)
<1> DEFINE g == SubSeq(f, 1, Len(f) - 1)
           n == Len(f)
           t == IF fr.kind = "function" THEN fr.saved ELSE rt
<1>1. /\ IsSeq(f) /\ n \in Nat \ {0} /\ n > 1 /\ Len(sc) = Opened(f, n + 1)
      /\ \A k \in DOMAIN f : f[k].kind \in Kinds
      /\ DOMAIN f = 1..n /\ f[1].kind = "block"
      /\ Encloses(f, sc, rt, n + 1) /\ Chain(f, sc, n)
      /\ ld = Count(f, Loop, n + 1)
  BY NestedFacts DEF Nested
<1>2. IsSeq(g) /\ Len(g) = n - 1 /\ \A k \in 1..(n - 1) : g[k] = f[k]
  BY <1>1, PrefixFacts
<1> HIDE DEF g, n
<1>3. SameFrames(f, g, n - 1)
  BY <1>1, <1>2 DEF SameFrames, n
<1>4. /\ DOMAIN g = 1..Len(g) /\ Len(g) > 0 /\ g[1].kind = "block"
      /\ \A k \in DOMAIN g : g[k].kind \in Kinds
  BY <1>1, <1>2, SeqFacts
<1>5. n \in 1..((n - 1) + 1) /\ n \in 1..Len(f) /\ Len(g) + 1 = n /\ n - 1 \in Nat
  BY <1>1, <1>2 DEF n
<1>6. Opened(f, n + 1) = Opened(f, n) + OpenScopes(fr.kind) /\ Opened(f, n) \in Nat
  BY <1>1, <1>5, OpenedFacts DEF n
<1>7. OpenScopes(fr.kind) \in Nat
  BY DEF OpenScopes
<1>8. Len(sd) = Opened(f, n)
  BY <1>1, <1>6, <1>7
<1>9. Opened(g, n) = Opened(f, n) /\ Count(g, Loop, n) = Count(f, Loop, n)
  BY <1>3, <1>5, OpenedSame, CountSame
<1>10. Count(g, Loop, n) = IF fr.kind \in Loop THEN ld - 1 ELSE ld
  <2>1. ld = IF fr.kind \in Loop THEN Count(f, Loop, n) + 1 ELSE Count(f, Loop, n)
    BY <1>1, <1>5, CountStep DEF n
  <2>2. Count(f, Loop, n) \in Nat
    BY <1>1, CountType
  <2> QED
    BY <1>9, <2>1, <2>2
<1>11. \A k \in 1..(Opened(f, n) - 2) : sc[k] = sd[k]
  BY <1>6, <1>8 DEF SameTables
<1>12. Encloses(f, sc, t, n)
  <2>1. CASE fr.kind = "function"
    BY <1>1, <1>5, <2>1 DEF Chain, n
  <2>2. CASE fr.kind # "function"
    BY <1>1, <2>2, EnclosingSkips DEF n
  <2> QED
    BY <2>1, <2>2
<1> HIDE DEF t
<1>13. Encloses(g, sd, t, n)
  BY <1>1, <1>3, <1>5, <1>11, <1>12, EnclosingKept
<1>14. Chain(g, sd, n - 1)
  <2>1. (n - 1) + 1 = n /\ n - 1 <= n /\ n \in Nat
    BY <1>1
  <2>2. \A k \in 1..(Opened(f, (n - 1) + 1) - 2) : sc[k] = sd[k]
    BY <1>11, <2>1
  <2> QED
    BY <1>1, <1>3, <2>1, <2>2, ChainKept
<1> QED
  BY <1>2, <1>4, <1>5, <1>8, <1>9, <1>10, <1>13, <1>14 DEF Nested, g, n, t

-----------------------------------------------------------------------------
(***************************************************************************)
(* Names.                                                                  *)
(***************************************************************************)
Distinct(table) ==
  \A i, j \in DOMAIN table : table[i].name = table[j].name => i = j

\* Names are distinct in every table but those of the parameters.
DistinctIn(f, sc) ==
  \A k \in DOMAIN sc :
    (\A j \in DOMAIN f : f[j].kind = "function" => k # Opened(f, j) + 1) => Distinct(sc[k])

StandsForStruct(symbol) == symbol.node # NoNode /\ symbol.node.kind = "struct"

\* Structs of the same name are in one table.
OneStruct(sc) ==
  \A k, m \in DOMAIN sc : \A i \in DOMAIN sc[k], j \in DOMAIN sc[m] :
    StandsForStruct(sc[k][i]) /\ StandsForStruct(sc[m][j]) /\ sc[k][i].name = sc[m][j].name
      => k = m

Unambiguous(f, sc) == DistinctIn(f, sc) /\ OneStruct(sc)

\* sd is sc with one more symbol in the last table.
DeclaredIn(sc, x, sd) ==
  /\ IsScopes(sd) /\ Len(sd) = Len(sc) /\ SameTables(sc, sd, Len(sc) - 1)
  /\ sd[Len(sc)] = Append(sc[Len(sc)], x)

\* A name that the last table does not have keeps names distinct; that of a
\* struct must be in no table.
LEMMA UnambiguousDeclares ==
  ASSUME NEW f, NEW sc, IsScopes(sc), Len(sc) > 0, Unambiguous(f, sc),
         NEW x, x.name \notin NamesIn(sc[Len(sc)]),
         StandsForStruct(x) => \A k \in DOMAIN sc : x.name \notin NamesIn(sc[k]),
         NEW sd, DeclaredIn(sc, x, sd)
  PROVE  Unambiguous(f, sd)
<1> DEFINE n == Len(sc)
           old == sc[n]
           new == sd[n]
<1>1. /\ n \in Nat \ {0} /\ DOMAIN sc = 1..n /\ DOMAIN sd = 1..n
      /\ \A k \in 1..n : k # n => sd[k] = sc[k]
      /\ n \in DOMAIN sc /\ n \in DOMAIN sd
  <2>1. n \in Nat /\ DOMAIN sc = 1..n /\ DOMAIN sd = 1..Len(sd)
    BY SeqFacts DEF IsScopes, DeclaredIn
  <2>2. Len(sd) = n
    BY DEF DeclaredIn
  <2>3. \A k \in 1..(n - 1) : sd[k] = sc[k]
    BY DEF DeclaredIn, SameTables
  <2> HIDE DEF n
  <2>4. n > 0
    BY DEF n
  <2> QED
    BY <2>1, <2>2, <2>3, <2>4
<1>2. /\ Len(old) \in Nat /\ DOMAIN old = 1..Len(old)
      /\ DOMAIN new = 1..(Len(old) + 1)
      /\ \A i \in DOMAIN old : new[i] = old[i]
      /\ new[Len(old) + 1] = x
  <2>1. IsSeq(old) /\ new = Append(old, x)
    BY <1>1 DEF IsScopes, DeclaredIn
  <2> HIDE DEF old, new
  <2>2. /\ IsSeq(new) /\ Len(new) = Len(old) + 1 /\ new[Len(old) + 1] = x
        /\ \A i \in 1..Len(old) : new[i] = old[i]
    BY <2>1, AppendFacts
  <2> QED
    BY <2>1, <2>2, SeqFacts
<1>3. /\ \A i \in DOMAIN old : old[i].name # x.name
      /\ StandsForStruct(x) => \A k \in 1..n : \A i \in DOMAIN sc[k] : sc[k][i].name # x.name
  BY <1>1 DEF NamesIn
<1> HIDE DEF n, old, new
<1>4. Distinct(old) => Distinct(new)
  <2>1. \A i \in DOMAIN new : i \in DOMAIN old \/ i = Len(old) + 1
    BY <1>2
  <2> QED
    BY <1>2, <1>3, <2>1 DEF Distinct
<1>5. DistinctIn(f, sd)
  <2> SUFFICES ASSUME NEW k \in DOMAIN sd,
                      \A j \in DOMAIN f : f[j].kind = "function" => k # Opened(f, j) + 1
               PROVE  Distinct(sd[k])
    BY DEF DistinctIn
  <2>1. k \in DOMAIN sc /\ Distinct(sc[k])
    BY <1>1 DEF Unambiguous, DistinctIn
  <2>2. CASE k = n
    BY <1>4, <2>1, <2>2 DEF old, new
  <2>3. CASE k # n
    BY <1>1, <2>1, <2>3
  <2> QED
    BY <2>2, <2>3
<1>6. \A k \in DOMAIN sd : \A i \in DOMAIN sd[k] :
        \/ i \in DOMAIN sc[k] /\ sd[k][i] = sc[k][i]
        \/ k = n /\ sd[k][i] = x
  <2> SUFFICES ASSUME NEW k \in DOMAIN sd, NEW i \in DOMAIN sd[k]
               PROVE  \/ i \in DOMAIN sc[k] /\ sd[k][i] = sc[k][i]
                      \/ k = n /\ sd[k][i] = x
    OBVIOUS
  <2>1. CASE k = n
    BY <1>2, <2>1 DEF old, new
  <2>2. CASE k # n
    BY <1>1, <2>2
  <2> QED
    BY <2>1, <2>2
<1>7. OneStruct(sd)
  <2> SUFFICES ASSUME NEW k \in DOMAIN sd, NEW m \in DOMAIN sd,
                      NEW i \in DOMAIN sd[k], NEW j \in DOMAIN sd[m],
                      StandsForStruct(sd[k][i]), StandsForStruct(sd[m][j]),
                      sd[k][i].name = sd[m][j].name, k # m
               PROVE  FALSE
    BY DEF OneStruct
  <2>1. k \in 1..n /\ m \in 1..n
    BY <1>1
  <2>2. CASE /\ i \in DOMAIN sc[k] /\ sd[k][i] = sc[k][i]
             /\ j \in DOMAIN sc[m] /\ sd[m][j] = sc[m][j]
    BY <1>1, <2>1, <2>2 DEF Unambiguous, OneStruct
  <2>3. CASE sd[k][i] = x /\ k = n
    <3>1. j \in DOMAIN sc[m] /\ sd[m][j] = sc[m][j]
      BY <1>6, <2>3
    <3> QED
      BY <1>3, <2>1, <2>3, <3>1
  <2>4. CASE sd[m][j] = x /\ m = n
    <3>1. i \in DOMAIN sc[k] /\ sd[k][i] = sc[k][i]
      BY <1>6, <2>4
    <3> QED
      BY <1>3, <2>1, <2>4, <3>1
  <2> QED
    BY <1>6, <2>2, <2>3, <2>4
<1> QED
  BY <1>5, <1>7 DEF Unambiguous

\* The tables of a construct hold variables only, and only those of the
\* parameters of a function may repeat a name.
FreshTables(n, kind, sd) ==
  \A k \in (n + 1)..Len(sd) :
    /\ \A i \in DOMAIN sd[k] : sd[k][i].node = NoNode
    /\ (kind = "function" /\ k = n + 1) \/ Distinct(sd[k])

LEMMA UnambiguousOpens ==
  ASSUME NEW f, NEW sc, NEW ld, NEW rt, Nested(f, sc, ld, rt), Unambiguous(f, sc),
         NEW fr, fr.kind \in Kinds, NEW g, PushedOn(f, fr, g),
         NEW sd, IsScopes(sd), Len(sd) >= Len(sc),
         SameTables(sc, sd, Len(sc)), FreshTables(Len(sc), fr.kind, sd)
  PROVE  Unambiguous(g, sd)
<1> SUFFICES ASSUME NEW n, n = Len(sc) PROVE Unambiguous(g, sd)
  OBVIOUS
<1>1. /\ n \in Nat \ {0} /\ DOMAIN sc = 1..n
      /\ Len(f) \in Nat /\ DOMAIN f = 1..Len(f)
  BY NestedFacts
<1>2. Len(sd) \in Nat /\ DOMAIN sd = 1..Len(sd) /\ n <= Len(sd)
  BY SeqFacts DEF IsScopes
<1>3. \A k \in 1..n : sd[k] = sc[k]
  BY DEF SameTables
<1>4. \A k \in (n + 1)..Len(sd) :
        /\ \A i \in DOMAIN sd[k] : ~ StandsForStruct(sd[k][i])
        /\ (fr.kind = "function" /\ k = n + 1) \/ Distinct(sd[k])
  BY DEF FreshTables, StandsForStruct
<1>5. \A k \in DOMAIN sd : k \in 1..n \/ k \in (n + 1)..Len(sd)
  BY <1>1, <1>2
<1>6. /\ SameFrames(f, g, Len(f)) /\ Len(g) = Len(f) + 1 /\ g[Len(f) + 1] = fr
      /\ Opened(g, Len(f) + 1) = n
  BY PushedFrame
<1>7. DOMAIN g = 1..(Len(f) + 1) /\ \A j \in 1..Len(f) : g[j] = f[j] /\ j \in 1..(Len(f) + 1)
  BY <1>1, <1>6, SeqFacts DEF SameFrames
<1>8. \A j \in 1..Len(f) : Opened(g, j) = Opened(f, j)
  BY <1>6, <1>7, OpenedSame
<1>9. DistinctIn(g, sd)
  <2> SUFFICES ASSUME NEW k \in DOMAIN sd,
                      \A j \in DOMAIN g : g[j].kind = "function" => k # Opened(g, j) + 1
               PROVE  Distinct(sd[k])
    BY DEF DistinctIn
  <2>1. CASE k \in 1..n
    <3>1. \A j \in DOMAIN f : f[j].kind = "function" => k # Opened(f, j) + 1
      BY <1>1, <1>7, <1>8
    <3> QED
      BY <1>1, <1>3, <2>1, <3>1 DEF Unambiguous, DistinctIn
  <2>2. CASE k \in (n + 1)..Len(sd)
    <3>1. fr.kind = "function" => k # n + 1
      BY <1>1, <1>6, <1>7
    <3> QED
      BY <1>4, <2>2, <3>1
  <2> QED
    BY <1>5, <2>1, <2>2
<1>10. OneStruct(sd)
  <2> SUFFICES ASSUME NEW k \in DOMAIN sd, NEW m \in DOMAIN sd,
                      NEW i \in DOMAIN sd[k], NEW j \in DOMAIN sd[m],
                      StandsForStruct(sd[k][i]), StandsForStruct(sd[m][j]),
                      sd[k][i].name = sd[m][j].name
               PROVE  k = m
    BY DEF OneStruct
  <2>1. k \in 1..n /\ m \in 1..n
    BY <1>4, <1>5
  <2> QED
    BY <1>1, <1>3, <2>1 DEF Unambiguous, OneStruct
<1> QED
  BY <1>9, <1>10 DEF Unambiguous

LEMMA UnambiguousCloses ==
  ASSUME NEW f, NEW sc, NEW ld, NEW rt, Nested(f, sc, ld, rt), Len(f) > 1, Unambiguous(f, sc),
         NEW fr, fr = f[Len(f)],
         NEW sd, IsScopes(sd), Len(sd) = Len(sc) - OpenScopes(fr.kind),
         SameTables(sc, sd, Len(sd))
  PROVE  Unambiguous(SubSeq(f, 1, Len(f) - 1), sd)
<1> SUFFICES ASSUME NEW n, n = Len(f), NEW g, g = SubSeq(f, 1, Len(f) - 1)
             PROVE  Unambiguous(g, sd)
  OBVIOUS
<1>1. /\ IsSeq(f) /\ n \in Nat \ {0} /\ DOMAIN f = 1..n /\ n > 1
      /\ Len(sc) \in Nat /\ DOMAIN sc = 1..Len(sc) /\ Len(sc) = Opened(f, n + 1)
      /\ \A k \in DOMAIN f : f[k].kind \in Kinds
  BY NestedFacts DEF Nested
<1>2. IsSeq(g) /\ Len(g) = n - 1 /\ \A k \in 1..(n - 1) : g[k] = f[k]
  BY <1>1, PrefixFacts
<1>3. Len(sd) \in Nat /\ DOMAIN sd = 1..Len(sd) /\ \A k \in DOMAIN sd : sd[k] = sc[k]
  BY SeqFacts DEF IsScopes, SameTables
<1>4. Len(sd) = Opened(f, n) /\ DOMAIN sd \subseteq DOMAIN sc
  <2>1. Opened(f, n) \in Nat
    BY <1>1, OpenedFacts
  <2>2. Opened(f, n + 1) = Opened(f, n) + OpenScopes(fr.kind)
    <3>1. n \in 1..Len(f) /\ fr.kind = f[n].kind
      BY <1>1
    <3> QED
      BY <1>1, <3>1, OpenedFacts
  <2>3. OpenScopes(fr.kind) \in Nat
    BY DEF OpenScopes
  <2> QED
    BY <1>1, <1>3, <2>1, <2>2, <2>3
<1>5. \A j \in 1..(n - 1) : Opened(g, j) = Opened(f, j)
  <2>1. SameFrames(f, g, n - 1)
    BY <1>1, <1>2 DEF SameFrames
  <2>2. \A j \in 1..(n - 1) : j \in 1..((n - 1) + 1)
    BY <1>1
  <2> QED
    BY <2>1, <2>2, OpenedSame
<1>6. DOMAIN g = 1..(n - 1)
  BY <1>2, SeqFacts
<1>7. DistinctIn(g, sd)
  <2> SUFFICES ASSUME NEW k \in DOMAIN sd,
                      \A j \in DOMAIN g : g[j].kind = "function" => k # Opened(g, j) + 1
               PROVE  Distinct(sd[k])
    BY DEF DistinctIn
  <2>1. ASSUME NEW j \in DOMAIN f, f[j].kind = "function" PROVE k # Opened(f, j) + 1
    <3>1. CASE j \in 1..(n - 1)
      BY <1>2, <1>5, <1>6, <2>1, <3>1
    <3>2. CASE j = n
      BY <1>3, <1>4, <3>2
    <3> QED
      BY <1>1, <3>1, <3>2
  <2> QED
    BY <1>3, <1>4, <2>1 DEF Unambiguous, DistinctIn
<1>8. OneStruct(sd)
  BY <1>3, <1>4 DEF Unambiguous, OneStruct
<1> QED
  BY <1>7, <1>8 DEF Unambiguous

-----------------------------------------------------------------------------
(***************************************************************************)
(* The inductive invariant, and what keeps it.                             *)
(***************************************************************************)
Sound(f, sc, ld, rt) == Nested(f, sc, ld, rt) /\ Unambiguous(f, sc)

SemanticInv ==
  \/ /\ status = "done" /\ frames = << >> /\ scopes = << >>
     /\ loop_depth = 0 /\ current_function_return_type = NoType
  \/ /\ status \in {"visiting", "exited"}
     /\ Sound(frames, scopes, loop_depth, current_function_return_type)

LEMMA EmptySequence == IsSeq(<< >>) /\ Len(<< >>) = 0 /\ Distinct(<< >>)
<1>1. << >> \in Seq({})
  OBVIOUS
<1>2. IsSeq(<< >>) /\ Len(<< >>) = 0 /\ DOMAIN << >> = {}
  BY <1>1 DEF IsSeq
<1> QED
  BY <1>2 DEF Distinct

LEMMA OneElement ==
  ASSUME NEW x
  PROVE  IsSeq(<<x>>) /\ Len(<<x>>) = 1 /\ <<x>>[1] = x /\ Distinct(<<x>>)
<1>1. <<x>> \in Seq({x})
  OBVIOUS
<1>2. Len(<<x>>) = 1 /\ <<x>>[1] = x
  OBVIOUS
<1>3. IsSeq(<<x>>)
  BY <1>1 DEF IsSeq
<1>4. \A i \in DOMAIN <<x>> : i = 1
  OBVIOUS
<1> QED
  BY <1>2, <1>3, <1>4 DEF Distinct

LEMMA Pushed ==
  ASSUME NEW s, IsSeq(s), NEW x
  PROVE  PushedOn(s, x, Append(s, x))
BY AppendFacts DEF PushedOn

LEMMA TableAppended ==
  ASSUME NEW sc, IsScopes(sc), NEW table, IsSeq(table), NEW sd, PushedOn(sc, table, sd)
  PROVE  /\ IsScopes(sd) /\ Len(sc) \in Nat /\ Len(sd) = Len(sc) + 1
         /\ SameTables(sc, sd, Len(sc)) /\ sd[Len(sc) + 1] = table
<1>1. IsSeq(sc) /\ Len(sc) \in Nat /\ DOMAIN sc = 1..Len(sc)
  BY SeqFacts DEF IsScopes
<1>2. /\ IsSeq(sd) /\ Len(sd) = Len(sc) + 1 /\ sd[Len(sc) + 1] = table
      /\ \A k \in 1..Len(sc) : sd[k] = sc[k]
  BY DEF PushedOn
<1>3. DOMAIN sd = 1..(Len(sc) + 1)
  BY <1>2, SeqFacts
<1>4. \A k \in DOMAIN sd : IsSeq(sd[k])
  <2>1. \A k \in DOMAIN sd : k \in DOMAIN sc \/ k = Len(sc) + 1
    BY <1>1, <1>3
  <2> QED
    BY <1>1, <1>2, <2>1 DEF IsScopes
<1> QED
  BY <1>1, <1>2, <1>4 DEF IsScopes, SameTables

LEMMA TableExtended ==
  ASSUME NEW sc, IsScopes(sc), Len(sc) > 0, NEW x, NEW sd,
         sd = [k \in DOMAIN sc |-> IF k = Len(sc) THEN Append(sc[k], x) ELSE sc[k]]
  PROVE  DeclaredIn(sc, x, sd)
<1> DEFINE n == Len(sc)
           S == {sd[k] : k \in 1..n}
<1>1. n \in Nat \ {0} /\ DOMAIN sc = 1..n /\ \A k \in 1..n : IsSeq(sc[k])
  BY SeqFacts DEF IsScopes
<1>2. sd \in [1..n -> S] /\ DOMAIN sd = 1..n
  BY <1>1
<1> HIDE DEF S, n
<1>3. sd \in Seq(S) /\ Len(sd) = n
  BY <1>1, <1>2
<1>4. \A k \in 1..n : sd[k] = IF k = n THEN Append(sc[k], x) ELSE sc[k]
  BY <1>1 DEF n
<1>5. \A k \in 1..n : IsSeq(sd[k])
  <2> SUFFICES ASSUME NEW k \in 1..n PROVE IsSeq(sd[k])
    OBVIOUS
  <2>1. IsSeq(sc[k]) /\ (sd[k] = sc[k] \/ sd[k] = Append(sc[k], x))
    BY <1>1, <1>4
  <2>2. IsSeq(Append(sc[k], x))
    BY <2>1, AppendFacts
  <2> QED
    BY <2>1, <2>2
<1>6. IsScopes(sd)
  BY <1>1, <1>2, <1>3, <1>5 DEF IsScopes, IsSeq
<1> QED
  <2>1. \A k \in 1..(n - 1) : k \in 1..n /\ k # n
    BY <1>1
  <2>2. \A k \in 1..(n - 1) : sc[k] = sd[k]
    BY <1>4, <2>1
  <2>3. sd[n] = Append(sc[n], x)
    BY <1>1, <1>4
  <2> QED
    BY <1>3, <1>6, <2>2, <2>3 DEF DeclaredIn, SameTables, n

LEMMA SoundDeclares ==
  ASSUME NEW f, NEW sc, NEW ld, NEW rt, Sound(f, sc, ld, rt),
         NEW x, x.name \notin NamesIn(sc[Len(sc)]),
         StandsForStruct(x) => \A k \in DOMAIN sc : x.name \notin NamesIn(sc[k])
  PROVE  Sound(f, [k \in DOMAIN sc |-> IF k = Len(sc) THEN Append(sc[k], x) ELSE sc[k]], ld, rt)
<1> SUFFICES ASSUME NEW sd,
                    sd = [k \in DOMAIN sc |-> IF k = Len(sc) THEN Append(sc[k], x) ELSE sc[k]]
             PROVE  Sound(f, sd, ld, rt)
  OBVIOUS
<1>1. IsScopes(sc) /\ Len(sc) > 0
  BY NestedFacts DEF Sound
<1>2. DeclaredIn(sc, x, sd)
  BY <1>1, TableExtended
<1>3. Nested(f, sd, ld, rt)
  BY <1>2, NestedDeclares DEF Sound, DeclaredIn
<1>4. Unambiguous(f, sd)
  BY <1>1, <1>2, UnambiguousDeclares DEF Sound
<1> QED
  BY <1>3, <1>4 DEF Sound

LEMMA SoundOpensBlock ==
  ASSUME NEW f, NEW sc, NEW ld, NEW rt, Sound(f, sc, ld, rt),
         NEW fr, fr.kind \in {"block", "while", "switch"}
  PROVE  Sound(Append(f, fr), Append(sc, << >>), IF fr.kind = "while" THEN ld + 1 ELSE ld, rt)
<1> SUFFICES ASSUME NEW sd, PushedOn(sc, << >>, sd), NEW g, PushedOn(f, fr, g)
             PROVE  Sound(g, sd, IF fr.kind = "while" THEN ld + 1 ELSE ld, rt)
  <2>1. IsSeq(f) /\ IsSeq(sc)
    BY NestedFacts DEF Sound, IsScopes
  <2>2. PushedOn(f, fr, Append(f, fr)) /\ PushedOn(sc, << >>, Append(sc, << >>))
    BY <2>1, Pushed
  <2> QED
    BY <2>2
<1>1. IsScopes(sc) /\ fr.kind \in Kinds \ {"function"}
  BY NestedFacts DEF Sound, Kinds
<1>2. /\ IsScopes(sd) /\ Len(sc) \in Nat /\ Len(sd) = Len(sc) + 1
      /\ SameTables(sc, sd, Len(sc)) /\ sd[Len(sc) + 1] = << >>
  BY <1>1, EmptySequence, TableAppended
<1>3. OpenScopes(fr.kind) = 1 /\ (fr.kind \in Loop <=> fr.kind = "while")
  BY DEF OpenScopes, Loop
<1>4. Nested(g, sd, IF fr.kind \in Loop THEN ld + 1 ELSE ld, rt)
  BY <1>1, <1>2, <1>3, NestedOpens DEF Sound
<1>5. FreshTables(Len(sc), fr.kind, sd)
  <2>1. \A k \in (Len(sc) + 1)..Len(sd) : sd[k] = << >>
    BY <1>2
  <2> QED
    BY <2>1, EmptySequence DEF FreshTables
<1>6. Unambiguous(g, sd)
  <2>1. /\ Nested(f, sc, ld, rt) /\ Unambiguous(f, sc) /\ fr.kind \in Kinds
        /\ Len(sd) >= Len(sc) /\ IsScopes(sd) /\ SameTables(sc, sd, Len(sc))
    BY <1>1, <1>2 DEF Sound
  <2> QED
    BY <1>5, <2>1, UnambiguousOpens
<1> QED
  BY <1>3, <1>4, <1>6 DEF Sound

LEMMA SoundOpensBranch ==
  ASSUME NEW f, NEW sc, NEW ld, NEW rt, Sound(f, sc, ld, rt),
         NEW fr, fr.kind \in {"if", "else"}
  PROVE  Sound(Append(f, fr), sc, ld, rt)
<1> SUFFICES ASSUME NEW g, PushedOn(f, fr, g) PROVE Sound(g, sc, ld, rt)
  BY NestedFacts, Pushed DEF Sound
<1>1. IsScopes(sc) /\ Len(sc) \in Nat /\ fr.kind \in Kinds \ {"function"}
  BY NestedFacts DEF Sound, Kinds
<1>2. OpenScopes(fr.kind) = 0 /\ fr.kind \notin Loop
  BY DEF OpenScopes, Loop
<1>3. SameTables(sc, sc, Len(sc)) /\ Len(sc) = Len(sc) + OpenScopes(fr.kind)
  BY <1>1, <1>2 DEF SameTables
<1>4. Nested(g, sc, ld, rt)
  BY <1>1, <1>2, <1>3, NestedOpens DEF Sound
<1>5. FreshTables(Len(sc), fr.kind, sc)
  BY <1>1 DEF FreshTables
<1>6. Unambiguous(g, sc)
  BY <1>1, <1>3, <1>5, UnambiguousOpens DEF Sound
<1> QED
  BY <1>4, <1>6 DEF Sound

\* A table of its own for the iterator, then that of the block.
LEMMA SoundOpensFor ==
  ASSUME NEW f, NEW sc, NEW ld, NEW rt, Sound(f, sc, ld, rt),
         NEW fr, fr.kind = "for", NEW x, x.node = NoNode
  PROVE  Sound(Append(f, fr), sc \o << <<x>>, << >> >>, ld + 1, rt)
<1> SUFFICES ASSUME NEW sb, PushedOn(sc, <<x>>, sb), NEW sd, PushedOn(sb, << >>, sd),
                    NEW g, PushedOn(f, fr, g)
             PROVE  Sound(g, sd, ld + 1, rt)
  <2>1. IsSeq(f) /\ IsSeq(sc)
    BY NestedFacts DEF Sound, IsScopes
  <2>2. sc \o << <<x>>, << >> >> = Append(Append(sc, <<x>>), << >>)
    BY <2>1, TwoAppended
  <2> DEFINE sb == Append(sc, <<x>>)
             sd == Append(sb, << >>)
  <2>3. PushedOn(f, fr, Append(f, fr)) /\ PushedOn(sc, <<x>>, sb)
    BY <2>1, Pushed
  <2>4. IsSeq(sb)
    BY <2>3 DEF PushedOn
  <2>5. PushedOn(sb, << >>, sd)
    <3> HIDE DEF sb
    <3> QED
      BY <2>4, Pushed
  <2>6. sc \o << <<x>>, << >> >> = sd
    BY <2>2
  <2> HIDE DEF sb, sd
  <2> QED
    BY <2>3, <2>5, <2>6
<1>1. IsScopes(sc) /\ fr.kind \in Kinds \ {"function"}
  BY NestedFacts DEF Sound, Kinds
<1>2. /\ IsScopes(sb) /\ Len(sc) \in Nat /\ Len(sb) = Len(sc) + 1
      /\ SameTables(sc, sb, Len(sc)) /\ sb[Len(sc) + 1] = <<x>>
  BY <1>1, OneElement, TableAppended
<1>3. /\ IsScopes(sd) /\ Len(sd) = Len(sb) + 1
      /\ SameTables(sb, sd, Len(sb)) /\ sd[Len(sb) + 1] = << >>
  BY <1>2, EmptySequence, TableAppended
<1>4. OpenScopes(fr.kind) = 2 /\ fr.kind \in Loop
  BY DEF OpenScopes, Loop
<1>5. /\ SameTables(sc, sd, Len(sc)) /\ Len(sd) = Len(sc) + 2
      /\ sd[Len(sc) + 1] = <<x>> /\ sd[Len(sc) + 2] = << >>
  BY <1>2, <1>3 DEF SameTables
<1>6. Nested(g, sd, ld + 1, rt)
  BY <1>1, <1>3, <1>4, <1>5, NestedOpens DEF Sound
<1>7. FreshTables(Len(sc), fr.kind, sd)
  <2>1. \A k \in (Len(sc) + 1)..Len(sd) : sd[k] = <<x>> \/ sd[k] = << >>
    BY <1>2, <1>5
  <2>2. \A i \in DOMAIN <<x>> : <<x>>[i].node = NoNode
    OBVIOUS
  <2> QED
    BY <2>1, <2>2, OneElement, EmptySequence DEF FreshTables
<1>8. Unambiguous(g, sd)
  <2>1. /\ Nested(f, sc, ld, rt) /\ Unambiguous(f, sc) /\ fr.kind \in Kinds
        /\ Len(sd) >= Len(sc) /\ IsScopes(sd) /\ SameTables(sc, sd, Len(sc))
    BY <1>1, <1>2, <1>3, <1>5 DEF Sound
  <2> QED
    BY <1>7, <2>1, UnambiguousOpens
<1> QED
  BY <1>6, <1>8 DEF Sound

LEMMA SoundCloses ==
  ASSUME NEW f, NEW sc, NEW ld, NEW rt, Sound(f, sc, ld, rt), Len(f) > 1,
         NEW fr, fr = f[Len(f)]
  PROVE  Sound(SubSeq(f, 1, Len(f) - 1), SubSeq(sc, 1, Len(sc) - OpenScopes(fr.kind)),
               IF fr.kind \in Loop THEN ld - 1 ELSE ld,
               IF fr.kind = "function" THEN fr.saved ELSE rt)
<1> DEFINE n == Len(sc) - OpenScopes(fr.kind)
           sd == SubSeq(sc, 1, n)
<1>1. /\ IsSeq(f) /\ Len(f) \in Nat /\ IsScopes(sc) /\ IsSeq(sc) /\ Len(sc) \in Nat
      /\ DOMAIN sc = 1..Len(sc) /\ Len(sc) = Opened(f, Len(f) + 1)
      /\ \A k \in DOMAIN f : f[k].kind \in Kinds
  BY NestedFacts DEF Sound, Nested, IsScopes
<1>2. Opened(f, Len(f) + 1) = Opened(f, Len(f)) + OpenScopes(fr.kind) /\ Opened(f, Len(f)) \in Nat
  <2>1. Len(f) \in 1..Len(f)
    BY <1>1
  <2> QED
    BY <1>1, <2>1, OpenedFacts
<1>3. OpenScopes(fr.kind) \in Nat
  BY DEF OpenScopes
<1>4. n \in 0..Len(sc)
  BY <1>1, <1>2, <1>3
<1> HIDE DEF n
<1>5. IsSeq(sd) /\ Len(sd) = n /\ \A k \in 1..n : sd[k] = sc[k]
  BY <1>1, <1>4, PrefixFacts
<1> HIDE DEF sd
<1>6. DOMAIN sd = 1..n /\ \A k \in 1..n : IsSeq(sc[k])
  BY <1>1, <1>4, <1>5, SeqFacts DEF IsScopes
<1>7. IsScopes(sd) /\ SameTables(sc, sd, Len(sd))
  BY <1>5, <1>6 DEF IsScopes, SameTables
<1>8. Len(sd) = Len(sc) - OpenScopes(fr.kind)
  BY <1>5 DEF n
<1>9. Nested(SubSeq(f, 1, Len(f) - 1), sd, IF fr.kind \in Loop THEN ld - 1 ELSE ld,
             IF fr.kind = "function" THEN fr.saved ELSE rt)
  BY <1>7, <1>8, NestedCloses DEF Sound
<1>10. Unambiguous(SubSeq(f, 1, Len(f) - 1), sd)
  BY <1>7, <1>8, UnambiguousCloses DEF Sound
<1> QED
  BY <1>9, <1>10 DEF Sound, n, sd

LEMMA SoundEntersFunction ==
  ASSUME NEW f, NEW sc, NEW ld, NEW rt, Sound(f, sc, ld, rt),
         NEW x, x.name \notin NamesIn(sc[Len(sc)]), ~ StandsForStruct(x),
         NEW fr, fr.kind = "function", fr.saved = rt,
         NEW params, IsSeq(params), \A i \in DOMAIN params : params[i].node = NoNode,
         NEW sa, DeclaredIn(sc, x, sa)
  PROVE  Sound(Append(f, fr), sa \o <<params, << >> >>, ld, x.type)
<1>1. IsSeq(f) /\ IsScopes(sc) /\ IsSeq(sc) /\ Len(sc) \in Nat \ {0} /\ Len(sc) \in DOMAIN sc
  BY NestedFacts DEF Sound, IsScopes
<1>2. IsScopes(sa) /\ IsSeq(sa) /\ Len(sa) = Len(sc)
  BY DEF DeclaredIn, IsScopes
<1>3. Nested(f, sa, ld, rt) /\ Unambiguous(f, sa)
  BY <1>1, <1>2, NestedDeclares, UnambiguousDeclares DEF Sound, DeclaredIn
<1> SUFFICES ASSUME NEW sb, PushedOn(sa, params, sb), NEW sd, PushedOn(sb, << >>, sd),
                    NEW g, PushedOn(f, fr, g)
             PROVE  Sound(g, sd, ld, x.type)
  <2> DEFINE sb == Append(sa, params)
             sd == Append(sb, << >>)
  <2>1. PushedOn(f, fr, Append(f, fr)) /\ PushedOn(sa, params, sb)
    BY <1>1, <1>2, Pushed
  <2>2. IsSeq(sb)
    BY <2>1 DEF PushedOn
  <2>3. PushedOn(sb, << >>, sd)
    <3> HIDE DEF sb
    <3> QED
      BY <2>2, Pushed
  <2>4. sa \o <<params, << >> >> = sd
    BY <1>2, TwoAppended
  <2> HIDE DEF sb, sd
  <2> QED
    BY <2>1, <2>3, <2>4
<1>6. /\ IsScopes(sb) /\ Len(sb) = Len(sc) + 1
      /\ SameTables(sa, sb, Len(sc)) /\ sb[Len(sc) + 1] = params
  BY <1>2, TableAppended
<1>7. /\ IsScopes(sd) /\ Len(sd) = Len(sb) + 1
      /\ SameTables(sb, sd, Len(sb)) /\ sd[Len(sb) + 1] = << >>
  BY <1>6, EmptySequence, TableAppended
<1>8. /\ SameTables(sa, sd, Len(sa)) /\ Len(sd) = Len(sc) + 2
      /\ sd[Len(sc) + 1] = params /\ sd[Len(sc) + 2] = << >>
  BY <1>1, <1>2, <1>6, <1>7 DEF SameTables
<1>9. Nested(g, sd, ld, x.type)
  <2>1. SameTables(sc, sd, Len(sc) - 1)
    BY <1>1, <1>2, <1>8 DEF DeclaredIn, SameTables
  <2>2. sd[Len(sc)] = Append(sc[Len(sc)], x)
    BY <1>1, <1>2, <1>8 DEF DeclaredIn, SameTables
  <2>3. IsSeq(sc[Len(sc)])
    BY <1>1 DEF IsScopes
  <2>4. x = sd[Len(sc)][Len(sd[Len(sc)])]
    BY <2>2, <2>3, AppendFacts
  <2>5. Nested(f, sc, ld, rt) /\ x.type = sd[Len(sc)][Len(sd[Len(sc)])].type
    BY <2>4 DEF Sound
  <2> QED
    BY <1>7, <1>8, <2>1, <2>5, NestedEntersFunction
<1>10. Unambiguous(g, sd)
  <2>1. FreshTables(Len(sa), fr.kind, sd)
    <3>1. \A k \in (Len(sa) + 1)..Len(sd) :
            (k = Len(sa) + 1 /\ sd[k] = params) \/ sd[k] = << >>
      BY <1>1, <1>2, <1>8
    <3>2. \A i \in DOMAIN << >> : << >>[i].node = NoNode
      OBVIOUS
    <3> QED
      BY <3>1, <3>2, EmptySequence DEF FreshTables
  <2>2. /\ Nested(f, sa, ld, rt) /\ Unambiguous(f, sa) /\ fr.kind \in Kinds
        /\ Len(sd) >= Len(sa) /\ IsScopes(sd) /\ SameTables(sa, sd, Len(sa))
    BY <1>1, <1>2, <1>3, <1>7, <1>8 DEF Kinds
  <2> QED
    BY <2>1, <2>2, UnambiguousOpens
<1> QED
  BY <1>9, <1>10 DEF Sound

LEMMA ParametersTable ==
  ASSUME NEW s \in Statement, s.kind = "func_def",
         NEW table,
         table = [k \in DOMAIN s.params |-> Symbol(s.params[k].name, s.params[k].type, NoNode)]
  PROVE  IsSeq(table) /\ \A k \in DOMAIN table : table[k].node = NoNode
<1>1. Len(s.params) \in Nat /\ DOMAIN s.params = 1..Len(s.params)
  BY StatementAssumption DEF IsList
<1>2. \A k \in DOMAIN table : table[k].node = NoNode
  BY DEF Symbol
<1> DEFINE n == Len(s.params)
           S == {table[k] : k \in 1..n}
<1>3. table \in [1..n -> S]
  BY <1>1
<1> HIDE DEF S, n
<1>4. n \in Nat
  BY <1>1 DEF n
<1>5. table \in Seq(S)
  BY <1>3, <1>4
<1> QED
  BY <1>2, <1>5 DEF IsSeq

-----------------------------------------------------------------------------
(***************************************************************************)
(* The steps of the visitor.                                               *)
(***************************************************************************)
SoundNow == Sound(frames, scopes, loop_depth, current_function_return_type)

LEMMA InitSound == Init => SemanticInv
<1> SUFFICES ASSUME Init PROVE SoundNow
  BY DEF Init, SemanticInv, SoundNow
<1>1. IsSeq(frames) /\ Len(frames) = 1 /\ DOMAIN frames = 1..1 /\ frames[1].kind = "block"
  <2>1. IsSeq(frames) /\ Len(frames) = 1 /\ frames[1] = Frame("block", NoType, << >>)
    BY OneElement DEF Init
  <2> QED
    BY <2>1, SeqFacts DEF Frame
<1>2. IsScopes(scopes) /\ Len(scopes) = 2 /\ \A k \in DOMAIN scopes : scopes[k] = << >>
  <2>1. scopes \in Seq({<< >>}) /\ Len(scopes) = 2 /\ DOMAIN scopes = 1..2
    BY DEF Init
  <2>2. \A k \in DOMAIN scopes : scopes[k] = << >>
    BY <2>1
  <2>3. IsSeq(scopes)
    BY <2>1 DEF IsSeq
  <2> QED
    BY <2>1, <2>2, <2>3, EmptySequence DEF IsScopes
<1>3. ASSUME NEW K, "block" \notin K PROVE Count(frames, K, 2) = 0
  <2>1. {j \in DOMAIN frames : frames[j].kind \in K /\ j < 2} = {}
    BY <1>1, <1>3
  <2> QED
    BY <2>1, FS_EmptySet DEF Count
<1>4. Count(frames, {"block", "while", "switch"}, 2) = 1
  <2>1. {j \in DOMAIN frames : frames[j].kind \in {"block", "while", "switch"} /\ j < 2} = {1}
    BY <1>1
  <2> QED
    BY <2>1, FS_Singleton DEF Count
<1>5. Count(frames, Loop, 2) = 0 /\ Count(frames, {"function", "for"}, 2) = 0
  BY <1>3 DEF Loop
<1>6. Opened(frames, 2) = 2
  BY <1>4, <1>5 DEF Opened
<1>7. loop_depth = 0 /\ current_function_return_type = NoType
  BY DEF Init
<1>8. \A k \in 1..1 : frames[k].kind # "function"
  BY <1>1
<1>9. Encloses(frames, scopes, current_function_return_type, 2)
  BY <1>7, <1>8 DEF Encloses
<1>10. Chain(frames, scopes, 1)
  BY <1>8 DEF Chain
<1>11. Nested(frames, scopes, loop_depth, current_function_return_type)
  BY <1>1, <1>2, <1>5, <1>6, <1>7, <1>9, <1>10 DEF Nested, Kinds
<1>12. Unambiguous(frames, scopes)
  BY <1>2, EmptySequence DEF Unambiguous, DistinctIn, OneStruct
<1> QED
  BY <1>11, <1>12 DEF SoundNow, Sound

LEMMA VisitingSound ==
  ASSUME SemanticInv, status = "visiting"
  PROVE  SoundNow
BY DEF SemanticInv, SoundNow

LEMMA VarDeclSound ==
  ASSUME SemanticInv, NEW s \in Statement, VarDecl(s)
  PROVE  SemanticInv'
<1>1. status = "visiting" /\ SoundNow
  BY VisitingSound DEF VarDecl, Visiting
<1>2. CASE Exit
  BY <1>1, <1>2 DEF Exit, SemanticInv, SoundNow
<1>3. CASE ~ Exit
  <2> DEFINE x == Symbol(s.name, s.type, NoNode)
  <2>1. /\ s.name \notin NamesIn(Innermost) /\ scopes' = Adding(x)
        /\ UNCHANGED <<frames, loop_depth, current_function_return_type, status>>
    BY <1>3 DEF VarDecl, Check
  <2>2. x.name = s.name /\ ~ StandsForStruct(x)
    BY DEF Symbol, StandsForStruct
  <2> HIDE DEF x
  <2>3. Sound(frames, Adding(x), loop_depth, current_function_return_type)
    BY <1>1, <2>1, <2>2, SoundDeclares DEF SoundNow, Adding, Innermost
  <2> QED
    BY <1>1, <2>1, <2>3 DEF SemanticInv
<1> QED
  BY <1>2, <1>3

LEMMA StructDefSound ==
  ASSUME SemanticInv, NEW s \in Statement, StructDef(s)
  PROVE  SemanticInv'
<1>1. status = "visiting" /\ SoundNow
  BY VisitingSound DEF StructDef, Visiting
<1>2. CASE Exit
  BY <1>1, <1>2 DEF Exit, SemanticInv, SoundNow
<1>3. CASE ~ Exit
  <2> DEFINE x == Symbol(s.name, <<"struct", s.name>>, [kind |-> "struct", fields |-> s.fields])
  <2>1. /\ ~ Declared(s.name) /\ scopes' = Adding(x)
        /\ UNCHANGED <<frames, loop_depth, current_function_return_type, status>>
    BY <1>3 DEF StructDef, Check
  <2>2. x.name = s.name
    BY DEF Symbol
  <2> HIDE DEF x
  <2>3. \A k \in DOMAIN scopes : x.name \notin NamesIn(scopes[k])
    BY <2>1, <2>2 DEF Declared
  <2>4. Len(scopes) \in DOMAIN scopes
    BY <1>1, NestedFacts DEF SoundNow, Sound
  <2>5. Sound(frames, Adding(x), loop_depth, current_function_return_type)
    BY <1>1, <2>3, <2>4, SoundDeclares DEF SoundNow, Adding
  <2> QED
    BY <1>1, <2>1, <2>5 DEF SemanticInv
<1> QED
  BY <1>2, <1>3

LEMMA FuncDefSound ==
  ASSUME SemanticInv, NEW s \in Statement, FuncDef(s)
  PROVE  SemanticInv'
<1>1. status = "visiting" /\ SoundNow /\ s.kind = "func_def"
  BY VisitingSound DEF FuncDef, Visiting
<1>2. CASE Exit
  BY <1>1, <1>2 DEF Exit, SemanticInv, SoundNow
<1>3. CASE ~ Exit
  <2> DEFINE x == Symbol(s.name, s.result, [kind |-> "function", params |-> s.params])
             fr == Frame("function", current_function_return_type, << >>)
             table == [k \in DOMAIN s.params |->
                         Symbol(s.params[k].name, s.params[k].type, NoNode)]
  <2>1. /\ s.name \notin NamesIn(Innermost)
        /\ scopes' = Adding(x) \o <<table, << >> >>
        /\ frames' = Append(frames, fr)
        /\ current_function_return_type' = s.result
        /\ UNCHANGED <<loop_depth, status>>
    BY <1>3 DEF FuncDef, Check, Push
  <2>2. x.name = s.name /\ x.type = s.result /\ ~ StandsForStruct(x)
    BY DEF Symbol, StandsForStruct
  <2>3. fr.kind = "function" /\ fr.saved = current_function_return_type
    BY DEF Frame
  <2>4. IsSeq(table) /\ \A i \in DOMAIN table : table[i].node = NoNode
    BY <1>1, ParametersTable
  <2> HIDE DEF x, fr, table
  <2>5. DeclaredIn(scopes, x, Adding(x))
    BY <1>1, NestedFacts, TableExtended DEF SoundNow, Sound, Adding
  <2>6. Sound(Append(frames, fr), Adding(x) \o <<table, << >> >>, loop_depth, x.type)
    BY <1>1, <2>1, <2>2, <2>3, <2>4, <2>5, SoundEntersFunction DEF SoundNow, Innermost
  <2> QED
    BY <1>1, <2>1, <2>2, <2>6 DEF SemanticInv
<1> QED
  BY <1>2, <1>3

LEMMA BlockSound ==
  ASSUME SemanticInv, NEW s \in Statement, Block(s) \/ Switch(s)
  PROVE  SemanticInv'
<1>1. status = "visiting" /\ SoundNow
  BY VisitingSound DEF Block, Switch, Visiting
<1>2. CASE Exit
  BY <1>1, <1>2 DEF Exit, SemanticInv, SoundNow
<1>3. CASE ~ Exit
  <2>1. PICK fr :
          /\ fr.kind \in {"block", "switch"}
          /\ scopes' = Append(scopes, << >>) /\ frames' = Append(frames, fr)
          /\ UNCHANGED <<loop_depth, current_function_return_type, status>>
    <3>1. CASE Block(s)
      <4>1. Frame("block", NoType, << >>).kind = "block"
        BY DEF Frame
      <4> QED
        BY <3>1, <4>1 DEF Block, Push
    <3>2. CASE Switch(s)
      <4>1. PICK saved : /\ scopes' = Append(scopes, << >>)
                         /\ frames' = Append(frames, Frame("switch", saved, << >>))
                         /\ UNCHANGED <<loop_depth, current_function_return_type, status>>
        BY <1>3, <3>2 DEF Switch, Check, Push
      <4>2. Frame("switch", saved, << >>).kind = "switch"
        BY DEF Frame
      <4> QED
        BY <4>1, <4>2
    <3> QED
      BY <3>1, <3>2
  <2>2. Sound(Append(frames, fr), Append(scopes, << >>), loop_depth, current_function_return_type)
    BY <1>1, <2>1, SoundOpensBlock DEF SoundNow
  <2> QED
    BY <1>1, <2>1, <2>2 DEF SemanticInv
<1> QED
  BY <1>2, <1>3

LEMMA WhileSound ==
  ASSUME SemanticInv, NEW s \in Statement, While(s)
  PROVE  SemanticInv'
<1>1. status = "visiting" /\ SoundNow
  BY VisitingSound DEF While, Visiting
<1>2. CASE Exit
  BY <1>1, <1>2 DEF Exit, SemanticInv, SoundNow
<1>3. CASE ~ Exit
  <2> DEFINE fr == Frame("while", NoType, << >>)
  <2>1. /\ scopes' = Append(scopes, << >>) /\ frames' = Append(frames, fr)
        /\ loop_depth' = loop_depth + 1
        /\ UNCHANGED <<current_function_return_type, status>>
    BY <1>3 DEF While, Check, Push
  <2>2. fr.kind = "while"
    BY DEF Frame
  <2> HIDE DEF fr
  <2>3. Sound(Append(frames, fr), Append(scopes, << >>), loop_depth + 1, current_function_return_type)
    BY <1>1, <2>2, SoundOpensBlock DEF SoundNow
  <2> QED
    BY <1>1, <2>1, <2>3 DEF SemanticInv
<1> QED
  BY <1>2, <1>3

LEMMA ForSound ==
  ASSUME SemanticInv, NEW s \in Statement, For(s)
  PROVE  SemanticInv'
<1>1. status = "visiting" /\ SoundNow
  BY VisitingSound DEF For, Visiting
<1>2. CASE Exit
  BY <1>1, <1>2 DEF Exit, SemanticInv, SoundNow
<1>3. CASE ~ Exit
  <2> DEFINE fr == Frame("for", NoType, << >>)
             x == Symbol(s.iterator, I32, NoNode)
  <2>1. /\ scopes' = scopes \o << <<x>>, << >> >> /\ frames' = Append(frames, fr)
        /\ loop_depth' = loop_depth + 1
        /\ UNCHANGED <<current_function_return_type, status>>
    BY <1>3 DEF For, Check, Push
  <2>2. fr.kind = "for" /\ x.node = NoNode
    BY DEF Frame, Symbol
  <2> HIDE DEF fr, x
  <2>3. Sound(Append(frames, fr), scopes \o << <<x>>, << >> >>, loop_depth + 1,
              current_function_return_type)
    BY <1>1, <2>2, SoundOpensFor DEF SoundNow
  <2> QED
    BY <1>1, <2>1, <2>3 DEF SemanticInv
<1> QED
  BY <1>2, <1>3

\* The frame of an if and that of its block.
LEMMA SoundBranches ==
  ASSUME NEW f, NEW sc, NEW ld, NEW rt, Sound(f, sc, ld, rt), NEW kind \in {"if", "else"},
         NEW conds
  PROVE  Sound(Append(f, Frame(kind, NoType, conds)) \o <<Frame("block", NoType, << >>)>>,
               Append(sc, << >>), ld, rt)
<1> DEFINE outer == Frame(kind, NoType, conds)
           inner == Frame("block", NoType, << >>)
           g == Append(f, outer)
<1>1. outer.kind \in {"if", "else"} /\ inner.kind = "block"
  BY DEF Frame
<1> HIDE DEF outer, inner
<1>2. Sound(g, sc, ld, rt)
  BY <1>1, SoundOpensBranch
<1> HIDE DEF g
<1>3. IsSeq(g)
  BY <1>2, NestedFacts DEF Sound
<1>4. Sound(Append(g, inner), Append(sc, << >>), ld, rt)
  BY <1>1, <1>2, SoundOpensBlock
<1>5. g \o <<inner>> = Append(g, inner)
  BY <1>3, TwoAppended
<1> QED
  BY <1>4, <1>5 DEF g, inner, outer

LEMMA IfSound ==
  ASSUME SemanticInv, NEW s \in Statement, If(s)
  PROVE  SemanticInv'
<1>1. status = "visiting" /\ SoundNow
  BY VisitingSound DEF If, Visiting
<1>2. CASE Exit
  BY <1>1, <1>2 DEF Exit, SemanticInv, SoundNow
<1>3. CASE ~ Exit
  <2>1. /\ frames' = Append(frames, Frame("if", NoType, <<s.cond>>))
                       \o <<Frame("block", NoType, << >>)>>
        /\ scopes' = Append(scopes, << >>)
        /\ UNCHANGED <<loop_depth, current_function_return_type, status>>
    BY <1>3 DEF If, Check, Branch
  <2>2. Sound(Append(frames, Frame("if", NoType, <<s.cond>>)) \o <<Frame("block", NoType, << >>)>>,
              Append(scopes, << >>), loop_depth, current_function_return_type)
    BY <1>1, SoundBranches DEF SoundNow
  <2> QED
    BY <1>1, <2>1, <2>2 DEF SemanticInv
<1> QED
  BY <1>2, <1>3

\* An elif or an else takes the place of the if, whose block is closed.
LEMMA BetweenBranchesSound ==
  ASSUME SemanticInv, Else \/ \E s \in Statement : Elif(s)
  PROVE  SemanticInv'
<1>1. status = "visiting" /\ SoundNow /\ Top.kind = "if"
  BY VisitingSound DEF Else, Elif, BetweenBranches
<1>2. CASE Exit
  BY <1>1, <1>2 DEF Exit, SemanticInv, SoundNow
<1>3. CASE ~ Exit
  <2> DEFINE f == SubSeq(frames, 1, Len(frames) - 1)
  <2> DEFINE Goes(kind, conds) ==
               /\ frames' = Append(f, Frame(kind, NoType, conds)) \o <<Frame("block", NoType, << >>)>>
               /\ scopes' = Append(scopes, << >>)
               /\ UNCHANGED <<loop_depth, current_function_return_type, status>>
  <2>1. \E kind, conds : kind \in {"if", "else"} /\ Goes(kind, conds)
    <3>1. CASE Else
      <4>1. Goes("else", <<Top.conds[1]>>)
        BY <1>3, <3>1 DEF Else, Check, NextBranch, Branch
      <4> HIDE DEF Goes
      <4> QED
        BY <4>1
    <3>2. ASSUME NEW s \in Statement, Elif(s)
          PROVE  \E kind, conds : kind \in {"if", "else"} /\ Goes(kind, conds)
      <4>1. Goes("if", <<Top.conds[1], s.cond>>)
        BY <1>3, <3>2 DEF Elif, Check, NextBranch, Branch
      <4> HIDE DEF Goes
      <4> QED
        BY <4>1
    <3> HIDE DEF Goes
    <3> QED
      BY <3>1, <3>2
  <2>8. PICK kind, conds : kind \in {"if", "else"} /\ Goes(kind, conds)
    <3> HIDE DEF Goes
    <3> QED
      BY <2>1
  <2>2. Nested(frames, scopes, loop_depth, current_function_return_type)
    BY <1>1 DEF SoundNow, Sound
  <2>3. Len(frames) > 1
    BY <1>1, <2>2, NestedFacts DEF Nested, Top
  <2>4. /\ OpenScopes(Top.kind) = 0 /\ Top.kind \notin Loop /\ Top.kind # "function"
        /\ Top = frames[Len(frames)]
    BY <1>1 DEF OpenScopes, Loop, Top
  <2>5. Sound(f, SubSeq(scopes, 1, Len(scopes) - OpenScopes(Top.kind)),
              loop_depth, current_function_return_type)
    BY <1>1, <2>3, <2>4, SoundCloses DEF SoundNow
  <2>6. SubSeq(scopes, 1, Len(scopes) - OpenScopes(Top.kind)) = scopes
    <3>1. IsSeq(scopes)
      BY <2>2, NestedFacts DEF IsScopes
    <3>2. PICK S : scopes \in Seq(S)
      BY <3>1 DEF IsSeq
    <3>3. Len(scopes) - OpenScopes(Top.kind) = Len(scopes)
      BY <2>4, <3>2
    <3> QED
      BY <3>2, <3>3
  <2> HIDE DEF f
  <2>7. Sound(Append(f, Frame(kind, NoType, conds)) \o <<Frame("block", NoType, << >>)>>,
              Append(scopes, << >>), loop_depth, current_function_return_type)
    BY <2>5, <2>6, <2>8, SoundBranches
  <2> QED
    BY <1>1, <2>7, <2>8 DEF SemanticInv
<1> QED
  BY <1>2, <1>3

LEMMA LeaveSound ==
  ASSUME SemanticInv, Leave
  PROVE  SemanticInv'
<1>1. status = "visiting" /\ SoundNow /\ Len(frames) > 1
  BY VisitingSound DEF Leave
<1>2. CASE Exit
  BY <1>1, <1>2 DEF Exit, SemanticInv, SoundNow
<1>3. CASE ~ Exit
  <2>1. /\ frames' = SubSeq(frames, 1, Len(frames) - 1)
        /\ scopes' = SubSeq(scopes, 1, Len(scopes) - OpenScopes(Top.kind))
        /\ loop_depth' = IF Top.kind \in Loop THEN loop_depth - 1 ELSE loop_depth
        /\ current_function_return_type' =
             IF Top.kind = "function" THEN Top.saved ELSE current_function_return_type
        /\ UNCHANGED status
    BY <1>3 DEF Leave, Check, LoopDepthAfter, ReturnTypeAfter
  <2>2. Sound(SubSeq(frames, 1, Len(frames) - 1),
              SubSeq(scopes, 1, Len(scopes) - OpenScopes(Top.kind)),
              IF Top.kind \in Loop THEN loop_depth - 1 ELSE loop_depth,
              IF Top.kind = "function" THEN Top.saved ELSE current_function_return_type)
    BY <1>1, SoundCloses DEF SoundNow, Top
  <2> QED
    BY <1>1, <2>1, <2>2 DEF SemanticInv
<1> QED
  BY <1>2, <1>3

LEMMA FinishSound ==
  ASSUME SemanticInv, Finish
  PROVE  SemanticInv'
<1>1. SoundNow /\ Len(frames) = 1
  BY VisitingSound DEF Finish
<1>2. /\ IsSeq(frames) /\ DOMAIN frames = 1..1 /\ frames[1].kind = "block"
      /\ loop_depth = Count(frames, Loop, 2)
      /\ Encloses(frames, scopes, current_function_return_type, 2)
  BY <1>1, NestedFacts DEF SoundNow, Sound, Nested
<1>3. \A k \in 1..(2 - 1) : frames[k].kind # "function"
  BY <1>2
<1>4. current_function_return_type = NoType
  BY <1>2, <1>3 DEF Encloses
<1>5. {j \in DOMAIN frames : frames[j].kind \in Loop /\ j < 2} = {}
  BY <1>2 DEF Loop
<1>6. loop_depth = 0
  BY <1>2, <1>5, FS_EmptySet DEF Count
<1> QED
  BY <1>4, <1>6 DEF Finish, SemanticInv

LEMMA StepSound == SemanticInv /\ [Next]_vars => SemanticInv'
<1> SUFFICES ASSUME SemanticInv, [Next]_vars PROVE SemanticInv'
  OBVIOUS
<1>1. CASE UNCHANGED vars
  BY <1>1 DEF vars, SemanticInv
<1>2. ASSUME NEW s \in Statement,
             VarDecl(s) \/ StructDef(s) \/ FuncDef(s) \/ Block(s) \/ Switch(s)
               \/ While(s) \/ For(s) \/ If(s) \/ Elif(s)
      PROVE  SemanticInv'
  BY <1>2, VarDeclSound, StructDefSound, FuncDefSound, BlockSound, WhileSound, ForSound,
     IfSound, BetweenBranchesSound
<1>3. ASSUME NEW s \in Statement, ExprStmt(s) \/ BreakOrContinue(s) \/ Return(s) \/ Case(s)
      PROVE  SemanticInv'
  <2>1. /\ status = "visiting" /\ status' \in {"visiting", "exited"}
        /\ UNCHANGED <<scopes, frames, loop_depth, current_function_return_type>>
    BY <1>3 DEF ExprStmt, BreakOrContinue, Return, Case, Visiting, Check, Exit, Unchanged
  <2> QED
    BY <2>1 DEF SemanticInv
<1>4. CASE Else \/ Leave \/ Finish
  BY <1>4, BetweenBranchesSound, LeaveSound, FinishSound
<1> QED
  BY <1>1, <1>2, <1>3, <1>4 DEF Next

(***************************************************************************)
(* Nested and the tables that it counts are what ContextMatchesNesting     *)
(* speaks of.                                                              *)
(***************************************************************************)
LEMMA ScopesBelowOpened ==
  ASSUME NEW k
  PROVE  ScopesBelow(k) = Opened(frames, k)
<1>1. \A K : {j \in Open(K) : j < k} = {j \in DOMAIN frames : frames[j].kind \in K /\ j < k}
  BY DEF Open
<1> QED
  BY <1>1 DEF ScopesBelow, Opened, Count

LEMMA SoundContext ==
  ASSUME SemanticInv
  PROVE  ContextMatchesNesting /\ NamesAreUnambiguous
<1>1. CASE status = "done"
  <2>1. /\ DOMAIN frames = {} /\ DOMAIN scopes = {}
        /\ loop_depth = 0 /\ current_function_return_type = NoType
    BY <1>1 DEF SemanticInv
  <2>2. \A K : Open(K) = {}
    BY <2>1 DEF Open
  <2>3. ContextMatchesNesting
    BY <1>1, <2>1, <2>2, FS_EmptySet DEF ContextMatchesNesting
  <2>4. NamesAreUnambiguous
    BY <2>1 DEF NamesAreUnambiguous
  <2> QED
    BY <2>3, <2>4
<1>2. CASE status # "done"
  <2> DEFINE n == Len(frames)
             rt == current_function_return_type
  <2>1. Nested(frames, scopes, loop_depth, rt) /\ Unambiguous(frames, scopes)
    BY <1>2 DEF SemanticInv, Sound
  <2>2. /\ n \in Nat /\ DOMAIN frames = 1..n /\ Len(scopes) = Opened(frames, n + 1)
        /\ loop_depth = Count(frames, Loop, n + 1) /\ Encloses(frames, scopes, rt, n + 1)
    BY <2>1, NestedFacts DEF Nested
  <2> HIDE DEF n
  <2>3. loop_depth = Cardinality(Open(Loop))
    <3>1. Open(Loop) = {j \in DOMAIN frames : frames[j].kind \in Loop /\ j < n + 1}
      BY <2>2 DEF Open
    <3> QED
      BY <2>2, <3>1 DEF Count
  <2>4. Open({"function"}) = {k \in 1..n : frames[k].kind = "function"}
    BY <2>2 DEF Open
  <2>5. Open({"function"}) = {} => rt = NoType
    BY <2>2, <2>4 DEF Encloses
  <2>6. ASSUME NEW k \in Open({"function"}), \A j \in Open({"function"}) : j <= k
        PROVE  rt = ResultType(frames, scopes, k)
    <3>1. k \in 1..((n + 1) - 1) /\ frames[k].kind = "function"
      BY <2>2, <2>4
    <3>2. \A j \in (k + 1)..((n + 1) - 1) : frames[j].kind # "function"
      BY <2>2, <2>4, <2>6
    <3> QED
      BY <2>2, <3>1, <3>2 DEF Encloses
  <2>7. ContextMatchesNesting
    BY <2>2, <2>3, <2>5, <2>6, ScopesBelowOpened DEF ContextMatchesNesting, ResultType, n
  <2>8. \A k \in DOMAIN scopes \ {ScopesBelow(j) + 1 : j \in Open({"function"})} :
          Distinct(scopes[k])
    <3>1. ASSUME NEW k \in DOMAIN scopes,
                 k \notin {ScopesBelow(j) + 1 : j \in Open({"function"})},
                 NEW j \in DOMAIN frames, frames[j].kind = "function"
          PROVE  k # Opened(frames, j) + 1
      BY <3>1, ScopesBelowOpened DEF Open
    <3> QED
      BY <2>1, <3>1 DEF Unambiguous, DistinctIn
  <2>9. NamesAreUnambiguous
    BY <2>1, <2>8 DEF NamesAreUnambiguous, Distinct, Unambiguous, OneStruct, StandsForStruct
  <2> QED
    BY <2>7, <2>9
<1> QED
  BY <1>1, <1>2

(***************************************************************************)
(* Whatever is visited, loop_depth counts the loops that are open, the     *)
(* type returns are compared with is that of the innermost function, also  *)
(* after a function nested in it, and every table that was opened is       *)
(* closed with its construct.                                              *)
(***************************************************************************)
THEOREM ContextFollowsNesting == Spec => []ContextMatchesNesting
BY InitSound, StepSound, SoundContext, PTL DEF Spec

(***************************************************************************)
(* Whatever is declared, in whatever order and nesting, no table but that  *)
(* of a function's parameters has a name twice, and a struct's name stands *)
(* for one struct.                                                         *)
(***************************************************************************)
THEOREM NamesUnambiguous == Spec => []NamesAreUnambiguous
BY InitSound, StepSound, SoundContext, PTL DEF Spec

-----------------------------------------------------------------------------
(***************************************************************************)
(* The types of the symbols.  A symbol's type, and those of the fields of  *)
(* a struct, are types as they are written.                                *)
(***************************************************************************)
FieldsTyped(node) ==
  node # NoNode /\ node.kind = "struct" =>
    IsList(node.fields) /\ \A k \in DOMAIN node.fields : IsType(node.fields[k].type)

SymbolTyped(x) == IsType(x.type) /\ FieldsTyped(x.node)

TableTyped(table) == \A i \in DOMAIN table : SymbolTyped(table[i])

AllTyped(sc) == \A k \in DOMAIN sc : TableTyped(sc[k])

TypedInv == SemanticInv /\ AllTyped(scopes)

LEMMA WordIsType ==
  ASSUME NEW w \in Word, w # "[]"
  PROVE  IsType(<<w>>)
<1>1. <<w>> \in Seq(Word) /\ <<w>>[1] = w /\ <<w>> # << >>
  OBVIOUS
<1> QED
  BY <1>1 DEF IsType

LEMMA WordsAreTypes ==
  IsType(Unknown) /\ IsType(Failed) /\ IsType(Bool) /\ IsType(I32) /\ IsType(F64)
<1>1. /\ "unknown" \in Word /\ "error" \in Word /\ "bool" \in Word
      /\ "i32" \in Word /\ "f64" \in Word
  BY WordAssumption
<1>2. /\ "unknown" # "[]" /\ "error" # "[]" /\ "bool" # "[]" /\ "i32" # "[]"
      /\ "f64" # "[]"
  OBVIOUS
<1>3. /\ IsType(<<"unknown">>) /\ IsType(<<"error">>) /\ IsType(<<"bool">>)
      /\ IsType(<<"i32">>) /\ IsType(<<"f64">>)
  BY <1>1, <1>2, WordIsType
<1> QED
  BY <1>3 DEF Unknown, Failed, Bool, I32, F64

LEMMA StructIsType ==
  ASSUME NEW w \in Word
  PROVE  IsType(<<"struct", w>>)
<1>1. "struct" \in Word /\ "struct" # "[]"
  BY WordAssumption
<1>2. \A v \in Word : <<v, w>> \in Seq(Word) /\ <<v, w>>[1] = v /\ <<v, w>> # << >>
  OBVIOUS
<1> QED
  BY <1>1, <1>2 DEF IsType

LEMMA TableTypedAppend ==
  ASSUME NEW s, IsSeq(s), TableTyped(s), NEW x, SymbolTyped(x)
  PROVE  TableTyped(Append(s, x))
<1>1. DOMAIN Append(s, x) = 1..(Len(s) + 1) /\ Len(s) \in Nat /\ DOMAIN s = 1..Len(s)
  BY AppendFacts, SeqFacts
<1>2. \A k \in DOMAIN Append(s, x) : k \in DOMAIN s \/ k = Len(s) + 1
  BY <1>1
<1> QED
  BY <1>1, <1>2, AppendFacts DEF TableTyped

LEMMA AllTypedDeclares ==
  ASSUME NEW sc, IsScopes(sc), AllTyped(sc), NEW x, SymbolTyped(x)
  PROVE  AllTyped([k \in DOMAIN sc |-> IF k = Len(sc) THEN Append(sc[k], x) ELSE sc[k]])
<1>1. \A k \in DOMAIN sc : TableTyped(sc[k]) /\ TableTyped(Append(sc[k], x))
  BY TableTypedAppend DEF IsScopes, AllTyped
<1> QED
  BY <1>1 DEF AllTyped

LEMMA AllTypedAppend ==
  ASSUME NEW sc, IsSeq(sc), AllTyped(sc), NEW table, TableTyped(table)
  PROVE  AllTyped(Append(sc, table))
<1>1. DOMAIN Append(sc, table) = 1..(Len(sc) + 1) /\ Len(sc) \in Nat /\ DOMAIN sc = 1..Len(sc)
  BY AppendFacts, SeqFacts
<1>2. \A k \in DOMAIN Append(sc, table) : k \in DOMAIN sc \/ k = Len(sc) + 1
  BY <1>1
<1> QED
  BY <1>1, <1>2, AppendFacts DEF AllTyped

LEMMA EmptyTyped == TableTyped(<< >>) /\ AllTyped(<< >>)
BY DEF TableTyped, AllTyped

LEMMA AllTypedTwo ==
  ASSUME NEW sc, IsSeq(sc), AllTyped(sc), NEW table, TableTyped(table)
  PROVE  AllTyped(sc \o <<table, << >> >>)
<1>1. sc \o <<table, << >> >> = Append(Append(sc, table), << >>)
  BY TwoAppended
<1>2. IsSeq(Append(sc, table)) /\ AllTyped(Append(sc, table))
  BY AppendFacts, AllTypedAppend
<1> QED
  BY <1>1, <1>2, AllTypedAppend, EmptyTyped

LEMMA AllTypedPrefix ==
  ASSUME NEW sc, IsSeq(sc), AllTyped(sc), NEW n \in 0..Len(sc)
  PROVE  AllTyped(SubSeq(sc, 1, n))
<1>1. Len(sc) \in Nat /\ DOMAIN sc = 1..Len(sc)
  BY SeqFacts
<1>2. DOMAIN SubSeq(sc, 1, n) = 1..n /\ \A k \in 1..n : SubSeq(sc, 1, n)[k] = sc[k]
  BY PrefixFacts, SeqFacts
<1> QED
  BY <1>1, <1>2 DEF AllTyped

LEMMA TypedInit == Init => AllTyped(scopes)
<1> SUFFICES ASSUME Init PROVE AllTyped(scopes)
  OBVIOUS
<1>1. \A k \in DOMAIN scopes : scopes[k] = << >>
  BY DEF Init
<1> QED
  BY <1>1, EmptyTyped DEF AllTyped

\* Where a symbol is declared, its type is one the text has.
LEMMA TypedDeclarations ==
  ASSUME AllTyped(scopes), SoundNow, NEW s \in Statement, VarDecl(s) \/ StructDef(s)
  PROVE  AllTyped(scopes')
<1>1. IsScopes(scopes)
  BY NestedFacts DEF SoundNow, Sound
<1>2. CASE UNCHANGED scopes
  BY <1>2
<1>3. ASSUME VarDecl(s), scopes' # scopes PROVE AllTyped(scopes')
  <2>1. scopes' = Adding(Symbol(s.name, s.type, NoNode)) /\ s.type # NoType /\ s.kind = "var_decl"
    BY <1>3 DEF VarDecl, Check, Exit, Annotated, Visiting
  <2>2. SymbolTyped(Symbol(s.name, s.type, NoNode))
    BY <2>1, StatementAssumption DEF Symbol, SymbolTyped, FieldsTyped
  <2> QED
    BY <1>1, <2>1, <2>2, AllTypedDeclares DEF Adding
<1>4. ASSUME StructDef(s), scopes' # scopes PROVE AllTyped(scopes')
  <2> DEFINE node == [kind |-> "struct", fields |-> s.fields]
             x == Symbol(s.name, <<"struct", s.name>>, node)
  <2>1. scopes' = Adding(x) /\ s.kind = "struct_def"
    BY <1>4 DEF StructDef, Check, Exit, Visiting
  <2>2. /\ s.name \in Word /\ IsList(s.fields)
        /\ \A k \in DOMAIN s.fields : IsType(s.fields[k].type)
    BY <2>1, StatementAssumption
  <2>3. FieldsTyped(node)
    BY <2>2 DEF FieldsTyped
  <2>4. x.type = <<"struct", s.name>> /\ x.node = node
    BY DEF Symbol
  <2>5. SymbolTyped(x)
    BY <2>2, <2>3, <2>4, StructIsType DEF SymbolTyped
  <2> HIDE DEF x
  <2> QED
    BY <1>1, <2>1, <2>5, AllTypedDeclares DEF Adding
<1> QED
  BY <1>2, <1>3, <1>4

LEMMA TypedFunction ==
  ASSUME AllTyped(scopes), SoundNow, NEW s \in Statement, FuncDef(s)
  PROVE  AllTyped(scopes')
<1> DEFINE x == Symbol(s.name, s.result, [kind |-> "function", params |-> s.params])
           table == [k \in DOMAIN s.params |->
                       Symbol(s.params[k].name, s.params[k].type, NoNode)]
<1>1. CASE UNCHANGED scopes
  BY <1>1
<1>2. CASE scopes' # scopes
  <2>1. scopes' = Adding(x) \o <<table, << >> >> /\ s.kind = "func_def"
    BY <1>2 DEF FuncDef, Check, Exit, Visiting
  <2>2. IsType(s.result) /\ \A k \in DOMAIN s.params : IsType(s.params[k].type)
    BY <2>1, StatementAssumption
  <2>3. x.type = s.result /\ x.node.kind = "function"
    BY DEF Symbol
  <2>4. SymbolTyped(x)
    BY <2>2, <2>3 DEF SymbolTyped, FieldsTyped
  <2>5. TableTyped(table)
    <3>1. \A k \in DOMAIN s.params : table[k].type = s.params[k].type /\ table[k].node = NoNode
      BY DEF Symbol
    <3> QED
      BY <2>2, <3>1 DEF TableTyped, SymbolTyped, FieldsTyped
  <2> HIDE DEF x, table
  <2>6. IsScopes(scopes) /\ IsSeq(Adding(x))
    <3>1. IsScopes(scopes) /\ Len(scopes) > 0
      BY NestedFacts DEF SoundNow, Sound
    <3>2. DeclaredIn(scopes, x, Adding(x))
      BY <3>1, TableExtended DEF Adding
    <3> QED
      BY <3>1, <3>2 DEF DeclaredIn, IsScopes
  <2>7. AllTyped(Adding(x))
    BY <2>4, <2>6, AllTypedDeclares DEF Adding
  <2> QED
    BY <2>1, <2>5, <2>6, <2>7, AllTypedTwo
<1> QED
  BY <1>1, <1>2

LEMMA TypedIterator ==
  ASSUME AllTyped(scopes), SoundNow, NEW s \in Statement, For(s)
  PROVE  AllTyped(scopes')
<1> DEFINE x == Symbol(s.iterator, I32, NoNode)
<1>1. CASE UNCHANGED scopes
  BY <1>1
<1>2. CASE scopes' # scopes
  <2>1. scopes' = scopes \o << <<x>>, << >> >>
    BY <1>2 DEF For, Check, Exit
  <2>2. SymbolTyped(x)
    BY WordsAreTypes DEF Symbol, SymbolTyped, FieldsTyped
  <2> HIDE DEF x
  <2>3. TableTyped(<<x>>)
    <3>1. \A i \in DOMAIN <<x>> : <<x>>[i] = x
      OBVIOUS
    <3> QED
      BY <2>2, <3>1 DEF TableTyped
  <2>4. IsSeq(scopes)
    BY NestedFacts DEF SoundNow, Sound, IsScopes
  <2> QED
    BY <2>1, <2>3, <2>4, AllTypedTwo
<1> QED
  BY <1>1, <1>2

LEMMA TypedOpens ==
  ASSUME AllTyped(scopes), SoundNow, scopes' \in {scopes, Append(scopes, << >>), << >>}
  PROVE  AllTyped(scopes')
<1>1. IsSeq(scopes)
  BY NestedFacts DEF SoundNow, Sound, IsScopes
<1> QED
  BY <1>1, AllTypedAppend, EmptyTyped

LEMMA TypedCloses ==
  ASSUME AllTyped(scopes), SoundNow, Leave
  PROVE  AllTyped(scopes')
<1> DEFINE n == Len(scopes) - OpenScopes(Top.kind)
<1>1. CASE UNCHANGED scopes
  BY <1>1
<1>2. CASE scopes' # scopes
  <2>1. scopes' = SubSeq(scopes, 1, n)
    BY <1>2 DEF Leave, Check, Exit
  <2>2. IsSeq(scopes) /\ Len(scopes) \in Nat
    BY NestedFacts, SeqFacts DEF SoundNow, Sound, IsScopes
  <2>3. OpenScopes(Top.kind) \in 0..2
    BY DEF OpenScopes
  <2>4. CASE n \in 0..Len(scopes)
    BY <2>1, <2>2, <2>4, AllTypedPrefix
  <2>5. CASE n \notin 0..Len(scopes)
    <3>1. PICK S : scopes \in Seq(S)
      BY <2>2 DEF IsSeq
    <3>2. n \in Int /\ n < 1
      BY <2>2, <2>3, <2>5
    <3>3. SubSeq(scopes, 1, n) = << >>
      BY <3>1, <3>2
    <3> QED
      BY <2>1, <3>3, EmptyTyped
  <2> QED
    BY <2>4, <2>5
<1> QED
  BY <1>1, <1>2

LEMMA TypedStep == TypedInv /\ [Next]_vars => AllTyped(scopes')
<1> SUFFICES ASSUME TypedInv, [Next]_vars PROVE AllTyped(scopes')
  OBVIOUS
<1>0. AllTyped(scopes) /\ SemanticInv
  BY DEF TypedInv
<1>1. CASE UNCHANGED vars
  BY <1>0, <1>1 DEF vars
<1>2. CASE Next
  <2>1. status = "visiting"
    BY <1>2 DEF Next, VarDecl, StructDef, FuncDef, Block, Switch, While, For, If, Elif, ExprStmt,
              BreakOrContinue, Return, Case, Else, Leave, Finish, Visiting, BetweenBranches
  <2>2. SoundNow
    BY <1>0, <2>1, VisitingSound
  <2>3. ASSUME NEW s \in Statement,
               Block(s) \/ Switch(s) \/ While(s) \/ If(s) \/ Elif(s) \/ ExprStmt(s)
                 \/ BreakOrContinue(s) \/ Return(s) \/ Case(s)
        PROVE  scopes' \in {scopes, Append(scopes, << >>), << >>}
    BY <2>3 DEF Block, Switch, While, If, Elif, NextBranch, Branch, ExprStmt, BreakOrContinue,
              Return, Case, Check, Exit, Unchanged
  <2>4. CASE Else \/ Finish
    <3>1. scopes' \in {scopes, Append(scopes, << >>), << >>}
      BY <2>4 DEF Else, Finish, NextBranch, Branch, Check, Exit
    <3> QED
      BY <1>0, <2>2, <3>1, TypedOpens
  <2> QED
    BY <1>0, <1>2, <2>2, <2>3, <2>4, TypedDeclarations, TypedFunction, TypedIterator,
       TypedOpens, TypedCloses DEF Next
<1> QED
  BY <1>1, <1>2

LEMMA TypedAlways == Spec => []TypedInv
<1>1. Init => TypedInv
  BY InitSound, TypedInit DEF TypedInv
<1>2. TypedInv /\ [Next]_vars => TypedInv'
  BY StepSound, TypedStep DEF TypedInv
<1> QED
  BY <1>1, <1>2, PTL DEF Spec

-----------------------------------------------------------------------------
(***************************************************************************)
(* The types of expressions are well defined.                              *)
(***************************************************************************)
LEMMA LeastNat ==
  ASSUME NEW S, S \subseteq Nat, S # {}
  PROVE  \E x \in S : \A y \in S : x <= y
<1> DEFINE Under(x) == {y \in Nat : y < x}
           F == {Under(x) : x \in S}
<1>1. PICK top \in S : TRUE
  OBVIOUS
<1>2. top \in Nat
  BY <1>1
<1> DEFINE Upto == 0..top
           Low == {x \in S : x <= top}
           G == {Under(x) : x \in Low}
<1>3. IsFiniteSet(Upto)
  BY <1>2, FS_Interval
<1>4. IsWellFoundedOn(StrictSubsetOrdering(Upto), FiniteSubsetsOf(Upto))
  BY FS_StrictSubsetOrderingWellFounded
<1>5. G \subseteq FiniteSubsetsOf(Upto) /\ G # {}
  <2>1. \A x \in Low : Under(x) \subseteq Upto
    BY <1>2
  <2>2. \A x \in Low : IsFiniteSet(Under(x))
    <3> HIDE DEF Under, Upto, Low
    <3> QED
      BY <1>3, <2>1, FS_Subset
  <2>3. top \in Low
    BY <1>1, <1>2
  <2> HIDE DEF Under, Upto, Low
  <2> QED
    BY <2>1, <2>2, <2>3 DEF FiniteSubsetsOf
<1>6. PICK X \in G : \A Y \in G : ~ (<<Y, X>> \in StrictSubsetOrdering(Upto))
  <2> HIDE DEF G, Upto
  <2> QED
    BY <1>4, <1>5, WFMin
<1>7. PICK x \in Low : X = Under(x)
  BY <1>6
<1>8. x \in S /\ x \in Nat /\ x <= top
  BY <1>7
<1>9. ASSUME NEW y \in S PROVE x <= y
  <2> SUFFICES ASSUME y < x PROVE FALSE
    BY <1>8
  <2>1. y \in Nat /\ y \in Low
    BY <1>2, <1>8
  <2>2. /\ Under(y) \subseteq Under(x) /\ y \in Under(x) /\ y \notin Under(y)
        /\ Under(x) \subseteq Upto /\ Under(y) \subseteq Upto
    BY <1>2, <1>8, <2>1
  <2>3. Under(y) \in G
    BY <2>1
  <2> HIDE DEF Under, Upto, Low, G
  <2>4. <<Under(y), Under(x)>> \in StrictSubsetOrdering(Upto)
    BY <2>2 DEF StrictSubsetOrdering
  <2> QED
    BY <1>6, <1>7, <2>3, <2>4
<1> QED
  BY <1>8, <1>9

LEMMA GreatestNat ==
  ASSUME NEW n \in Nat, NEW S, S \subseteq 1..n, S # {}
  PROVE  \E x \in S : \A y \in S : y <= x
<1> DEFINE R == {n - y : y \in S}
<1>1. R \subseteq Nat /\ R # {}
  <2>1. \A y \in 1..n : n - y \in Nat
    OBVIOUS
  <2> QED
    BY <2>1
<1>2. PICK r \in R : \A q \in R : r <= q
  BY <1>1, LeastNat
<1>3. PICK x \in S : r = n - x
  BY <1>2
<1>4. ASSUME NEW y \in S PROVE y <= x
  <2>1. r <= n - y
    BY <1>2
  <2>2. x \in Int /\ y \in Int
    OBVIOUS
  <2> HIDE DEF R
  <2> QED
    BY <1>3, <2>1, <2>2
<1> QED
  BY <1>3, <1>4

\* A name that is declared is that of a symbol in the tables.
LEMMA LookupFinds ==
  ASSUME SoundNow, NEW n, Declared(n)
  PROVE  \E k \in DOMAIN scopes : \E i \in DOMAIN scopes[k] : Lookup(n) = scopes[k][i]
<1> DEFINE In == {k \in DOMAIN scopes : n \in NamesIn(scopes[k])}
<1>1. IsScopes(scopes) /\ Len(scopes) \in Nat /\ DOMAIN scopes = 1..Len(scopes)
  BY NestedFacts DEF SoundNow, Sound
<1>2. In \subseteq 1..Len(scopes) /\ In # {}
  BY <1>1 DEF Declared
<1>3. \E k \in In : \A j \in In : j <= k
  BY <1>1, <1>2, GreatestNat
<1>4. \E k \in DOMAIN scopes :
        /\ n \in NamesIn(scopes[k])
        /\ \A j \in (k + 1)..Len(scopes) : n \notin NamesIn(scopes[j])
  BY <1>1, <1>3
<1> DEFINE K == CHOOSE k \in DOMAIN scopes :
                  /\ n \in NamesIn(scopes[k])
                  /\ \A j \in (k + 1)..Len(scopes) : n \notin NamesIn(scopes[j])
<1>5. K \in DOMAIN scopes /\ n \in NamesIn(scopes[K])
  BY <1>4
<1>6. Lookup(n) = First(scopes[K], n)
  BY DEF Lookup
<1> HIDE DEF K, In
<1> DEFINE At == {i \in DOMAIN scopes[K] : scopes[K][i].name = n}
<1>7. IsSeq(scopes[K])
  BY <1>1, <1>5 DEF IsScopes
<1>8. Len(scopes[K]) \in Nat /\ DOMAIN scopes[K] = 1..Len(scopes[K])
  BY <1>7, SeqFacts
<1>9. At \subseteq Nat /\ At # {}
  BY <1>5, <1>8 DEF NamesIn
<1>10. \E i \in At : \A j \in At : i <= j
  BY <1>9, LeastNat
<1>11. \E i \in DOMAIN scopes[K] :
         scopes[K][i].name = n /\ \A j \in 1..(i - 1) : scopes[K][j].name # n
  BY <1>8, <1>10
<1>12. \E i \in DOMAIN scopes[K] : First(scopes[K], n) = scopes[K][i]
  BY <1>11 DEF First
<1> QED
  BY <1>5, <1>6, <1>12

LEMMA LookupTyped ==
  ASSUME SoundNow, AllTyped(scopes), NEW n, Declared(n)
  PROVE  SymbolTyped(Lookup(n))
BY LookupFinds DEF AllTyped, TableTyped

LEMMA FieldTyped ==
  ASSUME SoundNow, AllTyped(scopes), NEW t, NEW field
  PROVE  \E u : IsType(u) /\ \A b : FieldType(t, field, b) = Fixed(u, b)
<1>1. CASE ~ (Len(t) = 2 /\ t[1] = "struct" /\ IsStruct(t[2]))
  BY <1>1, WordsAreTypes DEF FieldType
<1>2. CASE Len(t) = 2 /\ t[1] = "struct" /\ IsStruct(t[2])
  <2> DEFINE fields == Lookup(t[2]).node.fields
             named == {k \in DOMAIN fields : fields[k].name = field}
             u == IF named = {} THEN Failed
                  ELSE fields[CHOOSE k \in named : \A j \in named : k <= j].type
  <2>1. \A b : FieldType(t, field, b) = Fixed(u, b)
    BY <1>2 DEF FieldType
  <2>2. /\ Declared(t[2]) /\ Lookup(t[2]).node # NoNode
        /\ Lookup(t[2]).node.kind = "struct"
    BY <1>2 DEF IsStruct
  <2>3. IsList(fields) /\ \A k \in DOMAIN fields : IsType(fields[k].type)
    BY <2>2, LookupTyped DEF SymbolTyped, FieldsTyped
  <2>4. CASE named = {}
    BY <2>1, <2>4, WordsAreTypes
  <2>5. CASE named # {}
    <3> HIDE DEF fields
    <3>1. named \subseteq Nat
      BY <2>3 DEF IsList
    <3>2. \E k \in named : \A j \in named : k <= j
      BY <2>5, <3>1, LeastNat
    <3>3. (CHOOSE k \in named : \A j \in named : k <= j) \in named
      BY <3>2
    <3>4. IsType(u)
      BY <2>3, <2>5, <3>3
    <3> QED
      BY <2>1, <3>4
  <2> QED
    BY <2>4, <2>5
<1> QED
  BY <1>1, <1>2

Places == {"array_type", "elem_type"}

Pointers == [at : {"fixed"} \cup Places, text : Seq(Word), buffers : Buffers]

\* What get_expression_type returns in each case.
LEMMA StepCases ==
  ASSUME NEW T, NEW e, NEW b
  PROVE  /\ e.kind = "literal" => TypeStep(T, e, b) = Fixed(e.type, b)
         /\ e.kind \in {"identifier", "call"} =>
              TypeStep(T, e, b) =
                Fixed(IF Declared(e.name) THEN Lookup(e.name).type ELSE Unknown, b)
         /\ e.kind = "binary" =>
              TypeStep(T, e, b) =
                BinaryType(e.op, T[e.left][b], T[e.right][T[e.left][b].buffers])
         /\ e.kind = "unary" => TypeStep(T, e, b) = T[e.operand][b]
         /\ e.kind = "array" =>
              TypeStep(T, e, b) =
                IF e.elements = << >> THEN Fixed(<<"unknown", "[]">>, b)
                ELSE ArrayType(T[e.elements[1]][b])
         /\ e.kind = "index" => TypeStep(T, e, b) = IndexedType(T[e.array][b])
         /\ e.kind = "field" =>
              TypeStep(T, e, b) =
                FieldType(T[e.struct][b].text, e.field, T[e.struct][b].buffers)
         /\ e.kind \in {"assign", "fstring", "interp"} => TypeStep(T, e, b) = Fixed(Unknown, b)
<1>1. e.kind = "literal" => TypeStep(T, e, b) = Fixed(e.type, b)
  BY Zenon DEF TypeStep
<1>2. e.kind \in {"identifier", "call"} =>
        TypeStep(T, e, b) = Fixed(IF Declared(e.name) THEN Lookup(e.name).type ELSE Unknown, b)
  BY Zenon DEF TypeStep
<1>3. e.kind = "binary" =>
        TypeStep(T, e, b) = BinaryType(e.op, T[e.left][b], T[e.right][T[e.left][b].buffers])
  BY Zenon DEF TypeStep
<1>4. e.kind = "unary" => TypeStep(T, e, b) = T[e.operand][b]
  BY Zenon DEF TypeStep
<1>5. e.kind = "array" =>
        TypeStep(T, e, b) =
          IF e.elements = << >> THEN Fixed(<<"unknown", "[]">>, b)
          ELSE ArrayType(T[e.elements[1]][b])
  BY Zenon DEF TypeStep
<1>6. e.kind = "index" => TypeStep(T, e, b) = IndexedType(T[e.array][b])
  BY Zenon DEF TypeStep
<1>7. e.kind = "field" =>
        TypeStep(T, e, b) = FieldType(T[e.struct][b].text, e.field, T[e.struct][b].buffers)
  BY Zenon DEF TypeStep
<1>8. e.kind \in {"assign", "fstring", "interp"} => TypeStep(T, e, b) = Fixed(Unknown, b)
  BY Zenon DEF TypeStep
<1> QED
  BY <1>1, <1>2, <1>3, <1>4, <1>5, <1>6, <1>7, <1>8

LEMMA PartsCases ==
  ASSUME NEW e \in Expr
  PROVE  /\ e.kind = "binary" => e.left \in Parts(e) /\ e.right \in Parts(e)
         /\ e.kind = "assign" => e.left \in Parts(e) /\ e.right \in Parts(e)
         /\ e.kind = "unary" => e.operand \in Parts(e)
         /\ e.kind = "call" => \A k \in DOMAIN e.args : e.args[k] \in Parts(e)
         /\ e.kind = "array" => \A k \in DOMAIN e.elements : e.elements[k] \in Parts(e)
         /\ e.kind = "index" => e.array \in Parts(e) /\ e.index \in Parts(e)
         /\ e.kind = "field" => e.struct \in Parts(e)
         /\ e.kind = "fstring" => \A k \in DOMAIN e.parts : e.parts[k] \in Parts(e)
         /\ e.kind = "interp" => e.expr \in Parts(e)
<1>1. e.kind \in {"binary", "assign"} => Parts(e) = {e.left, e.right}
  BY Zenon DEF Parts
<1>2. e.kind = "unary" => Parts(e) = {e.operand}
  BY Zenon DEF Parts
<1>3. e.kind = "call" => Parts(e) = {e.args[k] : k \in DOMAIN e.args}
  BY Zenon DEF Parts
<1>4. e.kind = "array" => Parts(e) = {e.elements[k] : k \in DOMAIN e.elements}
  BY Zenon DEF Parts
<1>5. e.kind = "index" => Parts(e) = {e.array, e.index}
  BY Zenon DEF Parts
<1>6. e.kind = "field" => Parts(e) = {e.struct}
  BY Zenon DEF Parts
<1>7. e.kind = "fstring" => Parts(e) = {e.parts[k] : k \in DOMAIN e.parts}
  BY Zenon DEF Parts
<1>8. e.kind = "interp" => Parts(e) = {e.expr}
  BY Zenon DEF Parts
<1> QED
  BY <1>1, <1>2, <1>3, <1>4, <1>5, <1>6, <1>7, <1>8

LEMMA FixedPointer ==
  ASSUME NEW t, t \in Seq(Word), NEW b \in Buffers
  PROVE  /\ Fixed(t, b) \in Pointers
         /\ Fixed(t, b).at = "fixed" /\ Fixed(t, b).text = t /\ Fixed(t, b).buffers = b
BY DEF Fixed, Pointers

LEMMA BufferedPointer ==
  ASSUME NEW t, t \in Seq(Word), NEW b \in Buffers, NEW at \in Places
  PROVE  /\ Buffered(at, t, b) \in Pointers
         /\ Buffered(at, t, b).at = at /\ Buffered(at, t, b).text = t
         /\ Buffered(at, t, b).buffers[at] = t
         /\ \A x \in Places \ {at} : Buffered(at, t, b).buffers[x] = b[x]
<1>1. CASE at = "array_type"
  BY <1>1 DEF Buffered, Pointers, Buffers, Places
<1>2. CASE at = "elem_type"
  BY <1>2 DEF Buffered, Pointers, Buffers, Places
<1> QED
  BY <1>1, <1>2 DEF Places

LEMMA PointerFacts ==
  ASSUME NEW p \in Pointers
  PROVE  /\ p.at \in {"fixed"} \cup Places /\ p.text \in Seq(Word) /\ p.buffers \in Buffers
         /\ \A x \in Places : p.buffers[x] \in Seq(Word)
BY DEF Pointers, Places, Buffers

LEMMA DerefText ==
  ASSUME NEW p \in Pointers, NEW b \in Buffers
  PROVE  Deref(p, b) \in Seq(Word)
<1>1. \A x \in Places : b[x] \in Seq(Word)
  BY DEF Buffers, Places
<1> QED
  BY <1>1, PointerFacts DEF Deref

\* The type of a binary expression, its text and its place.
LEMMA BinaryCases ==
  ASSUME NEW op, NEW l, NEW r
  PROVE  LET t == BinaryType(op, l, r)
             a == Deref(l, r.buffers)
         IN  /\ t.buffers = r.buffers
             /\ \/ \E u : IsType(u) /\ t = Fixed(u, r.buffers)
                \/ t.at = l.at /\ t.text = a /\ t = [at |-> l.at, text |-> a, buffers |-> r.buffers]
<1> DEFINE b == r.buffers
           a == Deref(l, b)
           c == Deref(r, b)
           t == BinaryType(op, l, r)
           pow == IF ~ (IsNumeric(a) /\ IsNumeric(c)) THEN Failed
                  ELSE IF F64 \in {a, c} THEN F64 ELSE I32
           cmp == IF a = c THEN Bool ELSE Failed
           mix == IF {a, c} = {F64, I32} THEN F64 ELSE Unknown
           same == [at |-> l.at, text |-> a, buffers |-> b]
<1>1. t = IF Failed \in {a, c} THEN Fixed(Failed, b)
          ELSE IF op = "**" THEN Fixed(pow, b)
          ELSE IF op \in Comparison THEN Fixed(cmp, b)
          ELSE IF a = c THEN same
          ELSE Fixed(mix, b)
  BY DEF BinaryType
<1>2. IsType(pow) /\ IsType(cmp) /\ IsType(mix) /\ IsType(Failed)
  BY WordsAreTypes
<1>3. \A u : Fixed(u, b).buffers = b
  BY DEF Fixed
<1>4. same.buffers = b /\ same.at = l.at /\ same.text = a
  OBVIOUS
<1> HIDE DEF pow, cmp, mix, t
<1>5. t = same \/ \E u : IsType(u) /\ t = Fixed(u, b)
  <2> HIDE DEF same, a, b, c
  <2> QED
    BY <1>1, <1>2
<1> QED
  <2> HIDE DEF a, c
  <2> QED
    BY <1>3, <1>4, <1>5 DEF t, a

LEMMA TypeIsText ==
  ASSUME NEW t, IsType(t)
  PROVE  t \in Seq(Word) /\ t # << >>
BY DEF IsType

LEMMA BinaryPointer ==
  ASSUME NEW op, NEW l \in Pointers, NEW r \in Pointers
  PROVE  BinaryType(op, l, r) \in Pointers
<1> DEFINE t == BinaryType(op, l, r)
<1>1. r.buffers \in Buffers /\ l.at \in {"fixed"} \cup Places
  BY PointerFacts
<1>2. Deref(l, r.buffers) \in Seq(Word)
  BY <1>1, DerefText
<1>3. \/ \E u : IsType(u) /\ t = Fixed(u, r.buffers)
      \/ t = [at |-> l.at, text |-> Deref(l, r.buffers), buffers |-> r.buffers]
  BY BinaryCases
<1>4. [at |-> l.at, text |-> Deref(l, r.buffers), buffers |-> r.buffers] \in Pointers
  BY <1>1, <1>2 DEF Pointers
<1> QED
  BY <1>1, <1>3, <1>4, FixedPointer, TypeIsText

LEMMA AppendIsType ==
  ASSUME NEW t, IsType(t)
  PROVE  IsType(Append(t, "[]"))
<1>1. t \in Seq(Word) /\ t # << >> /\ t[1] # "[]" /\ "[]" \in Word
  BY WordAssumption DEF IsType
<1>2. Append(t, "[]") \in Seq(Word) /\ Append(t, "[]")[1] = t[1] /\ Append(t, "[]") # << >>
  BY <1>1
<1> QED
  BY <1>1, <1>2 DEF IsType

\* The first elements of a sequence.
LEMMA FrontOfSeq ==
  ASSUME NEW S, NEW s \in Seq(S), NEW k \in Nat, k <= Len(s)
  PROVE  /\ SubSeq(s, 1, k) \in Seq(S)
         /\ Len(SubSeq(s, 1, k)) = k
         /\ k > 0 => SubSeq(s, 1, k)[1] = s[1]
<1>1. Len(s) \in Nat /\ \A i \in 1..Len(s) : s[i] \in S
  OBVIOUS
<1>2. k \in Int /\ 1 \in Int /\ \A i \in 1..k : s[i] \in S
  BY <1>1
<1>3. /\ SubSeq(s, 1, k) \in Seq(S)
      /\ Len(SubSeq(s, 1, k)) = IF 1 <= k THEN k - 1 + 1 ELSE 0
      /\ \A i \in 1..k - 1 + 1 : SubSeq(s, 1, k)[i] = s[1 + i - 1]
  BY <1>2, SubSeqProperties
<1>4. k > 0 => 1 \in 1..k - 1 + 1 /\ 1 + 1 - 1 = 1
  OBVIOUS
<1> QED
  BY <1>3, <1>4

LEMMA CutIsText ==
  ASSUME NEW t, t \in Seq(Word), t # << >>
  PROVE  WithoutTwo(t) \in Seq(Word)
<1> DEFINE n == Len(t)
           front == SubSeq(t, 1, n - 1)
<1>1. n \in Nat \ {0} /\ t[n] \in Word
  OBVIOUS
<1>2. front \in Seq(Word)
  <2>1. n - 1 \in Nat /\ n - 1 <= Len(t)
    BY <1>1
  <2> QED
    BY <2>1, FrontOfSeq
<1>3. Cut(t[n]) \in Word
  BY <1>1, WordAssumption
<1>4. Append(front, Cut(t[n])) \in Seq(Word)
  BY <1>2, <1>3, AppendProperties
<1>5. WithoutTwo(t) = IF t[n] = "[]" THEN front ELSE Append(front, Cut(t[n]))
  BY DEF WithoutTwo
<1> HIDE DEF n, front
<1> QED
  BY <1>2, <1>4, <1>5

\* Cutting a type never takes its name away.
LEMMA CutIsType ==
  ASSUME NEW t, IsType(t)
  PROVE  IsType(WithoutTwo(t))
<1> DEFINE n == Len(t)
           front == SubSeq(t, 1, n - 1)
<1>1. t \in Seq(Word) /\ t # << >> /\ t[1] # "[]"
  BY DEF IsType
<1>2. n \in Nat \ {0} /\ t[n] \in Word
  BY <1>1
<1>3. /\ front \in Seq(Word) /\ Len(front) = n - 1
      /\ n > 1 => front[1] = t[1]
  <2>1. n - 1 \in Nat /\ n - 1 <= Len(t) /\ (n > 1 => n - 1 > 0)
    BY <1>2
  <2> QED
    BY <1>1, <2>1, FrontOfSeq
<1>4. Cut(t[n]) \in Word \ {"[]"}
  BY <1>2, WordAssumption
<1>5. WithoutTwo(t) = IF t[n] = "[]" THEN front ELSE Append(front, Cut(t[n]))
  BY DEF WithoutTwo
<1>6. CASE t[n] = "[]"
  <2>1. n > 1
    BY <1>1, <1>2, <1>6
  <2> HIDE DEF n, front
  <2>2. front # << >> /\ front[1] # "[]"
    BY <1>1, <1>2, <1>3, <2>1
  <2> QED
    BY <1>3, <1>5, <1>6, <2>2 DEF IsType
<1>7. CASE t[n] # "[]"
  <2> DEFINE u == Append(front, Cut(t[n]))
  <2> HIDE DEF n, front
  <2>1. u \in Seq(Word) /\ Len(u) = n /\ u # << >>
    <3>1. u \in Seq(Word) /\ Len(u) = Len(front) + 1 /\ u # << >>
      BY <1>3, <1>4, AppendProperties
    <3> QED
      BY <1>2, <1>3, <3>1
  <2>2. CASE n = 1
    <3>1. Len(front) + 1 = 1
      BY <1>3, <2>2
    <3>2. u[Len(front) + 1] = Cut(t[n])
      BY <1>3, <1>4, AppendProperties
    <3>3. u[1] = Cut(t[n])
      BY <3>1, <3>2
    <3> QED
      BY <1>4, <1>5, <1>7, <2>1, <3>3 DEF IsType
  <2>3. CASE n > 1
    <3>1. u[1] = front[1]
      <4>1. 1 \in 1..Len(front)
        BY <1>2, <1>3, <2>3
      <4> QED
        BY <1>3, <1>4, <4>1, AppendProperties
    <3> QED
      BY <1>1, <1>3, <1>5, <1>7, <2>1, <2>3, <3>1 DEF IsType
  <2> QED
    BY <1>2, <2>2, <2>3
<1> QED
  BY <1>6, <1>7

\* The types of an array and of an element of one are written to a buffer,
\* or are strings that stay.
LEMMA ArrayCases ==
  ASSUME NEW elem
  PROVE  ArrayType(elem) =
           IF elem.text = Failed THEN Fixed(Failed, elem.buffers)
           ELSE Buffered("array_type", Append(elem.text, "[]"), elem.buffers)
BY Zenon DEF ArrayType

LEMMA IndexedCases ==
  ASSUME NEW array
  PROVE  IndexedType(array) =
           IF array.text = Failed THEN Fixed(Failed, array.buffers)
           ELSE IF array.text \in Short THEN Fixed(Unknown, array.buffers)
           ELSE Buffered("elem_type", WithoutTwo(array.text), array.buffers)
BY Zenon DEF IndexedType

LEMMA StepType ==
  ASSUME SoundNow, AllTyped(scopes), NEW e \in Expr, NEW b \in Buffers,
         NEW T, \A p \in Parts(e) : \A c \in Buffers : T[p][c] \in Pointers
  PROVE  TypeStep(T, e, b) \in Pointers
<1>1. CASE e.kind = "literal"
  BY <1>1, StepCases, ExprAssumption, FixedPointer, TypeIsText
<1>2. CASE e.kind \in {"identifier", "call"}
  <2>1. IsType(IF Declared(e.name) THEN Lookup(e.name).type ELSE Unknown)
    BY LookupTyped, WordsAreTypes DEF SymbolTyped
  <2> QED
    BY <1>2, <2>1, StepCases, FixedPointer, TypeIsText
<1>3. CASE e.kind = "binary"
  <2>1. T[e.left][b] \in Pointers
    BY <1>3, PartsCases
  <2>2. T[e.right][T[e.left][b].buffers] \in Pointers
    BY <1>3, <2>1, PartsCases, PointerFacts
  <2> QED
    BY <1>3, <2>1, <2>2, BinaryPointer, StepCases
<1>4. CASE e.kind = "unary"
  BY <1>4, PartsCases, StepCases
<1>5. CASE e.kind = "array"
  <2>1. CASE e.elements = << >>
    <3>1. <<"unknown", "[]">> \in Seq(Word)
      <4>1. "unknown" \in Word /\ "[]" \in Word
        BY WordAssumption
      <4>2. \A v, w \in Word : <<v, w>> \in Seq(Word)
        OBVIOUS
      <4> QED
        BY <4>1, <4>2
    <3>2. TypeStep(T, e, b) = Fixed(<<"unknown", "[]">>, b)
      BY <1>5, <2>1, StepCases
    <3>3. Fixed(<<"unknown", "[]">>, b) \in Pointers
      BY <3>1, FixedPointer
    <3> QED
      BY <3>2, <3>3
  <2>2. CASE e.elements # << >>
    <3>1. 1 \in DOMAIN e.elements
      <4>1. e.elements \in Seq(Expr)
        BY <1>5, ExprAssumption
      <4> QED
        BY <2>2, <4>1
    <3>2. T[e.elements[1]][b] \in Pointers
      BY <1>5, <3>1, PartsCases
    <3> DEFINE p == T[e.elements[1]][b]
    <3>3. p.text \in Seq(Word) /\ p.buffers \in Buffers /\ "array_type" \in Places
      BY <3>2, PointerFacts DEF Places
    <3>4. Append(p.text, "[]") \in Seq(Word) /\ Failed \in Seq(Word)
      BY <3>3, WordAssumption, WordsAreTypes, TypeIsText
    <3>5. TypeStep(T, e, b) = ArrayType(p)
      BY <1>5, <2>2, StepCases
    <3> HIDE DEF p
    <3>6. CASE p.text = Failed
      BY <3>3, <3>4, <3>5, <3>6, ArrayCases, FixedPointer
    <3>7. CASE p.text # Failed
      <4>1. ArrayType(p) = Buffered("array_type", Append(p.text, "[]"), p.buffers)
        BY <3>7, ArrayCases
      <4>2. Buffered("array_type", Append(p.text, "[]"), p.buffers) \in Pointers
        BY <3>3, <3>4, BufferedPointer
      <4> QED
        BY <3>5, <4>1, <4>2
    <3> QED
      BY <3>6, <3>7
  <2> QED
    BY <2>1, <2>2
<1>6. CASE e.kind = "index"
  <2>1. T[e.array][b] \in Pointers
    BY <1>6, PartsCases
  <2> DEFINE p == T[e.array][b]
  <2>2. TypeStep(T, e, b) = IndexedType(p)
    BY <1>6, StepCases
  <2> HIDE DEF p
  <2>3. p.text \in Seq(Word) /\ p.buffers \in Buffers /\ "elem_type" \in Places
    BY <2>1, PointerFacts DEF Places, p
  <2>4. Failed \in Seq(Word) /\ Unknown \in Seq(Word)
    BY WordsAreTypes, TypeIsText
  <2>5. CASE p.text = Failed
    BY <2>2, <2>3, <2>4, <2>5, IndexedCases, FixedPointer
  <2>6. CASE p.text # Failed /\ p.text \in Short
    BY <2>2, <2>3, <2>4, <2>6, IndexedCases, FixedPointer
  <2>7. CASE p.text # Failed /\ p.text \notin Short
    <3>1. p.text # << >>
      BY <2>7 DEF Short
    <3>2. WithoutTwo(p.text) \in Seq(Word)
      BY <2>3, <3>1, CutIsText
    <3>3. TypeStep(T, e, b) = Buffered("elem_type", WithoutTwo(p.text), p.buffers)
      BY <2>2, <2>7, IndexedCases
    <3>4. Buffered("elem_type", WithoutTwo(p.text), p.buffers) \in Pointers
      BY <2>3, <3>2, BufferedPointer
    <3> QED
      BY <3>3, <3>4
  <2> QED
    BY <2>5, <2>6, <2>7
<1>7. CASE e.kind = "field"
  <2>1. T[e.struct][b] \in Pointers
    BY <1>7, PartsCases
  <2>2. T[e.struct][b].buffers \in Buffers
    BY <2>1, PointerFacts
  <2>3. TypeStep(T, e, b) = FieldType(T[e.struct][b].text, e.field, T[e.struct][b].buffers)
    BY <1>7, StepCases
  <2>4. PICK u : /\ IsType(u)
                 /\ FieldType(T[e.struct][b].text, e.field, T[e.struct][b].buffers)
                      = Fixed(u, T[e.struct][b].buffers)
    BY FieldTyped
  <2>5. Fixed(u, T[e.struct][b].buffers) \in Pointers
    BY <2>2, <2>4, FixedPointer, TypeIsText
  <2> QED
    BY <2>3, <2>4, <2>5
<1>8. CASE e.kind \in {"assign", "fstring", "interp"}
  BY <1>8, StepCases, FixedPointer, TypeIsText, WordsAreTypes
<1> QED
  BY <1>1, <1>2, <1>3, <1>4, <1>5, <1>6, <1>7, <1>8, ExprAssumption

LEMMA StepLocal ==
  ASSUME NEW e \in Expr, NEW b \in Buffers,
         NEW T, \A p \in Parts(e) : \A c \in Buffers : T[p][c] \in Pointers,
         NEW U, \A p \in Parts(e) : \A c \in Buffers : U[p][c] = T[p][c]
  PROVE  TypeStep(U, e, b) = TypeStep(T, e, b)
<1>1. CASE e.kind \in {"literal", "identifier", "call", "assign", "fstring", "interp"}
  BY <1>1, StepCases
<1>2. CASE e.kind = "binary"
  <2>1. U[e.left][b] = T[e.left][b] /\ T[e.left][b].buffers \in Buffers
    BY <1>2, PartsCases, PointerFacts
  <2> QED
    BY <1>2, <2>1, PartsCases, StepCases
<1>3. CASE e.kind = "unary"
  BY <1>3, PartsCases, StepCases
<1>4. CASE e.kind = "array"
  <2>1. CASE e.elements = << >>
    BY <1>4, <2>1, StepCases
  <2>2. CASE e.elements # << >>
    <3>1. 1 \in DOMAIN e.elements
      <4>1. e.elements \in Seq(Expr)
        BY <1>4, ExprAssumption
      <4> QED
        BY <2>2, <4>1
    <3>2. U[e.elements[1]][b] = T[e.elements[1]][b]
      BY <1>4, <3>1, PartsCases
    <3> QED
      BY <1>4, <2>2, <3>2, StepCases
  <2> QED
    BY <2>1, <2>2
<1>5. CASE e.kind = "index"
  BY <1>5, PartsCases, StepCases
<1>6. CASE e.kind = "field"
  BY <1>6, PartsCases, StepCases
<1> QED
  BY <1>1, <1>2, <1>3, <1>4, <1>5, <1>6, ExprAssumption

(***************************************************************************)
(* The recursion has a solution on the expressions below any height, and   *)
(* two solutions agree where both are defined.                             *)
(***************************************************************************)
Below(n) == {e \in Expr : Height(e) < n}

Solves(F, n) ==
  \A e \in Below(n), b \in Buffers : F[e][b] \in Pointers /\ F[e][b] = TypeStep(F, e, b)

LEMMA PartsBelow ==
  ASSUME NEW n \in Nat, NEW e \in Below(n + 1)
  PROVE  /\ e \in Expr /\ Height(e) \in Nat /\ Height(e) < n + 1
         /\ \A p \in Parts(e) : p \in Below(n) /\ p \in Below(Height(e))
<1>1. e \in Expr /\ Height(e) < n + 1 /\ Height(e) \in Nat
  BY ExprAssumption DEF Below
<1>2. \A p \in Parts(e) : p \in Expr /\ Height(p) < Height(e) /\ Height(p) \in Nat
  BY <1>1, ExprAssumption
<1> QED
  BY <1>1, <1>2 DEF Below

LEMMA SolutionsGrow ==
  ASSUME SoundNow, AllTyped(scopes), NEW n \in Nat, \E F : Solves(F, n)
  PROVE  \E G : Solves(G, n + 1)
<1>1. PICK F : Solves(F, n)
  OBVIOUS
<1> DEFINE G == [e \in Below(n + 1) |-> [b \in Buffers |-> TypeStep(F, e, b)]]
<1>2. \A e \in Below(n + 1), b \in Buffers : G[e][b] = TypeStep(F, e, b)
  OBVIOUS
<1>3. \A e \in Below(n) : e \in Below(n + 1)
  BY ExprAssumption DEF Below
<1> HIDE DEF G
<1>4. \A e \in Below(n), b \in Buffers : G[e][b] = F[e][b]
  BY <1>1, <1>2, <1>3 DEF Solves
<1>5. ASSUME NEW e \in Below(n + 1), NEW b \in Buffers
      PROVE  G[e][b] \in Pointers /\ G[e][b] = TypeStep(G, e, b)
  <2>1. e \in Expr /\ \A p \in Parts(e) : p \in Below(n)
    BY PartsBelow
  <2>2. \A p \in Parts(e) : \A c \in Buffers : F[p][c] \in Pointers /\ G[p][c] = F[p][c]
    BY <1>1, <1>4, <2>1 DEF Solves
  <2>3. TypeStep(F, e, b) \in Pointers
    BY <2>1, <2>2, StepType
  <2>4. TypeStep(G, e, b) = TypeStep(F, e, b)
    BY <2>1, <2>2, StepLocal
  <2> QED
    BY <1>2, <2>3, <2>4
<1> QED
  BY <1>5 DEF Solves

LEMMA SolutionsExist ==
  ASSUME SoundNow, AllTyped(scopes)
  PROVE  \A n \in Nat : \E F : Solves(F, n)
<1> DEFINE Without == {n \in Nat : ~ \E F : Solves(F, n)}
<1> SUFFICES ASSUME Without # {} PROVE FALSE
  OBVIOUS
<1>1. PICK n \in Without : \A m \in Without : n <= m
  BY LeastNat
<1>2. n # 0
  <2>1. Below(0) = {}
    BY ExprAssumption DEF Below
  <2>2. \A F : Solves(F, 0)
    BY <2>1 DEF Solves
  <2> QED
    BY <2>2
<1>3. n - 1 \in Nat /\ n = (n - 1) + 1
  BY <1>2
<1>4. n - 1 \notin Without
  BY <1>1, <1>3
<1>5. \E F : Solves(F, n - 1)
  BY <1>3, <1>4
<1>6. \E F : Solves(F, n)
  BY <1>3, <1>5, SolutionsGrow
<1> QED
  BY <1>6

LEMMA SolutionsAgree ==
  ASSUME SoundNow, AllTyped(scopes), NEW m \in Nat, NEW n \in Nat,
         NEW F, Solves(F, m), NEW G, Solves(G, n)
  PROVE  \A e \in Below(m) \cap Below(n), b \in Buffers : F[e][b] = G[e][b]
<1> DEFINE Bad == {e \in Below(m) \cap Below(n) : \E b \in Buffers : F[e][b] # G[e][b]}
           Heights == {Height(e) : e \in Bad}
<1> SUFFICES ASSUME Bad # {} PROVE FALSE
  OBVIOUS
<1>1. \A e \in Bad : e \in Expr /\ Height(e) \in Nat
  BY ExprAssumption DEF Below
<1>2. Heights \subseteq Nat /\ Heights # {}
  BY <1>1
<1>3. PICK h \in Heights : \A g \in Heights : h <= g
  <2> HIDE DEF Heights
  <2> QED
    BY <1>2, LeastNat
<1>4. PICK e \in Bad : h = Height(e)
  BY <1>3
<1>5. PICK b \in Buffers : F[e][b] # G[e][b]
  BY <1>4
<1>6. e \in Below(m) /\ e \in Below(n) /\ e \in Expr /\ Height(e) \in Nat
  BY <1>1
<1>7. \A p \in Parts(e) : p \in Expr /\ Height(p) \in Nat /\ Height(p) < Height(e)
  BY <1>6, ExprAssumption
<1>8. \A p \in Parts(e) : p \in Below(m) /\ p \in Below(n)
  BY <1>6, <1>7 DEF Below
<1>9. \A p \in Parts(e) : p \notin Bad
  <2> SUFFICES ASSUME NEW p \in Parts(e), p \in Bad PROVE FALSE
    OBVIOUS
  <2>1. h <= Height(p)
    BY <1>3
  <2> QED
    BY <1>4, <1>6, <1>7, <2>1
<1>10. \A p \in Parts(e) : \A c \in Buffers : F[p][c] \in Pointers /\ G[p][c] = F[p][c]
  <2>1. \A p \in Parts(e) : \A c \in Buffers : G[p][c] = F[p][c]
    BY <1>8, <1>9
  <2> QED
    BY <1>8, <2>1 DEF Solves
<1> HIDE DEF Bad, Heights
<1>11. TypeStep(F, e, b) = TypeStep(G, e, b)
  BY <1>6, <1>10, StepLocal
<1> QED
  BY <1>5, <1>6, <1>11 DEF Solves

Types == CHOOSE T : T = [e \in Expr |-> [b \in Buffers |-> TypeStep(T, e, b)]]

LEMMA TypesExist ==
  ASSUME SoundNow, AllTyped(scopes)
  PROVE  \E T : T = [e \in Expr |-> [b \in Buffers |-> TypeStep(T, e, b)]]
<1> DEFINE G == [n \in Nat |-> CHOOSE F : Solves(F, n)]
           T == [e \in Expr |-> [b \in Buffers |-> G[Height(e) + 1][e][b]]]
           U == [e \in Expr |-> [b \in Buffers |-> TypeStep(T, e, b)]]
<1>1. \A n \in Nat : Solves(G[n], n)
  <2>1. \A n \in Nat : Solves((CHOOSE F : Solves(F, n)), n)
    BY SolutionsExist
  <2> QED
    BY <2>1
<1>2. \A e \in Expr, b \in Buffers : T[e][b] = G[Height(e) + 1][e][b]
  OBVIOUS
<1>3. T = [e \in Expr |-> T[e]] /\ \A e \in Expr : T[e] = [b \in Buffers |-> T[e][b]]
  OBVIOUS
<1>4. U = [e \in Expr |-> U[e]] /\ \A e \in Expr : U[e] = [b \in Buffers |-> U[e][b]]
  OBVIOUS
<1>5. \A e \in Expr, b \in Buffers : U[e][b] = TypeStep(T, e, b)
  OBVIOUS
<1> HIDE DEF G, T, U
<1>6. ASSUME NEW e \in Expr, NEW b \in Buffers PROVE T[e][b] = U[e][b]
  <2> DEFINE n == Height(e) + 1
  <2>1. Height(e) \in Nat /\ n \in Nat /\ e \in Below(n)
    BY ExprAssumption DEF Below
  <2>2. ASSUME NEW p \in Parts(e)
        PROVE  /\ p \in Expr /\ p \in Below(n)
               /\ Height(p) + 1 \in Nat /\ p \in Below(Height(p) + 1)
    <3>1. p \in Expr /\ Height(p) \in Nat /\ Height(p) < Height(e)
      BY ExprAssumption
    <3> QED
      BY <2>1, <3>1 DEF Below
  <2> HIDE DEF n
  <2>3. \A p \in Parts(e) : \A c \in Buffers : G[n][p][c] \in Pointers
    BY <1>1, <2>1, <2>2 DEF Solves
  <2>4. ASSUME NEW p \in Parts(e), NEW c \in Buffers PROVE T[p][c] = G[n][p][c]
    <3> DEFINE m == Height(p) + 1
    <3>1. m \in Nat /\ p \in Expr /\ p \in Below(m) \cap Below(n)
      BY <2>2
    <3>2. T[p][c] = G[m][p][c]
      BY <1>2, <3>1
    <3> HIDE DEF m
    <3>3. Solves(G[m], m) /\ Solves(G[n], n)
      BY <1>1, <2>1, <3>1
    <3> QED
      BY <2>1, <3>1, <3>2, <3>3, SolutionsAgree
  <2>5. TypeStep(T, e, b) = TypeStep(G[n], e, b)
    BY <2>3, <2>4, StepLocal
  <2>6. G[n][e][b] = TypeStep(G[n], e, b)
    BY <1>1, <2>1 DEF Solves
  <2> QED
    BY <1>2, <1>5, <2>5, <2>6 DEF n
<1>7. \A e \in Expr : T[e] = U[e]
  <2> SUFFICES ASSUME NEW e \in Expr PROVE T[e] = U[e]
    OBVIOUS
  <2> DEFINE f == T[e]
             g == U[e]
  <2>1. f = [b \in Buffers |-> f[b]] /\ g = [b \in Buffers |-> g[b]] /\ \A b \in Buffers : f[b] = g[b]
    BY <1>3, <1>4, <1>6
  <2> HIDE DEF f, g
  <2>2. f = g
    BY <2>1
  <2> QED
    BY <2>2 DEF f, g
<1>8. T = U
  BY <1>3, <1>4, <1>7
<1> QED
  BY <1>8 DEF U

LEMMA TypesFacts ==
  ASSUME SoundNow, AllTyped(scopes)
  PROVE  \A e \in Expr, b \in Buffers :
           /\ TypeWith(e, b) = Types[e][b]
           /\ Types[e][b] = TypeStep(Types, e, b)
           /\ Types[e][b] \in Pointers
<1>1. Types = [e \in Expr |-> [b \in Buffers |-> TypeStep(Types, e, b)]]
  BY TypesExist DEF Types
<1>2. ASSUME NEW e \in Expr, NEW b \in Buffers PROVE Types[e][b] = TypeStep(Types, e, b)
  <2> DEFINE U == [x \in Expr |-> [c \in Buffers |-> TypeStep(Types, x, c)]]
  <2>1. U[e][b] = TypeStep(Types, e, b)
    OBVIOUS
  <2>2. Types = U
    BY <1>1
  <2> HIDE DEF U
  <2> QED
    BY <2>1, <2>2
<1>3. ASSUME NEW e \in Expr, NEW b \in Buffers PROVE TypeWith(e, b) = Types[e][b]
  BY DEF TypeWith, Types
<1> DEFINE Bad == {e \in Expr : \E b \in Buffers : Types[e][b] \notin Pointers}
           Heights == {Height(e) : e \in Bad}
<1>4. Bad = {}
  <2> SUFFICES ASSUME Bad # {} PROVE FALSE
    OBVIOUS
  <2>1. Heights \subseteq Nat /\ Heights # {}
    BY ExprAssumption
  <2>2. PICK h \in Heights : \A g \in Heights : h <= g
    <3> HIDE DEF Heights
    <3> QED
      BY <2>1, LeastNat
  <2>3. PICK e \in Bad : h = Height(e)
    BY <2>2
  <2>4. PICK b \in Buffers : Types[e][b] \notin Pointers
    BY <2>3
  <2>5. ASSUME NEW p \in Parts(e) PROVE p \in Expr /\ p \notin Bad
    <3>1. e \in Expr /\ Height(e) \in Nat
      BY ExprAssumption
    <3>2. p \in Expr /\ Height(p) \in Nat /\ Height(p) < Height(e)
      BY <3>1, ExprAssumption
    <3>3. p \in Bad => Height(e) <= Height(p)
      BY <2>2, <2>3
    <3> HIDE DEF Bad, Heights
    <3> QED
      BY <3>1, <3>2, <3>3
  <2>6. \A p \in Parts(e) : \A c \in Buffers : Types[p][c] \in Pointers
    BY <2>5
  <2>7. TypeStep(Types, e, b) \in Pointers
    <3>1. e \in Expr
      OBVIOUS
    <3> HIDE DEF Bad, Heights
    <3> QED
      BY <2>6, <3>1, StepType
  <2> QED
    BY <1>2, <2>4, <2>7
<1> QED
  BY <1>2, <1>3, <1>4

(***************************************************************************)
(* Whether the visitor returns is well defined.                            *)
(***************************************************************************)
(***************************************************************************)
(* What the type of an expression depends on.  p is what                    *)
(* get_expression_type returns when the buffers hold b, and p0 when they   *)
(* hold nothing: the same type, in the same place, and either buffer has   *)
(* been given the same contents or left alone.                             *)
(***************************************************************************)
Settles(p, p0, b) ==
  /\ p.at = p0.at /\ p.text = p0.text
  /\ IsType(p.text)
  /\ p.at \in Places => p.buffers[p.at] = p.text
  /\ \A x \in Places :
       \/ p.buffers[x] = p0.buffers[x] /\ IsType(p0.buffers[x])
       \/ p.buffers[x] = b[x] /\ p0.buffers[x] = << >>

Settled(e) == \A b \in Buffers : Settles(Types[e][b], Types[e][NoBuffers], b)

LEMMA NoBuffersEmpty == NoBuffers \in Buffers /\ \A x \in Places : NoBuffers[x] = << >>
<1>1. << >> \in Seq(Word)
  OBVIOUS
<1>2. NoBuffers["array_type"] = << >> /\ NoBuffers["elem_type"] = << >>
  BY DEF NoBuffers
<1>3. NoBuffers \in Buffers
  BY <1>1 DEF NoBuffers, Buffers
<1> QED
  BY <1>2, <1>3 DEF Places

LEMMA FixedSettles ==
  ASSUME NEW t, IsType(t), NEW b \in Buffers
  PROVE  Settles(Fixed(t, b), Fixed(t, NoBuffers), b)
<1>1. "fixed" \notin Places
  BY DEF Places
<1>2. /\ Fixed(t, b).at = "fixed" /\ Fixed(t, b).text = t /\ Fixed(t, b).buffers = b
      /\ Fixed(t, NoBuffers).at = "fixed" /\ Fixed(t, NoBuffers).text = t
      /\ Fixed(t, NoBuffers).buffers = NoBuffers
  BY FixedPointer, TypeIsText, NoBuffersEmpty
<1> QED
  BY <1>1, <1>2, NoBuffersEmpty DEF Settles

\* A type that is put into a buffer after that of an operand.
LEMMA BufferedSettles ==
  ASSUME NEW t, IsType(t), NEW at \in Places, NEW b \in Buffers,
         NEW p \in Pointers, NEW p0 \in Pointers, Settles(p, p0, b)
  PROVE  Settles(Buffered(at, t, p.buffers), Buffered(at, t, p0.buffers), b)
<1> DEFINE q == Buffered(at, t, p.buffers)
           q0 == Buffered(at, t, p0.buffers)
<1>1. t \in Seq(Word) /\ p.buffers \in Buffers /\ p0.buffers \in Buffers
  BY TypeIsText, PointerFacts
<1>2. /\ q.at = at /\ q.text = t /\ q.buffers[at] = t
      /\ \A x \in Places \ {at} : q.buffers[x] = p.buffers[x]
  BY <1>1, BufferedPointer
<1>3. /\ q0.at = at /\ q0.text = t /\ q0.buffers[at] = t
      /\ \A x \in Places \ {at} : q0.buffers[x] = p0.buffers[x]
  BY <1>1, BufferedPointer
<1> HIDE DEF q, q0
<1>4. ASSUME NEW x \in Places
      PROVE  \/ q.buffers[x] = q0.buffers[x] /\ IsType(q0.buffers[x])
             \/ q.buffers[x] = b[x] /\ q0.buffers[x] = << >>
  <2>1. CASE x = at
    BY <1>2, <1>3, <2>1
  <2>2. CASE x # at
    BY <1>2, <1>3, <2>2 DEF Settles
  <2> QED
    BY <2>1, <2>2
<1>5. Settles(q, q0, b)
  BY <1>2, <1>3, <1>4 DEF Settles
<1> QED
  BY <1>5 DEF q, q0

(***************************************************************************)
(* The operands of a binary expression: l and l0 are those of the left     *)
(* one; r, r0 and s those of the right one, when the buffers hold what the *)
(* left one leaves there and when they hold nothing.                       *)
(***************************************************************************)
LEMMA OperandsSettle ==
  ASSUME NEW b \in Buffers,
         NEW l \in Pointers, NEW l0 \in Pointers, Settles(l, l0, b), Settles(l0, l0, NoBuffers),
         NEW r \in Pointers, NEW r0 \in Pointers, NEW s \in Pointers,
         Settles(r, s, l.buffers), Settles(r0, s, l0.buffers)
  PROVE  /\ r.at = r0.at /\ r.text = r0.text
         /\ Deref(r, r.buffers) = Deref(r0, r0.buffers)
         /\ IsType(Deref(l, r.buffers)) /\ Deref(l, r.buffers) = Deref(l0, r0.buffers)
         /\ \A x \in Places :
              \/ r.buffers[x] = r0.buffers[x] /\ IsType(r0.buffers[x])
              \/ r.buffers[x] = b[x] /\ r0.buffers[x] = << >>
<1>1. /\ l.at = l0.at /\ l.text = l0.text /\ IsType(l.text)
      /\ l.at \in Places => l.buffers[l.at] = l.text
      /\ l0.at \in Places => l0.buffers[l0.at] = l0.text
      /\ \A x \in Places :
           \/ l.buffers[x] = l0.buffers[x] /\ IsType(l0.buffers[x])
           \/ l.buffers[x] = b[x] /\ l0.buffers[x] = << >>
  BY DEF Settles
<1>2. /\ r.at = s.at /\ r.text = s.text /\ IsType(r.text)
      /\ r.at \in Places => r.buffers[r.at] = r.text
      /\ \A x \in Places :
           \/ r.buffers[x] = s.buffers[x] /\ IsType(s.buffers[x])
           \/ r.buffers[x] = l.buffers[x] /\ s.buffers[x] = << >>
  BY DEF Settles
<1>3. /\ r0.at = s.at /\ r0.text = s.text
      /\ r0.at \in Places => r0.buffers[r0.at] = r0.text
      /\ \A x \in Places :
           \/ r0.buffers[x] = s.buffers[x] /\ IsType(s.buffers[x])
           \/ r0.buffers[x] = l0.buffers[x] /\ s.buffers[x] = << >>
  BY DEF Settles
<1>4. ~ IsType(<< >>)
  BY DEF IsType
<1>5. r.at \in {"fixed"} \cup Places /\ l.at \in {"fixed"} \cup Places /\ "fixed" \notin Places
  BY PointerFacts DEF Places
<1>6. \A x \in Places :
        \/ r.buffers[x] = r0.buffers[x] /\ IsType(r0.buffers[x])
        \/ r.buffers[x] = l.buffers[x] /\ r0.buffers[x] = l0.buffers[x]
  BY <1>2, <1>3, <1>4
<1>7. \A x \in Places :
        \/ r.buffers[x] = r0.buffers[x] /\ IsType(r0.buffers[x])
        \/ r.buffers[x] = b[x] /\ r0.buffers[x] = << >>
  BY <1>1, <1>6
<1>8. Deref(r, r.buffers) = r.text /\ Deref(r0, r0.buffers) = r0.text
  BY <1>2, <1>3, <1>5 DEF Deref
<1>9. IsType(Deref(l, r.buffers)) /\ Deref(l, r.buffers) = Deref(l0, r0.buffers)
  <2>1. CASE l.at = "fixed"
    BY <1>1, <2>1 DEF Deref
  <2>2. CASE l.at \in Places
    <3>1. Deref(l, r.buffers) = r.buffers[l.at] /\ Deref(l0, r0.buffers) = r0.buffers[l.at]
      BY <1>1, <1>5, <2>2 DEF Deref
    <3> QED
      BY <1>1, <1>6, <2>2, <3>1
  <2> QED
    BY <1>5, <2>1, <2>2
<1> QED
  BY <1>2, <1>3, <1>7, <1>8, <1>9

LEMMA BinarySettles ==
  ASSUME NEW op, NEW b \in Buffers,
         NEW l \in Pointers, NEW l0 \in Pointers, Settles(l, l0, b), Settles(l0, l0, NoBuffers),
         NEW r \in Pointers, NEW r0 \in Pointers, NEW s \in Pointers,
         Settles(r, s, l.buffers), Settles(r0, s, l0.buffers)
  PROVE  Settles(BinaryType(op, l, r), BinaryType(op, l0, r0), b)
<1> DEFINE a == Deref(l, r.buffers)
           c == Deref(r, r.buffers)
           u == IF Failed \in {a, c} THEN Failed
                ELSE IF op = "**" THEN
                  (IF ~ (IsNumeric(a) /\ IsNumeric(c)) THEN Failed
                   ELSE IF F64 \in {a, c} THEN F64 ELSE I32)
                ELSE IF op \in Comparison THEN (IF a = c THEN Bool ELSE Failed)
                ELSE IF a = c THEN a
                ELSE (IF {a, c} = {F64, I32} THEN F64 ELSE Unknown)
           kept == Failed \notin {a, c} /\ op # "**" /\ op \notin Comparison /\ a = c
           p == BinaryType(op, l, r)
           p0 == BinaryType(op, l0, r0)
<1>1. /\ Deref(l0, r0.buffers) = a /\ Deref(r0, r0.buffers) = c /\ IsType(a)
      /\ l.at = l0.at
      /\ \A x \in Places :
           \/ r.buffers[x] = r0.buffers[x] /\ IsType(r0.buffers[x])
           \/ r.buffers[x] = b[x] /\ r0.buffers[x] = << >>
  BY OperandsSettle DEF Settles
<1>2. p.text = u /\ p.buffers = r.buffers /\ p.at = IF kept THEN l.at ELSE "fixed"
  BY DEF BinaryType, Fixed
<1>3. p0.text = u /\ p0.buffers = r0.buffers /\ p0.at = IF kept THEN l.at ELSE "fixed"
  <2> DEFINE a0 == Deref(l0, r0.buffers)
             c0 == Deref(r0, r0.buffers)
  <2>1. p0.text = (IF Failed \in {a0, c0} THEN Failed
                   ELSE IF op = "**" THEN
                     (IF ~ (IsNumeric(a0) /\ IsNumeric(c0)) THEN Failed
                      ELSE IF F64 \in {a0, c0} THEN F64 ELSE I32)
                   ELSE IF op \in Comparison THEN (IF a0 = c0 THEN Bool ELSE Failed)
                   ELSE IF a0 = c0 THEN a0
                   ELSE (IF {a0, c0} = {F64, I32} THEN F64 ELSE Unknown))
    BY DEF BinaryType, Fixed
  <2>2. p0.buffers = r0.buffers
    BY DEF BinaryType, Fixed
  <2>3. p0.at = IF Failed \notin {a0, c0} /\ op # "**" /\ op \notin Comparison /\ a0 = c0
                THEN l0.at ELSE "fixed"
    BY DEF BinaryType, Fixed
  <2>4. a0 = a /\ c0 = c
    BY <1>1
  <2> HIDE DEF a0, c0, a, c
  <2> QED
    BY <1>1, <2>1, <2>2, <2>3, <2>4
<1>4. IsType(u)
  <2> HIDE DEF a, c
  <2> QED
    BY <1>1, WordsAreTypes
<1>5. kept => u = a
  OBVIOUS
<1>6. l.at \in Places => a = r.buffers[l.at]
  BY DEF Deref, Places
<1> HIDE DEF u, a, c, kept, p, p0
<1>7. p.at \in Places => p.buffers[p.at] = p.text
  BY <1>2, <1>5, <1>6 DEF Places
<1>8. Settles(p, p0, b)
  BY <1>1, <1>2, <1>3, <1>4, <1>7 DEF Settles
<1> QED
  BY <1>8 DEF p, p0

\* A type that is the same string whatever the buffers hold, after that of
\* an operand.
LEMMA FixedAfterSettles ==
  ASSUME NEW u, IsType(u), NEW b \in Buffers,
         NEW p \in Pointers, NEW p0 \in Pointers, Settles(p, p0, b)
  PROVE  Settles(Fixed(u, p.buffers), Fixed(u, p0.buffers), b)
<1>1. /\ Fixed(u, p.buffers).at = "fixed" /\ Fixed(u, p.buffers).text = u
      /\ Fixed(u, p.buffers).buffers = p.buffers
      /\ Fixed(u, p0.buffers).at = "fixed" /\ Fixed(u, p0.buffers).text = u
      /\ Fixed(u, p0.buffers).buffers = p0.buffers
      /\ "fixed" \notin Places
  BY DEF Fixed, Places
<1> QED
  BY <1>1 DEF Settles

LEMMA ArraySettles ==
  ASSUME SoundNow, AllTyped(scopes), NEW e \in Expr, e.kind = "array",
         \A p \in Parts(e) : Settled(p)
  PROVE  Settled(e)
<1> SUFFICES ASSUME NEW b \in Buffers PROVE Settles(Types[e][b], Types[e][NoBuffers], b)
  BY DEF Settled
<1>1. \A c \in Buffers : Types[e][c] = TypeStep(Types, e, c)
  BY TypesFacts
<1>2. NoBuffers \in Buffers
  BY NoBuffersEmpty
<1>3. CASE e.elements = << >>
  <2>1. \A c \in Buffers : Types[e][c] = Fixed(<<"unknown", "[]">>, c)
    BY <1>1, <1>3, StepCases
  <2>2. IsType(<<"unknown", "[]">>)
    <3>1. "unknown" \in Word /\ "[]" \in Word /\ "unknown" # "[]"
      BY WordAssumption
    <3>2. \A v, w \in Word : <<v, w>> \in Seq(Word) /\ <<v, w>>[1] = v /\ <<v, w>> # << >>
      OBVIOUS
    <3> QED
      BY <3>1, <3>2 DEF IsType
  <2>3. Settles(Fixed(<<"unknown", "[]">>, b), Fixed(<<"unknown", "[]">>, NoBuffers), b)
    BY <2>2, FixedSettles
  <2> QED
    BY <1>2, <2>1, <2>3
<1>4. CASE e.elements # << >>
  <2> DEFINE f == e.elements[1]
             p == Types[f][b]
             p0 == Types[f][NoBuffers]
  <2>1. 1 \in DOMAIN e.elements
    <3>1. e.elements \in Seq(Expr)
      BY ExprAssumption
    <3> QED
      BY <1>4, <3>1
  <2>2. f \in Parts(e) /\ f \in Expr
    BY <2>1, PartsCases, ExprAssumption
  <2>3. Settles(p, p0, b) /\ p \in Pointers /\ p0 \in Pointers
    BY <1>2, <2>2, TypesFacts DEF Settled
  <2>4. \A c \in Buffers : Types[e][c] = ArrayType(Types[f][c])
    BY <1>1, <1>4, StepCases
  <2>5. Types[e][b] = ArrayType(p) /\ Types[e][NoBuffers] = ArrayType(p0)
    BY <1>2, <2>4
  <2> HIDE DEF p, p0, f
  <2>6. p.text = p0.text /\ IsType(p.text)
    BY <2>3 DEF Settles
  <2>7. CASE p.text = Failed
    <3>1. Settles(Fixed(Failed, p.buffers), Fixed(Failed, p0.buffers), b)
      BY <2>3, WordsAreTypes, FixedAfterSettles
    <3> QED
      BY <2>5, <2>6, <2>7, <3>1, ArrayCases
  <2>8. CASE p.text # Failed
    <3>1. IsType(Append(p.text, "[]")) /\ "array_type" \in Places
      BY <2>6, AppendIsType DEF Places
    <3>2. Settles(Buffered("array_type", Append(p.text, "[]"), p.buffers),
                  Buffered("array_type", Append(p.text, "[]"), p0.buffers), b)
      BY <2>3, <3>1, BufferedSettles
    <3> QED
      BY <2>5, <2>6, <2>8, <3>2, ArrayCases
  <2> QED
    BY <2>7, <2>8
<1> QED
  BY <1>3, <1>4

LEMMA IndexSettles ==
  ASSUME SoundNow, AllTyped(scopes), NEW e \in Expr, e.kind = "index",
         \A p \in Parts(e) : Settled(p)
  PROVE  Settled(e)
<1> SUFFICES ASSUME NEW b \in Buffers PROVE Settles(Types[e][b], Types[e][NoBuffers], b)
  BY DEF Settled
<1> DEFINE f == e.array
           p == Types[f][b]
           p0 == Types[f][NoBuffers]
<1>1. NoBuffers \in Buffers
  BY NoBuffersEmpty
<1>2. f \in Parts(e) /\ f \in Expr
  BY PartsCases, ExprAssumption
<1>3. Settles(p, p0, b) /\ p \in Pointers /\ p0 \in Pointers
  BY <1>1, <1>2, TypesFacts DEF Settled
<1>4. \A c \in Buffers : Types[e][c] = IndexedType(Types[f][c])
  BY TypesFacts, StepCases
<1>5. Types[e][b] = IndexedType(p) /\ Types[e][NoBuffers] = IndexedType(p0)
  BY <1>1, <1>4
<1> HIDE DEF p, p0, f
<1>6. p.text = p0.text /\ IsType(p.text)
  BY <1>3 DEF Settles
<1>7. CASE p.text = Failed
  <2>1. Settles(Fixed(Failed, p.buffers), Fixed(Failed, p0.buffers), b)
    BY <1>3, WordsAreTypes, FixedAfterSettles
  <2> QED
    BY <1>5, <1>6, <1>7, <2>1, IndexedCases
<1>8. CASE p.text # Failed /\ p.text \in Short
  <2>1. Settles(Fixed(Unknown, p.buffers), Fixed(Unknown, p0.buffers), b)
    BY <1>3, WordsAreTypes, FixedAfterSettles
  <2> QED
    BY <1>5, <1>6, <1>8, <2>1, IndexedCases
<1>9. CASE p.text # Failed /\ p.text \notin Short
  <2>1. IsType(WithoutTwo(p.text)) /\ "elem_type" \in Places
    BY <1>6, CutIsType DEF Places
  <2>2. Settles(Buffered("elem_type", WithoutTwo(p.text), p.buffers),
                Buffered("elem_type", WithoutTwo(p.text), p0.buffers), b)
    BY <1>3, <2>1, BufferedSettles
  <2> QED
    BY <1>5, <1>6, <1>9, <2>2, IndexedCases
<1> QED
  BY <1>7, <1>8, <1>9

LEMMA OperationSettles ==
  ASSUME SoundNow, AllTyped(scopes), NEW e \in Expr, e.kind = "binary",
         \A p \in Parts(e) : Settled(p)
  PROVE  Settled(e)
<1> SUFFICES ASSUME NEW b \in Buffers PROVE Settles(Types[e][b], Types[e][NoBuffers], b)
  BY DEF Settled
<1> DEFINE l == Types[e.left][b]
           l0 == Types[e.left][NoBuffers]
           r == Types[e.right][l.buffers]
           r0 == Types[e.right][l0.buffers]
           s == Types[e.right][NoBuffers]
<1>1. NoBuffers \in Buffers
  BY NoBuffersEmpty
<1>2. e.left \in Parts(e) /\ e.left \in Expr /\ e.right \in Parts(e) /\ e.right \in Expr
  BY PartsCases, ExprAssumption
<1>3. Settled(e.left) /\ Settled(e.right)
  BY <1>2
<1>4. /\ l \in Pointers /\ l0 \in Pointers
      /\ Settles(l, l0, b) /\ Settles(l0, l0, NoBuffers)
  BY <1>1, <1>2, <1>3, TypesFacts DEF Settled
<1>5. l.buffers \in Buffers /\ l0.buffers \in Buffers
  BY <1>4, PointerFacts
<1>6. /\ r \in Pointers /\ r0 \in Pointers /\ s \in Pointers
      /\ Settles(r, s, l.buffers) /\ Settles(r0, s, l0.buffers)
  <2> HIDE DEF l, l0
  <2> QED
    BY <1>1, <1>2, <1>3, <1>5, TypesFacts DEF Settled
<1>7. \A c \in Buffers :
        Types[e][c] = BinaryType(e.op, Types[e.left][c], Types[e.right][Types[e.left][c].buffers])
  BY TypesFacts, StepCases
<1>8. Types[e][b] = BinaryType(e.op, l, r) /\ Types[e][NoBuffers] = BinaryType(e.op, l0, r0)
  BY <1>1, <1>7
<1> HIDE DEF l, l0, r, r0, s
<1>9. Settles(BinaryType(e.op, l, r), BinaryType(e.op, l0, r0), b)
  BY <1>4, <1>6, BinarySettles
<1> QED
  BY <1>8, <1>9

LEMMA FieldSettles ==
  ASSUME SoundNow, AllTyped(scopes), NEW e \in Expr, e.kind = "field",
         \A p \in Parts(e) : Settled(p)
  PROVE  Settled(e)
<1> SUFFICES ASSUME NEW b \in Buffers PROVE Settles(Types[e][b], Types[e][NoBuffers], b)
  BY DEF Settled
<1> DEFINE p == Types[e.struct][b]
           p0 == Types[e.struct][NoBuffers]
<1>1. NoBuffers \in Buffers
  BY NoBuffersEmpty
<1>2. e.struct \in Parts(e) /\ e.struct \in Expr
  BY PartsCases, ExprAssumption
<1>3. Settled(e.struct)
  BY <1>2
<1>4. Settles(p, p0, b) /\ p \in Pointers /\ p0 \in Pointers
  BY <1>1, <1>2, <1>3, TypesFacts DEF Settled
<1>5. /\ Types[e][b] = FieldType(p.text, e.field, p.buffers)
      /\ Types[e][NoBuffers] = FieldType(p0.text, e.field, p0.buffers)
  BY <1>1, TypesFacts, StepCases
<1> HIDE DEF p, p0
<1>6. p.text = p0.text /\ p.buffers \in Buffers /\ p0.buffers \in Buffers
  BY <1>4, PointerFacts DEF Settles
<1>7. PICK u : IsType(u) /\ \A c : FieldType(p.text, e.field, c) = Fixed(u, c)
  BY <1>1, FieldTyped
<1>8. /\ FieldType(p.text, e.field, p.buffers) = Fixed(u, p.buffers)
      /\ FieldType(p.text, e.field, p0.buffers) = Fixed(u, p0.buffers)
  BY <1>7
<1>9. Settles(Fixed(u, p.buffers), Fixed(u, p0.buffers), b)
  BY <1>4, <1>7, FixedAfterSettles
<1> QED
  BY <1>5, <1>6, <1>8, <1>9

LEMMA StepSettles ==
  ASSUME SoundNow, AllTyped(scopes), NEW e \in Expr,
         \A p \in Parts(e) : Settled(p)
  PROVE  Settled(e)
<1>1. NoBuffers \in Buffers /\ \A c \in Buffers : Types[e][c] = TypeStep(Types, e, c)
  BY NoBuffersEmpty, TypesFacts
<1>2. ASSUME NEW t, IsType(t), \A c \in Buffers : TypeStep(Types, e, c) = Fixed(t, c)
      PROVE  Settled(e)
  BY <1>1, <1>2, FixedSettles DEF Settled
<1>3. CASE e.kind = "literal"
  BY <1>2, <1>3, StepCases, ExprAssumption
<1>4. CASE e.kind \in {"identifier", "call"}
  <2>1. IsType(IF Declared(e.name) THEN Lookup(e.name).type ELSE Unknown)
    BY LookupTyped, WordsAreTypes DEF SymbolTyped
  <2> QED
    BY <1>2, <1>4, <2>1, StepCases
<1>5. CASE e.kind = "unary"
  <2>1. e.operand \in Parts(e) /\ e.operand \in Expr /\ Settled(e.operand)
    BY <1>5, PartsCases, ExprAssumption
  <2>2. \A c \in Buffers : Types[e][c] = Types[e.operand][c]
    BY <1>1, <1>5, StepCases
  <2> QED
    BY <1>1, <2>1, <2>2 DEF Settled
<1>6. CASE e.kind \in {"assign", "fstring", "interp"}
  BY <1>2, <1>6, StepCases, WordsAreTypes
<1> QED
  BY <1>3, <1>4, <1>5, <1>6, ArraySettles, IndexSettles, OperationSettles, FieldSettles,
     ExprAssumption

LEMMA AllSettle ==
  ASSUME SoundNow, AllTyped(scopes)
  PROVE  \A e \in Expr : Settled(e)
<1> DEFINE Bad == {e \in Expr : ~ Settled(e)}
           Heights == {Height(e) : e \in Bad}
<1> SUFFICES ASSUME Bad # {} PROVE FALSE
  OBVIOUS
<1>1. Heights \subseteq Nat /\ Heights # {}
  BY ExprAssumption
<1>2. PICK h \in Heights : \A g \in Heights : h <= g
  <2> HIDE DEF Heights
  <2> QED
    BY <1>1, LeastNat
<1>3. PICK e \in Bad : h = Height(e)
  BY <1>2
<1>4. e \in Expr /\ ~ Settled(e) /\ Height(e) \in Nat
  BY ExprAssumption
<1>5. ASSUME NEW p \in Parts(e), ~ Settled(p) PROVE FALSE
  <2>1. p \in Expr /\ Height(p) \in Nat /\ Height(p) < Height(e)
    BY <1>4, ExprAssumption
  <2>2. Height(e) <= Height(p)
    BY <1>2, <1>3, <1>5, <2>1
  <2> HIDE DEF Bad, Heights
  <2> QED
    BY <1>4, <2>1, <2>2
<1> HIDE DEF Bad, Heights
<1> QED
  BY <1>4, <1>5, StepSettles

LEMMA BuffersForgotten ==
  ASSUME TypedInv
  PROVE  TypesForgetBuffers
<1> SUFFICES ASSUME status = "visiting", NEW e \in Expr, NEW b \in Leftovers
             PROVE  TypeWith(e, b).text = TypeOf(e)
  BY DEF TypesForgetBuffers
<1>1. SoundNow /\ AllTyped(scopes)
  BY VisitingSound DEF TypedInv
<1>2. b \in Buffers /\ NoBuffers \in Buffers
  BY LeftoversAssumption, NoBuffersEmpty
<1>3. Settled(e)
  BY <1>1, AllSettle
<1>4. Settles(Types[e][b], Types[e][NoBuffers], b)
  BY <1>2, <1>3 DEF Settled
<1>5. TypeWith(e, b) = Types[e][b] /\ TypeWith(e, NoBuffers) = Types[e][NoBuffers]
  BY <1>1, <1>2, TypesFacts
<1> QED
  BY <1>4, <1>5 DEF Settles, TypeOf

(***************************************************************************)
(* Whatever was declared before it, and whatever earlier calls have left   *)
(* in the two static buffers, get_expression_type gives an expression one  *)
(* type, however deep it is and however often the buffers are written      *)
(* while it is determined.                                                 *)
(***************************************************************************)
THEOREM TypesForgottenBuffers == Spec => []TypesForgetBuffers
BY TypedAlways, BuffersForgotten, PTL

=============================================================================
