--------------------- MODULE ZIRValueNumbering_proofs ----------------------
(***************************************************************************)
(* Theorems about ZIRValueNumbering, for code of any length and any        *)
(* literals, texts and meanings of the operations.                         *)
(*                                                                         *)
(* Two facts about the table carry the proofs: different keys have         *)
(* different entries, and the number of a result is the entry of the key   *)
(* of its definition.                                                      *)
(***************************************************************************)
EXTENDS ZIRValueNumbering, TLAPS

TypeInv ==
  /\ code \in Seq(Instr)
  /\ method \in Numbering \cup Search
  /\ at \in 1..(Len(code) + 1)
  /\ next \in Nat
  /\ DOMAIN last \subseteq Result /\ DOMAIN values \subseteq Result

\* Global numbering has met every result up to here, and knows where last.
LastInv ==
  /\ method # "performGlobalValueNumbering" => DOMAIN last = {}
  /\ \A r \in DOMAIN last : last[r] \in 1..(at - 1) /\ IsDefinition(last[r], r)
  /\ method = "performGlobalValueNumbering" =>
       \A k \in 1..(at - 1) : code[k].result # NoResult => code[k].result \in DOMAIN last

\* When the second pass begins the first one is over; the others have one.
ModeInv ==
  /\ method \in Search => DOMAIN values = {}
  /\ method = "performGlobalValueNumbering" =>
       /\ DOMAIN values \subseteq DOMAIN last
       /\ at <= Len(code) => DOMAIN values = {}
  /\ method = "performLocalValueNumbering" =>
       \A k \in 1..(at - 1) : code[k].result # NoResult => code[k].result \in DOMAIN values

\* The numbers given so far are below next, each to one key.
TableInv ==
  method \in Numbering =>
    /\ \A key \in DOMAIN table : table[key] \in Nat /\ table[key] < next
    /\ \A j, k \in DOMAIN table : table[j] = table[k] => j = k
    /\ \A r \in DOMAIN values : values[r] \in Nat /\ values[r] < next

\* A number is that of the key of the definition; without a key it is the
\* number of nothing else.
NumberInv ==
  \A r \in DOMAIN values : \A k \in 1..(at - 1) : IsDefinition(k, r) =>
    IF IsKeyed(code[k])
    THEN Key(code[k]) \in DOMAIN table /\ table[Key(code[k])] = values[r]
    ELSE /\ \A key \in DOMAIN table : table[key] # values[r]
         /\ \A s \in DOMAIN values : values[s] = values[r] => s = r

\* An instruction that the searches look up and remember.
Keyed(k) == code[k].result # NoResult /\ IsKeyed(code[k])

\* The searches remember the first instruction of each key, and have paired
\* every other one with it.
SearchInv ==
  method \in Search =>
    /\ \A key \in DOMAIN table :
         /\ table[key] \in 1..(at - 1) /\ Keyed(table[key])
         /\ Key(code[table[key]]) = key
         /\ \A k \in 1..(at - 1) : Keyed(k) /\ Key(code[k]) = key => table[key] <= k
    /\ \A k \in 1..(at - 1) : Keyed(k) =>
         /\ Key(code[k]) \in DOMAIN table
         /\ k # table[Key(code[k])] => <<table[Key(code[k])], k>> \in pairs
    /\ \A p \in pairs :
         /\ p[2] \in 1..(at - 1) /\ p[1] < p[2]
         /\ Keyed(p[2]) /\ p[1] = table[Key(code[p[2]])]

Inv == TypeInv /\ LastInv /\ ModeInv /\ TableInv /\ NumberInv /\ SearchInv

-----------------------------------------------------------------------------
LEMMA InitInv == Init => Inv
<1> SUFFICES ASSUME Init PROVE Inv
  OBVIOUS
<1>1. DOMAIN Empty = {}
  BY DEF Empty
<1>2. code \in Seq(Instr)
  BY InstrAssumption DEF Init
<1> QED
  BY <1>1, <1>2 DEF Init, Inv, TypeInv, LastInv, ModeInv, TableInv, NumberInv, SearchInv

\* The instruction at the position of the loop.
LEMMA VisitFacts ==
  ASSUME TypeInv, NEW i \in Instr, Visit(i)
  PROVE  /\ at \in 1..Len(code) /\ at' = at + 1 /\ i = code[at]
         /\ code' = code /\ method' = method
         /\ i.result \in Result \cup {NoResult}
         /\ code' \in Seq(Instr) /\ at' \in 1..(Len(code') + 1)
         /\ \A r : r # i.result => \A k : IsDefinition(k, r)' <=> IsDefinition(k, r)
         /\ \A k : IsDefinition(k, i.result)' <=> k = at
<1>1. /\ at \in 1..Len(code) /\ at' = at + 1 /\ i = code[at]
      /\ code' = code /\ method' = method
  BY DEF TypeInv, Visit, call
<1>2. i.result \in Result \cup {NoResult}
  BY InstrAssumption
<1>3. code' \in Seq(Instr) /\ at' \in 1..(Len(code') + 1)
  BY <1>1 DEF TypeInv
<1>4. \A r : r # i.result => \A k : IsDefinition(k, r)' <=> IsDefinition(k, r)
  BY <1>1 DEF IsDefinition
<1>5. at \in Nat \ {0}
  BY DEF TypeInv
<1>6. \A k : IsDefinition(k, i.result)' <=> k = at
  BY <1>1, <1>5 DEF IsDefinition
<1> QED
  BY <1>1, <1>2, <1>3, <1>4, <1>6
(***************************************************************************)
(* One result is numbered: that of instruction i at position d, which is   *)
(* its definition from now on.                                             *)
(***************************************************************************)
LEMMA NumberStep ==
  ASSUME TypeInv, TableInv, NumberInv, method \in Numbering, method' = method,
         NEW i \in Instr, NEW d \in 1..(at' - 1), Number(i), code' = code, i = code[d],
         i.result \in Result,
         \A k : IsDefinition(k, i.result)' => k = d,
         \A r : r # i.result => \A k : IsDefinition(k, r)' <=> IsDefinition(k, r)
  PROVE  /\ TableInv' /\ NumberInv' /\ next' \in Nat
         /\ DOMAIN values' = DOMAIN values \cup {i.result}
<1> DEFINE x == i.result
<1>1. CASE Seen(i)
  <2>1. values' = Put(values, x, table[Key(i)]) /\ table' = table /\ next' = next
    BY <1>1 DEF Number
  <2> DEFINE v == table[Key(i)]
  <2>2. /\ DOMAIN values' = DOMAIN values \cup {x} /\ values'[x] = v
        /\ \A r \in DOMAIN values : r # x => values'[r] = values[r]
    BY <2>1 DEF Put
  <2>3. IsKeyed(i) /\ Key(i) \in DOMAIN table
    BY <1>1 DEF Seen
  <2>4. TableInv'
    BY <2>1, <2>2, <2>3 DEF TableInv
  <2>5. NumberInv'
    <3> SUFFICES ASSUME NEW r \in DOMAIN values', NEW k, IsDefinition(k, r)'
                 PROVE  IF IsKeyed(code[k])
                        THEN Key(code[k]) \in DOMAIN table' /\ table'[Key(code[k])] = values'[r]
                        ELSE /\ \A key \in DOMAIN table' : table'[key] # values'[r]
                             /\ \A s \in DOMAIN values' : values'[s] = values'[r] => s = r
      BY DEF NumberInv, IsKeyed, IsComputation, Key, Operands
    <3>1. CASE r = x
      BY <3>1, <2>1, <2>2, <2>3
    <3>2. CASE r # x
      <4>1. r \in DOMAIN values /\ values'[r] = values[r] /\ IsDefinition(k, r)
        BY <3>2, <2>2
      <4>2. k \in 1..(at - 1)
        BY <4>1 DEF IsDefinition
      <4>3. CASE IsKeyed(code[k])
        BY <4>1, <4>2, <4>3, <2>1 DEF NumberInv
      <4>4. CASE ~ IsKeyed(code[k])
        <5>1. /\ \A key \in DOMAIN table : table[key] # values[r]
              /\ \A s \in DOMAIN values : values[s] = values[r] => s = r
          BY <4>1, <4>2, <4>4 DEF NumberInv
        <5> QED
          BY <5>1, <4>1, <4>4, <2>1, <2>2, <2>3
      <4> QED
        BY <4>3, <4>4
    <3> QED
      BY <3>1, <3>2
  <2>6. next' \in Nat
    BY <2>1 DEF TypeInv
  <2> QED
    BY <2>2, <2>4, <2>5, <2>6
<1>2. CASE ~ Seen(i)
  <2>1. /\ values' = Put(values, x, next) /\ next' = next + 1
        /\ table' = IF IsKeyed(i) THEN Put(table, Key(i), next) ELSE table
    BY <1>2 DEF Number
  <2>2. /\ DOMAIN values' = DOMAIN values \cup {x} /\ values'[x] = next
        /\ \A r \in DOMAIN values : r # x => values'[r] = values[r]
    BY <2>1 DEF Put
  <2>3. next \in Nat /\ next' \in Nat
    BY <2>1 DEF TypeInv
  <2>4. /\ \A key \in DOMAIN table : key \in DOMAIN table' /\ table'[key] = table[key]
        /\ \A key \in DOMAIN table' : key \in DOMAIN table \/ (table'[key] = next /\ key = Key(i))
        /\ IsKeyed(i) => Key(i) \in DOMAIN table' /\ table'[Key(i)] = next
    <3>1. CASE IsKeyed(i)
      <4>1. Key(i) \notin DOMAIN table
        BY <3>1, <1>2 DEF Seen
      <4> QED
        BY <2>1, <3>1, <4>1 DEF Put
    <3>2. CASE ~ IsKeyed(i)
      BY <2>1, <3>2
    <3> QED
      BY <3>1, <3>2
  <2>5. /\ \A key \in DOMAIN table : table[key] \in Nat /\ table[key] < next
        /\ \A j, k \in DOMAIN table : table[j] = table[k] => j = k
        /\ \A r \in DOMAIN values : values[r] \in Nat /\ values[r] < next
    BY DEF TableInv
  <2>6. TableInv'
    <3>1. \A key \in DOMAIN table' : table'[key] \in Nat /\ table'[key] < next'
      BY <2>1, <2>3, <2>4, <2>5
    <3>2. \A j, k \in DOMAIN table' : table'[j] = table'[k] => j = k
      BY <2>3, <2>4, <2>5
    <3>3. \A r \in DOMAIN values' : values'[r] \in Nat /\ values'[r] < next'
      BY <2>1, <2>2, <2>3, <2>5
    <3> QED
      BY <3>1, <3>2, <3>3 DEF TableInv
  <2>7. NumberInv'
    <3> SUFFICES ASSUME NEW r \in DOMAIN values', NEW k, IsDefinition(k, r)'
                 PROVE  IF IsKeyed(code[k])
                        THEN Key(code[k]) \in DOMAIN table' /\ table'[Key(code[k])] = values'[r]
                        ELSE /\ \A key \in DOMAIN table' : table'[key] # values'[r]
                             /\ \A s \in DOMAIN values' : values'[s] = values'[r] => s = r
      BY DEF NumberInv, IsKeyed, IsComputation, Key, Operands
    <3>1. CASE r = x
      <4>1. k = d /\ code[k] = i
        BY <3>1
      <4>2. CASE IsKeyed(i)
        BY <3>1, <4>1, <4>2, <2>2, <2>4
      <4>3. CASE ~ IsKeyed(i)
        <5>1. table' = table
          BY <4>3, <2>1
        <5> QED
          BY <5>1, <3>1, <4>1, <4>3, <2>2, <2>3, <2>5
      <4> QED
        BY <4>2, <4>3
    <3>2. CASE r # x
      <4>1. r \in DOMAIN values /\ values'[r] = values[r] /\ IsDefinition(k, r)
        BY <3>2, <2>2
      <4>2. k \in 1..(at - 1)
        BY <4>1 DEF IsDefinition
      <4>3. CASE IsKeyed(code[k])
        <5>1. Key(code[k]) \in DOMAIN table /\ table[Key(code[k])] = values[r]
          BY <4>1, <4>2, <4>3 DEF NumberInv
        <5> QED
          BY <5>1, <4>1, <4>3, <2>4
      <4>4. CASE ~ IsKeyed(code[k])
        <5>1. /\ \A key \in DOMAIN table : table[key] # values[r]
              /\ \A s \in DOMAIN values : values[s] = values[r] => s = r
          BY <4>1, <4>2, <4>4 DEF NumberInv
        <5>2. values[r] # next
          BY <4>1, <2>3, <2>5
        <5>3. \A key \in DOMAIN table' : table'[key] # values'[r]
          BY <5>1, <5>2, <4>1, <2>4
        <5>4. \A s \in DOMAIN values' : values'[s] = values'[r] => s = r
          BY <5>1, <5>2, <4>1, <2>2
        <5> QED
          BY <5>3, <5>4, <4>4
      <4> QED
        BY <4>3, <4>4
    <3> QED
      BY <3>1, <3>2
  <2> QED
    BY <2>2, <2>3, <2>6, <2>7
<1> QED
  BY <1>1, <1>2
-----------------------------------------------------------------------------
(***************************************************************************)
(* Every step keeps the invariant.                                         *)
(***************************************************************************)
LEMMA SkipInv ==
  ASSUME Inv, NEW i \in Instr, SkipNameless(i)
  PROVE  Inv'
<1> USE DEF Inv
<1>1. /\ Visit(i) /\ i.result = NoResult
      /\ last' = last /\ table' = table /\ values' = values /\ next' = next
  BY DEF SkipNameless
<1>2. /\ at \in 1..Len(code) /\ at' = at + 1 /\ i = code[at]
      /\ code' = code /\ method' = method
      /\ code' \in Seq(Instr) /\ at' \in 1..(Len(code') + 1)
      /\ \A r \in Result : \A k : IsDefinition(k, r)' <=> IsDefinition(k, r)
  BY <1>1, VisitFacts, InstrAssumption
<1>3. TypeInv'
  BY <1>1, <1>2 DEF TypeInv
<1>4. LastInv'
  BY <1>1, <1>2 DEF LastInv, TypeInv
<1>5. ModeInv'
  BY <1>1, <1>2 DEF ModeInv, TypeInv
<1>6. TableInv'
  BY <1>1, <1>2 DEF TableInv
<1>7. NumberInv'
  <2> SUFFICES ASSUME NEW r \in DOMAIN values, NEW k, IsDefinition(k, r)'
               PROVE  IF IsKeyed(code[k])
                      THEN Key(code[k]) \in DOMAIN table /\ table[Key(code[k])] = values[r]
                      ELSE /\ \A key \in DOMAIN table : table[key] # values[r]
                           /\ \A s \in DOMAIN values : values[s] = values[r] => s = r
    BY <1>1, <1>2 DEF NumberInv
  <2>1. IsDefinition(k, r) /\ k \in 1..(at - 1)
    BY <1>2 DEF TypeInv, IsDefinition
  <2> QED
    BY <2>1 DEF NumberInv
<1>8. SearchInv'
  <2>1. pairs' = pairs
    BY DEF SkipNameless
  <2>2. ~ Keyed(at)
    BY <1>1, <1>2 DEF Keyed
  <2>3. \A k : Keyed(k)' <=> Keyed(k)
    BY <1>2 DEF Keyed, IsKeyed, IsComputation
  <2>4. \A k \in 1..(at' - 1) : k \in 1..(at - 1) \/ k = at
    BY <1>2
  <2>5. \A k \in 1..(at - 1) : k \in 1..(at' - 1)
    BY <1>2
  <2>6. \A k : Key(code[k])' = Key(code[k])
    BY <1>2 DEF Key, Operands
  <2> QED
    BY <1>1, <1>2, <2>1, <2>2, <2>3, <2>4, <2>5, <2>6 DEF SearchInv
<1> QED
  BY <1>3, <1>4, <1>5, <1>6, <1>7, <1>8

LEMMA NumberLocalInv ==
  ASSUME Inv, NEW i \in Instr, NumberLocal(i)
  PROVE  Inv'
<1> USE DEF Inv
<1>1. /\ Visit(i) /\ i.result # NoResult /\ Number(i) /\ last' = last
      /\ method = "performLocalValueNumbering" /\ method \in Numbering
  BY DEF NumberLocal, Numbering
<1>2. /\ at \in 1..Len(code) /\ at' = at + 1 /\ i = code[at]
      /\ code' = code /\ method' = method /\ i.result \in Result
      /\ code' \in Seq(Instr) /\ at' \in 1..(Len(code') + 1)
      /\ \A r : r # i.result => \A k : IsDefinition(k, r)' <=> IsDefinition(k, r)
      /\ \A k : IsDefinition(k, i.result)' <=> k = at
  BY <1>1, VisitFacts
<1>3. at \in 1..(at' - 1)
  BY <1>2
<1>4. /\ TableInv' /\ NumberInv' /\ next' \in Nat
      /\ DOMAIN values' = DOMAIN values \cup {i.result}
  BY <1>1, <1>2, <1>3, NumberStep
<1>5. TypeInv'
  BY <1>1, <1>2, <1>4 DEF TypeInv
<1>6. LastInv'
  <2>1. DOMAIN last = {}
    BY <1>1 DEF LastInv
  <2> QED
    BY <2>1, <1>1, <1>2 DEF LastInv
<1>7. ModeInv'
  BY <1>1, <1>2, <1>4 DEF ModeInv, TypeInv, Search
<1>8. SearchInv'
  BY <1>1, <1>2 DEF SearchInv, Search
<1> QED
  BY <1>4, <1>5, <1>6, <1>7, <1>8

LEMMA CollectInv ==
  ASSUME Inv, NEW i \in Instr, Collect(i)
  PROVE  Inv'
<1> USE DEF Inv
<1>1. /\ Visit(i) /\ i.result # NoResult /\ last' = Put(last, i.result, at)
      /\ table' = table /\ values' = values /\ next' = next
      /\ method = "performGlobalValueNumbering" /\ method \notin Search
  BY DEF Collect, Search
<1>2. /\ at \in 1..Len(code) /\ at' = at + 1 /\ i = code[at]
      /\ code' = code /\ method' = method /\ i.result \in Result
      /\ code' \in Seq(Instr) /\ at' \in 1..(Len(code') + 1)
      /\ \A r : r # i.result => \A k : IsDefinition(k, r)' <=> IsDefinition(k, r)
      /\ \A k : IsDefinition(k, i.result)' <=> k = at
  BY <1>1, VisitFacts
<1>3. /\ DOMAIN last' = DOMAIN last \cup {i.result} /\ last'[i.result] = at
      /\ \A r \in DOMAIN last : r # i.result => last'[r] = last[r]
  BY <1>1 DEF Put
<1>4. DOMAIN values = {}
  BY <1>1, <1>2 DEF ModeInv, TypeInv
<1>5. TypeInv'
  BY <1>1, <1>2, <1>3 DEF TypeInv
<1>6. LastInv'
  <2>1. \A r \in DOMAIN last' : last'[r] \in 1..(at' - 1)
    BY <1>2, <1>3 DEF LastInv, TypeInv
  <2>2. ASSUME NEW r \in DOMAIN last' PROVE \A k : k = last'[r] => IsDefinition(k, r)'
    <3>1. CASE r = i.result
      BY <3>1, <1>2, <1>3
    <3>2. CASE r # i.result
      <4>1. r \in DOMAIN last /\ last'[r] = last[r]
        BY <3>2, <1>3
      <4>2. IsDefinition(last[r], r)
        BY <4>1 DEF LastInv
      <4> QED
        BY <4>1, <4>2, <3>2, <1>2
    <3> QED
      BY <3>1, <3>2
  <2>3. \A k \in 1..(at' - 1) : code[k].result # NoResult => code[k].result \in DOMAIN last'
    BY <1>1, <1>2, <1>3 DEF LastInv, TypeInv
  <2> QED
    BY <2>1, <2>2, <2>3, <1>1, <1>2 DEF LastInv
<1>7. ModeInv'
  BY <1>1, <1>2, <1>3, <1>4 DEF ModeInv, TypeInv
<1>8. TableInv'
  BY <1>1, <1>2 DEF TableInv
<1>9. NumberInv'
  BY <1>1, <1>4 DEF NumberInv
<1>10. SearchInv'
  BY <1>1, <1>2 DEF SearchInv
<1> QED
  BY <1>5, <1>6, <1>7, <1>8, <1>9, <1>10

LEMMA NumberGlobalInv ==
  ASSUME Inv, NEW r \in Result, NumberGlobal(r)
  PROVE  Inv'
<1> USE DEF Inv
<1>1. /\ at > Len(code) /\ r \in DOMAIN last /\ Number(code[last[r]])
      /\ code' = code /\ method' = method /\ at' = at /\ last' = last
      /\ method = "performGlobalValueNumbering" /\ method \in Numbering /\ method \notin Search
  BY DEF NumberGlobal, Numbering, Search, call
<1>2. PICK d \in 1..(at - 1) : d = last[r] /\ IsDefinition(d, r)
  BY <1>1 DEF LastInv
<1>3. PICK i \in Instr : i = code[d] /\ i.result = r
  <2>1. d \in 1..Len(code)
    BY <1>2 DEF TypeInv
  <2> QED
    BY <2>1, <1>2 DEF TypeInv, IsDefinition
<1>4. \A s : \A k : IsDefinition(k, s)' <=> IsDefinition(k, s)
  BY <1>1 DEF IsDefinition
<1>5. \A k : IsDefinition(k, r) => k = d
  BY <1>2 DEF IsDefinition, TypeInv
<1>6. d \in 1..(at' - 1)
  BY <1>1, <1>2
<1>7. /\ TableInv' /\ NumberInv' /\ next' \in Nat
      /\ DOMAIN values' = DOMAIN values \cup {i.result}
  <2>1. \A k : IsDefinition(k, i.result)' => k = d
    BY <1>3, <1>4, <1>5
  <2>2. Number(i)
    BY <1>1, <1>2, <1>3
  <2> QED
    BY <2>1, <2>2, <1>1, <1>3, <1>4, <1>6, NumberStep
<1>8. TypeInv'
  BY <1>1, <1>3, <1>7 DEF TypeInv
<1>9. LastInv'
  BY <1>1, <1>4 DEF LastInv
<1>10. ModeInv'
  BY <1>1, <1>3, <1>7 DEF ModeInv, TypeInv
<1>11. SearchInv'
  BY <1>1 DEF SearchInv
<1> QED
  BY <1>7, <1>8, <1>9, <1>10, <1>11
LEMMA PairInv ==
  ASSUME Inv, method \in Search, NEW i \in Instr, Pair(i)
  PROVE  Inv'
<1> USE DEF Inv
<1>1. /\ Visit(i) /\ i.result # NoResult
      /\ last' = last /\ values' = values /\ next' = next
      /\ method \notin Numbering
  BY DEF Pair, Numbering, Search
<1>2. /\ at \in 1..Len(code) /\ at' = at + 1 /\ i = code[at]
      /\ code' = code /\ method' = method /\ i.result \in Result
      /\ code' \in Seq(Instr) /\ at' \in 1..(Len(code') + 1)
  BY <1>1, VisitFacts
<1>3. TypeInv' /\ DOMAIN values = {} /\ DOMAIN last = {}
  BY <1>1, <1>2 DEF TypeInv, ModeInv, LastInv, Search
<1>4. LastInv' /\ ModeInv' /\ TableInv' /\ NumberInv'
  BY <1>1, <1>2, <1>3 DEF LastInv, ModeInv, TableInv, NumberInv, Numbering, Search
<1>5. SearchInv'
  <2>1. Keyed(at) <=> IsKeyed(i)
    BY <1>1, <1>2 DEF Keyed
  <2>2. \A k : Keyed(k)' <=> Keyed(k)
    BY <1>2 DEF Keyed, IsKeyed, IsComputation
  <2>3. /\ \A k \in 1..(at' - 1) : k \in 1..(at - 1) \/ k = at
        /\ \A k \in 1..(at - 1) : k \in 1..(at' - 1) /\ k < at
        /\ at \in 1..(at' - 1)
    BY <1>2
  <2>4. /\ \A key \in DOMAIN table :
             /\ table[key] \in 1..(at - 1) /\ Keyed(table[key])
             /\ Key(code[table[key]]) = key
             /\ \A k \in 1..(at - 1) : Keyed(k) /\ Key(code[k]) = key => table[key] <= k
        /\ \A k \in 1..(at - 1) : Keyed(k) =>
             /\ Key(code[k]) \in DOMAIN table
             /\ k # table[Key(code[k])] => <<table[Key(code[k])], k>> \in pairs
        /\ \A p \in pairs :
             /\ p[2] \in 1..(at - 1) /\ p[1] < p[2]
             /\ Keyed(p[2]) /\ p[1] = table[Key(code[p[2]])]
    BY DEF SearchInv
  <2> SUFFICES
        /\ \A key \in DOMAIN table' :
             /\ table'[key] \in 1..(at' - 1) /\ Keyed(table'[key])
             /\ Key(code[table'[key]]) = key
             /\ \A k \in 1..(at' - 1) : Keyed(k) /\ Key(code[k]) = key => table'[key] <= k
        /\ \A k \in 1..(at' - 1) : Keyed(k) =>
             /\ Key(code[k]) \in DOMAIN table'
             /\ k # table'[Key(code[k])] => <<table'[Key(code[k])], k>> \in pairs'
        /\ \A p \in pairs' :
             /\ p[2] \in 1..(at' - 1) /\ p[1] < p[2]
             /\ Keyed(p[2]) /\ p[1] = table'[Key(code[p[2]])]
    <3>1. \A k : Key(code[k])' = Key(code[k])
      BY <1>2 DEF Key, Operands
    <3> QED
      BY <1>2, <2>2, <3>1 DEF SearchInv
  <2>5. CASE Seen(i)
    <3>1. table' = table /\ pairs' = pairs \cup {<<table[Key(i)], at>>}
      BY <2>5 DEF Pair
    <3>2. Key(i) \in DOMAIN table /\ Keyed(at) /\ Key(code[at]) = Key(i)
      BY <2>1, <2>5, <1>2 DEF Seen
    <3>3. table[Key(i)] < at /\ table[Key(i)] \in Int
      BY <3>2, <2>3, <2>4
    <3>4. \A key \in DOMAIN table : table[key] <= at
      BY <2>3, <2>4
    <3>5. \A p \in pairs' : /\ p[2] \in 1..(at' - 1) /\ p[1] < p[2]
                            /\ Keyed(p[2]) /\ p[1] = table[Key(code[p[2]])]
      BY <3>1, <3>2, <3>3, <2>3, <2>4
    <3>6. \A k \in 1..(at' - 1) : Keyed(k) =>
             /\ Key(code[k]) \in DOMAIN table
             /\ k # table[Key(code[k])] => <<table[Key(code[k])], k>> \in pairs'
      BY <3>1, <3>2, <2>3, <2>4
    <3>7. \A key \in DOMAIN table :
             /\ table[key] \in 1..(at' - 1) /\ Keyed(table[key])
             /\ Key(code[table[key]]) = key
             /\ \A k \in 1..(at' - 1) : Keyed(k) /\ Key(code[k]) = key => table[key] <= k
      BY <3>4, <2>3, <2>4
    <3> QED
      BY <3>1, <3>5, <3>6, <3>7
  <2>6. CASE ~ Seen(i) /\ IsKeyed(i)
    <3>1. pairs' = pairs /\ table' = Put(table, Key(i), at)
      BY <2>6 DEF Pair
    <3>2. Key(i) \notin DOMAIN table /\ Keyed(at) /\ Key(code[at]) = Key(i)
      BY <2>1, <2>6, <1>2 DEF Seen
    <3>3. /\ DOMAIN table' = DOMAIN table \cup {Key(i)} /\ table'[Key(i)] = at
          /\ \A key \in DOMAIN table : table'[key] = table[key]
      BY <3>1, <3>2 DEF Put
    <3>4. \A k \in 1..(at - 1) : Keyed(k) => Key(code[k]) # Key(i)
      BY <3>2, <2>4
    <3>5. at <= at /\ \A key \in DOMAIN table : table[key] <= at
      BY <1>2, <2>3, <2>4
    <3>6. \A p \in pairs' : /\ p[2] \in 1..(at' - 1) /\ p[1] < p[2]
                            /\ Keyed(p[2]) /\ p[1] = table'[Key(code[p[2]])]
      BY <3>1, <3>3, <2>3, <2>4
    <3>7. \A k \in 1..(at' - 1) : Keyed(k) =>
             /\ Key(code[k]) \in DOMAIN table'
             /\ k # table'[Key(code[k])] => <<table'[Key(code[k])], k>> \in pairs'
      BY <3>1, <3>2, <3>3, <2>3, <2>4
    <3>8. ASSUME NEW key \in DOMAIN table'
          PROVE  /\ table'[key] \in 1..(at' - 1) /\ Keyed(table'[key])
                 /\ Key(code[table'[key]]) = key
                 /\ \A k \in 1..(at' - 1) : Keyed(k) /\ Key(code[k]) = key => table'[key] <= k
      <4>1. CASE key = Key(i)
        BY <4>1, <3>2, <3>3, <3>4, <3>5, <2>3
      <4>2. CASE key # Key(i)
        BY <4>2, <3>2, <3>3, <3>5, <2>3, <2>4
      <4> QED
        BY <4>1, <4>2
    <3> QED
      BY <3>6, <3>7, <3>8
  <2>7. CASE ~ IsKeyed(i)
    <3>1. pairs' = pairs /\ table' = table
      BY <2>7 DEF Pair, Seen
    <3>2. ~ Keyed(at)
      BY <2>1, <2>7
    <3> QED
      BY <3>1, <3>2, <2>3, <2>4
  <2> QED
    BY <2>5, <2>6, <2>7
<1> QED
  BY <1>3, <1>4, <1>5

LEMMA StepInv == Inv /\ [Next]_vars => Inv'
<1> SUFFICES ASSUME Inv, [Next]_vars PROVE Inv'
  OBVIOUS
<1>1. ASSUME NEW i \in Instr, SkipNameless(i) PROVE Inv'
  BY <1>1, SkipInv
<1>2. ASSUME NEW i \in Instr, NumberLocal(i) PROVE Inv'
  BY <1>2, NumberLocalInv
<1>3. ASSUME NEW i \in Instr, Collect(i) PROVE Inv'
  BY <1>3, CollectInv
<1>4. ASSUME NEW i \in Instr, PairLocal(i) \/ PairGlobal(i) PROVE Inv'
  <2>1. method \in Search /\ Pair(i)
    BY <1>4 DEF PairLocal, PairGlobal, Search
  <2> QED
    BY <2>1, PairInv
<1>5. ASSUME NEW r \in Result, NumberGlobal(r) PROVE Inv'
  BY <1>5, NumberGlobalInv
<1>6. CASE UNCHANGED vars
  <2>1. UNCHANGED <<code, method, at, last, table, values, next, pairs>>
    BY <1>6 DEF vars, call
  <2>2. /\ \A k : Keyed(k)' <=> Keyed(k)
        /\ \A k : IsKeyed(code[k])' <=> IsKeyed(code[k])
        /\ \A k : Key(code[k])' = Key(code[k])
        /\ \A k, r : IsDefinition(k, r)' <=> IsDefinition(k, r)
    BY <2>1 DEF Keyed, IsKeyed, IsComputation, Key, Operands, IsDefinition
  <2>3. TypeInv' /\ ModeInv' /\ TableInv'
    BY <2>1 DEF Inv, TypeInv, ModeInv, TableInv
  <2>4. LastInv'
    BY <2>1, <2>2 DEF Inv, LastInv
  <2>5. NumberInv'
    BY <2>1, <2>2 DEF Inv, NumberInv
  <2>6. SearchInv'
    BY <2>1, <2>2 DEF Inv, SearchInv
  <2> QED
    BY <2>3, <2>4, <2>5, <2>6 DEF Inv
<1> QED
  BY <1>1, <1>2, <1>3, <1>4, <1>5, <1>6 DEF Next

LEMMA InvCorrect == Spec => []Inv
<1> QED
  BY InitInv, StepInv, PTL DEF Spec

-----------------------------------------------------------------------------
(***************************************************************************)
(* What a key says of an instruction.                                      *)
(***************************************************************************)
LEMMA CodeFacts ==
  ASSUME TypeInv, NEW k \in DOMAIN code
  PROVE  /\ code[k] \in Instr
         /\ code[k].op \in Opcode
         /\ code[k].binary =>
              /\ code[k].name \in Operation /\ code[k].op = OpcodeOf(code[k].name)
              /\ code[k].left \in Literal /\ code[k].right \in Literal
<1>1. code[k] \in Instr
  BY DEF TypeInv
<1> QED
  BY <1>1, InstrAssumption

\* Computations with one key and one name, or an opcode of one operation,
\* have one value, where the texts of one of them are its own.
LEMMA KeyFixesValue ==
  ASSUME NEW i \in Instr, NEW j \in Instr, IsComputation(i), IsComputation(j),
         Key(i) = Key(j), i.name = j.name \/ i.op # "DIV", IsFaithful(i)
  PROVE  Value(i) = Value(j)
<1>1. /\ i.name \in Operation /\ i.op = OpcodeOf(i.name)
      /\ j.name \in Operation /\ j.op = OpcodeOf(j.name)
      /\ i.left \in Literal /\ i.right \in Literal
      /\ j.left \in Literal /\ j.right \in Literal
      /\ i.op # "NOP" /\ j.op # "NOP"
  BY InstrAssumption DEF IsComputation, Arithmetic
<1>2. i.op = j.op /\ Operands(i) = Operands(j)
  BY <1>1 DEF Key
<1>3. i.name = j.name
  BY <1>1, <1>2 DEF OpcodeOf, Operation
<1>4. \A l \in Literal : /\ Text[l] = Text[i.left] => l = i.left
                         /\ Text[l] = Text[i.right] => l = i.right
  BY DEF IsFaithful, IsComputation
<1>5. CASE i.op \in {"ADD", "MUL"}
  <2>1. {Text[i.left], Text[i.right]} = {Text[j.left], Text[j.right]}
    BY <1>2, <1>5 DEF Operands
  <2>2. \/ i.left = j.left /\ i.right = j.right
        \/ i.left = j.right /\ i.right = j.left
    <3>1. CASE Text[j.left] = Text[i.left] /\ Text[j.right] = Text[i.right]
      BY <3>1, <1>1, <1>4
    <3>2. CASE Text[j.left] = Text[i.right] /\ Text[j.right] = Text[i.left]
      BY <3>2, <1>1, <1>4
    <3> QED
      BY <2>1, <3>1, <3>2
  <2>3. i.name \in {"add", "mul"}
    BY <1>1, <1>5 DEF OpcodeOf, Operation
  <2> QED
    BY <2>2, <2>3, <1>1, <1>3, MeaningAssumption DEF Value
<1>6. CASE i.op \notin {"ADD", "MUL"}
  <2>1. Text[i.left] = Text[j.left] /\ Text[i.right] = Text[j.right]
    BY <1>2, <1>6 DEF Operands
  <2> QED
    BY <2>1, <1>1, <1>3, <1>4 DEF Value
<1> QED
  BY <1>5, <1>6

\* The same operation has the same key.
LEMMA OperationFixesKey ==
  ASSUME NEW i \in Instr, NEW j \in Instr, IsComputation(i), IsComputation(j),
         SameOperation(i, j)
  PROVE  Key(i) = Key(j)
<1>1. /\ i.op = OpcodeOf(i.name) /\ j.op = OpcodeOf(j.name) /\ i.name = j.name
      /\ i.op # "NOP" /\ j.op # "NOP"
  BY InstrAssumption DEF IsComputation, Arithmetic, SameOperation
<1>2. i.op = j.op
  BY <1>1
<1>3. Operands(i) = Operands(j)
  <2>1. CASE i.left = j.left /\ i.right = j.right
    BY <2>1, <1>2 DEF Operands
  <2>2. CASE i.name \in {"add", "mul"} /\ i.left = j.right /\ i.right = j.left
    <3>1. i.op \in {"ADD", "MUL"}
      BY <2>2, <1>1 DEF OpcodeOf
    <3> QED
      BY <3>1, <2>2, <1>2 DEF Operands
  <2> QED
    BY <2>1, <2>2 DEF SameOperation
<1> QED
  BY <1>1, <1>2, <1>3 DEF Key

(***************************************************************************)
(* Two results that local or global numbering gave the same number hold    *)
(* the same value, whatever the literals mean, as far as the texts tell    *)
(* the operands apart and the opcodes the operations.                      *)
(***************************************************************************)
THEOREM NumbersCorrect == Spec => []SameNumberSameValue
<1>1. ASSUME Inv PROVE SameNumberSameValue
  <2> USE <1>1 DEF Inv
  <2> SUFFICES ASSUME NEW r \in DOMAIN values, NEW s \in DOMAIN values,
                      NEW k \in DOMAIN code, NEW m \in DOMAIN code,
                      values[r] = values[s], IsDefinition(k, r), IsDefinition(m, s), r # s
               PROVE  /\ IsComputation(code[k]) /\ IsComputation(code[m])
                      /\ (/\ code[k].name = code[m].name \/ code[k].op # "DIV"
                          /\ IsFaithful(code[k])
                          => Value(code[k]) = Value(code[m]))
    BY DEF SameNumberSameValue
  <2>1. k \in 1..(at - 1) /\ m \in 1..(at - 1) /\ code[k].result = r /\ code[m].result = s
    BY DEF IsDefinition
  <2>2. code[k] \in Instr /\ code[m] \in Instr
    BY CodeFacts
  <2>3. method \in Numbering
    BY DEF TypeInv, ModeInv
  <2>4. IsKeyed(code[k]) /\ IsKeyed(code[m])
    <3>1. IsKeyed(code[k])
      BY <2>1 DEF NumberInv
    <3>2. IsKeyed(code[m])
      BY <2>1 DEF NumberInv
    <3> QED
      BY <3>1, <3>2
  <2>5. Key(code[k]) = Key(code[m])
    <3>1. Key(code[k]) \in DOMAIN table /\ table[Key(code[k])] = values[r]
      BY <2>1, <2>4 DEF NumberInv
    <3>2. Key(code[m]) \in DOMAIN table /\ table[Key(code[m])] = values[s]
      BY <2>1, <2>4 DEF NumberInv
    <3> QED
      BY <3>1, <3>2, <2>3 DEF TableInv
  <2>6. IsComputation(code[k]) /\ IsComputation(code[m])
    BY <2>1, <2>4, <2>5 DEF IsKeyed, IsComputation, Key, Arithmetic
  <2> QED
    BY <2>2, <2>5, <2>6, KeyFixesValue
<1> QED
  BY <1>1, InvCorrect, PTL

(***************************************************************************)
(* When numbering has returned, a computation that is repeated has got the *)
(* number it had, its operands exchanged or not, in whatever order the     *)
(* hash table yielded the results.                                         *)
(***************************************************************************)
THEOREM RepetitionsShareNumber == Spec => []SameOperationSameNumber
<1>1. ASSUME Inv PROVE SameOperationSameNumber
  <2> USE <1>1 DEF Inv
  <2> SUFFICES ASSUME Returned, method \in Numbering,
                      NEW k \in DOMAIN code, NEW m \in DOMAIN code,
                      IsDefinition(k, code[k].result), IsDefinition(m, code[m].result),
                      NoResult # code[k].result, NoResult # code[m].result,
                      IsComputation(code[k]), IsComputation(code[m]),
                      SameOperation(code[k], code[m])
               PROVE  values[code[k].result] = values[code[m].result]
    BY DEF SameOperationSameNumber
  <2>1. k \in 1..(at - 1) /\ m \in 1..(at - 1)
    BY DEF IsDefinition
  <2>2. code[k].result \in DOMAIN values /\ code[m].result \in DOMAIN values
    <3>1. CASE method = "performLocalValueNumbering"
      BY <3>1, <2>1 DEF ModeInv
    <3>2. CASE method = "performGlobalValueNumbering"
      BY <3>2, <2>1 DEF LastInv, Returned
    <3> QED
      BY <3>1, <3>2 DEF Numbering
  <2>3. Key(code[k]) = Key(code[m])
    BY CodeFacts, OperationFixesKey
  <2>4. table[Key(code[k])] = values[code[k].result]
    BY <2>1, <2>2 DEF NumberInv, IsKeyed
  <2>5. table[Key(code[m])] = values[code[m].result]
    BY <2>1, <2>2 DEF NumberInv, IsKeyed
  <2> QED
    BY <2>3, <2>4, <2>5
<1> QED
  BY <1>1, InvCorrect, PTL

(***************************************************************************)
(* When a search has returned, every repeated computation is in a pair,    *)
(* with one that nothing before it repeats.                                *)
(***************************************************************************)
THEOREM PairsCorrect == Spec => []PairsStartAtFirst
<1>1. ASSUME Inv PROVE PairsStartAtFirst
  <2> USE <1>1 DEF Inv
  <2> SUFFICES ASSUME Returned, method \in Search
               PROVE  /\ \A p \in pairs : p[1] < p[2] /\ \A q \in pairs : q[2] # p[1]
                      /\ \A k, m \in DOMAIN code :
                           IsRepeated(k, m) => \E p \in pairs : p[2] = m /\ p[1] <= k
    BY DEF PairsStartAtFirst
  <2>1. \A p \in pairs : p[1] < p[2] /\ \A q \in pairs : q[2] # p[1]
    <3> SUFFICES ASSUME NEW p \in pairs PROVE p[1] < p[2] /\ \A q \in pairs : q[2] # p[1]
      OBVIOUS
    <3>1. p[1] < p[2]
      BY DEF SearchInv
    <3>2. ASSUME NEW q \in pairs, q[2] = p[1] PROVE FALSE
      <4> DEFINE key == Key(code[p[2]])
      <4>1. p[1] = table[key] /\ key \in DOMAIN table
        BY DEF SearchInv
      <4>2. Key(code[p[1]]) = key
        BY <4>1 DEF SearchInv
      <4>3. q[1] = table[Key(code[q[2]])] /\ q[1] < q[2] /\ q[2] \in 1..(at - 1)
        BY DEF SearchInv
      <4>4. q[1] = p[1]
        BY <3>2, <4>1, <4>2, <4>3
      <4> QED
        BY <3>2, <4>3, <4>4
    <3> QED
      BY <3>1, <3>2
  <2>2. ASSUME NEW k \in DOMAIN code, NEW m \in DOMAIN code, IsRepeated(k, m)
        PROVE  \E p \in pairs : p[2] = m /\ p[1] <= k
    <3>1. k \in 1..(at - 1) /\ m \in 1..(at - 1) /\ k < m
      BY <2>2 DEF Returned, TypeInv, IsRepeated
    <3>2. Keyed(k) /\ Keyed(m)
      BY <2>2 DEF IsRepeated, Keyed, IsKeyed
    <3>3. Key(code[k]) = Key(code[m])
      <4>1. CASE /\ code[k].op = "NOP" /\ code[m].op = "NOP"
                 /\ code[k].result = code[m].result
        BY <4>1 DEF Key
      <4>2. CASE /\ IsComputation(code[k]) /\ IsComputation(code[m])
                 /\ SameOperation(code[k], code[m])
        BY <4>2, CodeFacts, OperationFixesKey
      <4> QED
        BY <2>2, <4>1, <4>2 DEF IsRepeated
    <3> DEFINE key == Key(code[m])
    <3>4. key \in DOMAIN table /\ (m # table[key] => <<table[key], m>> \in pairs)
      BY <3>1, <3>2 DEF SearchInv
    <3>5. table[key] <= k /\ table[key] \in 1..(at - 1)
      BY <3>1, <3>2, <3>3, <3>4 DEF SearchInv
    <3>6. <<table[key], m>> \in pairs
      BY <3>1, <3>4, <3>5
    <3> QED
      BY <3>5, <3>6
  <2> QED
    BY <2>1, <2>2
<1> QED
  BY <1>1, InvCorrect, PTL
=============================================================================
