------------------------- MODULE ZIRValueNumbering --------------------------
(***************************************************************************)
(* Value numbering, local and global, and the two searches for redundant   *)
(* computations.                                                           *)
(*                                                                         *)
(* Operands are literals, and what the passes compare is their text.       *)
(* Blocks are visited in list order and only their instructions matter, so *)
(* the code of a function is one sequence here, as is that of a block.     *)
(***************************************************************************)
EXTENDS Integers, Sequences

CONSTANTS
  Literal,      \* operands: values of some type
  Text,         \* Text[l]: what toString returns; literals may share a text
  Result,       \* names of results
  NoResult,     \* the empty name
  Instr,        \* instructions: [op, name, result, binary, left, right]
  Program,      \* the instruction sequences analysed
  Meaning       \* Meaning[name][<<l, r>>]: the value of an operation

Arithmetic == {"ADD", "SUB", "MUL", "DIV"}
Opcode == Arithmetic \cup {"NOP", "LOAD", "STORE"}
Operation == {"add", "sub", "mul", "div", "mod", "pow"}

\* The constructors: three operations share an opcode.
OpcodeOf(name) ==
  CASE name = "add" -> "ADD" [] name = "sub" -> "SUB" [] name = "mul" -> "MUL"
    [] name \in {"div", "mod", "pow"} -> "DIV"

ASSUME InstrAssumption ==
  /\ NoResult \notin Result
  /\ \A i \in Instr :
       /\ i.op \in Opcode
       /\ i.result \in Result \cup {NoResult}
       /\ i.binary \in BOOLEAN
       /\ i.binary =>
            /\ i.name \in Operation /\ i.op = OpcodeOf(i.name)
            /\ i.left \in Literal /\ i.right \in Literal
  /\ Program \subseteq Seq(Instr)

ASSUME MeaningAssumption ==
  \A l, r \in Literal :
    /\ Meaning["add"][<<l, r>>] = Meaning["add"][<<r, l>>]
    /\ Meaning["mul"][<<l, r>>] = Meaning["mul"][<<r, l>>]

Numbering == {"performLocalValueNumbering", "performGlobalValueNumbering"}
Search == {"findRedundantComputations", "findGlobalRedundantComputations"}

VARIABLES
  code,      \* the instructions of the block, or of all blocks in list order
  method,    \* the method that was called
  at,        \* position of the loop over the instructions
  last,      \* last[r]: where global numbering last met result r
  table,     \* by key: a number, or the position of the first instruction
  values,    \* values[r]: the number of result r
  next,      \* the next number
  pairs      \* the redundant pairs found

call == <<code, method>>
vars == <<call, at, last, table, values, next, pairs>>

Put(f, k, v) == [x \in DOMAIN f \cup {k} |-> IF x = k THEN v ELSE f[x]]

Empty == [x \in {} |-> 0]

-----------------------------------------------------------------------------
\* Mutants: every operation commutes, or none does.
OperandsUnordered(i) == {Text[i.left], Text[i.right]}
OperandsOrdered(i) == <<Text[i.left], Text[i.right]>>

(***************************************************************************)
(* Where the operation commutes the smaller text is put first: the pair is *)
(* then known by its set.                                                  *)
(***************************************************************************)
Operands(i) ==
  IF i.op \in {"ADD", "MUL"} THEN {Text[i.left], Text[i.right]}
                             ELSE <<Text[i.left], Text[i.right]>>

\* What an instruction is looked up by; some are not, and get a number of
\* their own.  An addition is looked up in a table of its own too, with the
\* same outcome.
IsComputation(i) == i.op \in Arithmetic /\ i.binary

IsKeyed(i) == i.op = "NOP" \/ IsComputation(i)

Key(i) == IF i.op = "NOP" THEN <<"NOP", i.result>> ELSE <<i.op, Operands(i)>>

Init ==
  /\ code \in Program
  /\ method \in Numbering \cup Search
  /\ at = 1
  /\ last = Empty /\ table = Empty /\ values = Empty
  /\ next = 0
  /\ pairs = {}

Seen(i) == IsKeyed(i) /\ Key(i) \in DOMAIN table

\* The result of i gets the number of its key, or the next one.
Number(i) ==
  \/ /\ Seen(i)
     /\ values' = Put(values, i.result, table[Key(i)])
     /\ UNCHANGED <<table, next>>
  \/ /\ ~ Seen(i)
     /\ values' = Put(values, i.result, next)
     /\ table' = IF IsKeyed(i) THEN Put(table, Key(i), next) ELSE table
     /\ next' = next + 1

\* The loop over the instructions comes to one.
Visit(i) == at <= Len(code) /\ i = code[at] /\ at' = at + 1 /\ UNCHANGED call

SkipNameless(i) ==
  /\ Visit(i)
  /\ i.result = NoResult
  /\ UNCHANGED <<last, table, values, next, pairs>>

NumberLocal(i) ==
  /\ method = "performLocalValueNumbering"
  /\ Visit(i)
  /\ i.result # NoResult
  /\ Number(i)
  /\ UNCHANGED <<last, pairs>>

Collect(i) ==
  /\ method = "performGlobalValueNumbering"
  /\ Visit(i)
  /\ i.result # NoResult
  /\ last' = Put(last, i.result, at)
  /\ UNCHANGED <<table, values, next, pairs>>

\* The results are then numbered in the order of a hash table.
NumberGlobal(r) ==
  /\ method = "performGlobalValueNumbering"
  /\ at > Len(code)
  /\ r \in DOMAIN last \ DOMAIN values
  /\ Number(code[last[r]])
  /\ UNCHANGED <<call, at, last, pairs>>

\* Mutant: a pair takes the place of the first instruction in the table.
PairLatest(i) ==
  /\ Visit(i)
  /\ i.result # NoResult
  /\ pairs' = IF Seen(i) THEN pairs \cup {<<table[Key(i)], at>>} ELSE pairs
  /\ table' = IF IsKeyed(i) THEN Put(table, Key(i), at) ELSE table
  /\ UNCHANGED <<last, values, next>>

Pair(i) ==
  /\ Visit(i)
  /\ i.result # NoResult
  /\ \/ /\ Seen(i)
        /\ pairs' = pairs \cup {<<table[Key(i)], at>>}
        /\ UNCHANGED table
     \/ /\ ~ Seen(i)
        /\ table' = IF IsKeyed(i) THEN Put(table, Key(i), at) ELSE table
        /\ UNCHANGED pairs
  /\ UNCHANGED <<last, values, next>>

PairLocal(i) == method = "findRedundantComputations" /\ Pair(i)

PairGlobal(i) == method = "findGlobalRedundantComputations" /\ Pair(i)

Next ==
  \/ \E i \in Instr :
       SkipNameless(i) \/ NumberLocal(i) \/ Collect(i) \/ PairLocal(i) \/ PairGlobal(i)
  \/ \E r \in Result : NumberGlobal(r)

Spec == Init /\ [][Next]_vars

Returned ==
  /\ at > Len(code)
  /\ method = "performGlobalValueNumbering" => DOMAIN values = DOMAIN last

\* What hasRedundantComputations and hasGlobalRedundantComputations return.
HasRedundant == pairs # {}

-----------------------------------------------------------------------------
(***************************************************************************)
(* Properties.                                                             *)
(***************************************************************************)

\* The instruction a result was given by: the last one visited.
IsDefinition(k, r) ==
  /\ k \in 1..(at - 1)
  /\ code[k].result = r
  /\ \A m \in (k + 1)..(at - 1) : code[m].result # r

\* No other literal has the text of an operand of i.
IsFaithful(i) ==
  i.binary => \A l \in Literal : /\ Text[l] = Text[i.left] => l = i.left
                                 /\ Text[l] = Text[i.right] => l = i.right

Value(i) == Meaning[i.name][<<i.left, i.right>>]

SameOperation(i, j) ==
  /\ i.name = j.name
  /\ \/ i.left = j.left /\ i.right = j.right
     \/ i.name \in {"add", "mul"} /\ i.left = j.right /\ i.right = j.left

(***************************************************************************)
(* Results with the same number hold the same value, whatever the literals *)
(* mean, in a block and across the blocks of a function, as far as the     *)
(* texts tell the operands apart and the opcodes the operations.           *)
(***************************************************************************)
SameNumberSameValue ==
  \A r, s \in DOMAIN values : \A k, m \in DOMAIN code :
    /\ values[r] = values[s]
    /\ IsDefinition(k, r) /\ IsDefinition(m, s)
    /\ r # s
    => /\ IsComputation(code[k]) /\ IsComputation(code[m])
       /\ (/\ code[k].name = code[m].name \/ code[k].op # "DIV"
           /\ IsFaithful(code[k])
           => Value(code[k]) = Value(code[m]))

(***************************************************************************)
(* A computation that is repeated gets the number it had, its operands     *)
(* exchanged or not, in whatever order the hash table yields the results.  *)
(***************************************************************************)
SameOperationSameNumber ==
  Returned /\ method \in Numbering =>
    \A k, m \in DOMAIN code :
      LET i == code[k]  j == code[m]
      IN  /\ IsDefinition(k, i.result) /\ IsDefinition(m, j.result)
          /\ NoResult \notin {i.result, j.result}
          /\ IsComputation(i) /\ IsComputation(j) /\ SameOperation(i, j)
          => values[i.result] = values[j.result]

\* Positions k < m whose instructions are the same computation, or NOPs with
\* the same result.
IsRepeated(k, m) ==
  /\ k < m
  /\ NoResult \notin {code[k].result, code[m].result}
  /\ \/ /\ code[k].op = "NOP" /\ code[m].op = "NOP"
        /\ code[k].result = code[m].result
     \/ /\ IsComputation(code[k]) /\ IsComputation(code[m])
        /\ SameOperation(code[k], code[m])

(***************************************************************************)
(* Every repeated computation is found, and paired with a computation that *)
(* nothing before it repeats: replacing the later by the earlier ones      *)
(* leaves no reference to one that was itself replaced.                    *)
(***************************************************************************)
PairsStartAtFirst ==
  Returned /\ method \in Search =>
    /\ \A p \in pairs : p[1] < p[2] /\ \A q \in pairs : q[2] # p[1]
    /\ \A k, m \in DOMAIN code :
         IsRepeated(k, m) => \E p \in pairs : p[2] = m /\ p[1] <= k
=============================================================================
