-------------------------- MODULE MCValueNumbering --------------------------
(***************************************************************************)
(* An instance of ZIRValueNumbering for TLC: four literals, of which 9     *)
(* as i32 and as i64 have the same text but are different values, and code *)
(* of up to MaxCode instructions.  Powers are all the same value.          *)
(***************************************************************************)
EXTENDS ZIRValueNumbering

CONSTANT MaxCode

MCLiteral == {"5", "2", "9", "9L"}
MCText == [l \in MCLiteral |-> IF l = "9L" THEN "9" ELSE l]
MCResult == {"x", "y"}

MCNumber == [l \in MCLiteral |->
  CASE l = "5" -> 5 [] l = "2" -> 2 [] l = "9" -> 9 [] l = "9L" -> 109]

MCApply(name, a, b) ==
  CASE name = "add" -> a + b [] name = "sub" -> a - b [] name = "mul" -> a * b
    [] name = "div" -> a \div b [] name = "mod" -> a % b

MCMeaning ==
  [name \in Operation |-> [l, r \in MCLiteral |->
     IF name = "pow" THEN 0 ELSE MCApply(name, MCNumber[l], MCNumber[r])]]

Binary(name, l, r, x) ==
  [op |-> OpcodeOf(name), name |-> name, result |-> x, binary |-> TRUE,
   left |-> l, right |-> r]

\* Made with the base class alone: no operands.
Plain(op, x) ==
  [op |-> op, name |-> x, result |-> x, binary |-> FALSE,
   left |-> "2", right |-> "2"]

MCInstr ==
  {Binary(name, "5", "2", x) : name \in Operation \ {"pow"}, x \in MCResult}
    \cup {Binary(name, "2", "5", x) : name \in {"add", "sub", "mul"}, x \in MCResult}
    \cup {Binary("add", "5", "9", "x"), Binary("add", "5", "9L", "y")}
    \cup {Plain(op, x) : op \in {"NOP", "STORE"}, x \in MCResult}
    \cup {Plain("STORE", NoResult)}

MCProgram == UNION {[1..n -> MCInstr] : n \in 0..MaxCode}
=============================================================================
