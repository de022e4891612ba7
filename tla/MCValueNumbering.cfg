\* Two results and three instructions: a result given twice, a number used
\* for two results, a pair and a repetition of it.
CONSTANTS
  Literal <- MCLiteral
  Text <- MCText
  Result <- MCResult
  NoResult = NoResult
  Instr <- MCInstr
  Program <- MCProgram
  Meaning <- MCMeaning
  MaxCode = 3

SPECIFICATION Spec
INVARIANTS
  SameNumberSameValue
  SameOperationSameNumber
  PairsStartAtFirst

\* A method that has returned does nothing more.
CHECK_DEADLOCK FALSE
