------------------------------ MODULE FrontEnd ------------------------------
(***************************************************************************)
(* A compilation as the tests run it: the text is lexed to its end, a      *)
(* parser is created over the tokens, and its entry points are called in   *)
(* any order.                                                              *)
(***************************************************************************)
EXTENDS ParserGrammar

CONSTANTS Code, Letter, Digit, Space, KEYWORDS

VARIABLE lexer

L == INSTANCE Lexer

FrontEndInit == L!Init /\ Init

Lex == L!Next /\ UNCHANGED vars

\* The parser looks at types and values only.
Create ==
  /\ L!Done(lexer)
  /\ CreateParser([k \in DOMAIN lexer.array |->
                     [type |-> lexer.array[k].type, value |-> lexer.array[k].value]])
  /\ UNCHANGED lexer

Parse == Next /\ UNCHANGED lexer

FrontEndNext == Lex \/ Create \/ Parse

Spec == FrontEndInit /\ [][FrontEndNext]_<<lexer, vars>>

-----------------------------------------------------------------------------
(* The properties of the lexer, whose state does not change once there is  *)
(* a parser.                                                               *)

\* Line and column are those of the text, in every branch of tokenize.
PositionsAreTrue == tokens = <<>> => L!PositionsAreTrue

\* No number, word or operator is cut short or runs on.
TokensAreLongest == tokens = <<>> => L!TokensAreLongest

\* The values of the tokens are the characters of the program, in order.
NothingIsLost == tokens = <<>> => L!NothingIsLost

(***************************************************************************)
(* Every round of the main loop reads something or ends the lexing, so     *)
(* that tokenize returns for every text, whatever errors are in it.        *)
(***************************************************************************)
EveryStepReads == [][lexer'.i > lexer.i \/ L!Done(lexer')]_lexer
=============================================================================
