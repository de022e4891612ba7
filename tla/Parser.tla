------------------------------- MODULE Parser -------------------------------
(***************************************************************************)
(* The recursive descent parser of src/parser.c: expressions, variable     *)
(* declarations, blocks and function declarations.  A caller creates a     *)
(* parser over the lexer's tokens and then calls the entry points in any   *)
(* order; position, error flag and the nodes in memory persist from one    *)
(* call to the next.  The caller and the lexer are in module FrontEnd.     *)
(*                                                                         *)
(* Each parse_* function is an operator from the parser's state to the     *)
(* state it leaves: a record r with the position, the error flag, the      *)
(* count of live AST nodes, whether the function returns a node (ok) and   *)
(* the node.  Of a token the type and the value are kept.  A loop is a     *)
(* function of the rounds it has made and the descent one of the depth of  *)
(* nesting: both are bounded by the number of tokens, since every round    *)
(* and every nested call reads one.                                        *)
(***************************************************************************)
EXTENDS Integers, SequencesExt, FiniteSetsExt

VARIABLES tokens,      \* what the lexer produced; none before there is a parser
          current,     \* tokens consumed so far
          had_error,
          live,        \* AST nodes allocated and not freed
          returned     \* one record per call that returned a node

vars == <<tokens, current, had_error, live, returned>>

Operator(text) == [type |-> "OPERATOR", value |-> text]
Keyword(text)  == [type |-> "KEYWORD", value |-> text]

-----------------------------------------------------------------------------
(* Tokens *)

Peek(r) == tokens[r.current + 1]
Previous(r) == tokens[r.current]
Advance(r) == [r EXCEPT !.current = @ + 1]

\* parser_error, and the function returns NULL.
Fail(r) == [r EXCEPT !.had_error = TRUE, !.ok = FALSE]

(* match(type) or an error.  Once r has failed nothing more is read.       *)
Match(r, type) ==
  IF r.ok /\ Peek(r).type = type THEN Advance(r)
  ELSE IF r.ok THEN Fail(r) ELSE r

(* match(type) and then a comparison of the text: a token of the type with *)
(* another text has been consumed when the error is reported.              *)
MatchText(r, type, text) ==
  LET next == Match(r, type)
  IN  IF next.ok /\ Previous(next).value # text THEN Fail(next) ELSE next

\* match(type) whose result only says whether an optional part is there.
Optional(r, type) == IF r.ok /\ Peek(r).type = type THEN Advance(r) ELSE r

-----------------------------------------------------------------------------
(* Nodes *)

\* The size of a node is the number of nodes that free_ast frees with it.
SizeOf(nodes) ==
  LET sum[k \in 0 .. Len(nodes)] == IF k = 0 THEN 0 ELSE sum[k - 1] + nodes[k].size
  IN  sum[Len(nodes)]

NoNode == [kind |-> "none", size |-> 0]

Leaf(kind, text) == [kind |-> kind, value |-> text, size |-> 1]

UnaryExpr(op, operand) ==
  [kind |-> "unary", op |-> op, operand |-> operand, size |-> 1 + operand.size]

BinaryExpr(op, left, right) ==
  [kind |-> "binary", op |-> op, left |-> left, right |-> right,
   size |-> 1 + left.size + right.size]

AssignExpr(left, right) ==
  [kind |-> "assign", left |-> left, right |-> right, size |-> 1 + left.size + right.size]

\* create_*: one more node, which the function returns.
Make(r, node) == [r EXCEPT !.node = node, !.live = @ + 1]

\* free_ast on every node of a sequence, and the function returns NULL.
Free(r, nodes) ==
  [r EXCEPT !.ok = FALSE, !.live = @ - SizeOf(nodes)]

-----------------------------------------------------------------------------
(* Expressions *)

Operators(texts) == {Operator(t) : t \in texts}

(* What a parse function is called with.  d holds the functions that the   *)
(* descent may call with what is left of the nesting.                      *)
States == [current : 0 .. Len(tokens), had_error : BOOLEAN, live : Int,
           ok : {TRUE}, node : {NoNode}]
Enter(r) == [r EXCEPT !.node = NoNode]

IsLiteral(r) ==
  \/ Peek(r).type \in {"INTEGER", "FLOAT", "STRING"}
  \/ Peek(r) \in {Keyword("true"), Keyword("false")}

Primary(d, r) ==
  CASE IsLiteral(r)                 -> Make(Advance(r), Leaf("literal", Peek(r).value))
    [] Peek(r).type = "IDENTIFIER"  -> Make(Advance(r), Leaf("identifier", Peek(r).value))
    [] Peek(r).type = "LPAREN"      ->
         \* consume reports a missing ')', and the inner node is returned
         LET inner == d.assignment[Enter(Advance(r))]
         IN  IF Peek(inner).type = "RPAREN" THEN Advance(inner)
             ELSE [inner EXCEPT !.had_error = TRUE]
    [] OTHER -> Fail(r)

\* Mutant: the operand of a sign is read together with the powers behind it.
UnaryOfPower(d, r) ==
  LET operand == d.power[Enter(Advance(r))]
  IN  IF Peek(r) \notin Operators({"-", "+"}) \cup {Keyword("not")} THEN Primary(d, r)
      ELSE IF operand.ok THEN Make(operand, UnaryExpr(Peek(r).value, operand.node)) ELSE operand

Unary(d, r) ==
  LET operand == d.unary[Enter(Advance(r))]
  IN  IF Peek(r) \notin Operators({"-", "+"}) \cup {Keyword("not")} THEN Primary(d, r)
      ELSE IF operand.ok THEN Make(operand, UnaryExpr(Peek(r).value, operand.node)) ELSE operand

\* Mutant: the left operand is forgotten when the right one fails.
CombinedForgets(left, right) ==
  IF right.ok THEN Make(right, BinaryExpr(Peek(left).value, left.node, right.node)) ELSE right

(* The right operand of the operator that follows left has been parsed.    *)
Combined(left, right) ==
  IF right.ok THEN Make(right, BinaryExpr(Peek(left).value, left.node, right.node))
  ELSE Free(right, <<left.node>>)

Power(d, r) ==
  LET left == Unary(d, r)
  IN  IF left.ok /\ Peek(left) = Operator("**")
      THEN Combined(left, d.power[Enter(Advance(left))]) ELSE left

\* One round of the while loop of a level: an operator, and an operand one level below.
Round(ops, left, below) ==
  IF left.ok /\ Peek(left) \in ops THEN Combined(left, below[Enter(Advance(left))]) ELSE left

Loop(ops, left, below) ==
  LET round[k \in 0 .. Len(tokens)] ==
        IF k = 0 THEN left ELSE Round(ops, round[k - 1], below)
  IN  round[Len(tokens)]

Level(ops, below) == [s \in States |-> Loop(ops, below[s], below)]

Multiplicative(d) == Level(Operators({"*", "/", "%"}), [s \in States |-> Power(d, s)])
Additive(d)       == Level(Operators({"+", "-"}), Multiplicative(d))
Relational(d)     == Level(Operators({"<", ">", "<=", ">="}), Additive(d))
Equality(d)       == Level(Operators({"==", "!="}), Relational(d))
LogicalAnd(d)     == Level({Keyword("and")}, Equality(d))
LogicalOr(d)      == Level({Keyword("or")}, LogicalAnd(d))

(* An operator other than = is consumed here and not given back.           *)
Assignment(d, r) ==
  LET left  == LogicalOr(d)[r]
      next  == Optional(left, "OPERATOR")
      right == d.assignment[Enter(next)]
  IN  IF ~left.ok \/ next.current = left.current \/ Previous(next).value # "=" THEN next
      ELSE IF left.node.kind # "identifier" THEN Free(Fail(next), <<left.node>>)
      ELSE IF ~right.ok THEN Free(right, <<left.node>>)
      ELSE Make(right, AssignExpr(left.node, right.node))

\* The three functions that are called from within themselves.
Deeper(d) ==
  [assignment |-> [s \in States |-> Assignment(d, s)],
   unary      |-> [s \in States |-> Unary(d, s)],
   power      |-> [s \in States |-> Power(d, s)]]

\* No call is nested deeper than there are tokens: nothing is ever called in NoDescent.
NoDescent == [assignment |-> <<>>, unary |-> <<>>, power |-> <<>>]

Descent[n \in 0 .. Len(tokens)] == IF n = 0 THEN NoDescent ELSE Deeper(Descent[n - 1])

Expression(r) == IF r.ok THEN Descent[Len(tokens)].assignment[Enter(r)] ELSE r

-----------------------------------------------------------------------------
(* Declarations *)

\* Mutant: the missing type is not reported.
AnnotationSilent(r) ==
  IF ~r.ok \/ Peek(r).type # "COLON" THEN r
  ELSE IF Peek(Advance(r)).type = "KEYWORD" THEN Advance(Advance(r))
  ELSE [Advance(r) EXCEPT !.ok = FALSE]

\* [:type], with any keyword for a type
Annotation(r) == IF r.ok /\ Peek(r).type = "COLON" THEN Match(Advance(r), "KEYWORD") ELSE r

\* Mutant: the token before the annotation is taken for the type.
AnnotationBefore(before, after) ==
  IF before.current = after.current THEN "none" ELSE Previous(before).value

AnnotationOf(before, after) ==
  IF before.current = after.current THEN "none" ELSE Previous(after).value

Declared(is_const, name, type, initializer) ==
  [kind |-> "var_decl", is_const |-> is_const, name |-> name, type |-> type,
   initializer |-> initializer, size |-> 1 + initializer.size]

BlockOf(stmts) == [kind |-> "block", statements |-> stmts, size |-> 1 + SizeOf(stmts)]

FuncDef(is_comptime, name, params, return_type, body) ==
  [kind |-> "func_def", name |-> name, parameters |-> params, return_type |-> return_type,
   body |-> body, is_comptime |-> is_comptime, size |-> 1 + SizeOf(params) + body.size]

\* The semicolon behind the initializer, and the node.
Initialized(modifier, named, typed, initializer) ==
  LET end == Match(initializer, "SEMICOLON")
  IN  IF end.ok
      THEN Make(end, Declared(Previous(modifier) = Keyword("const"), Previous(named).value,
                              AnnotationOf(named, typed), initializer.node))
      ELSE IF initializer.ok THEN Free(end, <<initializer.node>>) ELSE end

(* let [const] identifier [:type] = expression;  A keyword other than      *)
(* const after let is consumed as well.                                    *)
VarDeclaration(r) ==
  LET modifier == Optional(MatchText(r, "KEYWORD", "let"), "KEYWORD")
      named    == Match(modifier, "IDENTIFIER")
      typed    == Annotation(named)
  IN  Initialized(modifier, named, typed, Expression(MatchText(typed, "OPERATOR", "=")))

(* One round of the loop over the statements; the node of its state is the *)
(* sequence of the statements so far.                                      *)
NextStatement(r) ==
  LET stmt == VarDeclaration(r)
  IN  IF ~r.ok \/ Peek(r).type \in {"RBRACE", "EOF"} THEN r
      ELSE IF stmt.ok THEN [stmt EXCEPT !.node = Append(r.node, stmt.node)]
      ELSE Free(stmt, r.node)

Statements(opened) ==
  LET round[k \in 0 .. Len(tokens)] ==
        IF k = 0 THEN [opened EXCEPT !.node = <<>>] ELSE NextStatement(round[k - 1])
  IN  round[Len(tokens)]

EndOfBlock(last) ==
  LET end == Match(last, "RBRACE")
  IN  IF end.ok THEN Make(end, BlockOf(last.node))
      ELSE IF last.ok THEN Free(end, last.node) ELSE end

Block(r) ==
  LET opened == Match(r, "LBRACE")
  IN  IF opened.ok THEN EndOfBlock(Statements(opened)) ELSE opened

(* The body of the do-while loop over identifier [:type] {, identifier     *)
(* [:type]}; the node of its state is the sequence of the parameters so    *)
(* far.                                                                    *)
AddParameter(r) ==
  LET named == Match(r, "IDENTIFIER")
      typed == Annotation(named)
      param == Declared(FALSE, Previous(named).value, AnnotationOf(named, typed), NoNode)
  IN  IF typed.ok THEN Make(typed, Append(r.node, param)) ELSE Free(typed, r.node)

NextParameter(r) == IF r.ok /\ Peek(r).type = "COMMA" THEN AddParameter(Advance(r)) ELSE r

Parameters(r) ==
  LET round[k \in 0 .. Len(tokens)] ==
        IF k = 0 THEN AddParameter(r) ELSE NextParameter(round[k - 1])
  IN  round[Len(tokens)]

ParameterList(opened) ==
  LET none == [opened EXCEPT !.node = <<>>]
  IN  IF opened.ok /\ Peek(opened).type # "RPAREN" THEN Parameters(none) ELSE none

FunctionOf(is_comptime, name, params, return_type, body) ==
  IF ~params.ok THEN params
  ELSE IF ~body.ok THEN Free(body, params.node)
  ELSE Make(body, FuncDef(is_comptime, name, params.node, return_type, body.node))

\* What follows the parameters: ) [:type] { body }
FunctionAfter(is_comptime, name, params) ==
  LET closed == Match(params, "RPAREN")
      typed  == Annotation(closed)
  IN  FunctionOf(is_comptime, name, params, AnnotationOf(closed, typed), Block(typed))

(* [comptime] fn identifier(params) [:type] { body }                       *)
FunctionDeclaration(r) ==
  LET is_comptime == Peek(r) = Keyword("comptime")
      modifier    == IF is_comptime THEN Advance(r) ELSE r
      named       == Match(MatchText(modifier, "KEYWORD", "fn"), "IDENTIFIER")
  IN  FunctionAfter(is_comptime, Previous(named).value, ParameterList(Match(named, "LPAREN")))

-----------------------------------------------------------------------------
(* The caller *)

Init ==
  /\ tokens = <<>>
  /\ current = 0 /\ had_error = FALSE
  /\ live = 0 /\ returned = <<>>

CreateParser(ts) ==
  /\ tokens = <<>>
  /\ tokens' = ts
  /\ current' = 0 /\ had_error' = FALSE
  /\ UNCHANGED <<live, returned>>

\* The caller keeps every node it is given.
Call(r) ==
  /\ tokens # <<>>
  /\ current' = r.current
  /\ had_error' = r.had_error
  /\ live' = r.live
  /\ returned' = IF r.ok THEN Append(returned, [node |-> r.node, from |-> current,
                                                to |-> r.current]) ELSE returned
  /\ UNCHANGED tokens

Entry == [current |-> current, had_error |-> had_error, live |-> live, ok |-> TRUE, node |-> NoNode]

ParseExpression == Call(Expression(Entry))
ParseVarDeclaration == Call(VarDeclaration(Entry))
ParseBlock == Call(Block(Entry))
ParseFunctionDeclaration == Call(FunctionDeclaration(Entry))

Next == ParseExpression \/ ParseVarDeclaration \/ ParseBlock \/ ParseFunctionDeclaration

(* The parser with any client: one that creates it over tokens that end    *)
(* with the end of the file, as the lexer's do, and calls what it likes.   *)
IsProgram(ts) ==
  /\ ts \in Seq(Range(ts)) /\ ts # <<>>
  /\ ts[Len(ts)].type = "EOF"

ParserNext == (IsProgram(tokens') /\ CreateParser(tokens')) \/ Next

ParserSpec == Init /\ [][ParserNext]_vars

-----------------------------------------------------------------------------
(* Properties *)

(* Every node in memory belongs to a tree that the caller was given: each  *)
(* error path of parse_* frees what was built before the error, once.      *)
NoNodeIsLost ==
  live = SizeOf([i \in DOMAIN returned |-> returned[i].node])

(* A call that returns no node has reported an error, a reported error is  *)
(* never taken back, and a call that returns a node has read tokens, none  *)
(* of them a second time and none behind the end-of-file token.            *)
FailureIsReported ==
  [][ tokens # <<>> =>
        /\ returned' = returned => had_error'
        /\ had_error => had_error'
        /\ current' \in current .. Len(tokens) - 1
        /\ returned' # returned => current' > current ]_vars
=============================================================================
