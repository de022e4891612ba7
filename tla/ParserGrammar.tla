---------------------------- MODULE ParserGrammar ----------------------------
(***************************************************************************)
(* What the parser's trees must be: the grammar of docs/grammar.ebnf.md,   *)
(* read as a function from token sequences to trees that splits a sequence *)
(* at its loosest operator, without descending and without a position.     *)
(*                                                                         *)
(* The parser accepts more than the grammar: it skips an operator & or |   *)
(* after a complete expression and a keyword after let, which are left out *)
(* of the tokens; it reads true and false as literals, and so does Tree;   *)
(* and it reads a chain of unary operators, where the grammar has at most  *)
(* one (grammar.ebnf.md:88): nothing is said of the tree of a chain.       *)
(*                                                                         *)
(* It accepts less, too: no function call, no f-string, and an assignment  *)
(* to a name only.  What it refuses is an error; but an expression before  *)
(* an argument list ends at the name, and what is compared is the tree of  *)
(* the tokens that were read.                                              *)
(***************************************************************************)
EXTENDS Parser

Skipped == Operators({"&", "|"})

\* Binary operators from the loosest to the tightest, and those that group to the right.
Precedence == <<{"="}, {"or"}, {"and"}, {"==", "!="}, {"<", ">", "<=", ">="},
                {"+", "-"}, {"*", "/", "%"}, {"**"}>>
RightAssociative == {"=", "**"}

Depth(s, i) ==
  Cardinality({j \in 1 .. i : s[j].type = "LPAREN"})
    - Cardinality({j \in 1 .. i : s[j].type = "RPAREN"})

EndsOperand(t) ==
  \/ t.type \in {"IDENTIFIER", "INTEGER", "FLOAT", "STRING", "RPAREN"}
  \/ t \in {Keyword("true"), Keyword("false")}

\* An operator at i is binary when an operand ends just before it.
IsBinary(s, i) == i > 1 /\ Depth(s, i) = 0 /\ EndsOperand(s[i - 1])

CanBeUnary(t) == t.type \in {"OPERATOR", "KEYWORD"} /\ t.value \in {"-", "+", "not"}

\* A unary operator stands before another one.
HasChain(s) ==
  \E i \in 1 .. Len(s) - 1 :
    /\ CanBeUnary(s[i]) /\ (i = 1 \/ ~ EndsOperand(s[i - 1]))
    /\ CanBeUnary(s[i + 1])

RECURSIVE Tree(_)
Tree(s) ==
  LET At(ops) == {i \in DOMAIN s : /\ s[i].type \in {"OPERATOR", "KEYWORD"}
                                   /\ s[i].value \in ops /\ IsBinary(s, i)}
      levels  == {n \in DOMAIN Precedence : At(Precedence[n]) # {}}
      ops     == Precedence[Min(levels)]
      split   == IF ops \subseteq RightAssociative THEN Min(At(ops)) ELSE Max(At(ops))
      left    == Tree(SubSeq(s, 1, split - 1))
      right   == Tree(SubSeq(s, split + 1, Len(s)))
  IN  CASE levels # {} -> IF s[split].value = "=" THEN AssignExpr(left, right)
                          ELSE BinaryExpr(s[split].value, left, right)
        [] levels = {} /\ CanBeUnary(s[1]) -> UnaryExpr(s[1].value, Tree(Tail(s)))
        [] levels = {} /\ s[1].type = "LPAREN" -> Tree(SubSeq(s, 2, Len(s) - 1))
        [] levels = {} /\ s[1].type = "IDENTIFIER" -> Leaf("identifier", s[1].value)
        [] OTHER -> Leaf("literal", s[1].value)

ExpressionReads(s, node) ==
  LET read == SelectSeq(s, LAMBDA t : t \notin Skipped)
  IN  ~ HasChain(read) => node = Tree(read)

-----------------------------------------------------------------------------
(* The tokens of a declaration up to its initialiser or its body. *)

First(s, type, value) == Min({i \in DOMAIN s : s[i].type = type /\ s[i].value = value})

Values(s) == [i \in DOMAIN s |-> s[i].value]

TypePart(type) == IF type = "none" THEN <<>> ELSE <<":", type>>

DeclarationHead(d) ==
  <<"let">> \o (IF d.is_const THEN <<"const">> ELSE <<>>) \o <<d.name>> \o TypePart(d.type)

FunctionHead(f) ==
  LET Parameter(p) == <<",", p.name>> \o TypePart(p.type)
      parameters   == FlattenSeq([i \in DOMAIN f.parameters |-> Parameter(f.parameters[i])])
  IN  (IF f.is_comptime THEN <<"comptime">> ELSE <<>>)
      \o <<"fn", f.name, "(">> \o (IF parameters = <<>> THEN <<>> ELSE Tail(parameters))
      \o <<")">> \o TypePart(f.return_type)

DeclarationReads(s, d) ==
  LET equals == First(s, "OPERATOR", "=")
      head   == SubSeq(s, 1, equals - 1)
  IN  /\ DeclarationHead(d) =
           Values(IF head[2].type = "KEYWORD" /\ head[2].value # "const"
                  THEN RemoveAt(head, 2) ELSE head)
      /\ ExpressionReads(SubSeq(s, equals + 1, Len(s) - 1), d.initializer)

RECURSIVE StatementsRead(_, _)
StatementsRead(s, stmts) ==
  IF stmts = <<>> THEN s = <<>>
  ELSE LET end == First(s, "SEMICOLON", ";")
       IN  /\ DeclarationReads(SubSeq(s, 1, end), Head(stmts))
           /\ StatementsRead(SubSeq(s, end + 1, Len(s)), Tail(stmts))

BlockReads(s, block) == StatementsRead(SubSeq(s, 2, Len(s) - 1), block.statements)

FunctionReads(s, f) ==
  LET body == First(s, "LBRACE", "{")
  IN  /\ FunctionHead(f) = Values(SubSeq(s, 1, body - 1))
      /\ BlockReads(SubSeq(s, body, Len(s)), f.body)

Text(call) == SubSeq(tokens, call.from + 1, call.to)
IsDeclaration(node) == node.kind \in {"var_decl", "block", "func_def"}

-----------------------------------------------------------------------------
(* Properties *)

(* As long as no error is reported, the tree of an expression without a    *)
(* chain of unary operators is the one the grammar gives its tokens:       *)
(* precedence, associativity, the reach of a unary operator and of         *)
(* parentheses, across the functions that call each other                  *)
(* (parse_assignment to parse_primary).                                    *)
ExpressionsFollowGrammar ==
  ~had_error => \A i \in DOMAIN returned : LET call == returned[i] IN
    ~IsDeclaration(call.node) => ExpressionReads(Text(call), call.node)

(* As long as no error is reported, a declaration's tree says exactly what *)
(* its tokens say: modifiers, names, types, parameters in order, every     *)
(* statement of the body and each initialiser.                             *)
DeclarationsKeepTheirParts ==
  ~had_error => \A i \in DOMAIN returned : LET call == returned[i] IN
    /\ call.node.kind = "var_decl" => DeclarationReads(Text(call), call.node)
    /\ call.node.kind = "block"    => BlockReads(Text(call), call.node)
    /\ call.node.kind = "func_def" => FunctionReads(Text(call), call.node)
=============================================================================
