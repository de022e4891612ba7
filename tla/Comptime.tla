------------------------------ MODULE Comptime ------------------------------
(***************************************************************************)
(* The evaluation of expressions at compile time.                          *)
(*                                                                         *)
(* The evaluator is a set of recursive functions that share one static     *)
(* counter.  Here their activations are the frames of a stack, and a step  *)
(* is what one activation does between two calls.  An expression is        *)
(* evaluated after another, as in one compilation.                         *)
(***************************************************************************)
EXTENDS Integers, Sequences, FiniteSets, SequencesExt, StaticTypes

CONSTANTS
  Programs,              \* records with global symbols and expressions
  Nodes,                 \* the expressions of the programs, with all their parts,
  Statements,            \* and the statements
  ReadAs,                \* the texts that are literals without quotes, with their values
  Strcmp(_, _),          \* strcmp of two texts: less than, equal to or greater than 0
  DoubleOp(_, _, _),     \* pow, and any operation on a number that is not finite
  CastOfNonFinite,       \* what a number that is not finite is as an integer: undefined in C
  Exponents,             \* bound: the decimal exponents of the numbers that are printed
  MAX_RECURSION_DEPTH

ASSUME MaxDepthAssumption == MAX_RECURSION_DEPTH \in Nat \ {0}
ASSUME ExponentsAssumption == Exponents \subseteq Int

\* A value of type t: an integer is whole, a truth value is true or false.
IsValueOf(x, t) ==
  /\ x.kind = t
  /\ IsIntegerType(t) => x.d = 1
  /\ t = "bool" => x.n \in {0, 1}

ASSUME ReadAsAssumption ==
  \A text \in DOMAIN ReadAs : ReadAs[text].kind \in Kinds /\ IsValueOf(ReadAs[text], ReadAs[text].kind)

\* The parser's trees.  A literal of the source was not made for an argument,
\* and the text of a literal that cannot be read has the value null.
ASSUME NodesAssumption ==
  \A e \in Nodes :
    /\ e.kind = "literal"
         => e.id = 0 /\ e.value.kind \in Kinds \cup {"null"} /\ IsValueOf(e.value, e.value.kind)
    /\ e.kind = "binary" => {e.left, e.right} \subseteq Nodes
    /\ e.kind = "unary" => e.operand \in Nodes
    /\ e.kind = "call" => e.args \in Seq(Nodes)

ASSUME StatementsAssumption ==
  \A s \in Statements :
    /\ s.kind = "return" => s.expr \in Nodes
    /\ s.kind = "if" => /\ s.cond \in Nodes
                       /\ s.then \in Seq(Statements) /\ s.else \in Seq(Statements)

ASSUME ProgramsAssumption ==
  \A p \in Programs :
    /\ p.exprs \subseteq Nodes
    /\ Len(p.globals) \in Nat /\ DOMAIN p.globals = 1..Len(p.globals)
    /\ \A k \in DOMAIN p.globals :
         LET node == p.globals[k].node
         IN  /\ node.kind = "const" => node.init \in Nodes
             /\ node.kind = "function"
                  => /\ node.body \in Seq(Statements)
                     /\ Len(node.params) \in Nat /\ DOMAIN node.params = 1..Len(node.params)

VARIABLES
  program,
  expression,                \* what the evaluator was last called with
  scopes,                    \* symbol tables, the innermost last
  stack,                     \* activations, the running one last
  result,                    \* what the last call returned, or Pending
  current_recursion_depth,
  literals                   \* nodes made for arguments that are allocated

vars == <<program, expression, scopes, stack, result, current_recursion_depth, literals>>

-----------------------------------------------------------------------------
(***************************************************************************)
(* Values.  Numbers are fractions n/d with d > 0, so that doubles are      *)
(* exact; the infinite ones and the one that is no number have d = 0.      *)
(***************************************************************************)
Value(k, n, d, text) == [kind |-> k, n |-> n, d |-> d, text |-> text]

Whole(n) == Value("i32", n, 1, "")
Float(n, d) == Value("f64", n, d, "")
Truth(b) == Value("bool", IF b THEN 1 ELSE 0, 1, "")
Str(text) == Value("string", 0, 1, text)
Null == Value("null", 0, 1, "")
Pending == Value("pending", 0, 1, "")

IsFinite(x) == x.d # 0
IsNaN(x) == x.n = 0 /\ x.d = 0
IsZero(x) == x.n = 0 /\ x.d # 0

Absolute(n) == IF n < 0 THEN -n ELSE n
Signed(s, n) == IF s < 0 THEN -n ELSE n

\* A cast to an integer, which goes towards zero.
Truncated(n, d) == IF d = 0 THEN CastOfNonFinite ELSE Signed(n, Absolute(n) \div d)

Positive(n, d) == IF d < 0 THEN <<-n, -d>> ELSE <<n, d>>

Quotient(l, r) == Positive(l.n * r.d, l.d * r.n)

\* fmod: what is left when the truncated quotient has been taken away.
Remainder(l, r) ==
  LET q == Quotient(l, r)
  IN  <<l.n * r.d - Truncated(q[1], q[2]) * r.n * l.d, l.d * r.d>>

\* The fraction an operation gives.
Exact(op, l, r) ==
  CASE op = "**" \/ ~ IsFinite(l) \/ ~ IsFinite(r) -> DoubleOp(op, l, r)
    [] OTHER -> CASE op = "+" -> <<l.n * r.d + r.n * l.d, l.d * r.d>>
                  [] op = "-" -> <<l.n * r.d - r.n * l.d, l.d * r.d>>
                  [] op = "*" -> <<l.n * r.n, l.d * r.d>>
                  [] op = "/" -> Quotient(l, r)
                  [] op = "%" -> Remainder(l, r)

\* Mutant: the result of integers is left as the double it was computed as.
ArithmeticValueUncast(op, l, r) ==
  LET x == Exact(op, l, r)
  IN  Value(GetBinaryOpType(op, l.kind, r.kind), x[1], x[2], "")

ArithmeticValue(op, l, r) ==
  LET x == Exact(op, l, r)
      t == GetBinaryOpType(op, l.kind, r.kind)
  IN  IF IsIntegerType(t) THEN Value(t, Truncated(x[1], x[2]), 1, "")
      ELSE Value(t, x[1], x[2], "")

\* A comparison of two things, given one that is compared with 0 like them.
Compared(op, c) ==
  CASE op = "==" -> Truth(c = 0)
    [] op = "!=" -> Truth(c # 0)
    [] op = "<" -> Truth(c < 0)
    [] op = "<=" -> Truth(c <= 0)
    [] op = ">" -> Truth(c > 0)
    [] op = ">=" -> Truth(c >= 0)

Difference(l, r) ==
  IF IsFinite(l) \/ IsFinite(r) THEN l.n * r.d - r.n * l.d ELSE l.n - r.n

\* What is no number differs from everything.
ComparedNumbers(op, l, r) ==
  IF IsNaN(l) \/ IsNaN(r) THEN Truth(op = "!=") ELSE Compared(op, Difference(l, r))

BinaryOp(op, l, r) ==
  IF l.kind = "bool" /\ r.kind = "bool" THEN
    CASE op = "and" -> Truth(l.n = 1 /\ r.n = 1)
      [] op = "or" -> Truth(l.n = 1 \/ r.n = 1)
      [] op \in {"==", "!="} -> Compared(op, l.n - r.n)
      [] OTHER -> Null
  ELSE IF IsNumericType(l.kind) /\ IsNumericType(r.kind) THEN
    CASE op \in Comparisons -> ComparedNumbers(op, l, r)
      [] op \in {"/", "%"} /\ IsZero(r) -> Null
      [] op \in Arithmetic /\ (op \in {"/", "%"} => ~ IsZero(r)) -> ArithmeticValue(op, l, r)
      [] OTHER -> Value("error", 0, 1, "")
  ELSE IF l.kind = "string" /\ r.kind = "string" THEN
    CASE op = "+" -> Str(l.text \o r.text)
      [] op \in Comparisons -> Compared(op, Strcmp(l.text, r.text))
      [] OTHER -> Null
  ELSE Null

UnaryOp(op, x) ==
  CASE op = "-" /\ IsNumericType(x.kind) -> Value(x.kind, -x.n, x.d, "")
    [] op = "not" /\ x.kind = "bool" -> Truth(x.n = 0)
    [] OTHER -> Null

(***************************************************************************)
(* An argument is printed and becomes a literal, which is read again.      *)
(*                                                                         *)
(* A float keeps six significant digits.  Without a fraction it is read    *)
(* as an integer, but from 10^6 on it is printed with an exponent, which   *)
(* makes it a float again.  A string loses its quotes; what is not finite  *)
(* and a value of type error cannot be read.                               *)
(***************************************************************************)
Nearest(n, d) ==
  LET q == (2 * n + d) \div (2 * d)
  IN  IF (2 * n + d) % (2 * d) = 0 /\ q % 2 = 1 THEN q - 1 ELSE q

\* n/d is less than the e-th power of ten.
IsUnder(n, d, e) == IF e < 0 THEN n * 10^(-e) < d ELSE n < d * 10^e

\* The power of ten of the first digit of n/d.
Magnitude(n, d) ==
  CHOOSE e \in Exponents :
    IsUnder(n, d, e + 1) /\ \A f \in Exponents : f < e => ~ IsUnder(n, d, f + 1)

SixDigits(n, d) ==
  LET e == Magnitude(n, d)
  IN  IF e > 5 THEN <<Nearest(n, d * 10^(e - 5)) * 10^(e - 5), 1>>
      ELSE <<Nearest(n * 10^(5 - e), d), 10^(5 - e)>>

RereadFloat(x) ==
  LET n == Absolute(x.n)
      p == SixDigits(n, x.d)
  IN  CASE ~ IsFinite(x) -> Null
        [] IsFinite(x) /\ p[1] % p[2] = 0 /\ p[1] \div p[2] < 10^6
             -> Whole(Signed(x.n, p[1] \div p[2]))
        [] OTHER -> IF p[1] * x.d = n * p[2] THEN Float(x.n, x.d)
                    ELSE Float(Signed(x.n, p[1]), p[2])

WordValue(text) == IF text \in DOMAIN ReadAs THEN ReadAs[text] ELSE Null

Reread(x) ==
  CASE IsIntegerType(x.kind) -> Whole(x.n)
    [] IsFloatType(x.kind) -> RereadFloat(x)
    [] x.kind = "bool" -> x
    [] x.kind = "string" -> WordValue(x.text)
    [] OTHER -> Null

-----------------------------------------------------------------------------
(***************************************************************************)
(* Symbols.  The nodes of parameters are constants whose initializer is    *)
(* the literal made for the argument.                                      *)
(***************************************************************************)
Literal(id, x) == [kind |-> "literal", id |-> id, value |-> x]

Parameter(name, id, x) ==
  [name |-> name, node |-> [kind |-> "const", init |-> Literal(id, x)]]

Holding(name) == {k \in DOMAIN scopes : \E j \in DOMAIN scopes[k] : scopes[k][j].name = name}

\* Mutant: the search begins at the outermost table.
Outermost(tables) == Min(tables)

Innermost(tables) == Max(tables)

\* The node of the first symbol of that name in the innermost table that has it.
Node(name) ==
  IF Holding(name) = {} THEN [kind |-> "none"]
  ELSE LET scope == scopes[Innermost(Holding(name))]
       IN  scope[Min({j \in DOMAIN scope : scope[j].name = name})].node

-----------------------------------------------------------------------------
(***************************************************************************)
(* Activations.                                                            *)
(***************************************************************************)
Eval(node) == [at |-> "expr", node |-> node]

Running == stack # << >>
Top == Last(stack)
Rest == Front(stack)

At(place) == Running /\ Top.at = place
AtExpr(kind) == At("expr") /\ Top.node.kind = kind
Called == result = Pending         \* the running activation has just begun
Returned == result # Pending       \* or what it called has returned

Return(x) == stack' = Rest /\ result' = x

\* The activation goes on as another frame, or calls an evaluation first.
Continue(frame) == stack' = Append(Rest, frame) /\ result' = Pending
CallThen(node, frame) == stack' = Rest \o <<frame, Eval(node)>> /\ result' = Pending

NoCalls == UNCHANGED <<program, expression, scopes, current_recursion_depth, literals>>

NoExpression == [kind |-> "none"]

Init ==
  /\ program \in Programs
  /\ expression = NoExpression
  /\ scopes = <<program.globals>>
  /\ stack = << >>
  /\ result = Null
  /\ current_recursion_depth = 0
  /\ literals = {}

\* A new expression is given to the evaluator.
Evaluate ==
  /\ ~ Running
  /\ expression' \in program.exprs
  /\ stack' = <<Eval(expression')>>
  /\ result' = Pending
  /\ UNCHANGED <<program, scopes, current_recursion_depth, literals>>

LiteralStep == AtExpr("literal") /\ Return(Top.node.value) /\ NoCalls

\* The initializer of a constant is evaluated where the constant is used.
Identifier ==
  /\ AtExpr("identifier")
  /\ LET node == Node(Top.node.name)
     IN  IF node.kind = "const" THEN Continue(Eval(node.init)) ELSE Return(Null)
  /\ NoCalls

Binary ==
  /\ AtExpr("binary")
  /\ CallThen(Top.node.left, [at |-> "left", node |-> Top.node])
  /\ NoCalls

Left ==
  /\ At("left") /\ Returned
  /\ IF result = Null THEN Return(Null)
     ELSE CallThen(Top.node.right, [at |-> "right", op |-> Top.node.op, left |-> result])
  /\ NoCalls

Right ==
  /\ At("right") /\ Returned
  /\ Return(IF result = Null THEN Null ELSE BinaryOp(Top.op, Top.left, result))
  /\ NoCalls

Unary ==
  /\ AtExpr("unary")
  /\ CallThen(Top.node.operand, [at |-> "operand", op |-> Top.node.op])
  /\ NoCalls

Operand ==
  /\ At("operand") /\ Returned
  /\ Return(IF result = Null THEN Null ELSE UnaryOp(Top.op, result))
  /\ NoCalls

\* Only functions that are marked comptime are evaluated.
Call ==
  /\ AtExpr("call")
  /\ LET func == Node(Top.node.name)
     IN  IF func.kind = "function" /\ func.is_comptime
         THEN Continue([at |-> "args", func |-> func, args |-> Top.node.args, done |-> << >>])
         ELSE Return(Null)
  /\ NoCalls

Argument ==
  /\ At("args") /\ Called /\ Len(Top.done) < Len(Top.args)
  /\ CallThen(Top.args[Len(Top.done) + 1], Top)
  /\ NoCalls

\* Mutant: the arguments made so far are not freed when one fails.
FreedNone(nodes) == {}

Freed(nodes) == {nodes[k].id : k \in DOMAIN nodes}

\* Any node that is not in use.
NewId == CHOOSE id \in 1..(Cardinality(literals) + 1) : id \notin literals

ArgumentDone ==
  /\ At("args") /\ Returned
  /\ IF result = Null
     THEN Return(Null) /\ literals' = literals \ Freed(Top.done)
     ELSE /\ Continue([Top EXCEPT !.done = Append(@, Literal(NewId, Reread(result)))])
          /\ literals' = literals \cup {NewId}
  /\ UNCHANGED <<program, expression, scopes, current_recursion_depth>>

CanEnter(func, args) ==
  /\ current_recursion_depth < MAX_RECURSION_DEPTH
  /\ Len(args) = Len(func.params)

\* The table of the callee has that of the caller as its parent.
Enter ==
  /\ At("args") /\ Called /\ Len(Top.done) = Len(Top.args)
  /\ IF CanEnter(Top.func, Top.done)
     THEN /\ current_recursion_depth' = current_recursion_depth + 1
          /\ scopes' = Append(scopes, [k \in DOMAIN Top.done |->
                         Parameter(Top.func.params[k], Top.done[k].id, Top.done[k].value)])
          /\ stack' = Rest \o <<[at |-> "call", done |-> Top.done], [at |-> "body"],
                                [at |-> "block", rest |-> Top.func.body]>>
          /\ UNCHANGED <<result, literals>>
     ELSE /\ Return(Null)
          /\ literals' = literals \ Freed(Top.done)
          /\ UNCHANGED <<scopes, current_recursion_depth>>
  /\ UNCHANGED <<program, expression>>

\* A block: a return, an if, or a statement that is passed over.
Block ==
  /\ At("block") /\ Called
  /\ IF Top.rest = << >> THEN Return(Null)
     ELSE LET s == Head(Top.rest)
          IN  CASE s.kind = "return" -> Continue(Eval(s.expr))
                [] s.kind = "if" -> CallThen(s.cond, [at |-> "cond", stmt |-> s,
                                                      rest |-> Tail(Top.rest)])
                [] OTHER -> Continue([Top EXCEPT !.rest = Tail(@)])
  /\ NoCalls

\* Mutant: the if is evaluated again when its block returned nothing.
AfterIfAgain(frame) == Append(frame.rest, frame.stmt)

AfterIf(frame) == frame.rest

Condition ==
  /\ At("cond") /\ Returned
  /\ IF result.kind # "bool" THEN Return(Null)
     ELSE /\ result' = Pending
          /\ stack' = Rest \o <<[at |-> "block", rest |-> AfterIf(Top)],
                                [at |-> "block", rest |-> IF result.n = 1 THEN Top.stmt.then
                                                          ELSE Top.stmt.else]>>
  /\ NoCalls

\* A block inside has ended: without a value, the next statement follows.
NestedDone ==
  /\ At("block") /\ Returned
  /\ IF result = Null THEN Continue(Top) ELSE Return(result)
  /\ NoCalls

\* Mutant: a call that fails keeps its level.
DepthKeptOnFailure == IF result = Null THEN current_recursion_depth ELSE current_recursion_depth - 1

DepthAfter == current_recursion_depth - 1

LeaveBody ==
  /\ At("body") /\ Returned
  /\ scopes' = Front(scopes)
  /\ current_recursion_depth' = DepthAfter
  /\ Return(result)
  /\ UNCHANGED <<program, expression, literals>>

CallDone ==
  /\ At("call") /\ Returned
  /\ literals' = literals \ Freed(Top.done)
  /\ Return(result)
  /\ UNCHANGED <<program, expression, scopes, current_recursion_depth>>

Step ==
  \/ LiteralStep \/ Identifier \/ Binary \/ Left \/ Right \/ Unary \/ Operand
  \/ Call \/ Argument \/ ArgumentDone \/ Enter \/ Block \/ Condition \/ NestedDone
  \/ LeaveBody \/ CallDone

Next == Evaluate \/ Step

\* The evaluator is one thread that runs until it returns.
Spec == Init /\ [][Next]_vars /\ WF_vars(Step)

-----------------------------------------------------------------------------
(***************************************************************************)
(* Properties.                                                             *)
(***************************************************************************)

Calls == {k \in DOMAIN stack : stack[k].at = "body"}

(***************************************************************************)
(* The counter and the chain of tables follow the calls that are open, on  *)
(* every way out of a call: an expression that failed leaves nothing that  *)
(* the evaluation of the next one would find.  The counter never passes    *)
(* its limit.                                                              *)
(***************************************************************************)
CallsBalance ==
  /\ current_recursion_depth <= MAX_RECURSION_DEPTH
  /\ current_recursion_depth = Cardinality(Calls)
  /\ Len(scopes) = 1 + Cardinality(Calls)

Holders == {k \in DOMAIN stack : stack[k].at \in {"args", "call"}}

LocalIds == UNION {{scopes[k][j].node.init.id : j \in DOMAIN scopes[k]} : k \in 2..Len(scopes)}

EvaluatedIds ==
  {stack[k].node.id : k \in {j \in DOMAIN stack :
     stack[j].at = "expr" /\ stack[j].node.kind = "literal" /\ stack[j].node.id # 0}}

(***************************************************************************)
(* The literals of arguments are allocated once and freed once, whether    *)
(* the call succeeds or not; and a constant that refers to one is looked   *)
(* up only while it is allocated.                                          *)
(***************************************************************************)
LiteralsAreOwned ==
  /\ literals = UNION {Freed(stack[k].done) : k \in Holders}
  /\ \A j, k \in Holders : j # k => Freed(stack[j].done) \cap Freed(stack[k].done) = {}
  /\ LocalIds \cup EvaluatedIds \subseteq literals

\* What the type checker accepts and the evaluator refuses.
MayRefuse(op, l, r) ==
  \/ GetBinaryOpType(op, l.kind, r.kind) = "error"
  \/ op \in {"/", "%"} /\ IsZero(r)
  \/ op = "+" /\ "string" \in {l.kind, r.kind} /\ l.kind # r.kind
  \/ l.kind = "bool" /\ op \in {"<", "<=", ">", ">=", "xor"}
  \/ l.kind \notin {"i32", "i64", "f32", "f64", "bool", "string"}

(***************************************************************************)
(* What the evaluator makes of an operation is a value of the type that    *)
(* the type checker gives the operation; and it makes something of all     *)
(* that the type checker accepts but for a division by zero, a text joined *)
(* with something else, truth values that are ordered or xored, and a plus *)
(* in front of a number.                                                   *)
(***************************************************************************)
TypesPredictResults ==
  [][/\ Running /\ Top.at = "right" /\ result # Null
       => IF result' = Null THEN MayRefuse(Top.op, Top.left, result)
          ELSE IsValueOf(result', GetBinaryOpType(Top.op, Top.left.kind, result.kind))
     /\ Running /\ Top.at = "operand" /\ result # Null
       => IF result' = Null THEN Top.op = "+" \/ GetUnaryOpType(Top.op, result.kind) = "error"
          ELSE IsValueOf(result', GetUnaryOpType(Top.op, result.kind))]_vars

-----------------------------------------------------------------------------
(***************************************************************************)
(* What has to be evaluated for an expression without a call in between:   *)
(* its parts, and the initializer of a constant.                           *)
(***************************************************************************)
Initializers(p, name) ==
  {g.node.init : g \in {h \in ToSet(p.globals) : h.name = name /\ h.node.kind = "const"}}

Needs(p, e) ==
  CASE e.kind = "identifier" -> Initializers(p, e.name)
    [] e.kind = "binary" -> {e.left, e.right}
    [] e.kind = "unary" -> {e.operand}
    [] e.kind = "call" -> ToSet(e.args)
    [] OTHER -> {}

NeededFor(p, e) ==
  LET closed[S \in SUBSET Nodes] ==
        LET more == S \cup UNION {Needs(p, x) : x \in S}
        IN  IF more = S THEN S ELSE closed[more]
  IN  closed[{e}]

\* Programs with a constant that has to be evaluated for its own initializer.
SelfReferring ==
  {p \in Programs : \E g \in ToSet(p.globals) :
     g.node.kind = "const"
       /\ \E e \in Needs(p, g.node.init) : g.node.init \in NeededFor(p, e)}

(***************************************************************************)
(* Every evaluation ends in a program without a constant that refers to    *)
(* itself: functions that call each other without an end are cut off by    *)
(* the counter.  (The counter is for calls only; a constant that refers to *)
(* itself is evaluated for ever, in C until the stack overflows.)          *)
(***************************************************************************)
EvaluationEnds == Running /\ program \notin SelfReferring ~> ~ Running
=============================================================================
