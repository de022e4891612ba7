-------------------------- MODULE ComptimeMeaning --------------------------
(***************************************************************************)
(* What an expression means: a reference the evaluator is compared with.   *)
(* Names are bound lexically, arguments are passed as values, and a        *)
(* return that fails makes its function fail.                              *)
(*                                                                         *)
(* Where the evaluator is known to go its own way the rules leave open     *)
(* what an expression means: an argument that is another value when it is  *)
(* read again, a name that a caller further out has bound, and a return    *)
(* that fails in an if with statements behind it.  It is open, too, what   *)
(* is made of a number that is not finite.                                 *)
(***************************************************************************)
EXTENDS Comptime

CONSTANTS
  PlainPrograms,    \* programs whose expressions all have a meaning
  MaxRules          \* bound: how often one rule leads to another

ASSUME MaxRulesAssumption == MaxRules \in Nat

Unknown  == Value("open", 0, 1, "")         \* what the rules leave open
NoReturn == Value("no return", 0, 1, "")    \* of statements that do not return
Unbound  == Value("unbound", 0, 1, "")

-----------------------------------------------------------------------------
(***************************************************************************)
(* Contexts: the parameters of the function that is being evaluated, the   *)
(* names that callers have bound, and how many calls are open.             *)
(***************************************************************************)
Functions == {node \in UNION {{p.globals[k].node : k \in DOMAIN p.globals} : p \in Programs} :
                node.kind = "function"}

Names == UNION {{f.params[k] : k \in DOMAIN f.params} : f \in Functions}

\* Values that are the same when they have been printed and read again.
Passed == {x \in [kind : Kinds, n : Int, d : Nat \ {0}, text : {""}] : Reread(x) = x}

Contexts == [bound : [Names -> Passed \cup {Unbound}], outer : SUBSET Names,
             depth : 0..MAX_RECURSION_DEPTH]

NothingBound == [n \in Names |-> Unbound]

Outside == [bound |-> NothingBound, outer |-> {}, depth |-> 0]

BoundIn(c) == {n \in Names : c.bound[n] # Unbound}

\* Where the initializer of a global constant is evaluated.
Globally(c) == [bound |-> NothingBound, outer |-> c.outer \cup BoundIn(c), depth |-> c.depth]

\* Where the body of a function is evaluated.
Inside(c, params, vals) ==
  [bound |-> [n \in Names |->
                LET at == {k \in DOMAIN vals : params[k] = n}
                IN  IF at = {} THEN Unbound ELSE vals[Min(at)]],
   outer |-> c.outer \cup BoundIn(c),
   depth |-> c.depth + 1]

Global(p, name) ==
  LET found == {k \in DOMAIN p.globals : p.globals[k].name = name}
  IN  IF found = {} THEN [kind |-> "none"] ELSE p.globals[Min(found)].node

-----------------------------------------------------------------------------
(***************************************************************************)
(* Operations, in terms of numbers, truth values and texts.  The evaluator *)
(* computes in doubles and converts the result, and orders by differences; *)
(* here integers are divided as integers, and fractions are compared.      *)
(***************************************************************************)
Proper(x) ==
  /\ IsNumericType(x.kind) => x.n \in Int /\ x.d \in Nat \ {0} /\ (IsIntegerType(x.kind) => x.d = 1)
  /\ x.kind = "bool" => x.n \in {0, 1}

Width == [i32 |-> 1, i64 |-> 2, f32 |-> 3, f64 |-> 4]

Widest(k, j) == IF Width[k] < Width[j] THEN j ELSE k

IsTrue(x) == x.n = 1

TruthMeans(op, x, y) ==
  CASE op = "and" -> Truth(IsTrue(x) /\ IsTrue(y))
    [] op = "or" -> Truth(IsTrue(x) \/ IsTrue(y))
    [] op = "==" -> Truth(IsTrue(x) <=> IsTrue(y))
    [] op = "!=" -> Truth(~ (IsTrue(x) <=> IsTrue(y)))
    [] OTHER -> Null

OrderMeans(op, x, y) ==
  CASE op = "==" -> Truth(x = y)
    [] op = "!=" -> Truth(x # y)
    [] op = "<" -> Truth(x < y)
    [] op = "<=" -> Truth(x <= y)
    [] op = ">" -> Truth(x > y)
    [] op = ">=" -> Truth(x >= y)

\* How often y is in x: the quotient goes towards zero, whatever the signs.
Times(x, y) ==
  LET q == Absolute(x) \div Absolute(y)
  IN  IF x < 0 <=> y < 0 THEN q ELSE -q

WholeMeans(op, x, y) ==
  CASE op = "+" -> x + y
    [] op = "-" -> x - y
    [] op = "*" -> x * y
    [] op = "/" -> Times(x, y)
    [] op = "%" -> x - y * Times(x, y)

\* Fractions, as pairs of a numerator and a denominator.
SumOf(x, y) == <<x[1] * y[2] + y[1] * x[2], x[2] * y[2]>>
OppositeOf(x) == <<-x[1], x[2]>>
ProductOf(x, y) == <<x[1] * y[1], x[2] * y[2]>>
ReciprocalOf(x) == IF x[1] < 0 THEN <<-x[2], -x[1]>> ELSE <<x[2], x[1]>>

LeftOver(x, y) ==
  LET a == x[1] * y[2]
      b == y[1] * x[2]
  IN  <<a - b * Times(a, b), x[2] * y[2]>>

FractionMeans(op, x, y) ==
  CASE op = "+" -> SumOf(x, y)
    [] op = "-" -> SumOf(x, OppositeOf(y))
    [] op = "*" -> ProductOf(x, y)
    [] op = "/" -> ProductOf(x, ReciprocalOf(y))
    [] op = "%" -> LeftOver(x, y)

PowerMeans(t, p) ==
  IF ~ IsIntegerType(t) THEN Value(t, p[1], p[2], "")
  ELSE IF p[2] = 0 THEN Unknown
  ELSE Value(t, Truncated(p[1], p[2]), 1, "")

NumbersMean(op, l, r) ==
  LET t == Widest(l.kind, r.kind)
      z == FractionMeans(op, <<l.n, l.d>>, <<r.n, r.d>>)
  IN  CASE op \in Comparisons -> OrderMeans(op, l.n * r.d, r.n * l.d)
        [] op \in {"/", "%"} /\ r.n = 0 -> Null
        [] op = "**" -> PowerMeans(t, DoubleOp(op, l, r))
        [] op \in {"+", "-", "*"} \/ (op \in {"/", "%"} /\ r.n # 0)
             -> IF IsIntegerType(t) THEN Value(t, WholeMeans(op, l.n, r.n), 1, "")
                ELSE Value(t, z[1], z[2], "")
        [] OTHER -> Value("error", 0, 1, "")

TextsMean(op, x, y) ==
  CASE op = "+" -> Str(x \o y)
    [] op \in Comparisons -> OrderMeans(op, Strcmp(x, y), 0)
    [] OTHER -> Null

OperationMeans(op, l, r) ==
  CASE ~ Proper(l) \/ ~ Proper(r) -> Unknown
    [] OTHER -> CASE l.kind = "bool" /\ r.kind = "bool" -> TruthMeans(op, l, r)
                  [] IsNumericType(l.kind) /\ IsNumericType(r.kind) -> NumbersMean(op, l, r)
                  [] l.kind = "string" /\ r.kind = "string" -> TextsMean(op, l.text, r.text)
                  [] OTHER -> Null

SignMeans(op, x) ==
  CASE ~ Proper(x) -> Unknown
    [] OTHER -> CASE op = "-" /\ IsNumericType(x.kind) -> Value(x.kind, 0 - x.n, x.d, "")
                  [] op = "not" /\ x.kind = "bool" -> Truth(~ IsTrue(x))
                  [] OTHER -> Null

-----------------------------------------------------------------------------
(***************************************************************************)
(* The rules.  m says what the parts mean: m.expr[e][c] is the value of an *)
(* expression in a context, m.body[s][c] what a list of statements returns.*)
(***************************************************************************)
Failed(x) == x \in {Null, Unknown}

IdentifierMeans(p, m, name, c) ==
  LET node == Global(p, name)
  IN  IF name \in BoundIn(c) THEN c.bound[name]
      ELSE IF name \in c.outer THEN Unknown
      ELSE IF node.kind = "const" THEN m.expr[node.init][Globally(c)] ELSE Null

BinaryMeans(op, l, r) ==
  IF Failed(l) THEN l ELSE IF Failed(r) THEN r ELSE OperationMeans(op, l, r)

UnaryMeans(op, x) == IF Failed(x) THEN x ELSE SignMeans(op, x)

Shown(x) == IF x = NoReturn THEN Null ELSE x

ArgumentsMean(m, args, c) == [k \in DOMAIN args |-> m.expr[args[k]][c]]

\* The first argument that is not passed on decides.
ApplicationMeans(m, func, vals, c) ==
  LET refused == {k \in DOMAIN vals : vals[k] \notin Passed}
  IN  IF refused # {} THEN IF vals[Min(refused)] = Null THEN Null ELSE Unknown
      ELSE IF c.depth = MAX_RECURSION_DEPTH \/ Len(vals) # Len(func.params) THEN Null
      ELSE Shown(m.body[func.body][Inside(c, func.params, vals)])

CallMeans(p, m, e, c) ==
  LET func == Global(p, e.name)
  IN  IF e.name \in BoundIn(c) THEN Null
      ELSE IF e.name \in c.outer THEN Unknown
      ELSE IF func.kind = "function" /\ func.is_comptime
           THEN ApplicationMeans(m, func, ArgumentsMean(m, e.args, c), c)
      ELSE Null

ExprMeans(p, m, e, c) ==
  CASE e.kind = "literal"    -> e.value
    [] e.kind = "identifier" -> IdentifierMeans(p, m, e.name, c)
    [] e.kind = "binary"     -> BinaryMeans(e.op, m.expr[e.left][c], m.expr[e.right][c])
    [] e.kind = "unary"      -> UnaryMeans(e.op, m.expr[e.operand][c])
    [] e.kind = "call"       -> CallMeans(p, m, e, c)
    [] OTHER                 -> Null

\* An if whose condition has the value cond, and the statements behind it.
IfMeans(m, cond, s, rest, c) ==
  LET x == m.body[IF cond.n = 1 THEN s.then ELSE s.else][c]
  IN  IF cond = Unknown THEN Unknown
      ELSE IF cond.kind # "bool" THEN Null
      ELSE IF x = NoReturn THEN m.body[rest][c]
      ELSE IF x = Null /\ rest # << >> THEN Unknown
      ELSE x

BodyMeans(m, stmts, c) ==
  IF stmts = << >> THEN NoReturn
  ELSE LET s == Head(stmts)
       IN  IF s.kind = "return" THEN m.expr[s.expr][c]
           ELSE IF s.kind = "if" THEN IfMeans(m, m.expr[s.cond][c], s, Tail(stmts), c)
           ELSE m.body[Tail(stmts)][c]

NoRules == [expr |-> [e \in Nodes |-> [c \in Contexts |-> Unknown]],
            body |-> [s \in Seq(Statements) |-> [c \in Contexts |-> Unknown]]]

Applied(p, m) ==
  [expr |-> [e \in Nodes |-> [c \in Contexts |-> ExprMeans(p, m, e, c)]],
   body |-> [s \in Seq(Statements) |-> [c \in Contexts |-> BodyMeans(m, s, c)]]]

Rules(p) ==
  LET means[n \in 0..MaxRules] == IF n = 0 THEN NoRules ELSE Applied(p, means[n - 1])
  IN  means

Meaning(p, e) == Rules(p)[MaxRules].expr[e][Outside]

ASSUME PlainAssumption ==
  PlainPrograms \subseteq Programs
    /\ \A p \in PlainPrograms : \A e \in p.exprs : Meaning(p, e) # Unknown

(***************************************************************************)
(* The value of an expression is what it means, also when it is evaluated  *)
(* after others that failed in the middle of their calls; and the meaning  *)
(* is open in the programs only that are not plain.                        *)
(***************************************************************************)
ResultIsMeaning ==
  ~ Running /\ expression # NoExpression =>
    \/ result = Meaning(program, expression)
    \/ Meaning(program, expression) = Unknown /\ program \notin PlainPrograms
============================================================================
