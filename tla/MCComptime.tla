----------------------------- MODULE MCComptime -----------------------------
(***************************************************************************)
(* An instance of Comptime for TLC: programs that recurse, too deep and    *)
(* not, that shadow names, that fail in arguments, conditions and nested   *)
(* returns, that pass values of each type to functions, that apply each    *)
(* operator to values of each type and sign, and that refer to themselves. *)
(***************************************************************************)
EXTENDS ComptimeMeaning

\* A text with an e is a float, and an empty one an integer.
MCReadAs == "true" :> Truth(TRUE) @@ "hello" :> Float(0, 1) @@ "" :> Whole(0)

\* The order of the texts of the programs.
Texts == <<"", "abc", "hel", "hello", "lo", "true">>
Index(text) == CHOOSE k \in DOMAIN Texts : Texts[k] = text
MCStrcmp(x, y) == Index(x) - Index(y)

\* Powers of whole exponents, and the square root of 4; what else is not finite is no number.
MCDoubleOp(op, l, r) ==
  CASE op = "**" /\ r.d = 1 /\ r.n >= 0 -> <<l.n ^ r.n, l.d ^ r.n>>
    [] op = "**" /\ r.d = 1 /\ r.n < 0 -> Positive(l.d ^ (-r.n), l.n ^ (-r.n))
    [] op = "**" /\ l.n = 4 * l.d /\ r.d = 2 * r.n -> <<2, 1>>
    [] OTHER -> <<0, 0>>

MCExponents == -4..6

Lit(x) == Literal(0, x)
N(n) == Lit(Whole(n))
F(n, d) == Lit(Float(n, d))
Id(name) == [kind |-> "identifier", name |-> name]
Op(op, l, r) == [kind |-> "binary", op |-> op, left |-> l, right |-> r]
Un(op, x) == [kind |-> "unary", op |-> op, operand |-> x]
Apply(name, args) == [kind |-> "call", name |-> name, args |-> args]

Ret(e) == [kind |-> "return", expr |-> e]
IfElse(c, t, e) == [kind |-> "if", cond |-> c, then |-> t, else |-> e]
Other == [kind |-> "other"]

Fn(name, params, body) ==
  [name |-> name, node |-> [kind |-> "function", is_comptime |-> TRUE,
                            params |-> params, body |-> body]]
Const(name, e) == [name |-> name, node |-> [kind |-> "const", init |-> e]]
Variable(name) == [name |-> name, node |-> [kind |-> "var"]]
Runtime(name) == [name |-> name, node |-> [kind |-> "function", is_comptime |-> FALSE,
                                           params |-> << >>, body |-> <<Ret(N(1))>>]]

Factorial ==
  [globals |->
     <<Fn("fact", <<"n">>,
          <<IfElse(Op("<=", Id("n"), N(1)), <<Ret(N(1))>>, << >>), Other,
            Ret(Op("*", Id("n"), Apply("fact", <<Op("-", Id("n"), N(1))>>)))>>)>>,
   exprs |-> {Apply("fact", <<N(n)>>) : n \in 0..4}
              \cup {Apply("fact", <<N(1), N(2)>>), Apply("fact", << >>)}]

Endless ==
  [globals |-> <<Fn("loop", << >>, <<Ret(Apply("loop", << >>))>>),
                 Fn("even", <<"n">>, <<IfElse(Op("==", Id("n"), N(0)), <<Ret(Lit(Truth(TRUE)))>>,
                                              <<Ret(Apply("odd", <<Op("-", Id("n"), N(1))>>))>>)>>),
                 Fn("odd", <<"n">>, <<IfElse(Op("==", Id("n"), N(0)), <<Ret(Lit(Truth(FALSE)))>>,
                                             <<Ret(Apply("even", <<Op("-", Id("n"), N(1))>>))>>)>>)>>,
   exprs |-> {Apply("loop", << >>), Apply("even", <<N(2)>>), Apply("even", <<N(1)>>),
              Apply("even", <<Un("-", N(1))>>)}]

Shadowing ==
  [globals |-> <<Const("n", N(7)), Variable("v"), Runtime("now"),
                 Fn("g", <<"n">>, <<Ret(Op("+", Id("n"), N(1)))>>),
                 Fn("f", <<"n">>, <<Ret(Op("*", Apply("g", <<Op("%", Id("n"), N(3))>>), Id("n")))>>),
                 Fn("two", <<"a", "b">>, <<Ret(Op("-", Id("a"), Id("b")))>>)>>,
   exprs |-> {Apply("f", <<Id("n")>>), Apply("f", <<Un("-", Id("n"))>>), Id("v"), Id("w"),
              Apply("now", << >>), Apply("two", <<N(1), Op("/", N(1), N(0))>>),
              Apply("two", <<Apply("g", <<N(1)>>), Apply("f", <<N(2)>>)>>),
              Op("and", N(1), N(2)), Un("not", Op("<", Id("n"), N(9))),
              Op("/", Un("-", Id("n")), N(2)), Op("+", Id("w"), N(1)),
              Op("==", Op("/", Id("n"), Lit(Float(2, 1))), Lit(Float(7, 2))),
              Op("**", N(2), N(3)), Op("+", Lit(Str("hel")), Lit(Str("lo"))),
              Op("+", Lit(Str("hel")), N(1)), Op("!=", Lit(Str("hel")), Lit(Str("lo")))}]

\* Each operator, on operands of each sign and of each type that literals have.
Third == Op("/", F(1, 1), N(3))
Operands == {N(0), N(2), N(5), Un("-", N(3)), Un("-", F(7, 2)), Third}

Plain(exprs) == [globals |-> << >>, exprs |-> exprs]

Numbers == {Plain({Op(op, x, y) : x \in Operands, y \in Operands}) :
              op \in (Arithmetic \ {"**"}) \cup {"<", "<=", "==", "and"}}

Powers == Plain({Op("**", x, y) : x \in Operands \ {N(0)}, y \in {N(0), N(2), Un("-", N(1))}}
                  \cup {Op("**", N(4), Lit(Float(1, 2))), Op("**", Lit(Float(4, 1)), Lit(Float(1, 2)))})

Words == {Plain({Op(op, Lit(Str(x)), Lit(Str(y))) : x \in {"hel", "lo"}, y \in {"abc", "hel"}}) :
            op \in Comparisons \cup {"-"}}

Truths == {Plain({Op(op, Lit(Truth(p)), Lit(Truth(q))) : p \in BOOLEAN, q \in BOOLEAN}) :
             op \in Logical \cup {"==", "!=", "<"}}

Signs == Plain({Un(op, x) : op \in {"-", "+", "not"},
                            x \in {N(2), Lit(Float(7, 2)), Lit(Truth(TRUE)), Lit(Str("lo"))}})

Operators == Numbers \cup Words \cup Truths \cup {Powers, Signs}

\* 0.0 to a negative power is not finite, and what is made of it is open.
Infinite == Op("**", Lit(Float(0, 1)), Un("-", N(1)))

Printed ==
  [globals |-> <<Fn("half", <<"x">>, <<Ret(Op("/", Id("x"), N(2)))>>),
                 Fn("id", <<"x">>, <<Ret(Id("x"))>>)>>,
   exprs |-> {Apply("half", <<Lit(Float(n, 1))>>) : n \in {3, 999999, 1000000, 1234567}}
              \cup {Apply("id", <<x>>) :
                      x \in {Third, Un("-", Third), Op("/", N(2), F(3, 1)), Un("-", F(5, 4)),
                             F(1999999, 2), F(0, 1), F(1, 40000), Lit(Str(""))}}
              \cup {Apply("id", <<Infinite>>), Op("-", Infinite, Infinite), Op("<", N(1), Infinite),
                    Op("==", Infinite, Op("-", Infinite, Infinite)), Op("/", N(1), Infinite),
                    Op("**", N(0), Un("-", N(1)))}]

\* Constants that are evaluated without an end.
SelfReference ==
  [globals |-> <<Const("a", Id("b")), Const("b", Id("a")), Const("c", N(1)),
                 Fn("f", << >>, <<Ret(Id("c"))>>), Const("d", Apply("f", << >>))>>,
   exprs |-> {Id("a"), Id("d")}]

\* What the evaluator does otherwise.
Rewritten ==
  [globals |-> <<Fn("half", <<"x">>, <<Ret(Op("/", Id("x"), N(2)))>>),
                 Fn("id", <<"x">>, <<Ret(Id("x"))>>)>>,
   exprs |-> {Apply("half", <<Lit(Float(3, 1))>>), Apply("half", <<Lit(Float(7, 2))>>),
              Apply("id", <<Lit(Str("hello"))>>), Apply("id", <<Lit(Str("abc"))>>),
              Apply("id", <<Op("and", N(1), N(2))>>)}]

Captured ==
  [globals |-> <<Const("m", N(1)), Const("c", Op("+", Id("m"), N(1))),
                 Fn("f", <<"m">>, <<Ret(Id("c"))>>)>>,
   exprs |-> {Apply("f", <<N(5)>>), Id("c")}]

Failing ==
  [globals |-> <<Fn("f", <<"n">>, <<IfElse(Op(">", Id("n"), N(0)), <<Ret(Op("%", N(1), N(0)))>>, << >>),
                                    Ret(N(3))>>),
                 Fn("g", <<"n">>, <<IfElse(Id("n"), <<Ret(N(1))>>, << >>), Ret(N(2))>>)>>,
   exprs |-> {Apply("f", <<N(1)>>), Apply("f", <<N(0)>>), Apply("g", <<N(1)>>)}]

MCPlainPrograms == {Factorial, Endless, Shadowing} \cup Operators

MCPrograms == MCPlainPrograms \cup {Rewritten, Captured, Failing, Printed, SelfReference}

\* The parts of the programs.
RECURSIVE NodesIn(_), StatementsIn(_)

NodesIn(e) ==
  {e} \cup CASE e.kind = "binary" -> NodesIn(e.left) \cup NodesIn(e.right)
             [] e.kind = "unary" -> NodesIn(e.operand)
             [] e.kind = "call" -> UNION {NodesIn(a) : a \in ToSet(e.args)}
             [] OTHER -> {}

StatementsIn(body) ==
  UNION {{s} \cup IF s.kind = "if" THEN StatementsIn(s.then) \cup StatementsIn(s.else) ELSE {} :
         s \in ToSet(body)}

Globals(kind) == {g.node : g \in {h \in UNION {ToSet(p.globals) : p \in MCPrograms} :
                                     h.node.kind = kind}}

MCStatements == UNION {StatementsIn(f.body) : f \in Globals("function")}

MCNodes ==
  UNION {NodesIn(e) : e \in UNION {p.exprs : p \in MCPrograms}
                            \cup {c.init : c \in Globals("const")}
                            \cup {s.expr : s \in {t \in MCStatements : t.kind = "return"}}
                            \cup {s.cond : s \in {t \in MCStatements : t.kind = "if"}}}
=============================================================================
