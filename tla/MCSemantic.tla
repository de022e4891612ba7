----------------------------- MODULE MCSemantic -----------------------------
(***************************************************************************)
(* An instance of Semantic for TLC: two variables that may be shadowed by  *)
(* each other, by parameters and by iterators, a function, a struct, and   *)
(* arrays of two types.                                                    *)
(***************************************************************************)
EXTENDS Semantic

Literal(t) == [kind |-> "literal", type |-> t]
Id(n) == [kind |-> "identifier", name |-> n]
Call(f, args) == [kind |-> "call", name |-> f, args |-> args]
Binary(op, l, r) == [kind |-> "binary", op |-> op, left |-> l, right |-> r]
Assign(l, r) == [kind |-> "assign", left |-> l, right |-> r]
Index(a, i) == [kind |-> "index", array |-> a, index |-> i]
Array(s) == [kind |-> "array", elements |-> s]
Field(e, f) == [kind |-> "field", struct |-> e, field |-> f]
FString(parts) == [kind |-> "fstring", parts |-> parts]
Interp(e) == [kind |-> "interp", expr |-> e]
Unary(e) == [kind |-> "unary", operand |-> e]

MCWord == {"unknown", "error", "bool", "i32", "f64", "string", "void", "struct", "Pair",
           "i", "rest", "[]"}

\* "i32" without its last two characters is short; other words are not cut
\* more than once here.
MCShortWord == {"i", "[]"}
MCCut(w) == IF w = "i32" THEN "i" ELSE "rest"

RECURSIVE MCHeight(_)
MCHeight(e) ==
  LET heights == {MCHeight(p) : p \in Parts(e)}
  IN  IF heights = {} THEN 0 ELSE 1 + CHOOSE h \in heights : \A g \in heights : g <= h

One == Literal(I32)
Text == Literal(<<"string">>)
A0 == Index(Id("a"), One)
B0 == Index(Id("b"), One)
Test == Binary("==", Id("a"), One)

MCExpr == {One, Text, Id("a"), Id("b"), A0, B0, Test, Array(<<One>>), Array(<<Text>>),
  Array(<<One, Text>>), Array(<<A0, B0>>),
  Call("f", <<One>>), Call("f", <<Id("a")>>), Call("f", << >>),
  Unary(Id("a")), Field(Id("a"), "x"), Field(Id("b"), "x"),
  Assign(Id("a"), Id("b")), Assign(A0, B0), Assign(Id("a"), Array(<<One>>)),
  Assign(Id("a"), Field(Id("b"), "x")),
  Interp(Id("b")), Index(A0, One), Call("f", <<A0>>), Binary("+", A0, B0),
  FString(<<Text, Interp(Id("b"))>>), FString(<<Text, Id("b")>>)}

\* Earlier calls have left a longer type in each buffer.
MCLeftovers == {[array_type |-> <<"string", "[]", "[]">>, elem_type |-> <<"string", "[]">>]}

Var(n, t, e) == [kind |-> "var_decl", name |-> n, type |-> t, init |-> e]
Ints == <<"i32", "[]">>
Texts == <<"string", "[]">>
Pair == <<"struct", "Pair">>
Stmt(k) == [kind |-> k]
Expr1(e) == [kind |-> "expr_stmt", expr |-> e]

MCStatement ==
  {Var("a", I32, One), Var("a", Ints, Array(<<One>>)), Var("a", Pair, NoExpr),
   Var("b", Texts, Array(<<Text>>)), Var("b", NoType, One)}
  \cup {Expr1(e) : e \in MCExpr}
  \cup {Stmt("break"), Stmt("block"),
         [kind |-> "return", expr |-> One], [kind |-> "return", expr |-> NoExpr],
         [kind |-> "struct_def", name |-> "Pair", fields |-> <<[name |-> "x", type |-> I32]>>],
         [kind |-> "func_def", name |-> "f", params |-> <<[name |-> "a", type |-> I32]>>, result |-> I32],
         [kind |-> "func_def", name |-> "a", params |-> <<[name |-> "b", type |-> I32],
                                                       [name |-> "b", type |-> Texts]>>,
          result |-> <<"void">>],
         [kind |-> "while", cond |-> Id("a")],
         [kind |-> "for", iterator |-> "a", start |-> One, end |-> Id("b")],
         [kind |-> "if", cond |-> Test], [kind |-> "if", cond |-> One],
         [kind |-> "switch", expr |-> Id("a")],
         [kind |-> "case", expr |-> Text]}
=============================================================================
