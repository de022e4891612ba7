---------------------------- MODULE StaticTypes ----------------------------
(***************************************************************************)
(* The types of the older front end and what operators do with them.  Here *)
(* a type is its kind.  The two flags of a type are not modelled: all that *)
(* is evaluated comes from literals, which are all comptime, and no type   *)
(* of an expression is const.                                              *)
(***************************************************************************)
Kinds == {"i32", "i64", "f32", "f64", "bool", "char", "string", "void", "struct",
          "unknown", "error"}

IsIntegerType(t) == t \in {"i32", "i64"}

IsFloatType(t) == t \in {"f32", "f64"}

IsNumericType(t) == IsIntegerType(t) \/ IsFloatType(t)

Arithmetic == {"+", "-", "*", "/", "%", "**"}
Comparisons == {"==", "!=", "<", "<=", ">", ">="}
Logical == {"and", "or", "xor"}

\* The wider of two numeric types: floats before integers.
Wider(l, r) ==
  CASE "f64" \in {l, r} -> "f64"
    [] "f64" \notin {l, r} /\ "f32" \in {l, r} -> "f32"
    [] {"f64", "f32"} \cap {l, r} = {} /\ "i64" \in {l, r} -> "i64"
    [] OTHER -> "i32"

GetBinaryOpType(op, l, r) ==
  CASE op = "+" /\ "string" \in {l, r} -> "string"
    [] op \in Arithmetic /\ IsNumericType(l) /\ IsNumericType(r) -> Wider(l, r)
    [] op \in Comparisons /\ (l = r \/ (IsNumericType(l) /\ IsNumericType(r))) -> "bool"
    [] op \in Logical /\ l = "bool" /\ r = "bool" -> "bool"
    [] OTHER -> "error"

GetUnaryOpType(op, t) ==
  CASE op \in {"-", "+"} /\ IsNumericType(t) -> t
    [] op = "not" /\ t = "bool" -> "bool"
    [] OTHER -> "error"
=============================================================================
