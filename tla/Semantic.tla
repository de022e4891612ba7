------------------------------ MODULE Semantic ------------------------------
(***************************************************************************)
(* Semantic analysis: the recursive visitor over the syntax tree, with its *)
(* symbol tables and the two global variables that follow the nesting.     *)
(*                                                                         *)
(* The tree is not given in advance: each step visits a statement that may *)
(* be any, so that all trees up to the bounds are visited.  Bodies of      *)
(* functions, loops and branches are blocks.  An error ends the process.   *)
(***************************************************************************)
EXTENDS Integers, Sequences, FiniteSets

CONSTANTS
  Expr,           \* expressions, with all their parts; array literals have at
                  \* most two elements, which hold no calls and no literals
  Statement,      \* statements, without the blocks they hold
  Height(_),      \* the height of an expression as a tree
  Word,           \* words of types: names, and "[]" after the type of an element
  ShortWord,      \* words of at most two characters; names of structs are longer
  Cut(_),         \* a longer word without its last two characters
  Leftovers,      \* contents of the static buffers before a type is determined
  NoExpr,         \* an initializer or returned expression that is not there
  NoNode,         \* the node of a symbol that is a variable
  NoType,         \* no current function; a missing annotation
  MaxNesting,     \* bounds: constructs open at a time,
  MaxSymbols      \* and symbols visible at a time

(***************************************************************************)
(* A type is the sequence of its words: <<"i32">>, <<"i32", "[]">> or      *)
(* <<"struct", S>>.                                                        *)
(***************************************************************************)
Unknown == <<"unknown">>
Failed == <<"error">>       \* the process has exited
Bool == <<"bool">>
I32 == <<"i32">>
F64 == <<"f64">>

IsNumeric(t) == t \in {<<"i32">>, <<"i64">>, <<"f32">>, <<"f64">>}

IsPrimitive(t) ==
  t \in {<<w>> : w \in {"i32", "i64", "f32", "f64", "bool", "char", "string", "void"}}

ASSUME WordAssumption ==
  /\ {"unknown", "error", "bool", "i32", "f64", "struct", "[]"} \subseteq Word
  /\ "[]" \in ShortWord
  /\ \A w \in Word : Cut(w) \in Word \ {"[]"}

\* What is written as a type begins with a name.
IsType(t) == t \in Seq(Word) /\ t # << >> /\ t[1] # "[]"

IsList(s) == Len(s) \in Nat /\ DOMAIN s = 1..Len(s)

\* The operands of an expression, directly below it in the tree.
Parts(e) ==
  CASE e.kind \in {"binary", "assign"} -> {e.left, e.right}
    [] e.kind = "unary" -> {e.operand}
    [] e.kind = "call" -> {e.args[k] : k \in DOMAIN e.args}
    [] e.kind = "array" -> {e.elements[k] : k \in DOMAIN e.elements}
    [] e.kind = "index" -> {e.array, e.index}
    [] e.kind = "field" -> {e.struct}
    [] e.kind = "fstring" -> {e.parts[k] : k \in DOMAIN e.parts}
    [] e.kind = "interp" -> {e.expr}
    [] OTHER -> {}

\* Expressions are the trees the parser builds.
ASSUME ExprAssumption ==
  \A e \in Expr :
    /\ e.kind \in {"literal", "identifier", "call", "binary", "unary", "assign",
                   "array", "index", "field", "fstring", "interp"}
    /\ Height(e) \in Nat
    /\ Parts(e) \subseteq Expr /\ \A p \in Parts(e) : Height(p) < Height(e)
    /\ e.kind = "literal" => IsType(e.type)
    /\ e.kind = "array" => e.elements \in Seq(Expr)

\* Parameters and fields are lists; a type is missing only in a declaration.
ASSUME StatementAssumption ==
  \A s \in Statement :
    /\ s.kind = "var_decl" => s.type = NoType \/ IsType(s.type)
    /\ s.kind = "func_def" =>
         /\ IsType(s.result)
         /\ IsList(s.params) /\ \A k \in DOMAIN s.params : IsType(s.params[k].type)
    /\ s.kind = "struct_def" =>
         /\ s.name \in Word
         /\ IsList(s.fields) /\ \A k \in DOMAIN s.fields : IsType(s.fields[k].type)
    /\ s.kind = "expr_stmt" => s.expr \in Expr

VARIABLES
  scopes,                         \* symbol tables, the innermost last
  frames,                         \* constructs being visited, the innermost last
  loop_depth,
  current_function_return_type,
  status                          \* "visiting", "done" or "exited"

vars == <<scopes, frames, loop_depth, current_function_return_type, status>>

-----------------------------------------------------------------------------
(***************************************************************************)
(* The symbol table.                                                       *)
(***************************************************************************)
Symbol(n, t, node) == [name |-> n, type |-> t, node |-> node]

NamesIn(scope) == {scope[k].name : k \in DOMAIN scope}

\* Mutant: only the innermost table is searched.
DeclaredHere(n) == n \in NamesIn(scopes[Len(scopes)])

Declared(n) == \E k \in DOMAIN scopes : n \in NamesIn(scopes[k])

First(scope, n) ==
  scope[CHOOSE k \in DOMAIN scope :
          scope[k].name = n /\ \A j \in 1..(k - 1) : scope[j].name # n]

\* The first symbol of that name in the innermost scope that has one.
Lookup(n) ==
  First(scopes[CHOOSE k \in DOMAIN scopes :
                 /\ n \in NamesIn(scopes[k])
                 /\ \A j \in (k + 1)..Len(scopes) : n \notin NamesIn(scopes[j])],
        n)

Innermost == scopes[Len(scopes)]

Adding(symbol) ==
  [k \in DOMAIN scopes |->
     IF k = Len(scopes) THEN Append(scopes[k], symbol) ELSE scopes[k]]

IsFunction(n) ==
  Declared(n) /\ Lookup(n).node # NoNode /\ Lookup(n).node.kind = "function"

IsStruct(n) ==
  Declared(n) /\ Lookup(n).node # NoNode /\ Lookup(n).node.kind = "struct"

-----------------------------------------------------------------------------
(***************************************************************************)
(* get_expression_type.  What it returns is a pointer: to a string that    *)
(* stays as it is, or to one of two static buffers, which a later call     *)
(* writes again.                                                           *)
(***************************************************************************)
Buffers == [array_type : Seq(Word), elem_type : Seq(Word)]

NoBuffers == [array_type |-> << >>, elem_type |-> << >>]

ASSUME LeftoversAssumption == Leftovers \subseteq Buffers

Fixed(t, b) == [at |-> "fixed", text |-> t, buffers |-> b]

\* Mutant: no terminator, so that the tail of a longer text stays behind.
BufferedUnterminated(at, t, b) ==
  LET text == t \o SubSeq(b[at], Len(t) + 1, Len(b[at]))
  IN  [at |-> at, text |-> text, buffers |-> [b EXCEPT ![at] = text]]

Buffered(at, t, b) == [at |-> at, text |-> t, buffers |-> [b EXCEPT ![at] = t]]

\* What the pointer points to once the buffers hold b.
Deref(p, b) == IF p.at = "fixed" THEN p.text ELSE b[p.at]

Comparison == {"==", "!=", "<", "<=", ">", ">="}

\* The types of the operands are compared after both have been determined.
BinaryType(op, left, right) ==
  LET b == right.buffers
      l == Deref(left, b)
      r == Deref(right, b)
  IN  IF Failed \in {l, r} THEN Fixed(Failed, b)
      ELSE IF op = "**" THEN
        Fixed(IF ~ (IsNumeric(l) /\ IsNumeric(r)) THEN Failed
              ELSE IF F64 \in {l, r} THEN F64 ELSE I32, b)
      ELSE IF op \in Comparison THEN Fixed(IF l = r THEN Bool ELSE Failed, b)
      ELSE IF l = r THEN [at |-> left.at, text |-> l, buffers |-> b]
      ELSE Fixed(IF {l, r} = {F64, I32} THEN F64 ELSE Unknown, b)

FieldType(t, field, b) ==
  IF ~ (Len(t) = 2 /\ t[1] = "struct" /\ IsStruct(t[2])) THEN Fixed(Failed, b)
  ELSE LET fields == Lookup(t[2]).node.fields
           named == {k \in DOMAIN fields : fields[k].name = field}
       IN  Fixed(IF named = {} THEN Failed
                 ELSE fields[CHOOSE k \in named : \A j \in named : k <= j].type, b)

\* An exit stays one.
ArrayType(elem) ==
  IF elem.text = Failed THEN Fixed(Failed, elem.buffers)
  ELSE Buffered("array_type", Append(elem.text, "[]"), elem.buffers)

\* Texts of at most two characters.
Short == {<< >>} \cup {<<w>> : w \in ShortWord}

\* The last two characters go, whether they are "[]" or not.
WithoutTwo(t) ==
  LET n == Len(t)
      front == SubSeq(t, 1, n - 1)
  IN  IF t[n] = "[]" THEN front ELSE Append(front, Cut(t[n]))

IndexedType(array) ==
  LET t == array.text
  IN  IF t = Failed THEN Fixed(Failed, array.buffers)
      ELSE IF t \in Short THEN Fixed(Unknown, array.buffers)
      ELSE Buffered("elem_type", WithoutTwo(t), array.buffers)

\* The type of e when the buffers hold b, if T gives those of its parts.
TypeStep(T, e, b) ==
  CASE e.kind = "literal" -> Fixed(e.type, b)
    [] e.kind \in {"identifier", "call"} ->
         Fixed(IF Declared(e.name) THEN Lookup(e.name).type ELSE Unknown, b)
    [] e.kind = "binary" ->
         LET left == T[e.left][b]
         IN  BinaryType(e.op, left, T[e.right][left.buffers])
    [] e.kind = "unary" -> T[e.operand][b]
    [] e.kind = "array" ->
         IF e.elements = << >> THEN Fixed(<<"unknown", "[]">>, b)
         ELSE ArrayType(T[e.elements[1]][b])
    [] e.kind = "index" -> IndexedType(T[e.array][b])
    [] e.kind = "field" ->
         LET struct == T[e.struct][b]
         IN  FieldType(struct.text, e.field, struct.buffers)
    [] OTHER -> Fixed(Unknown, b)

TypeWith(e0, b0) ==
  LET T[e \in Expr] == [b \in Buffers |-> TypeStep(T, e, b)]
  IN  T[e0][b0]

TypeOf(e) == TypeWith(e, NoBuffers).text

\* Two types are determined, one after the other, and then compared.
SameType(e1, e2) ==
  LET p == TypeWith(e1, NoBuffers)
      q == TypeWith(e2, p.buffers)
  IN  /\ Failed \notin {p.text, q.text}
      /\ Deref(p, q.buffers) = Deref(q, q.buffers)

\* The arguments of a call are looked at only when the callee is a function.
Matches(call) ==
  IsFunction(call.name) =>
    LET params == Lookup(call.name).node.params
    IN  /\ Len(call.args) = Len(params)
        /\ \A k \in DOMAIN params : TypeOf(call.args[k]) = params[k].type

SameTypes(elements) ==
  \A k \in DOMAIN elements : k > 1 => SameType(elements[1], elements[k])

IsIndexable(array, index) ==
  /\ \E k \in DOMAIN TypeOf(array) : TypeOf(array)[k] = "[]"
  /\ TypeOf(index) \in {<<"i32">>, <<"i64">>}

IsTyped(e) == TypeOf(e) \notin {Unknown, Failed}

(***************************************************************************)
(* The cases of semantic_visit for expressions: whether it returns, if V   *)
(* says so of the parts.                                                   *)
(***************************************************************************)
VisitStep(V, e) ==
  CASE e.kind = "literal" -> TRUE
    [] e.kind = "identifier" -> Declared(e.name)
    [] e.kind = "call" ->
         /\ Declared(e.name)
         /\ Matches(e)
         /\ IsFunction(e.name) => \A k \in DOMAIN e.args : V[e.args[k]]
    [] e.kind = "binary" -> V[e.left] /\ V[e.right] /\ IsTyped(e)
    [] e.kind = "unary" -> V[e.operand] /\ IsTyped(e)
    [] e.kind = "assign" ->
         V[e.left] /\ V[e.right] /\ SameType(e.left, e.right)
    [] e.kind = "array" ->
         SameTypes(e.elements) /\ \A k \in DOMAIN e.elements : V[e.elements[k]]
    [] e.kind = "index" ->
         V[e.array] /\ V[e.index] /\ IsIndexable(e.array, e.index)
    [] e.kind = "field" -> V[e.struct] /\ IsTyped(e.struct)
    [] e.kind = "fstring" ->
         \A k \in DOMAIN e.parts :
           V[e.parts[k]] /\ e.parts[k].kind \in {"literal", "interp"}
    [] e.kind = "interp" -> V[e.expr]

Visited(e0) ==
  LET V[e \in Expr] == VisitStep(V, e)
  IN  V[e0]

-----------------------------------------------------------------------------
(***************************************************************************)
(* The cases of semantic_visit for statements.                             *)
(***************************************************************************)
Top == frames[Len(frames)]

Frame(kind, saved, conds) == [kind |-> kind, saved |-> saved, conds |-> conds]

\* Scopes that are open while the parts of a construct are visited: that of
\* its block, and the function's or the loop's own.  The branches of an if
\* are blocks on top of it.
OpenScopes(kind) ==
  IF kind \in {"function", "for"} THEN 2
  ELSE IF kind \in {"block", "while", "switch"} THEN 1
  ELSE 0

Loop == {"while", "for"}

Init ==
  /\ scopes = << << >>, << >> >>
  /\ frames = <<Frame("block", NoType, << >>)>>
  /\ loop_depth = 0
  /\ current_function_return_type = NoType
  /\ status = "visiting"

Exit ==
  /\ status' = "exited"
  /\ UNCHANGED <<scopes, frames, loop_depth, current_function_return_type>>

\* semantic_error ends the process; else the visitor goes on.
Check(ok, Effect) ==
  \/ ok /\ Effect /\ UNCHANGED status
  \/ ~ ok /\ Exit

Visiting(s, kind) ==
  /\ status = "visiting"
  /\ Top.kind \notin {"if", "else"}
  /\ s.kind = kind

CanDeclare ==
  Cardinality({p \in (DOMAIN scopes) \X (1..MaxSymbols) : p[2] \in DOMAIN scopes[p[1]]})
    < MaxSymbols
CanNest == Len(frames) < MaxNesting

Unchanged == UNCHANGED <<scopes, frames, loop_depth, current_function_return_type>>

Annotated(s) == s.type # NoType

VarDecl(s) ==
  /\ Visiting(s, "var_decl") /\ CanDeclare
  /\ Check(/\ s.name \notin NamesIn(Innermost)
           /\ Annotated(s)
           /\ s.init # NoExpr => Visited(s.init) /\ TypeOf(s.init) = s.type,
           /\ scopes' = Adding(Symbol(s.name, s.type, NoNode))
           /\ UNCHANGED <<frames, loop_depth, current_function_return_type>>)

\* Expression, print and prompt statements.
ExprStmt(s) == Visiting(s, "expr_stmt") /\ Check(Visited(s.expr), Unchanged)

BreakOrContinue(s) == Visiting(s, "break") /\ Check(loop_depth # 0, Unchanged)

Return(s) ==
  /\ Visiting(s, "return")
  /\ Check(/\ current_function_return_type # NoType
           /\ IF s.expr = NoExpr THEN current_function_return_type = <<"void">>
              ELSE Visited(s.expr) /\ TypeOf(s.expr) = current_function_return_type,
           Unchanged)

\* Struct names are looked for in all scopes, those of the fields too.
StructDef(s) ==
  /\ Visiting(s, "struct_def") /\ CanDeclare
  /\ Check(/\ ~ Declared(s.name)
           /\ \A j, k \in DOMAIN s.fields : s.fields[j].name = s.fields[k].name => j = k
           /\ \A k \in DOMAIN s.fields :
                LET t == s.fields[k].type
                IN  IsPrimitive(t) \/ (Len(t) = 2 /\ t[1] = "struct" /\ IsStruct(t[2])),
           /\ scopes' = Adding(Symbol(s.name, <<"struct", s.name>>,
                                      [kind |-> "struct", fields |-> s.fields]))
           /\ UNCHANGED <<frames, loop_depth, current_function_return_type>>)

Push(kind, saved, conds) == frames' = Append(frames, Frame(kind, saved, conds))

\* The function is declared first, then its parameters in a scope of their
\* own; parameters are not compared with each other.
FuncDef(s) ==
  /\ Visiting(s, "func_def") /\ CanDeclare /\ CanNest
  /\ Check(s.name \notin NamesIn(Innermost),
           /\ scopes' = Adding(Symbol(s.name, s.result,
                                      [kind |-> "function", params |-> s.params]))
                          \o << [k \in DOMAIN s.params |->
                                  Symbol(s.params[k].name, s.params[k].type, NoNode)],
                                << >> >>
           /\ Push("function", current_function_return_type, << >>)
           /\ current_function_return_type' = s.result
           /\ UNCHANGED loop_depth)

Block(s) ==
  /\ Visiting(s, "block") /\ CanNest
  /\ scopes' = Append(scopes, << >>)
  /\ Push("block", NoType, << >>)
  /\ UNCHANGED <<loop_depth, current_function_return_type, status>>

\* The condition may have any type.
While(s) ==
  /\ Visiting(s, "while") /\ CanNest
  /\ Check(Visited(s.cond),
           /\ loop_depth' = loop_depth + 1
           /\ scopes' = Append(scopes, << >>)
           /\ Push("while", NoType, << >>)
           /\ UNCHANGED current_function_return_type)

For(s) ==
  /\ Visiting(s, "for") /\ CanNest
  /\ Check(Visited(s.start) /\ Visited(s.end),
           /\ loop_depth' = loop_depth + 1
           /\ scopes' = scopes \o << <<Symbol(s.iterator, I32, NoNode)>>, << >> >>
           /\ Push("for", NoType, << >>)
           /\ UNCHANGED current_function_return_type)

\* A branch: its condition is visited, then its block.
Branch(under) ==
  /\ frames' = under \o <<Frame("block", NoType, << >>)>>
  /\ scopes' = Append(scopes, << >>)
  /\ UNCHANGED <<loop_depth, current_function_return_type>>

If(s) ==
  /\ Visiting(s, "if") /\ CanNest
  /\ Check(Visited(s.cond), Branch(Append(frames, Frame("if", NoType, <<s.cond>>))))

BetweenBranches == status = "visiting" /\ Top.kind = "if"

\* The condition of an elif is found to be boolean or not after its block.
ElifChecked == Len(Top.conds) = 2 => TypeOf(Top.conds[2]) = Bool

NextBranch(kind, conds) ==
  Branch(Append(SubSeq(frames, 1, Len(frames) - 1), Frame(kind, NoType, conds)))

Elif(s) ==
  /\ BetweenBranches /\ s.kind = "if"
  /\ Check(ElifChecked /\ Visited(s.cond), NextBranch("if", <<Top.conds[1], s.cond>>))

Else == BetweenBranches /\ Check(ElifChecked, NextBranch("else", <<Top.conds[1]>>))

\* The type of the expression, if it is a name, is kept for the cases.
Switch(s) ==
  /\ Visiting(s, "switch") /\ CanNest
  /\ Check(Visited(s.expr),
           /\ scopes' = Append(scopes, << >>)
           /\ Push("switch",
                   IF s.expr.kind = "identifier" THEN Lookup(s.expr.name).type ELSE NoType,
                   << >>)
           /\ UNCHANGED <<loop_depth, current_function_return_type>>)

\* What is visited directly in a switch are the statements of its cases and
\* of the finally; the scope is one for all.
Case(s) ==
  /\ Visiting(s, "case")
  /\ Check(/\ Top.kind = "switch"
           /\ Visited(s.expr)
           /\ s.expr.kind = "literal" /\ s.expr.type = <<"string">> =>
                Top.saved \in {NoType, <<"string">>},
           Unchanged)

LoopDepthAfter(frame) == IF frame.kind \in Loop THEN loop_depth - 1 ELSE loop_depth

\* Mutant: what was saved is not put back.
ReturnTypeKept(frame) == current_function_return_type

ReturnTypeAfter(frame) ==
  IF frame.kind = "function" THEN frame.saved ELSE current_function_return_type

(***************************************************************************)
(* The visit of a construct ends.  Only now is the condition of an if      *)
(* found to be boolean or not.                                             *)
(***************************************************************************)
Leave ==
  /\ status = "visiting" /\ Len(frames) > 1
  /\ Check(\A k \in DOMAIN Top.conds : TypeOf(Top.conds[k]) = Bool,
           /\ frames' = SubSeq(frames, 1, Len(frames) - 1)
           /\ scopes' = SubSeq(scopes, 1, Len(scopes) - OpenScopes(Top.kind))
           /\ loop_depth' = LoopDepthAfter(Top)
           /\ current_function_return_type' = ReturnTypeAfter(Top))

\* The whole tree has been visited, and the global table is destroyed.
Finish ==
  /\ status = "visiting" /\ Len(frames) = 1
  /\ status' = "done" /\ frames' = << >> /\ scopes' = << >>
  /\ UNCHANGED <<loop_depth, current_function_return_type>>

Next ==
  \/ \E s \in Statement :
       \/ VarDecl(s) \/ ExprStmt(s) \/ BreakOrContinue(s) \/ Return(s)
       \/ StructDef(s) \/ FuncDef(s) \/ Block(s) \/ While(s) \/ For(s)
       \/ If(s) \/ Elif(s) \/ Switch(s) \/ Case(s)
  \/ Else \/ Leave \/ Finish

Spec == Init /\ [][Next]_vars

-----------------------------------------------------------------------------
(***************************************************************************)
(* Properties.                                                             *)
(***************************************************************************)

Open(kinds) == {k \in DOMAIN frames : frames[k].kind \in kinds}

\* The scopes that were open when the k-th construct was entered.
ScopesBelow(k) ==
  1 + Cardinality({j \in Open({"block", "while", "switch"}) : j < k})
    + 2 * Cardinality({j \in Open({"function", "for"}) : j < k})

(***************************************************************************)
(* The two global variables and the chain of tables always say what is     *)
(* being visited: the loops that are open, the type of the innermost       *)
(* function (which is the symbol last added outside its scope), and        *)
(* nothing once the visit is over.                                         *)
(***************************************************************************)
ContextMatchesNesting ==
  /\ loop_depth = Cardinality(Open(Loop))
  /\ status # "done" => Len(scopes) = ScopesBelow(Len(frames) + 1)
  /\ Open({"function"}) = {} => current_function_return_type = NoType
  /\ \A k \in Open({"function"}) :
       (\A j \in Open({"function"}) : j <= k) =>
         LET outer == scopes[ScopesBelow(k)]
         IN  current_function_return_type = outer[Len(outer)].type

(***************************************************************************)
(* A name stands for one thing in its table, that of the parameters apart, *)
(* and a struct type means one struct wherever it is visible, though       *)
(* duplicates are looked for in the innermost table in one case and in all *)
(* tables in the other.                                                    *)
(***************************************************************************)
NamesAreUnambiguous ==
  /\ \A k \in DOMAIN scopes \ {ScopesBelow(f) + 1 : f \in Open({"function"})} : \A i, j \in DOMAIN scopes[k] :
       scopes[k][i].name = scopes[k][j].name => i = j
  /\ \A k, m \in DOMAIN scopes : \A i \in DOMAIN scopes[k], j \in DOMAIN scopes[m] :
       LET s == scopes[k][i]  t == scopes[m][j]
       IN  /\ NoNode \notin {s.node, t.node}
           /\ s.node.kind = "struct" /\ t.node.kind = "struct"
           /\ s.name = t.name
           => k = m

(***************************************************************************)
(* What is left in the two static buffers by earlier calls never gets into *)
(* a type: whatever has been declared, an expression has the text of one   *)
(* type however deep it is and however often its parts write the buffers.  *)
(***************************************************************************)
TypesForgetBuffers ==
  status = "visiting" =>
    \A e \in Expr, b \in Leftovers : TypeWith(e, b).text = TypeOf(e)

Assignments == {s \in Statement : s.kind = "expr_stmt" /\ s.expr.kind = "assign"}

(***************************************************************************)
(* An assignment that is accepted has sides of one type, or the visitor    *)
(* stops: "Semantic Error: Type mismatch in assignment. Expected %s, got   *)
(* %s" (semantic.c:302).  Two element types of two arrays are one text in  *)
(* elem_type by the time they are compared, so a[0] = b[0] is accepted     *)
(* whatever the arrays hold.                                               *)
(***************************************************************************)
AssignmentsAgree ==
  status = "visiting" =>
    \A s \in Assignments :
      Visited(s.expr) => TypeOf(s.expr.left) = TypeOf(s.expr.right)
=============================================================================
