------------------------------- MODULE Lexer -------------------------------
(***************************************************************************)
(* The lexer of src/lexer.c: one pass over the characters of a program     *)
(* that counts lines and columns and calls itself for the expressions in   *)
(* an f-string.                                                            *)
(*                                                                         *)
(* Each part of tokenize is an operator from the lexer's state to the      *)
(* state it leaves: a record l with the text, the number of characters     *)
(* read, the position counted, the tokens added and whether an error was   *)
(* reported.                                                               *)
(***************************************************************************)
EXTENDS Integers, SequencesExt, FiniteSetsExt

CONSTANTS Code,      \* programs: sequences of characters
          Letter,    \* characters for which isalpha holds
          Digit,
          Space,
          KEYWORDS

NUL == ""            \* the character behind the last one

VARIABLE lexer

-----------------------------------------------------------------------------
(* Characters and tokens *)

Char(l, k) == IF l.i + k < Len(l.code) THEN l.code[l.i + k + 1] ELSE NUL
Here(l) == Char(l, 0)

\* One character is read and counted.
Read(l) ==
  [l EXCEPT !.i    = @ + 1,
            !.line = IF Here(l) = "\n" THEN @ + 1 ELSE @,
            !.col  = IF Here(l) = "\n" THEN 1 ELSE @ + 1]

RECURSIVE ReadAll(_, _)
ReadAll(l, n) == IF n = 0 THEN l ELSE ReadAll(Read(l), n - 1)

\* How many characters from here on belong to a class.
Run(l, class) == Min({n \in 0 .. (Len(l.code) - l.i) : Char(l, n) \notin class})

Text(l, from, to) == FoldLeft(LAMBDA s, c : s \o c, "", SubSeq(l.code, from + 1, to))

Token(type, value, line, column) ==
  [type |-> type, value |-> value, line |-> line, column |-> column]

AddToken(l, type, value, line, column) ==
  [l EXCEPT !.array = Append(@, Token(type, value, line, column))]

ReportError(l) == [l EXCEPT !.reported = TRUE]

-----------------------------------------------------------------------------
(* Literals, words and numbers *)

\* A backslash takes the next character along, unless the text ends there.
IsEscape(l) == Here(l) = "\\" /\ Char(l, 1) # NUL

RECURSIVE StringEnd(_)
StringEnd(l) ==
  IF Here(l) \in {"\"", NUL} THEN l
  ELSE StringEnd(IF IsEscape(l) THEN Read(Read(l)) ELSE Read(l))

\* The line is that of the closing quote, the column that of the opening one.
StringLiteral(l) ==
  LET end == StringEnd(Read(l))
  IN  IF Here(end) = NUL THEN ReportError(end)
      ELSE Read(AddToken(end, "STRING", Text(l, l.i + 1, end.i), end.line, l.col))

WordCharacter == Letter \cup Digit \cup {"_"}

Word(l) ==
  LET end   == ReadAll(l, Run(l, WordCharacter))
      value == Text(l, l.i, end.i)
  IN  AddToken(end, IF value \in KEYWORDS THEN "KEYWORD" ELSE "IDENTIFIER",
               value, l.line, l.col)

Exponent == {"e", "E"}

\* Mutant: a sign is taken wherever it follows.
DigitsSigned(l, start, has_dot, has_e) ==
  \/ Here(l) \in Digit
  \/ Here(l) = "." /\ ~has_dot
  \/ Here(l) \in Exponent /\ ~has_e
  \/ Here(l) \in {"+", "-"} /\ l.i > start

IsNumberPart(l, start, has_dot, has_e) ==
  \/ Here(l) \in Digit
  \/ Here(l) = "." /\ ~has_dot
  \/ Here(l) \in Exponent /\ ~has_e
  \/ Here(l) \in {"+", "-"} /\ l.i > start /\ l.code[l.i] \in Exponent

\* An exponent makes a float and lets no dot follow.
RECURSIVE Number(_, _, _, _)
Number(l, start, has_dot, has_e) ==
  IF IsNumberPart(l, start, has_dot, has_e)
  THEN Number(Read(l), start, has_dot \/ Here(l) \in {"."} \cup Exponent,
              has_e \/ Here(l) \in Exponent)
  ELSE AddToken(l, IF has_dot THEN "FLOAT" ELSE "INTEGER", Text(l, start, l.i),
                l.line, l.col - (l.i - start))

-----------------------------------------------------------------------------
(* Operators, punctuation and comments *)

MULTI_CHAR_OPERATORS == {"==", "!=", "<=", ">=", "//", "**"}
SINGLE_CHAR_OPERATORS == {"+", "-", "*", "/", "%", "=", "<", ">", "&", "|"}

Punctuation == {<<"(", "LPAREN">>, <<")", "RPAREN">>, <<"{", "LBRACE">>, <<"}", "RBRACE">>,
                <<"[", "LBRACKET">>, <<"]", "RBRACKET">>, <<";", "SEMICOLON">>,
                <<":", "COLON">>, <<",", "COMMA">>}

\* Mutant: the newline behind a comment is passed and not counted.
CommentUncounted(l) ==
  LET end == ReadAll(l, Run(l, {c \in Range(l.code) : c # "\n"}))
  IN  IF Here(end) = "\n" THEN [end EXCEPT !.i = @ + 1] ELSE end

Comment(l) ==
  LET end == ReadAll(l, Run(l, {c \in Range(l.code) : c # "\n"}))
  IN  IF Here(end) = "\n" THEN Read(end) ELSE end

TwoCharacters(l) ==
  ReadAll(AddToken(l, "OPERATOR", Here(l) \o Char(l, 1), l.line, l.col), 2)

\* Mutant: what is not expected is reported and not passed.
OneCharacterStays(l) ==
  IF \E p \in Punctuation : p[1] = Here(l)
  THEN Read(AddToken(l, (CHOOSE p \in Punctuation : p[1] = Here(l))[2], Here(l), l.line, l.col))
  ELSE IF Here(l) \in SINGLE_CHAR_OPERATORS
  THEN Read(AddToken(l, "OPERATOR", Here(l), l.line, l.col))
  ELSE ReportError(l)

\* Punctuation, an operator, or something unexpected, which is passed.
OneCharacter(l) ==
  Read(IF \E p \in Punctuation : p[1] = Here(l)
       THEN AddToken(l, (CHOOSE p \in Punctuation : p[1] = Here(l))[2], Here(l), l.line, l.col)
       ELSE IF Here(l) \in SINGLE_CHAR_OPERATORS
       THEN AddToken(l, "OPERATOR", Here(l), l.line, l.col)
       ELSE ReportError(l))

-----------------------------------------------------------------------------
(* f-strings *)

RECURSIVE Tokenize(_), FString(_, _, _)

\* Up to the brace that closes the innermost one open, or the end.
RECURSIVE Closing(_, _)
Closing(l, braces) ==
  IF Here(l) = NUL \/ braces = 0 THEN [at |-> l, open |-> braces]
  ELSE Closing(Read(l), braces + CASE Here(l) = "{" -> 1 [] Here(l) = "}" -> -1 [] OTHER -> 0)

\* Mutant: the last character of the part is left out.
AddPartShort(l, from, start, start_col) ==
  IF from > start THEN AddToken(l, "FSTRING", Text(l, start, from - 1), l.line, start_col) ELSE l

\* The part of the string between start and here, if there is one.
AddPart(l, from, start, start_col) ==
  IF from > start THEN AddToken(l, "FSTRING", Text(l, start, from), l.line, start_col) ELSE l

\* The tokens of an expression, at columns that are made up.
Interpolated(expr, line, base_col) ==
  LET inner == Tokenize(expr)
  IN  [reported |-> inner.reported,
       tokens   |-> [j \in 1 .. Len(inner.array) - 1 |->
                       Token(inner.array[j].type, inner.array[j].value, line,
                             IF line > 1 THEN 8 ELSE base_col + (j - 1) * 2)]]

FStringEnd(l, start, start_col) ==
  LET added == AddPart(l, l.i, start, start_col)
  IN  IF Here(l) = "\"" THEN [added EXCEPT !.i = l.i + 1, !.col = start_col + (l.i + 1 - start) - 2]
      ELSE ReportError(added)

(* The loop over the characters; an interpolation that is not closed ends  *)
(* it.  An escaped newline is not counted as a line.                       *)
FString(l, start, start_col) ==
  LET close == Closing(AddPart(Read(l), l.i, start, start_col), 1)
      after == close.at
      inner == Interpolated(SubSeq(l.code, l.i + 2, after.i - 1), after.line,
                            start_col + (l.i - start) - 1)
  IN  CASE Here(l) \in {"\"", NUL} -> FStringEnd(l, start, start_col)
        [] Here(l) = "{" /\ close.open > 0 -> FStringEnd(ReportError(after), start, start_col)
        [] Here(l) = "{" /\ close.open = 0 ->
             FString([after EXCEPT !.array = @ \o inner.tokens,
                                   !.reported = @ \/ inner.reported],
                     after.i, after.col)
        [] OTHER -> FString(IF IsEscape(l) THEN [Read(l) EXCEPT !.i = @ + 1, !.col = @ + 1]
                            ELSE Read(l), start, start_col)

-----------------------------------------------------------------------------
(* The main loop *)

Start(code) ==
  [code |-> code, i |-> 0, line |-> 1, col |-> 1, array |-> <<>>, reported |-> FALSE]

Done(l) == l.array # <<>> /\ Last(l.array).type = "EOF"

\* The branches for the token that begins here, in the order they are tried.
ReadToken(l) ==
  CASE Here(l) = "f" /\ Char(l, 1) = "\"" ->
         LET body == ReadAll(l, 2) IN FString(body, body.i, body.col)
    [] Here(l) = "\"" -> StringLiteral(l)
    [] Here(l) \in Letter \cup {"_"} /\ ~(Here(l) = "f" /\ Char(l, 1) = "\"") -> Word(l)
    [] Here(l) \in Digit \/ (Here(l) = "." /\ Char(l, 1) \in Digit) ->
         Number(l, l.i, FALSE, FALSE)
    [] Here(l) \o Char(l, 1) = "//" -> Comment(l)
    [] Here(l) \o Char(l, 1) \in MULTI_CHAR_OPERATORS \ {"//"} -> TwoCharacters(l)
    [] OTHER -> OneCharacter(l)

Step(l) ==
  LET next == ReadAll(l, Run(l, Space))
  IN  IF Here(next) = NUL THEN AddToken(next, "EOF", "EOF", next.line, next.col)
      ELSE ReadToken(next)

RECURSIVE ToTheEnd(_)
ToTheEnd(l) == IF Done(l) THEN l ELSE ToTheEnd(Step(l))

Tokenize(code) == ToTheEnd(Start(code))

Init == \E code \in Code : lexer = Start(code)

Next == ~Done(lexer) /\ lexer' = Step(lexer)

-----------------------------------------------------------------------------
(* Properties *)

IsFStringAt(k) ==
  k < Len(lexer.code) /\ lexer.code[k] = "f" /\ lexer.code[k + 1] = "\""

HasFString == \E k \in 1 .. lexer.i : IsFStringAt(k)

Newlines(k) == {m \in 1 .. k : lexer.code[m] = "\n"}

\* The line and the column of what follows the first k characters.
LineOf(k) == 1 + Cardinality(Newlines(k))
ColumnOf(k) == 1 + k - Max({0} \cup Newlines(k))

\* How many characters stand before a position.
Before(line, column) ==
  CHOOSE k \in 0 .. Len(lexer.code) : LineOf(k) = line /\ ColumnOf(k) = column

\* The token added last, if it is neither a string nor the end of the file.
Newest ==
  {lexer.array[k] : k \in {m \in {Len(lexer.array)} \ {0} :
                             lexer.array[m].type \notin {"STRING", "EOF"}}}

StartsWith(k, text) == \E m \in k .. Len(lexer.code) : Text(lexer, k, m) = text

(***************************************************************************)
(* Line and column are counted in every branch on its own; in a program    *)
(* without f-strings they are those of the text, and the token added last  *)
(* is found where it says it is.                                           *)
(***************************************************************************)
PositionsAreTrue ==
  ~HasFString =>
    /\ lexer.line = LineOf(lexer.i) /\ lexer.col = ColumnOf(lexer.i)
    /\ \A t \in Newest : StartsWith(Before(t.line, t.column), t.value)

-----------------------------------------------------------------------------
(* The tokens of the language as docs/grammar.ebnf.md names them: a word   *)
(* is letters, digits and underscores, a number is digits with an optional *)
(* decimal point and exponent.  The code lets digits be missing.           *)

AllIn(from, to, class) == \A m \in (from + 1) .. to : lexer.code[m] \in class

IsNumberText(from, to) ==
  \E dot \in {k \in from .. to : AllIn(from, k, Digit)} : \E mantissa \in dot .. to :
    /\ mantissa > from
    /\ \/ mantissa = dot
       \/ lexer.code[dot + 1] = "." /\ AllIn(dot + 1, mantissa, Digit)
    /\ \/ mantissa = to
       \/ /\ lexer.code[mantissa + 1] \in Exponent
          /\ \E sign \in {mantissa + 1, mantissa + 2} \cap (from .. to) :
               AllIn(mantissa + 1, sign, {"+", "-"}) /\ AllIn(sign, to, Digit)

IsText(type, from, to) ==
  CASE type \in {"IDENTIFIER", "KEYWORD"} -> AllIn(from, to, WordCharacter)
    [] type \in {"INTEGER", "FLOAT"} -> IsNumberText(from, to)
    [] type = "OPERATOR" ->
         Text(lexer, from, to) \in MULTI_CHAR_OPERATORS \cup SINGLE_CHAR_OPERATORS
    [] OTHER -> to = from + 1

(***************************************************************************)
(* A token is the longest text of its kind at its place, whatever follows  *)
(* without a space: no number, word or operator is cut short or runs on.   *)
(***************************************************************************)
TokensAreLongest ==
  ~HasFString =>
    \A t \in Newest :
      LET from == Before(t.line, t.column)
          ends == {to \in (from + 1) .. Len(lexer.code) : IsText(t.type, from, to)}
      IN  t.value = Text(lexer, from, Max(ends))

-----------------------------------------------------------------------------
(* The same program read one character at a time: what of it belongs to    *)
(* tokens.  An f" behind a word character and an interpolation that holds  *)
(* quotes or comments are left out.                                        *)

After(s, k) ==
  LET c        == lexer.code[k]
      next     == IF k < Len(lexer.code) THEN lexer.code[k + 1] ELSE NUL
      Keep     == [s EXCEPT !.kept = @ \o c]
      Go(mode) == [s EXCEPT !.mode = mode]
  IN  CASE s.escaped -> [Keep EXCEPT !.escaped = FALSE]
        [] ~s.escaped /\ s.mode \in {"string", "fstring"} ->
             CASE c = "\"" -> Go("code")
               [] c = "\\" -> [Keep EXCEPT !.escaped = TRUE]
               [] c = "{" /\ s.mode = "fstring" -> [s EXCEPT !.mode = "expression", !.depth = 1]
               [] OTHER -> Keep
        [] s.mode = "expression" ->
             CASE c = "\"" \/ c \o next = "//" -> Go("unknown")
               [] c = "{" -> [Keep EXCEPT !.depth = @ + 1]
               [] c = "}" /\ s.depth = 1 -> Go("fstring")
               [] c = "}" /\ s.depth > 1 -> [Keep EXCEPT !.depth = @ - 1]
               [] c \in Space -> s
               [] OTHER -> Keep
        [] s.mode = "comment" -> IF c = "\n" THEN Go("code") ELSE s
        [] s.mode = "code" ->
             CASE IsFStringAt(k) ->
                    Go(IF k > 1 /\ lexer.code[k - 1] \in WordCharacter THEN "unknown" ELSE "prefix")
               [] c = "\"" -> Go("string")
               [] c \o next = "//" -> Go("comment")
               [] c \in Space -> s
               [] OTHER -> Keep
        [] s.mode = "prefix" -> Go("fstring")
        [] OTHER -> s

CharactersOfTokens ==
  FoldLeft(After, [mode |-> "code", depth |-> 0, escaped |-> FALSE, kept |-> ""],
           [k \in 1 .. Len(lexer.code) |-> k])

(***************************************************************************)
(* A program that is lexed without an error loses nothing but space,       *)
(* comments and quotes, and gains nothing: the values of the tokens in     *)
(* order, those from inside f-strings included, are its characters.        *)
(***************************************************************************)
NothingIsLost ==
  Done(lexer) /\ ~lexer.reported /\ CharactersOfTokens.mode # "unknown" =>
    FoldLeft(LAMBDA text, t : text \o t.value, "", Front(lexer.array))
      = CharactersOfTokens.kept
=============================================================================
