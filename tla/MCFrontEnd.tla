----------------------------- MODULE MCFrontEnd -----------------------------
(***************************************************************************)
(* Programs for the front end.  For the parser: every chain of up to three *)
(* operators, chains with a parenthesised part or unary operators, and     *)
(* small programs with one token removed, replaced or inserted at every    *)
(* position.  For the lexer: every text of up to MaxLength characters of   *)
(* those its branches tell apart, and f-strings of up to MaxFString.       *)
(***************************************************************************)
EXTENDS FrontEnd

CONSTANTS MaxLength, MaxFString

\* The texts of more than one character.
Spelling ==
  "and" :> <<"a", "n", "d">> @@ "or" :> <<"o", "r">> @@ "not" :> <<"n", "o", "t">>
  @@ "let" :> <<"l", "e", "t">> @@ "fn" :> <<"f", "n">> @@ "i32" :> <<"i", "3", "2">>
  @@ "const" :> <<"c", "o", "n", "s", "t">>
  @@ "comptime" :> <<"c", "o", "m", "p", "t", "i", "m", "e">>
  @@ "<=" :> <<"<", "=">> @@ ">=" :> <<">", "=">> @@ "==" :> <<"=", "=">>
  @@ "!=" :> <<"!", "=">> @@ "**" :> <<"*", "*">>

MCKEYWORDS == {"and", "or", "not", "let", "fn", "i32", "const", "comptime"}
MCLetter == {"a", "b", "c", "d", "e", "f", "i", "l", "m", "n", "o", "p", "r", "s", "t"}
MCDigit == {"1", "2", "3"}
MCSpace == {" ", "\n"}

Characters(text) == IF text \in DOMAIN Spelling THEN Spelling[text] ELSE <<text>>

\* The texts of tokens with the same characters behind each.
Written(texts, between) ==
  LET W[k \in 0 .. Len(texts)] ==
        IF k = 0 THEN <<>> ELSE W[k - 1] \o Characters(texts[k]) \o between
  IN  W[Len(texts)]

-----------------------------------------------------------------------------
Binary == {"+", "-", "*", "/", "%", "**", "<", ">", "<=", ">=", "==", "!=",
           "and", "or", "=", "&"}
Few == {"*", "-", "<", "and", "**", "="}
Unaries == {"-", "not"}

Chains ==
  {<<"a", o, "b">> : o \in Binary} \cup {<<"a", o, "b", p, "1">> : o, p \in Binary}
  \cup {<<"a", o, "b", p, "a", q, "1">> : o, p, q \in Few}
Grouped ==
  {<<"a", o, "(", "b", p, "1", ")", q, "b">> : o, p, q \in Few}
  \cup {<<"(", "a", o, "b", ")", p, "1">> : o, p \in Few}
Signed ==
  {<<u, "a", o, v, "b", p, "1">> : u, v \in Unaries, o, p \in Few}
  \cup {<<"a", o, v, w, "b">> : v, w \in Unaries, o \in Few}

Declaration == <<"let", "const", "a", ":", "i32", "=", "b", "-", "-", "1", ";">>
AFunction == <<"comptime", "fn", "a", "(", "b", ":", "i32", ",", "a", ")", ":", "i32",
               "{", "let", "a", "=", "(", "b", ")", ";", "let", "b", "=", "1", ";", "}">>
Programs == {Declaration, AFunction, <<"{", "}">>, <<"fn", "a", "(", ")", "{", "}">>,
             Declaration \o <<"a", "=", "b">> \o Declaration,
             <<"a", "=", "(", "b", "*", "1", ")", "**", "b">>,
             <<"-", "a", "or", "not", "b", "==", "1">>}

Wrong == {"a", "1", "-", "=", "&", "(", ")", ":", ",", ";", "{", "}", "let", "i32"}

Edited(s) ==
  {RemoveAt(s, i) : i \in DOMAIN s}
  \cup {ReplaceAt(s, i, t) : i \in DOMAIN s, t \in Wrong}
  \cup {InsertAt(s, i, t) : i \in DOMAIN s, t \in Wrong}

ForParser == Chains \cup Grouped \cup Signed \cup Programs \cup UNION {Edited(s) : s \in Programs}

-----------------------------------------------------------------------------
Upto(S, n) == UNION {[1 .. k -> S] : k \in 0 .. n}

ForLexer ==
  Upto({"e", "1", ".", "+", "=", "/", "\n", "\"", "#"}, MaxLength)
  \cup {<<"1", ".", "2", "e", "-">> \o s : s \in Upto({"1", ".", "e", "+"}, 3)}
  \cup {<<"a", "=", "f", "\"">> \o s : s \in Upto({"a", "{", "}", "\"", "\\", "\n", " "}, MaxFString)}
  \cup {Written(s, <<"/", "/", "a", "\n">>) : s \in Programs}

MCCode == ForLexer \cup {Written(s, <<" ">>) : s \in ForParser}
=============================================================================
