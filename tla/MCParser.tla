-------------------------------- MODULE MCParser --------------------------------
(* Texts for the parser: one of every declaration, statement and expression   *)
(* the tests and the standard library write, then each of them cut short, with *)
(* a token left out, or with a token in the place of another.                  *)
EXTENDS DeclRules, UncheckedCalls, FiniteSetsExt

In(entry, texts) == {[entry |-> entry, toks |-> t] : t \in texts}

(* Declarations.                                                               *)
Declared == {
  <<"let", "id", ":", "prim", "=", "num", "-", "id", ",", "id", "=", "num", ";">>,
  <<"pub", "const", "id", ":", "prim", "=", "num", ";">>,
  <<"pub", "fn", "id", "(", "id", ":", "prim", ",", "id", ":", "*", "id", "=", "num", ")",
    "->", "id", "?", "{", "return", "id", ";", "}">>,
  <<"fn", "id", "(", ")", "requires", "<", "id", ">", "if", "id", "derives", "id", "->",
    "id", "::", "<", "id", "::", "<", "prim", ">>", ";">>,
  <<"fn", "id", "(", ")", "->", "(", "prim", ",", "prim", ")", "requires", "<", "const", "id",
    ":", "prim", ">", "{", "}">>,
  <<"class", "id", "derives", "id", "{", "fn", "id", "(", "const", "self", ")", "=", "default",
    ";", "}">>,
  <<"class", "id", "with", "id", ";">>, <<"struct", "id", ";">>,
  <<"interface", "id", "{", "fn", "id", "(", "self", ")", ";", "}">>,
  <<"enum", "id", "{", "id", ",", "id", "=", "num", ",", "}">>, <<"enum", "id", ":", "id", ";">>,
  <<"type", "id", "=", "fn", "(", "prim", ")", "->", "prim", ";">>,
  <<"op", "-", "fn", "id", "(", "self", ")", "{", "}">>,
  <<"module", "id", "::", "id", "::", "id", "{", "struct", "id", "{", "}", "}">>,
  <<"ffi", "s", "import", "s", ";">>}

(* Statements.                                                                 *)
Stated == {
  <<"if", "id", "==", "num", "{", "id", "(", "num", ")", ";", "}", "else", "if", "id", ":",
    "id", ";", "else", "{", "}">>,
  <<"for", "(", "id", ",", "id", "in", "id", ")", "{", "break", ";", "}">>,
  <<"for", "(", "let", "id", "=", "num", ";", "id", "<", "num", ";", "id", "!", ")", ":",
    "continue", ";">>,
  <<"while", "id", "==", "num", "{", "delete", "id", ";", "}">>,
  <<"switch", "id", "{", "case", "num", ":", "{", "id", ";", "}", "default", ":", "id", ";", "}">>,
  <<"switch", "id", ":", "case", "num", ":", "yield", "id", ";">>,
  <<"try", ":", "id", ";", "catch", "(", "id", ":", "id", ")", "{", "}", "catch", "{", "}",
    "finally", ":", "panic", "id", ";">>}

(* Expressions.                                                                *)
Expressed == {
  <<"id", ".", "id", "=", "await", "id", "(", "id", "=", "num", ",", "num", ")">>,
  <<"id", "::", "<", "prim", ">", "(", "num", ")">>,
  <<"id", "{", "id", "=", "num", "}">>, <<"{", ".", "id", "=", "num", ",", "}">>,
  <<"{", "num", ":", "num", ",", "num", ":", "num", "}">>, <<"{", "num", ",", "num", ",", "}">>,
  <<"{", "num", "}">>, <<"(", "num", ",", "num", ")">>, <<"[", "num", ",", "num", "]">>,
  <<"id", "[", "num", "]", "as", "prim">>, <<"num", "if", "!", "id", "else", "(", "num", ")">>,
  <<"fn", "(", "id", ":", "prim", ")", "{", "return", "s", "s", ";", "}">>,
  <<"id", "has", "::", "id">>, <<"-", "id", "-", "num">>, <<"fs">>}

(* Imports.                                                                    *)
Imported == {
  <<"import", "id", "::", "id", "as", "id", ";">>, <<"import", "module", "id", ";">>,
  <<"import", "id", "::", "{", "id", ",", "id", "as", "id", ",", "}", ";">>,
  <<"import", "id", "::", "*", ";">>, <<"import", "s", "as", "id", ";">>}

(* Texts that are refused, or worse, where a token left out is not the reason. *)
Odd == {
  <<"let", "id", ":", ";">>, <<"if", "id", "==", "num", "{", "}">>, <<"{", "}">>,
  <<"fn", "id", "(", ")", "requires", "<", "id", ">", "if", "[", "num", "id", "{", "}">>,
  <<"fn", "id", "(", "id", ":", "id", ",", "id", ":", "id", "=", "num", ",", "id", ":", "id",
    ")", ";">>,
  <<"if", "id", ":", "id", ";", "else", ":", "id", ";", "else", ":", "id", ";">>,
  <<"{", "ffi", "s", "import", "s", "}">>, <<"ffi", "fs", "import", "id", ";">>,
  <<"::", "<", "id", ">", "(", ")", ";">>, <<"op", "-", "(", ";">>, <<"for", "id", "in", "id">>}

Sound   == In("Program", Declared \cup Stated) \cup In("Element", Expressed)
             \cup In("ImportEntry", Imported)
Cut     == {[i EXCEPT !.toks = SubSeq(@, 1, n)] : <<i, n>> \in
              {p \in Sound \X (1..25) : p[2] < Len(p[1].toks)}}
Without == {[i EXCEPT !.toks = SubSeq(@, 1, n - 1) \o SubSeq(@, n + 1, Len(@))] : <<i, n>> \in
              {p \in Sound \X (1..25) : p[2] <= Len(p[1].toks) /\ Len(p[1].toks) > 1}}
Wrong   == {";", "{", ")"}
Changed == {[i EXCEPT !.toks[n] = t] : <<i, n, t>> \in
              {p \in Sound \X (1..25) \X Wrong : p[2] <= Len(p[1].toks)}}

MCInputs == Sound \cup Cut \cup Without \cup Changed \cup In("Program", Odd)

(* The sound texts again, as they read once a '>>' has been split.             *)
SplitText(t) == LET at == {n \in 1..Len(t) : t[n] = ">>"}
                IN IF at = {} THEN t
                   ELSE LET n == Min(at)
                        IN SubSeq(t, 1, n - 1) \o <<">", ">">> \o SubSeq(t, n + 1, Len(t))

\* Every text the language's own tests and library would write is accepted,
\* and nothing after it is left unread but an import's ';'.
SoundTextsParse ==
  \A i \in Sound :
    Entry = i.entry /\ Text \in {i.toks, SplitText(i.toks)} =>
      /\ status \in {"run", "done"} \/ (status = "error" /\ Has("fs"))
      /\ status = "done" => cur >= Len(toks) - (IF i.entry = "ImportEntry" THEN 1 ELSE 0)
===============================================================================
