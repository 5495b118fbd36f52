------------------------------- MODULE MCLexer -------------------------------
(* Lexer on every short text over small alphabets, one for each scanner.     *)
EXTENDS Lexer

CONSTANTS
    MaxComment, MaxString, MaxNumber, MaxOperator, MaxMixed  \* lengths of texts

TextsOf(alphabet, n) == UNION {[1 .. k -> alphabet] : k \in 0 .. n}

MCSources ==
    TextsOf({"/", "*", "\n", "x"}, MaxComment)
        \cup TextsOf({"\"", "'", "\\", "f", "{", "}"}, MaxString)
        \cup TextsOf({"1", ".", "e", "-", "="}, MaxNumber)
        \cup TextsOf({"~", "&", "=", "*", "/"}, MaxOperator)
        \cup TextsOf({"#", "[", "]", "\n", ":"}, MaxMixed)
        \cup TextsOf({"1", ".", "u", "\"", "\n", " ", "$"}, MaxMixed)

Ops1 == {<<c>> : c \in Operators \cup {"/"}}

(* The part of the token table over the alphabets above.                     *)
MCValidOps ==
    Ops1 \cup
    { <<"*", "*">>, <<"~", "&">>, <<"=", "=">>, <<"*", "=">>, <<"&", "=">>,
      <<"~", "=">>, <<"/", "=">>, <<"&", "&">>, <<"-", "-">>, <<"-", "=">>,
      <<"=", "=", "=">>, <<"*", "*", "=">>, <<"&", "&", "=">>, <<"~", "&", "=">> }

=============================================================================
