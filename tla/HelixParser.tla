------------------------------ MODULE HelixParser ------------------------------
(* What the parser of module Parser promises with Helix's grammar (Grammar is *)
(* HelixGrammar): where a parse ends, where it gives up, and that it ends.    *)
EXTENDS Parser

Entry == stack[1].fn
Text  == SubSeq(toks, 1, Len(toks) - 1)
Has(t) == \E n \in 1..Len(Text) : Text[n] = t

\* the brackets that are open once t is read where open are, <<"?">> for good
\* if two cross
Openers == {"(", "[", "{"}
Opening == [b \in {")", "]", "}"} |-> CASE b = ")" -> "(" [] b = "]" -> "[" [] b = "}" -> "{"]
Brackets == Openers \cup DOMAIN Opening
Crossed == <<"?">>
Turn(open, t) ==
  IF open = Crossed THEN open
  ELSE IF t \in Openers THEN Append(open, t)
  ELSE IF t \notin DOMAIN Opening THEN open
  ELSE IF open # <<>> /\ open[Len(open)] = Opening[t] THEN SubSeq(open, 1, Len(open) - 1)
  ELSE Crossed
\* those of the tokens from a on that are open in front of b
OpenIn(w, a, b) ==
  LET open[n \in a..b] == IF n = a THEN <<>> ELSE Turn(open[n - 1], w[n - 1])
  IN open[b]
Balanced == OpenIn(toks, 1, Len(toks)) = <<>>

\* Nothing checks the brackets of a file before it is parsed: the parse
\* functions do, each its own.  A program they accept has every bracket
\* closed in order and was read to its end, unless an operator's name, which
\* OpDecl skips unread, holds one.
AcceptsOnlyBalanced ==
  status = "done" /\ Entry = "Program" =>
    /\ cur = Len(toks)
    /\ ~Has("op") => Balanced

\* The iterator is stepped over the end of the list only by a parenthesis
\* that is never closed, an op without a fn, or a text that begins with {}.
LeavesListOnlyUnbalanced ==
  status = "wild" => ~Balanced \/ Has("op") \/ SubSeq(toks, 1, 2) = <<"{", "}">>

\* A parse function that is called again before it returned has moved on in
\* between: it is on the call stack at most once for each token of the text.
RecursionConsumes ==
  \A i, j \in 1..Len(stack) :
    i < j /\ stack[i].fn = stack[j].fn => stack[i].start < stack[j].start

\* The bound on the rounds of Expression::parse, twice the tokens left, is
\* never met by an expression, however long: only by a {} that no round takes.
BudgetOnlyForBraces ==
  status = "toolong" => Here = "{" /\ Ahead(1) = "}"

\* value() of a parse result that may be an error throws for the first item
\* of an import list, and for an ffi name that is an f-string with a broken
\* element; never for one that is a plain string.
ThrowsExplained ==
  status = "thrown" =>
    \E i \in 2..Len(stack) :
      /\ stack[i].by = "unchecked"
      /\ stack[i - 1].fn = "FFIDecl" => toks[cur - 1] = "fs"

\* Every parse ends: no text keeps a loop of the parser turning.
ParserEnds == <>(status # "run")
===============================================================================
