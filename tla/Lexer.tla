-------------------------------- MODULE Lexer --------------------------------
(***************************************************************************)
(* Lexer::tokenize and its scanners: how a source text becomes tokens.      *)
(* One step is one iteration of the loop of tokenize or of a scanner, over  *)
(* a cursor that moves forward except where a number gives back the first   *)
(* dot of a range and an operator gives back what is no operator.           *)
(*                                                                         *)
(* Characters are representatives of the classes of cases.def.  Positions   *)
(* count from 0, as in the code; position End is the terminating nul that a  *)
(* std::string has, and reading past it is undefined (`wild`).              *)
(***************************************************************************)
EXTENDS Integers, Sequences, FiniteSets

CONSTANTS
    Sources,   \* the texts to consider
    ValidOps,  \* the operators of the token table, as sequences of characters
    SizeMax    \* 2^64: brace_nesting is a size_t, and wraps

White       == {" ", "\n"}
Quotes      == {"\"", "'"}
Prefixes    == {"r", "b", "f", "u"}
Letters     == Prefixes \cup {"e", "g", "x"}
Numeric     == {"1", "b", "e", "f", "u", "x", "_"}
NameChars   == Letters \cup {"1", "_"}
Operators   == {"+", "-", "*", "%", "&", "|", "^", "!", "=", "@", "<", ">", "~"}
Punctuation == {")", "(", "{", "}", "[", "]", ",", ";", ":", "?", "."}
Chars == White \cup Quotes \cup NameChars \cup Operators \cup Punctuation
            \cup {"/", "#", "\\", "$"}
Nul   == "nul"

ASSUME SourcesAssumption == Sources \subseteq Seq(Chars)
ASSUME SizeAssumption == SizeMax \in Nat \ {0}

Kinds == {"line_comment", "block_comment", "directive", "name", "int", "float",
          "string", "operator", "punctuation", "eof"}
Scanners == {"line_comment", "block_comment", "directive", "name", "number",
             "string", "operator"}

VARIABLES
    source,   \* the text
    cur,      \* the cursor: currentPos, line, column, and whether a read was wild
    scan,     \* the scanner at work and its local variables
    tokens,   \* the tokens pushed so far: kind, from, to (exclusive) and line
    outcome   \* "running", "done", or "panic"

vars == <<source, cur, scan, tokens, outcome>>

Cursor == [pos : Nat, line : Nat, column : Nat, wild : BOOLEAN]
Scan   == [kind : Scanners \cup {"none"}, from : Nat, line : Nat, over : BOOLEAN,
           depth : Nat, braces : Nat, quote : Chars \cup {Nul}, fmt : BOOLEAN,
           dots : Nat, float : BOOLEAN, sci : BOOLEAN]
Token  == [kind : Kinds, from : Nat, to : Nat, line : Nat]

Idle == [kind |-> "none", from |-> 0, line |-> 0, over |-> FALSE, depth |-> 0,
         braces |-> 0, quote |-> Nul, fmt |-> FALSE, dots |-> 0,
         float |-> FALSE, sci |-> FALSE]

-----------------------------------------------------------------------------
(* The cursor *)

End   == Len(source)
At(p) == IF p < End THEN source[p + 1] ELSE Nul

(* A mistake: one more position before the end of the file.                 *)
IsEofLate(c) == c.pos > End + 1

(* is_eof: one past the nul, where source[end] was already taken.           *)
IsEof(c) == c.pos > End

Peek(c) == IF c.pos + 1 >= End THEN Nul ELSE At(c.pos + 1)

(* A mistake: bare_advance counts no lines.                                 *)
BareAdvanceOnLine(c) ==
    [pos |-> c.pos + 1, line |-> c.line, column |-> c.column + 1,
     wild |-> c.wild \/ c.pos > End]

BareAdvance(c) ==
    [pos    |-> c.pos + 1,
     line   |-> IF At(c.pos) = "\n" THEN c.line + 1 ELSE c.line,
     column |-> IF At(c.pos) = "\n" THEN 0 ELSE c.column + 1,
     wild   |-> c.wild \/ c.pos > End]

Advance2(c) == BareAdvance(BareAdvance(c))

(* --currentPos: the line and the column stay.                              *)
Back(c) == [c EXCEPT !.pos = @ - 1]

Text(from, to) == SubSeq(source, from + 1, to)

-----------------------------------------------------------------------------
(* tokenize and next_token *)

Running(kind) == outcome = "running" /\ scan.kind = kind
Looping(kind) == Running(kind) /\ ~scan.over /\ ~IsEof(cur)
Ending(kind)  == Running(kind) /\ (scan.over \/ IsEof(cur))

Push(kind, from, to, line) ==
    /\ tokens' = Append(tokens, [kind |-> kind, from |-> from, to |-> to, line |-> line])
    /\ scan' = Idle
    /\ UNCHANGED outcome

(* the token that a scanner returns: what lies behind the cursor            *)
Emit(kind, line) == Push(kind, scan.from, cur.pos, line) /\ UNCHANGED <<source, cur>>

Panic == outcome' = "panic" /\ UNCHANGED <<source, cur, scan, tokens>>

Move(c, s) == cur' = c /\ scan' = s /\ UNCHANGED <<source, tokens, outcome>>

Init ==
    /\ source \in Sources
    /\ cur = [pos |-> 0, line |-> 1, column |-> 0, wild |-> FALSE]
    /\ scan = Idle
    /\ tokens = <<>>
    /\ outcome = "running"

Next1 == At(cur.pos)
Next2 == Peek(cur)

(* The scanner for what starts at the cursor, if it needs more than one      *)
(* iteration.                                                               *)
ScannerHere ==
    CASE Next1 = "/" /\ Next2 = "/" -> "line_comment"
      [] Next1 = "/" /\ Next2 = "*" -> "block_comment"
      [] Next1 = "/" /\ Next2 \notin {"/", "*"} -> "operator"
      [] Next1 \in Quotes -> "string"
      [] Next1 = "1" -> "number"
      [] Next1 \in Prefixes /\ Next2 \in Quotes -> "string"
      [] Next1 \in Letters \cup {"_"} /\ ~(Next1 \in Prefixes /\ Next2 \in Quotes) -> "name"
      [] Next1 = "#" /\ Next2 = "[" -> "directive"
      [] Next1 \in Operators -> "operator"
      [] OTHER -> "none"

SkipWhite ==
    /\ Running("none") /\ cur.pos + 1 <= End
    /\ Next1 \in White
    /\ Move(BareAdvance(cur), Idle)

(* A string prefix is skipped at once; u is the one that formats nothing.   *)
Begin ==
    /\ Running("none") /\ cur.pos + 1 <= End
    /\ ScannerHere # "none"
    /\ LET prefixed == ScannerHere = "string" /\ Next1 \in Prefixes
           c == IF prefixed THEN BareAdvance(cur) ELSE cur
       IN Move(c, [Idle EXCEPT
                      !.kind = ScannerHere, !.from = cur.pos, !.line = cur.line,
                      !.quote = IF ScannerHere = "string" THEN At(c.pos) ELSE Nul,
                      !.fmt = prefixed /\ Next1 # "u"])

(* .. and ... and ..= and :: are the only ones of more than one character.  *)
PunctuationEnd ==
    CASE Next1 = "." /\ Next2 = "." ->
           IF Peek(BareAdvance(cur)) \in {".", "="}
           THEN BareAdvance(Advance2(cur)) ELSE Advance2(cur)
      [] Next1 = ":" /\ Next2 = ":" -> Advance2(cur)
      [] OTHER -> BareAdvance(cur)

ParsePunctuation ==
    /\ Running("none") /\ cur.pos + 1 <= End
    /\ Next1 \in Punctuation
    /\ cur' = PunctuationEnd
    /\ Push("punctuation", cur.pos, PunctuationEnd.pos, cur.line)
    /\ UNCHANGED source

(* A character no token starts with, or a # that is no directive.           *)
Unknown ==
    /\ Running("none") /\ cur.pos + 1 <= End
    /\ Next1 \notin White \cup Punctuation
    /\ ScannerHere = "none"
    /\ Panic

Finish ==
    /\ Running("none") /\ cur.pos + 1 > End
    /\ tokens' = Append(tokens, [kind |-> "eof", from |-> cur.pos, to |-> cur.pos,
                                 line |-> cur.line])
    /\ outcome' = "done"
    /\ UNCHANGED <<source, cur, scan>>

-----------------------------------------------------------------------------
(* Comments, directives, names *)

LineComment ==
    /\ Looping("line_comment")
    /\ Move(IF Next1 = "\n" THEN cur ELSE BareAdvance(cur),
            [scan EXCEPT !.over = Next1 = "\n"])

EndLineComment == Ending("line_comment") /\ Emit("line_comment", cur.line)

(* Comments nest.  After the two characters of an opening or an inner        *)
(* closing, the loop skips one more.                                        *)
BlockComment ==
    /\ Looping("block_comment")
    /\ LET opens  == Next1 = "/" /\ Next2 = "*"
           closes == Next1 = "*" /\ Next2 = "/"
           depth  == IF opens THEN scan.depth + 1
                     ELSE IF closes THEN scan.depth - 1 ELSE scan.depth
       IN IF depth = 0
          THEN Move(Advance2(cur), [scan EXCEPT !.depth = 0, !.over = TRUE])
          ELSE Move(IF opens \/ closes THEN BareAdvance(Advance2(cur)) ELSE BareAdvance(cur),
                    [scan EXCEPT !.depth = depth])

EndBlockComment ==
    /\ Ending("block_comment")
    /\ IF scan.depth # 0 THEN Panic ELSE Emit("block_comment", cur.line)

(* One that is not closed is taken to the end of the file.                  *)
Directive ==
    /\ Looping("directive")
    /\ LET depth == IF Next1 = "[" THEN scan.depth + 1
                    ELSE IF Next1 = "]" THEN scan.depth - 1 ELSE scan.depth
       IN Move(BareAdvance(cur),
               [scan EXCEPT !.depth = depth, !.over = Next1 \in {"]", "\n"} /\ depth = 0])

EndDirective == Ending("directive") /\ Emit("directive", cur.line)

Name ==
    /\ Looping("name")
    /\ Move(BareAdvance(cur), [scan EXCEPT !.over = Next2 \notin NameChars])

EndName == Ending("name") /\ Emit("name", cur.line)

-----------------------------------------------------------------------------
(* Numbers *)

(* A second dot right after the first is a range: the number gives the first *)
(* back.  After an e it takes signs.                                        *)
Number ==
    /\ Looping("number")
    /\ LET dots  == IF Next2 = "." THEN scan.dots + 1 ELSE scan.dots
           range == Next2 = "." /\ dots = 2 /\ Next1 = "."
           goes  == \/ Next2 \in Numeric \cup {"."}
                    \/ scan.sci /\ Next2 \in {"-", "+"}
       IN Move(BareAdvance(IF range THEN Back(cur) ELSE cur),
               [scan EXCEPT
                   !.dots = dots,
                   !.float = IF range THEN FALSE ELSE Next2 = "." \/ @,
                   !.sci = Next2 = "e" \/ @,
                   !.over = range \/ ~goes])

EndNumber ==
    /\ Ending("number")
    /\ IF scan.float /\ scan.dots > 1 THEN Panic
       ELSE Emit(IF scan.float THEN "float" ELSE "int", cur.line)

-----------------------------------------------------------------------------
(* Strings *)

(* A mistake: the nesting is signed.                                        *)
BracesSigned(c) ==
    CASE scan.fmt /\ c = "{" -> scan.braces + 1
      [] scan.fmt /\ c = "}" -> scan.braces - 1
      [] OTHER -> scan.braces

Braces(c) ==
    CASE scan.fmt /\ c = "{" -> (scan.braces + 1) % SizeMax
      [] scan.fmt /\ c = "}" -> IF scan.braces = 0 THEN SizeMax - 1 ELSE scan.braces - 1
      [] OTHER -> scan.braces

(* A mistake: any quote ends a string.                                      *)
StringAnyQuote ==
    /\ Looping("string")
    /\ LET braces == Braces(Next1)
       IN Move(IF braces = 0 /\ Next2 \in Quotes \cup {"\\"} THEN Advance2(cur) ELSE BareAdvance(cur),
               [scan EXCEPT !.braces = braces, !.over = braces = 0 /\ Next2 \in Quotes])

(* Inside the braces of a formatted string nothing is looked at.  A          *)
(* backslash is skipped with what follows, and so is the other quote.        *)
String ==
    /\ Looping("string")
    /\ LET braces == Braces(Next1)
       IN Move(IF braces = 0 /\ Next2 \in Quotes \cup {"\\"}
               THEN Advance2(cur) ELSE BareAdvance(cur),
               [scan EXCEPT !.braces = braces,
                            !.over = braces = 0 /\ Next2 \in Quotes /\ Next2 = scan.quote])

EndString ==
    /\ Ending("string")
    /\ IF scan.braces > 0 \/ IsEof(cur) THEN Panic ELSE Emit("string", scan.line)

-----------------------------------------------------------------------------
(* Operators *)

Operator ==
    /\ Looping("operator")
    /\ Move(BareAdvance(cur), [scan EXCEPT !.over = Next2 \notin Operators])

EndOperator ==
    /\ Ending("operator")
    /\ Text(scan.from, cur.pos) \in ValidOps
    /\ Emit("operator", cur.line)

(* A mistake: what is given back is lost.                                   *)
BackOffToStart ==
    /\ Ending("operator")
    /\ Text(scan.from, cur.pos) \notin ValidOps
    /\ IF cur.pos - 1 = scan.from THEN Panic
       ELSE Push("operator", scan.from, scan.from + 1, cur.line) /\ UNCHANGED <<source, cur>>

(* A mistake: the cursor is not moved back.                                 *)
BackOffForever ==
    /\ Ending("operator")
    /\ Text(scan.from, cur.pos) \notin ValidOps
    /\ Move(cur, [scan EXCEPT !.over = TRUE])

(* A run of operator characters that is no operator gives back its last      *)
(* character, until it is one or nothing is left.                            *)
BackOff ==
    /\ Ending("operator")
    /\ Text(scan.from, cur.pos) \notin ValidOps
    /\ IF cur.pos - 1 = scan.from
       THEN outcome' = "panic" /\ cur' = Back(cur) /\ UNCHANGED <<source, scan, tokens>>
       ELSE Move(Back(cur), [scan EXCEPT !.over = TRUE])

-----------------------------------------------------------------------------

Done == outcome # "running" /\ UNCHANGED vars

Next ==
    \/ SkipWhite \/ Begin \/ ParsePunctuation \/ Unknown \/ Finish
    \/ LineComment \/ EndLineComment \/ BlockComment \/ EndBlockComment
    \/ Directive \/ EndDirective \/ Name \/ EndName
    \/ Number \/ EndNumber \/ String \/ EndString
    \/ Operator \/ EndOperator \/ BackOff
    \/ Done

Spec == Init /\ [][Next]_vars

(* One thread that never waits.                                             *)
FairSpec == Spec /\ WF_vars(Next)

-----------------------------------------------------------------------------

TypeOK ==
    /\ source \in Seq(Chars)
    /\ cur \in Cursor
    /\ scan \in Scan
    /\ tokens \in Seq(Token)
    /\ outcome \in {"running", "done", "panic"}

(* No scanner reads source[n] past the terminating nul, although three of    *)
(* them skip several characters at once and is_eof is true only one          *)
(* position after the end; the cursor stops there at the latest.            *)
InBounds == ~cur.wild /\ cur.pos <= End + 1

Covered(p) == \E n \in DOMAIN tokens : tokens[n].from <= p /\ p < tokens[n].to

Reached == IF scan.kind = "none" THEN cur.pos ELSE scan.from

(* No character is lost and none is in two tokens, wherever a number or an   *)
(* operator gives characters back: the tokens follow each other without      *)
(* overlap, and what lies between them is white space.                       *)
Tile ==
    /\ \A n \in DOMAIN tokens :
          /\ tokens[n].kind # "eof" => tokens[n].from < tokens[n].to
          /\ tokens[n].to <= Reached
          /\ \A m \in 1 .. n - 1 : tokens[m].to <= tokens[n].from
    /\ \A p \in 0 .. End - 1 : p < Reached => At(p) \in White \/ Covered(p)

Newlines(text, p) == {q \in DOMAIN text : q <= p /\ text[q] = "\n"}
LineOf(p)         == 1 + Cardinality(Newlines(source, p))

(* The lines of the cursor and of all tokens are the lines of their first     *)
(* characters, also after multi-line comments and strings; comments and      *)
(* directives have the line they end on.                                    *)
LinesAreRight ==
    /\ cur.line = LineOf(cur.pos)
    /\ \A n \in DOMAIN tokens :
          tokens[n].line =
              LineOf(IF tokens[n].kind \in {"line_comment", "block_comment", "directive"}
                     THEN tokens[n].to ELSE tokens[n].from)

(* What is opened is closed by its own kind, whatever quotes, backslashes,    *)
(* braces and nested comments lie between: a string ends with the quote it   *)
(* began with, and a block comment with a closing of its own.                *)
DelimitersMatch ==
    \A n \in DOMAIN tokens :
        LET t == tokens[n]
        IN CASE t.kind = "string" ->
                  LET q == IF At(t.from) \in Quotes THEN t.from ELSE t.from + 1
                  IN q + 1 < t.to /\ At(t.to - 1) = At(q)
             [] t.kind = "block_comment" ->
                  t.from + 4 < t.to /\ At(t.to - 2) = "*" /\ At(t.to - 1) = "/"
             [] OTHER -> TRUE

(* Every text comes to its end: the characters given back are fewer than     *)
(* those taken.                                                             *)
Terminates == <>(outcome # "running")

-----------------------------------------------------------------------------
(* What the comments say and the code does not do.                          *)

(* "all the data within \" (<string>) or ' (<char>) is a string"             *)
(* (lexer.cc:368): a string whose closing quote is there, without a           *)
(* backslash in it, ends at that quote.                                      *)
StringsEndAtTheirQuote ==
    outcome = "panic" =>
        ~(/\ Len(source) >= 2 /\ source[1] \in Quotes
          /\ source[Len(source)] = source[1]
          /\ \A p \in 2 .. Len(source) - 1 : source[p] \notin {source[1], "\\"})

=============================================================================
