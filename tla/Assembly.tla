-------------------------------- MODULE Assembly --------------------------------
(* What build_unit and the import preprocessor are for, without their tokens,      *)
(* positions and return codes: the texts of a program put one behind the other, so  *)
(* that each stands after what it asks for.  C++ has no other way to see it.        *)
(*                                                                                  *)
(* A file is opened by one that asks for it, and by Main for the core library.  It  *)
(* collects the texts of the files it opened; when it is closed these and its own   *)
(* go to the file that opened it.  A file can also be given up, which is no secret: *)
(* an error was reported, or the file is a header, whose text goes elsewhere.       *)
EXTENDS Naturals, Sequences, Functions

CONSTANTS Files, Main, Core, Headers

VARIABLES
  asks,      \* the files that each file imports
  sloppy,    \* files with an import that no semicolon ends: what is kept is open
  askedTree, \* an editor asked for the syntax tree, and no text is due
  open,      \* the files that are open, the innermost first, with their texts
  text,      \* what goes to the C++ compiler
  errored,   \* an error was reported
  answer     \* "none" while at work; then 0, 1, 2, or how it stopped without one

vars    == <<asks, sloppy, askedTree, open, text, errored, answer>>
program == <<asks, sloppy, askedTree>>

Opened(f)  == [file |-> f, text |-> <<>>]
Texts(u)   == Append(u.text, u.file)
Complete(u) == u.file \in sloppy \/ asks[u.file] \subseteq Range(u.text)
Busy       == answer = "none"

Init ==
  /\ asks \in [Files -> SUBSET Files] /\ sloppy \in SUBSET Files /\ askedTree \in BOOLEAN
  /\ open = <<Opened(Main)>> /\ text = <<>>
  /\ errored = FALSE /\ answer = "none"

\* before anything else the core library
Begin ==
  /\ Busy
  /\ \E f \in asks[Head(open).file] \cup {Core} :
       /\ ~errored /\ Len(open) = 1 /\ Head(open).text = <<>> => f = Core
       /\ open' = <<Opened(f)>> \o open
  /\ UNCHANGED <<program, text, errored, answer>>

Keep ==
  /\ Busy /\ Len(open) > 1
  /\ errored' \in {errored, TRUE}
  /\ errored' \/ Complete(Head(open))
  /\ open' = <<[open[2] EXCEPT !.text = @ \o Texts(Head(open))]>> \o Tail(Tail(open))
  /\ UNCHANGED <<program, text, answer>>

GiveUp ==
  /\ Busy /\ Len(open) > 1
  /\ errored \/ Head(open).file \in Headers
  /\ open' = Tail(open)
  /\ UNCHANGED <<program, text, errored, answer>>

Report ==
  /\ Busy /\ errored' = TRUE
  /\ UNCHANGED <<program, open, text, answer>>

\* the text of Main, which is handed on even after an error of the generator
Succeed ==
  /\ Busy /\ Len(open) = 1
  /\ errored' \in {errored, TRUE}
  /\ errored' \/ (Complete(Head(open)) /\ Head(open).text # <<>>)
  /\ answer' = IF errored' THEN "1" ELSE "0"
  /\ text' = Texts(Head(open)) /\ open' = <<>>
  /\ UNCHANGED program

\* no text, and an error that explains it; a crash needs none
Fail ==
  /\ Busy
  /\ errored' \in {errored, TRUE}
  /\ answer' \in {"1", "2", "exit", "panic", "crash"}
  /\ answer' \in {"1", "exit", "panic"} => errored'
  /\ answer' = "2" => errored' \/ askedTree
  /\ open' = <<>>
  /\ UNCHANGED <<program, text>>

Next == Begin \/ Keep \/ GiveUp \/ Report \/ Succeed \/ Fail
Spec == Init /\ [][Next]_vars

\* A file without imports of its own that is the core library comes first, and every
\* file comes after all that it asks for: the text can be read from top to bottom.
InOrder ==
  answer = "0" =>
    /\ asks[Core] = {} => Head(text) = Core
    /\ \A n \in DOMAIN text : text[n] \notin sloppy =>
         \A f \in asks[text[n]] : \E m \in 1 .. n - 1 : text[m] = f
===============================================================================
