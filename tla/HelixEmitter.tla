------------------------------ MODULE HelixEmitter ------------------------------
(* What the C++ that module Emitter writes can be relied on for.  The compiler    *)
(* reads none of it back: a program whose visit ends without an error goes to the *)
(* C++ compiler as it is.                                                         *)
EXTENDS Emitter, FiniteSets

Nodes   == 1..Len(ast)
Written == status = "done" /\ ~errored

Opposite == [t \in {")", "}", "]", ">"} |-> CASE t = ")" -> "(" [] t = "}" -> "{"
                                               [] t = "]" -> "[" [] t = ">" -> "<"]
Openers  == {Opposite[t] : t \in DOMAIN Opposite}

\* the brackets open after tokens, <<"?">> if two cross
OpenWith(open, t) ==
  IF open = <<"?">> THEN open
  ELSE IF t \in Openers THEN Append(open, t)
  ELSE IF t \notin DOMAIN Opposite THEN open
  ELSE IF open # <<>> /\ Last(open) = Opposite[t] THEN Front(open)
  ELSE <<"?">>
OpenIn(tokens) ==
  LET after[i \in 0..Len(tokens)] ==
        IF i = 0 THEN <<>> ELSE OpenWith(after[i - 1], tokens[i].t)
  IN after[Len(tokens)]

TypeOK ==
  /\ IsTree(ast)
  /\ \A i \in 1..Len(work) : work[i].of \in 0..Len(ast)
  /\ \A i \in 1..Len(out) : out[i].of \in 0..Len(ast)
  /\ status \in Statuses /\ errored \in BOOLEAN

\* A module whose name is a path, and a call operator in an interface, leave
\* a bracket open.
PathModule(n)    == Kind(n) = "ModuleDecl" /\ Kind(Kid(Kid(n, "name"), "path")) = "ScopePathExpr"
CallAsked(n)     == Kind(n) = "InterDecl" /\ \E i \in 1..Len(Statements(Kid(n, "body"))) :
                      LET m == Statements(Kid(n, "body"))[i]
                      IN Kind(m) = "OpDecl" /\ OperatorType(m) = "call"

\* Every bracket a visit writes is closed by one of its kind, in order: no
\* declaration runs into the next one.  But for the two forms above.
BracketsNest ==
  Written /\ ~(\E n \in Nodes : PathModule(n) \/ CallAsked(n)) => OpenIn(out) = <<>>

\* What a visit takes back is the comma it wrote behind the last element, never
\* a token of somebody else's.
TakesBackCommas == [][Len(out') < Len(out) => Last(out).t = ","]_vars

\* The emitter follows a null pointer only where the parser leaves something
\* out that it takes for granted: the result of a function that panics or
\* yields, the token of a member operator, the body of main, of a destructor
\* or of a nested function, and the type of a parameter in an interface; and
\* where it asks what a type is made of that is a function pointer, made of
\* nothing: behind a * or &, in an interface, and as the result of the
\* operators in, panic and ?.
FnPointer(type) == Has(type, "fn")
TypesAsked(m) ==
  IF IsFunction(m)
  THEN {Kid(Kid(p, "var"), "type") : p \in ToSet(Args(m))} \cup {Kid(FuncOf(m), "returns")}
  ELSE {Kid(Kid(v, "var"), "type") : v \in ToSet(Kids(m, "vars"))}
TakenForGranted(n) ==
  \/ Kind(n) = "FuncDecl" /\ Kid(n, "returns") = Null
       /\ (Does(Kid(n, "body"), "PanicState") \/ Does(Kid(n, "body"), "YieldState"))
  \/ Kind(n) = "OpDecl" /\ (Kids(n, "op") = <<>> \/ (Op(n, "delete") /\ Kid(Kid(n, "func"), "body") = Null))
  \/ Kind(n) = "FuncDecl" /\ Kid(n, "body") = Null
       /\ (IsMain(n) \/ \E b \in Nodes : Kind(b) = "BlockState" /\ Contains(Kids(b, "body"), n))
  \/ Kind(n) = "InterDecl" /\ \E i \in 1..Len(Statements(Kid(n, "body"))) :
       LET m == Statements(Kid(n, "body"))[i]
       IN \/ IsFunction(m) /\ \E j \in 1..Len(Args(m)) : Kid(Kid(Args(m)[j], "var"), "type") = Null
          \/ \E t \in TypesAsked(m) : FnPointer(t)
  \/ Kind(n) = "UnaryExpr" /\ Has(n, "in_type") /\ FnPointer(Kid(n, "opd"))
  \/ Kind(n) = "OpDecl" /\ LooksAtResult(n) /\ FnPointer(Kid(Kid(n, "func"), "returns"))
NullsExplained == status = "crash" => \E n \in Nodes : TakenForGranted(n)

(* Access.  A label holds until the next one between the same braces.             *)
AccessWords == {"public", "protected", "private"}
AccessAfter(tokens) ==
  LET Step(acc, i) ==
        CASE tokens[i].t = "{" -> Append(acc, "none")
          [] tokens[i].t = "}" -> IF acc = <<>> THEN acc ELSE Front(acc)
          [] tokens[i].t = ":" /\ i > 1 /\ acc # <<>> ->
               IF tokens[i - 1].t \in AccessWords THEN [acc EXCEPT ![Len(acc)] = tokens[i - 1].t] ELSE acc
          [] OTHER -> acc
  IN FoldLeft(Step, <<>>, [i \in 1..Len(tokens) |-> i])

Owners(m)   == {c \in Nodes : Kind(c) \in {"ClassDecl", "StructDecl"} /\ Contains(Statements(Kid(c, "body")), m)}
Asks(c, m)  ==
  CASE Has(m, "protected") -> "protected" [] Has(m, "private") -> "private"
    [] Has(m, "public") -> "public"
    [] OTHER -> IF Kind(c) = "ClassDecl" /\ Kind(m) \in {"LetDecl", "ConstDecl"} THEN "private" ELSE "public"

\* A function, operator or variable of a class is written under the access it
\* asks for, whatever was written before it; a generator always under public,
\* after the private state it needs.
MembersKeepTheirAccess ==
  status = "run" /\ work # <<>> =>
    \A c \in Owners(work[1].of) :
      LET m == work[1].of
      IN /\ work[1].op = "visit" /\ Kind(m) \in {"FuncDecl", "LetDecl", "ConstDecl"}
            => Last(AccessAfter(out)) = Asks(c, m)
         /\ work[1].op = "signature"
            => Last(AccessAfter(out)) = IF work[1].text = "generator" THEN "public" ELSE Asks(c, m)

\* Each argument that a requirement of a concept is written with is a parameter
\* of the concept's requires.
InHead(j) == \E k \in 1..j : out[k].t = "concept" /\ \A l \in k..j : out[l].t # "{"
ArgumentsDeclared ==
  Written => \A i \in 1..Len(out) :
    out[i].t = "arg" => \E j \in 1..i : out[j] = out[i] /\ InHead(j)
===============================================================================
