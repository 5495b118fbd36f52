------------------------------- MODULE EmitStates -------------------------------
(* The visit functions of CX_States.cc and CX_VarDecl.cc: what statements and     *)
(* variables become in C++, as the moves of module EmitSteps.                     *)
EXTENDS EmitExprs

(* The variables of a declaration, or of a for loop, where they have no type    *)
(* (omit).                                                                      *)
NamedVarSpecifier(n, omit) ==
  When(~omit, When(Has(n, "const"), T("const"))
                \o (IF Kid(n, "type") = Null THEN T("auto") ELSE Must(n, "type")))
    \o Param(n, "path")
NamedVarSpecifierList(n, omit) ==
  Cat([i \in 1..Len(Kids(n, "vars")) |->
         When(i > 1, T(",")) \o VisitAs(Kids(n, "vars")[i], IF omit THEN "omit" ELSE "")])

ConstDecl(n) == Each(Kids(n, "vars"), LAMBDA v : T("const") \o Visit(v))
VarDecl(n)   == Param(n, "var") \o When(Kid(n, "value") # Null, T("=") \o Must(n, "value"))

\* only a let that is a statement ends its variables
LetDecl(n, inStatement) ==
  When(Has(n, "static"), T("static"))
    \o Each(Kids(n, "vars"), LAMBDA v : Visit(v) \o When(inStatement, T(";")))

ForPyStatementCore(n) ==
  LET vars == Kid(n, "vars")
  IN Paren((IF Len(Kids(vars, "vars")) > 1
            THEN T("auto") \o T("&") \o Bracket(VisitAs(vars, "omit"))
            ELSE Must(n, "vars"))
           \o T(":") \o Param(n, "range"))
       \o Body(n)
ForCStatementCore(n) ==
  Paren(Param(n, "init") \o T(";") \o Param(n, "condition") \o T(";") \o Param(n, "update"))
    \o Body(n)
ForState(n)   == T("for") \o Param(n, "core")
WhileState(n) == T("while") \o Paren(Param(n, "condition")) \o Body(n)

\* an unless asks for the contrary
Condition(n) ==
  Paren(IF Has(n, "unless") THEN T("!") \o Paren(Must(n, "condition")) ELSE Must(n, "condition"))

ElseState(n) ==
  T("else")
    \o When(~Has(n, "else"),
            T("if") \o Paren(When(Has(n, "unless"), T("!")) \o Paren(Param(n, "condition"))))
    \o Body(n)

\* the statements of a suite, without its braces
Inside(n) == When(Kid(n, "body") # Null, Must(Kid(n, "body"), "body"))

\* const eval if: directives of the C++ preprocessor
IfDirective(n) ==
  T("#if") \o Condition(n) \o Inside(n)
    \o Each(Kids(n, "else_body"),
            LAMBDA e : (IF Has(e, "else") THEN T("#else") ELSE T("#elif") \o Condition(e)) \o Inside(e))
    \o T("#endif")

\* A mistake: an eval if has no else.
IfElseForgotten(n) == When(~Has(n, "eval"), All(n, "else_body"))

IfElse(n) ==
  IF Has(n, "eval")
  THEN Each(Kids(n, "else_body"),
            LAMBDA e : T("else")
                         \o When(~Has(e, "else"), T("if") \o T("constexpr") \o Condition(e))
                         \o Param(e, "body"))
  ELSE All(n, "else_body")

IfState(n) ==
  IF Has(n, "const") /\ Has(n, "eval") THEN IfDirective(n)
  ELSE T("if") \o When(Has(n, "eval"), T("constexpr")) \o Condition(n) \o Body(n) \o IfElse(n)

SwitchCaseState(n) ==
  (IF Has(n, "default") THEN T("default") ELSE T("case") \o Param(n, "condition"))
    \o T(":")
    \o Brace(When(Kid(n, "body") # Null, Param(Kid(n, "body"), "body"))
             \o (IF Has(n, "fallthrough") THEN Bracket(Bracket(T("fallthrough"))) ELSE T("break"))
             \o T(";"))
SwitchState(n) ==
  T("switch") \o Paren(Param(n, "condition")) \o Brace(All(n, "cases"))

YieldState(n)    == T("co_yield") \o Param(n, "value") \o T(";")
DeleteState(n)   == T("delete") \o Param(n, "value") \o T(";")
ReturnState(n)   == T("return") \o Param(n, "value") \o T(";")
BreakState(n)    == T("break") \o T(";")
ContinueState(n) == T("continue")
ExprState(n)     == Param(n, "value") \o T(";")
PanicState(n)    == T("panic") \o Paren(Param(n, "expr")) \o T(";")
ImportState(n)   == Throw     \* imports were taken out before the parser ran

BlockState(n) ==
  Each(Kids(n, "body"),
       LAMBDA s : (IF Kind(s) = "LetDecl" THEN VisitAs(s, "statement")
                   ELSE When(s # Null, Visit(s)))
                    \o T(";"))
SuiteState(n) == Brace(Param(n, "body"))

CatchState(n) ==
  T("catch")
    \o Paren(IF Kid(n, "catch_state") = Null THEN T("...") ELSE Must(n, "catch_state"))
    \o Body(n)
\* the object whose destructor runs the block, under a name of its own
FinallyState(n) ==
  T("::") \o Scoped("$finally") \o T("unique")
    \o Paren(Bracket(T("&")) \o Body(n)) \o T(";")
TryState(n) ==
  Param(n, "finally_state") \o T("try") \o Body(n) \o All(n, "catch_states")
===============================================================================
