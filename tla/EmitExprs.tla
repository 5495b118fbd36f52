------------------------------- MODULE EmitExprs -------------------------------
(* The visit functions of CX_Exprs.cc, CX_Literal.cc and CX_Type.cc: what each   *)
(* expression becomes in C++, as the moves of module EmitSteps.                  *)
EXTENDS EmitSteps

(* add_literal: strings, characters and numbers are wrapped in the type they   *)
(* are to have; an integer that no type holds gets a suffix instead, and a raw  *)
(* string loses its r.                                                         *)
Literal(n) ==
  IF Has(n, "raw") THEN Src(n, "raw")
  ELSE IF Has(n, "string") THEN T("string") \o Paren(Src(n, "lit"))
  ELSE IF Has(n, "char") THEN T("char") \o Paren(Src(n, "lit"))
  ELSE IF Has(n, "float") THEN T("float") \o Paren(Src(n, "lit"))
  ELSE IF Has(n, "int") THEN T("i32") \o Paren(Src(n, "lit"))
  ELSE IF Has(n, "huge") THEN Src(n, "lit") \o T("i")
  ELSE Src(n, "lit")

\* an f-string is a call with its elements as arguments
LiteralExpr(n) ==
  IF Has(n, "format")
  THEN Scoped("std") \o T("::") \o T("stringf")
         \o Paren(Literal(n) \o T(",")
                  \o Each(Kids(n, "format_args"), LAMBDA m : Paren(Visit(m)) \o T(","))
                  \o PopBack)
  ELSE Literal(n)

BinaryExpr(n) ==
  IF Has(n, "range")
  THEN T("range") \o Paren(Param(n, "lhs") \o T(",") \o Param(n, "rhs")
                           \o When(Has(n, "inclusive"), T("+") \o T("1")))
  ELSE IF Has(n, "in")
  THEN Param(n, "rhs") \o T(".") \o Paren(Param(n, "rhs"))
  ELSE Param(n, "lhs") \o Src(n, "op") \o Param(n, "rhs")

NullLiteral(n) == Kind(n) = "LiteralExpr" /\ Has(n, "null")

\* a prefix * or & of a type goes behind it; a postfix ? says nothing there
UnaryType(n) ==
  LET opd == Kid(n, "opd")
  IN IF Has(n, "postfix") THEN When(~Has(n, "?"), Err)
     ELSE Follow(opd) \o When(Kind(opd) = "Type", Follow(Kid(opd, "value")))
          \o (IF (Kind(opd) = "Type" /\ NullLiteral(Kid(opd, "value"))) \/ ~(Has(n, "*") \/ Has(n, "&"))
              THEN Err
              ELSE Param(n, "opd") \o Src(n, "op"))

UnaryExpr(n) ==
  IF Has(n, "in_type") THEN UnaryType(n)
  ELSE IF Has(n, "postfix") /\ Has(n, "?")
  THEN Param(n, "opd") \o T(".") \o T("operator$question") \o Paren(<<>>)
  ELSE Follow(Kid(n, "opd"))
       \o (IF NullLiteral(Kid(n, "opd"))
           THEN IF Has(n, "&") THEN Src(Kid(n, "opd"), "nullptr") ELSE Err
           ELSE Paren(When(~Has(n, "?"), Src(n, "op")) \o Paren(Param(n, "opd"))))

\* self is (*this); a name that C++ reserves gets a prefix
IdentExpr(n) == IF Has(n, "self") THEN Paren(T("*") \o T("this")) ELSE Src(n, "name")

NamedArgumentExpr(n) ==
  Param(n, "name") \o When(Kid(n, "value") # Null, T("=") \o Param(n, "value"))
ArgumentExpr(n)      == Param(n, "value")
ArgumentListExpr(n)  == Paren(CommaSep(n, "args"))
GenericInvokeExpr(n) == Angle(CommaSep(n, "args"))

ScopePathExpr(n, access) ==
  When(Has(n, "global"), T("::") \o T("helix") \o T("::"))
    \o Each(Kids(n, "path"), LAMBDA m : Visit(m) \o T("::"))
    \o When(access, Param(n, "access"))
DotPathExpr(n)     == Param(n, "lhs") \o T(".") \o Param(n, "rhs")
ArrayAccessExpr(n) == Param(n, "lhs") \o Bracket(Param(n, "rhs"))
PathExpr(n)        == Param(n, "path")

(* FunctionCallExpr.  get_back_name, which is asked first, throws for a path    *)
(* with a dot; of a scope path it is the last name in front of the one called. *)
BackName(p) ==
  IF Kind(p) = "ScopePathExpr"
  THEN IF Kids(p, "path") = <<>> THEN Null ELSE Last(Kids(p, "path"))
  ELSE p

\* __inline_cpp("..."): the text of the string, and nothing else will do
InlineCpp(n) ==
  LET args == Kid(n, "args")
      arg  == Kid(args, "args")
      text == Kid(arg, "value")
  IN IF /\ Kind(args) = "ArgumentListExpr" /\ Len(Kids(args, "args")) = 1
        /\ Kind(arg) = "ArgumentExpr" /\ Kind(text) = "LiteralExpr" /\ ~Has(text, "format")
     THEN Src(text, "inline")
     ELSE Err

CalledPath(n, p) ==
  IF Kind(p) = "ScopePathExpr"
  THEN VisitAs(p, "no access")
         \o When(Kid(n, "generic") # Null /\ Kids(p, "path") # <<>>, T("template"))
         \o Must(p, "access")
  ELSE Param(n, "path")

FunctionCallExpr(n) ==
  LET p == Kid(Kid(n, "path"), "path")
  IN IF Kind(p) \notin {"IdentExpr", "ScopePathExpr"} THEN Throw
     ELSE IF Has(BackName(p), "inline_cpp") THEN InlineCpp(n)
     ELSE CalledPath(n, p) \o Param(n, "generic")
            \o When(Kind(Kid(n, "args")) = "ObjInitExpr", Set(Kid(n, "args"), "path", <<>>))
            \o Param(n, "args")

ArrayLiteralExpr(n) == T("list") \o Brace(CommaSep(n, "values"))
TupleLiteralExpr(n) ==
  IF Kind(Kid(n, "values")) = "Type" \/ Has(n, "in_type")
  THEN T("tuple") \o Angle(CommaSep(n, "values"))
  ELSE Brace(CommaSep(n, "values"))
SetLiteralExpr(n) == T("set") \o Brace(CommaSep(n, "values"))
MapPairExpr(n)    == Brace(Param(n, "key") \o T(":") \o Param(n, "value"))
MapLiteralExpr(n) ==
  Brace(CommaAfter(Kids(n, "values"),
                   LAMBDA m : Brace(Must(m, "key") \o T(",") \o Must(m, "value"))))

\* A mistake: the last comma is taken back when there is none.
ObjInitPopsAlways(n) ==
  Param(n, "path")
    \o Brace(Each(Kids(n, "kwargs"),
                  LAMBDA m : T(".") \o Must(m, "name") \o T("=") \o Must(m, "value") \o T(","))
             \o PopBack)

ObjInitExpr(n) ==
  Param(n, "path")
    \o Brace(CommaAfter(Kids(n, "kwargs"),
                        LAMBDA m : T(".") \o Must(m, "name") \o T("=") \o Must(m, "value")))

Requires(g) == When(Kid(g, "bounds") # Null, T("requires") \o Must(g, "bounds"))

\* A mistake: every function has a result.
ReturnedAlways(n) == Must(n, "returns")
Returned(n) == IF Kid(n, "returns") = Null THEN T("void") ELSE Must(n, "returns")

LambdaExpr(n) ==
  LET g == Kid(n, "generics")
  IN Bracket(T("&")) \o When(g # Null, Angle(Must(g, "params")))
       \o Paren(CommaSep(n, "params")) \o T("->") \o Returned(n)
       \o When(g # Null, Requires(g)) \o Param(n, "body")

TernaryExpr(n) ==
  Paren(Param(n, "condition")) \o T("?") \o Param(n, "if_true") \o T(":") \o Param(n, "if_false")
ParenthesizedExpr(n) == Paren(Param(n, "value"))

\* the value is there twice, once for its type
CastExpr(n) ==
  LET to == Kid(n, "type")
  IN Follow(to) \o Scoped("std") \o T("::")
       \o T(IF Has(to, "unsafe") THEN "as_unsafe" ELSE IF Has(to, "const") THEN "as_const"
            ELSE "as_cast")
       \o Angle(Param(n, "type") \o T(",") \o T("decltype") \o Paren(Param(n, "value")))
       \o Paren(Param(n, "value"))

\* in a requires clause, T has I::<X> is I<T, X>: T joins the generics of I
InstOfExpr(n) ==
  IF Has(n, "derives")
  THEN T("std") \o T("::") \o T("Meta") \o T("::") \o T("is_derived_of")
         \o Angle(Param(n, "type") \o T(",") \o Param(n, "value")) \o T("::") \o T("value")
  ELSE IF Has(n, "in_requires")
  THEN IF Kind(Kid(n, "type")) = "Type"
       THEN Hang(Kid(n, "type"), Kid(n, "value")) \o Must(n, "type") ELSE Err
  ELSE Param(n, "value") \o T(".") \o T("operator$contains") \o Paren(Param(n, "type"))

AsyncThreading(n) == IF Has(n, "await") THEN T("co_await") \o Param(n, "value") ELSE Throw

(* CX_Type.cc: a generator, a nullable (the operand of its ?), a function        *)
(* pointer, or a name.                                                           *)
\* A mistake: the last comma of the parameters is taken back when there are none.
FnPtrPopsAlways(n) ==
  Scoped("$function")
    \o Angle(Returned(n) \o Paren(Each(Kids(n, "params"), LAMBDA p : Visit(p) \o T(",")) \o PopBack))

FnPtr(n) ==
  Scoped("$function") \o Angle(Returned(n) \o Paren(CommaAfter(Kids(n, "params"), Visit)))
Type(n) ==
  IF Has(n, "yield")
  THEN Scoped("$generator") \o Angle(Param(n, "value") \o Param(n, "generics"))
  ELSE IF Has(n, "nullable")
  THEN Scoped("$question") \o Angle(Must(Kid(n, "value"), "opd") \o Param(n, "generics"))
  ELSE IF Has(n, "fn") THEN FnPtr(n)
  ELSE Param(n, "value") \o Param(n, "generics")
===============================================================================
