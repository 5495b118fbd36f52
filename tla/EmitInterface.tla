----------------------------- MODULE EmitInterface -----------------------------
(* Interfaces (CX_Interface.cc): an interface becomes a concept, whose first       *)
(* parameter is self.  What it asks of a type is written as requirements on an     *)
(* object, and on placeholders for the parameters of its functions.                *)
EXTENDS EmitTypes

IsFunction(d) == Kind(d) \in {"FuncDecl", "OpDecl"}
FuncOf(d)     == IF Kind(d) = "OpDecl" THEN Kid(d, "func") ELSE d
Static(d)     == Has(d, "static")
IsInstance(d) == HasSelf(FuncOf(d))

\* the parameters that have a placeholder: all but a leading self
Args(d) == LET params == Kids(FuncOf(d), "params")
           IN IF IsInstance(d) THEN Tail(params) ELSE params

\* what the first pass has against a function; its parameters get no placeholder
Refused(d) ==
  \/ IsInstance(d) /\ Static(d)
  \/ Kid(FuncOf(d), "body") # Null
  \/ Kid(FuncOf(d), "generics") # Null
Check(d) ==
  IF IsFunction(d) THEN When(Kind(d) = "OpDecl", Adopt(FuncOf(d), d)) \o When(Refused(d), Err)
  ELSE When(\E i \in 1..Len(Kids(d, "vars")) : Kid(Kids(d, "vars")[i], "value") # Null, Err)

\* A mistake: operators are forgotten.
PlaceholdersOfFunctions(decls) ==
  Each(decls, LAMBDA d : IF Kind(d) = "FuncDecl" /\ ~Refused(d) THEN Args(d) ELSE <<>>)

\* type_map (its order is that of addresses; here, that of the interface)
Placeholders(decls) ==
  Each(decls, LAMBDA d : IF IsFunction(d) /\ ~Refused(d) THEN Args(d) ELSE <<>>)

\* is_self_t: the type self is written as it is.  What a type is made of is looked
\* at without asking: a function pointer is made of nothing.
TypeOrSelf(type) ==
  Follow(type) \o Follow(Kid(type, "value"))
    \o (IF Kind(Kid(type, "value")) = "IdentExpr" /\ Has(Kid(type, "value"), "self")
        THEN T("self") ELSE Visit(type))

Placeholder(p) == Src(p, "arg")
Arguments(d)   == CommaAfter(Args(d), Placeholder)
Owner(d)       == IF IsInstance(d) THEN T("object") \o T(".") ELSE T("self") \o T("::")

\* { ... } -> std::Meta::same_as<type>;
Yields(how, type) ==
  T("->") \o T("std") \o T("::") \o T("Meta") \o T("::") \o T(how) \o Angle(type) \o T(";")
ReturnsOf(f) == IF Kid(f, "returns") = Null THEN T("void") ELSE TypeOrSelf(Kid(f, "returns"))

FuncRequirement(f) ==
  Brace(Owner(f) \o Must(f, "name") \o Paren(Arguments(f))) \o Yields("same_as", ReturnsOf(f))

(* determine_operator_type: by the number of parameters, and of what token.         *)
Tokens2(n, a, b) == Len(Kids(n, "op")) = 2 /\ Has(Kids(n, "op")[1], a) /\ Has(Kids(n, "op")[2], b)
Postfix(n) == Has(Kid(n, "op"), "r++")
OperatorType(n) ==
  LET params == Len(Kids(Kid(n, "func"), "params"))
      call   == Tokens2(n, "(", ")")
      array  == Tokens2(n, "[", "]")
      last   == IF Kids(n, "op") = <<>> THEN Null ELSE Last(Kids(n, "op"))
  IN IF IsInstance(n)
     THEN IF call THEN "call"
          ELSE IF params = 2 THEN IF array THEN "array" ELSE "binary"
          ELSE IF params = 1 THEN IF Postfix(n) THEN "postfix" ELSE "prefix"
          ELSE "none"
     ELSE IF ~Static(n) \/ call \/ array \/ Has(last, "->") \/ Has(last, ",") \/ params = 0
     THEN "none"
     ELSE IF params = 1 THEN IF Postfix(n) THEN "postfix" ELSE "prefix"
     ELSE IF params = 2 THEN "binary" ELSE "call"

\* a unary operator is asked for its first token
AsksToken(n) ==
  When((IsInstance(n) \/ Static(n)) /\ Len(Kids(Kid(n, "func"), "params")) = 1
         /\ Kids(n, "op") = <<>>, Follow(Null))

\* the call keeps its parenthesis open
OperatorUse(n, type) ==
  LET params == Kids(Kid(n, "func"), "params")
      left   == IF IsInstance(n) THEN T("object") ELSE Placeholder(params[1])
      tokens == Each(Kids(n, "op"), LAMBDA o : Src(o, "op"))
  IN CASE type = "prefix"  -> tokens \o left
       [] type = "postfix" -> left \o tokens
       [] type = "binary"  -> left \o tokens \o Placeholder(Last(params))
       [] type = "array"   -> left \o Bracket(Placeholder(Last(params)))
       [] OTHER            -> left \o T("(") \o Arguments(n)

\* an operator that is none of these leaves its brace open behind it
OpRequirement(n) ==
  LET f    == Kid(n, "func")
      type == OperatorType(n)
  IN When(Kid(f, "name") # Null,
          Brace(Owner(n) \o Must(f, "name") \o Paren(Arguments(n)))
            \o Yields("convertible_to", ReturnsOf(f)))
     \o T("{") \o AsksToken(n)
     \o (IF type = "none" THEN Err
         ELSE OperatorUse(n, type) \o T("}") \o Yields("convertible_to", ReturnsOf(f)))

\* a variable without a type ends the whole visit, in the middle
NoType(v) == Kid(Kid(v, "var"), "type") = Null
VarRequirement(d, v) ==
  Brace((IF Static(d) THEN T("self") \o T("::") ELSE T("object") \o T("."))
        \o Must(Kid(v, "var"), "path"))
    \o (IF NoType(v) THEN T("->") \o T("convertible_to") \o T("<") \o Err
        ELSE Yields("convertible_to", TypeOrSelf(Kid(Kid(v, "var"), "type"))))
LetRequirement(d) ==
  LET cut == SelectInSeq(Kids(d, "vars"), NoType)
  IN Each(IF cut = 0 THEN Kids(d, "vars") ELSE SubSeq(Kids(d, "vars"), 1, cut),
          LAMBDA v : VarRequirement(d, v))

Requirement(d) ==
  CASE Kind(d) = "FuncDecl" -> FuncRequirement(d)
    [] Kind(d) = "OpDecl"   -> OpRequirement(d)
    [] OTHER                -> LetRequirement(d)
Untyped(d) == Kind(d) = "LetDecl" /\ SelectInSeq(Kids(d, "vars"), NoType) # 0

Requirements(decls) ==
  LET cut == SelectInSeq(decls, Untyped)
  IN IF cut = 0 THEN Each(decls, Requirement) \o T("}") \o T(";")
     ELSE Each(SubSeq(decls, 1, cut), Requirement)

\* the parameters of the concept; the first is self
ConceptParam(p) ==
  IF Has(Kid(Kid(p, "var"), "path"), "self") THEN T("typename") \o T("self") ELSE Visit(p)

\* the two passes over the members, once self is among the generics
InterfaceBody(n) ==
  LET g     == Kid(n, "generics")
      decls == Statements(Kid(n, "body"))
      stops == {i \in 1..Len(decls) : \/ ~IsFunction(decls[i]) /\ Kind(decls[i]) # "LetDecl"
                                      \/ IsFunction(decls[i]) /\ SelfIsTyped(FuncOf(decls[i]))}
      stop  == Min(stops)
      args  == Placeholders(decls)
  IN IF stops # {}
     THEN Each(SubSeq(decls, 1, stop - 1), Check)
            \o (IF IsFunction(decls[stop]) THEN ThrowPanic ELSE Err)
     ELSE Each(decls, Check)
            \o T("template") \o Angle(CommaAfter(Kids(Kid(g, "params"), "params"), ConceptParam))
            \o T("concept") \o Param(n, "name") \o T("=")
            \o Each(Kids(Kid(g, "bounds"), "bounds"), LAMBDA b : Visit(b) \o T("&&"))
            \o T("requires")
            \o Paren(T("self") \o T("object")
                     \o When(args # <<>>,
                             T(",") \o CommaAfter(args, LAMBDA p : TypeOrSelf(Kid(Kid(p, "var"), "type"))
                                                                     \o Placeholder(p))))
            \o T("{") \o Requirements(decls)

InterDecl(n) == Later("self generic", "", n) \o Later("interface", "", n)
===============================================================================
