------------------------------- MODULE EmitTypes -------------------------------
(* Operators (CX_Operator.cc), and the classes and structs that hold them         *)
(* (CX_Class.cc, CX_Struct.cc).                                                   *)
EXTENDS EmitDecls

Op(n, token) == Len(Kids(n, "op")) = 1 /\ Has(Kid(n, "op"), token)

\* the name of a type that is a plain name
ResultIs(f, name) ==
  Kind(Kid(Kid(f, "returns"), "value")) = "IdentExpr" /\ Has(Kid(Kid(f, "returns"), "value"), name)

\* det_t comes to ask what the result is made of, which of a function pointer
\* is nothing
LooksAtResult(n) ==
  LET f      == Kid(n, "func")
      params == Len(Kids(f, "params"))
      alone  == HasSelf(f) /\ params = 1
      static == Has(n, "static")
  IN /\ Kid(f, "returns") # Null
     /\ \/ Op(n, "in") /\ HasSelf(f) /\ params = 2 /\ ~static
        \/ Op(n, "panic") /\ (alone \/ (static /\ params = 0))
        \/ Op(n, "?") /\ alone

(* OpType::det_t: what a member operator is, by its token and its signature.      *)
OpTypeOf(n) ==
  LET f      == Kid(n, "func")
      member == HasSelf(f) /\ Len(Kids(f, "params")) = 1 /\ ~Has(n, "static")
      result == Kid(f, "returns")
  IN CASE Op(n, "in") ->
            IF member /\ Has(result, "yield") THEN "generator"
            ELSE IF LooksAtResult(n) /\ ResultIs(f, "bool") THEN "contains" ELSE "error"
       [] Op(n, "as")     -> IF member /\ result # Null THEN "cast" ELSE "error"
       [] Op(n, "delete") -> IF member /\ result = Null THEN "delete" ELSE "error"
       [] Op(n, "panic")  ->
            IF LooksAtResult(n) /\ ResultIs(f, "string") THEN "panic" ELSE "none"
       [] Op(n, "?") ->
            IF LooksAtResult(n) /\ ResultIs(f, "bool") THEN "question" ELSE "error"
       [] OTHER -> "none"

\* what det_t reports; a panic operator that is none is an operator like others
OpCheck(n) ==
  When(LooksAtResult(n), Follow(Kid(Kid(Kid(n, "func"), "returns"), "value")))
    \o When(OpTypeOf(n) = "error" \/ (Op(n, "panic") /\ OpTypeOf(n) = "none"), Err)

(* visit(OpDecl, in_udt), in three parts, as parameters come and go between them. *)
(* A member operator without a token has none to be reported at.                  *)
OpDecl(n, udt) ==
  LET f == Kid(n, "func")
      t == IF udt THEN OpTypeOf(n) ELSE "none"
  IN IF udt /\ Kids(n, "op") = <<>> THEN Follow(Null)
     ELSE IF udt /\ SelfIsTyped(f) THEN ThrowPanic
     ELSE When(udt, OpCheck(n))
            \o When(t # "error",
                    Adopt(f, n)
                      \o (IF udt THEN HandleSelf(f, Has(n, "static"))
                          ELSE IF SelfIsTyped(f) THEN ThrowPanic ELSE When(HasSelf(f), Err))
                      \o CheckForYieldAndPanic(Kid(f, "body"), Kid(f, "returns"))
                      \o Later("operator", t, n))

\* a generator keeps its state in a member of its own
GeneratorState(f) ==
  T("private") \o T(":") \o T("mutable") \o Param(f, "returns") \o T("$gen_state") \o T("=")
    \o T("operator$generator") \o Paren(<<>>) \o T(";") \o T("public") \o T(":")

OperatorTokens(n) == T("operator") \o Each(Kids(n, "op"), LAMBDA o : Src(o, "op"))
Internal == [generator |-> "operator$generator", contains |-> "operator$contains",
             cast |-> "operator$cast", panic |-> "operator$panic",
             question |-> "operator$question"]

\* panic and ? are given no name here
OpHead(n, t) ==
  LET f == Kid(n, "func")
  IN When(t = "generator", GeneratorState(f))
     \o Param(f, "generics") \o When(~Has(n, "inline"), T("inline")) \o Modifiers(n) \o T("auto")
     \o (CASE t = "none" -> OperatorTokens(n)
           [] t \in {"generator", "contains"} -> T(Internal[t])
           [] t = "cast" -> T(Internal[t]) \o Later("cast", "", f)
           [] OTHER -> <<>>)
     \o Later("signature", t, n)

\* the function that the operator is named as calls it
OpAlias(n, t) ==
  LET f == Kid(n, "func")
  IN Param(f, "generics") \o Modifiers(n) \o T("auto") \o Param(f, "name")
     \o Paren(CommaSep(f, "params")) \o Specifiers(n) \o T("->") \o Returned(f)
     \o Brace(T("return") \o When(t = "none", OperatorTokens(n))
              \o When(t \in DOMAIN Internal, T(Internal[t]))
              \o Paren(CommaAfter(Kids(f, "params"), LAMBDA p : Must(Kid(p, "var"), "path")))
              \o T(";"))

Iterator(name) ==
  T("auto") \o T(name) \o Paren(<<>>)
    \o Brace(T("return") \o T("$gen_state") \o T(".") \o T(name) \o Paren(<<>>) \o T(";"))
ExplicitCast(f) ==
  T("explicit") \o T("operator") \o Must(f, "returns") \o Paren(<<>>)
    \o Brace(T("return") \o T("operator$cast") \o Angle(Must(f, "returns"))
             \o Paren(T("static_cast") \o Angle(Must(f, "returns") \o T("*"))
                      \o Paren(T("nullptr")) \o T(";")))

OpRest(n, t) ==
  LET f == Kid(n, "func")
  IN Paren(CommaAfter(Kids(f, "params"), Visit)) \o Specifiers(n) \o T("->") \o Returned(f)
     \o Definition(f) \o When(Kid(f, "name") # Null, OpAlias(n, t))
     \o When(t = "generator", Iterator("begin") \o Iterator("end"))
     \o When(t = "cast", ExplicitCast(f))

(* The special members that a class or struct is given; those called deleted are *)
(* defaulted too.                                                               *)
Given(moves) == T("public") \o T(":") \o moves \o T("=") \o T("default") \o T(";")
Special(c, what) ==
  LET N == Src(Kid(c, "name"), "name")
      byConst == T("const") \o N \o T("&")
      byRef   == N \o T("&")
      assign  == N \o T("&") \o T("operator") \o T("=")
  IN CASE what = "constructor" -> Given(N \o Paren(<<>>))
       [] what = "destructor"  -> Given(T("~") \o N \o Paren(<<>>))
       [] what = "copy"        -> Given(N \o Paren(byConst))
       [] what = "copy assign" -> Given(assign \o Paren(byConst))
       [] what = "move"        -> Given(N \o Paren(byRef) \o T("noexcept"))
       [] OTHER                -> Given(assign \o Paren(byRef) \o T("noexcept"))

\* A mistake: a variable of a class is public, like its functions.
LabelAllPublic(n, default) ==
  T(IF Has(n, "protected") THEN "protected" ELSE IF Has(n, "private") THEN "private" ELSE "public")
    \o T(":")

(* add_visibility: functions and operators are public unless they say otherwise, *)
(* so are the variables of a struct; those of a class are private.               *)
Label(n, default) ==
  T(IF Has(n, "protected") THEN "protected"
    ELSE IF default = "public" THEN IF Has(n, "private") THEN "private" ELSE "public"
    ELSE IF Has(n, "public") THEN "public" ELSE "private")
    \o T(":")

Constructs(c, f) == SameName(BackIdent(Kid(f, "name")), Kid(c, "name"))

\* a constructor without a self, or a static one, is left out
ClassFunction(c, f) ==
  IF SelfIsTyped(f) THEN ThrowPanic
  ELSE IF Constructs(c, f) /\ (~HasSelf(f) \/ Has(f, "static")) THEN Err
  ELSE HandleSelf(f, Has(f, "static")) \o Label(f, "public")
         \o VisitAs(f, IF Constructs(c, f) THEN "constructor" ELSE "")

\* begin or end without parameters, at the time it is asked: those that stand
\* above have lost their self by then
Iterates(c) ==
  \E i \in 1..Len(Statements(Kid(c, "body"))) :
    LET m == Statements(Kid(c, "body"))[i]
    IN /\ Kind(m) = "FuncDecl" /\ Kids(m, "params") = <<>>
       /\ (Has(BackIdent(Kid(m, "name")), "begin") \/ Has(BackIdent(Kid(m, "name")), "end"))

Destructor(c, m) ==
  When(Has(m, "protected") \/ Has(m, "private"), Err) \o T("public") \o T(":")
    \o T("~") \o Src(Kid(c, "name"), "name") \o Paren(<<>>) \o Must(Kid(m, "func"), "body")

MemberOperator(c, m) ==
  LET f == Kid(m, "func")
  IN IF Kids(m, "op") = <<>> THEN Follow(Null)
     ELSE IF SelfIsTyped(f) THEN ThrowPanic
     ELSE Adopt(f, m) \o OpCheck(m)
          \o (CASE OpTypeOf(m) = "error"  -> <<>>
                [] OpTypeOf(m) = "delete" -> Destructor(c, m)
                [] OTHER -> When(OpTypeOf(m) = "generator" /\ Iterates(c), Err)
                              \o Label(m, "public") \o VisitAs(m, "udt"))

ClassMember(c, m) ==
  CASE Kind(m) = "FuncDecl" -> ClassFunction(c, m)
    [] Kind(m) = "OpDecl"   -> MemberOperator(c, m)
    [] Kind(m) \in {"LetDecl", "ConstDecl"} -> Label(m, "private") \o Visit(m) \o T(";")
    [] OTHER -> Visit(m) \o T(";")

\* a struct has no functions, and its operators have no names
StructMember(c, m) ==
  CASE Kind(m) = "OpDecl" ->
         IF Kid(Kid(m, "func"), "name") # Null THEN Err ELSE MemberOperator(c, m)
    [] Kind(m) \in {"LetDecl", "ConstDecl"} -> Label(m, "public") \o Visit(m) \o T(";")
    [] Kind(m) \in {"EnumDecl", "StructDecl", "TypeDecl"} -> Visit(m) \o T(";")
    [] OTHER -> Err

Member(c, m) == IF Kind(c) = "ClassDecl" THEN ClassMember(c, m) ELSE StructMember(c, m)
Members(c) ==
  Each(Statements(Kid(c, "body")), LAMBDA m : <<[Move("member", "", c) EXCEPT !.ids = <<m>>]>>)

HasConstructor(c) ==
  \E i \in 1..Len(Statements(Kid(c, "body"))) :
    LET m == Statements(Kid(c, "body"))[i]
    IN Kind(m) = "FuncDecl" /\ Constructs(c, m) /\ HasSelf(m) /\ ~Has(m, "static")
HasDestructor(c) ==
  \E i \in 1..Len(Statements(Kid(c, "body"))) :
    LET m == Statements(Kid(c, "body"))[i]
    IN /\ Kind(m) = "OpDecl" /\ OpTypeOf(m) = "delete"
       /\ Kind(c) = "StructDecl" => Kid(Kid(m, "func"), "name") = Null

Derives(n) == When(Kid(n, "derives") # Null, T(":") \o Must(n, "derives"))

\* what a class says it is, asked of the compiler; not of a class with generics.
\* (That a function pointer or a nullable is not allowed here is said by an
\* error that is made and dropped.)
Asserts(n) ==
  When(Kid(n, "generics") = Null,
       Each(Kids(n, "extends"),
            LAMBDA e : T("static_assert")
                         \o Paren(Hang(e, Kid(n, "name")) \o Visit(e) \o T(",") \o T("text"))
                         \o T(";")))

ClassDecl(n) ==
  Param(n, "generics") \o T("class") \o Param(n, "name") \o Derives(n)
    \o When(Kid(n, "body") # Null,
            Brace(Members(n)
                  \o When(~HasConstructor(n), Special(n, "constructor"))
                  \o When(~HasDestructor(n), Special(n, "destructor"))
                  \o Special(n, "copy") \o Special(n, "copy assign")
                  \o Special(n, "move") \o Special(n, "move assign")))
    \o T(";") \o Asserts(n)

StructDecl(n) ==
  Param(n, "generics") \o T("struct") \o Param(n, "name") \o Derives(n)
    \o When(Kid(n, "body") # Null,
            Brace(Members(n) \o When(~HasDestructor(n), Special(n, "destructor"))
                  \o Special(n, "copy assign") \o Special(n, "move assign")))
    \o T(";")
===============================================================================
