------------------------------- MODULE EmitDecls -------------------------------
(* The visit functions of CX_Decls.cc, CX_Function.cc and CX_Operator.cc, and the *)
(* helpers of utils.hh they share with classes and interfaces.                    *)
EXTENDS EmitStates

\* get_back_name of a PathExpr
BackIdent(n) == BackName(Kid(n, "path"))

(* Generics, and the lists and names of declarations.                            *)
RequiresParamDecl(n) ==
  LET var == Kid(n, "var")
  IN IF Has(n, "const") /\ Kid(var, "type") = Null THEN Err
     ELSE (IF Kid(var, "type") = Null THEN T("typename") ELSE Must(var, "type"))
            \o Param(var, "path") \o When(Kid(n, "value") # Null, T("=") \o Must(n, "value"))
RequiresParamList(n) == CommaSep(n, "params")
TypeBoundList(n)     == Between(Kids(n, "bounds"), T("&&"))
TypeBoundDecl(n)     == Param(n, "bound")
RequiresDecl(n)      == T("template") \o Angle(Param(n, "params")) \o Requires(n)

EnumMemberDecl(n) == Param(n, "name") \o When(Kid(n, "value") # Null, T("=") \o Must(n, "value"))
EnumDecl(n) ==
  T("enum") \o When(Kid(n, "name") # Null, T("class") \o Must(n, "name"))
    \o When(Kid(n, "derives") # Null, T(":") \o Must(n, "derives"))
    \o Brace(CommaSep(n, "members")) \o T(";")

\* a base, behind how it is inherited; internal is not implemented
Base(d) == (IF Has(d, "internal") THEN Throw
            ELSE T(IF Has(d, "protected") THEN "protected"
                   ELSE IF Has(d, "private") THEN "private" ELSE "public"))
             \o Param(d, "type")
UDTDeriveDecl(n) ==
  Cat([i \in 1..Len(Kids(n, "derives")) |-> When(i > 1, T(",")) \o Base(Kids(n, "derives")[i])])

TypeDecl(n) == Param(n, "generics") \o T("using") \o Param(n, "name") \o T("=") \o Param(n, "type")

(* A module.  Of a path every name but the last (which is the access of the      *)
(* path) opens a namespace; braces are opened again where they should close,    *)
(* and the body is visited twice.  A path of nothing but the access asks for    *)
(* 2^64 - 1 braces.                                                             *)
ModuleDecl(n) ==
  LET name  == Kid(Kid(n, "name"), "path")
      parts == Kids(name, "path")
      inner == SubSeq(parts, 1, Len(parts) - 1)
  IN When(Has(n, "inline"), T("inline"))
     \o (IF Kind(name) # "ScopePathExpr" THEN T("namespace") \o Must(n, "name")
         ELSE IF parts = <<>> THEN Must(n, "body") \o Never
         ELSE Each(inner, LAMBDA p : T("namespace") \o Visit(p) \o T("{"))
                \o T("namespace") \o Visit(Last(parts)) \o Must(n, "body")
                \o Each(inner, LAMBDA p : T("{")))
     \o Body(n)

(* A foreign import: a header, or a module of C++.                              *)
ImportModule(path) ==
  T("import") \o Each(Kids(path, "path"), LAMBDA p : Visit(p) \o T("."))
    \o When(Kids(path, "path") # <<>>, Must(path, "access")) \o T(";")
FFIDecl(n) ==
  LET import == Kid(n, "value")
      single == Kid(import, "import")
  IN IF ~Has(Kid(n, "name"), "c++") \/ Kind(import) # "ImportState"
        \/ Kind(single) # "SingleImport" THEN Throw
     ELSE IF Has(single, "module") THEN ImportModule(Kid(single, "path"))
     ELSE T("#include") \o Src(Kid(single, "path"), "lit")

(* add_func_modifiers: const and eval make consteval when const comes first,    *)
(* and constexpr otherwise; add_func_specifiers: a const stands behind as well. *)
Modifiers(n) ==
  When(Has(n, "inline"), T("inline")) \o When(Has(n, "static"), T("static"))
    \o When(Has(n, "eval"),
            T(IF Has(n, "const") /\ Has(n, "const first") THEN "consteval" ELSE "constexpr"))
Specifiers(n) == When(Has(n, "const"), T("const"))

(* check_for_yield_and_panic: the statements of the body itself ask something of *)
(* the result, which a function need not have.                                  *)
Statements(body) == Kids(Kid(body, "body"), "body")
Does(body, kind) == \E i \in 1..Len(Statements(body)) : Kind(Statements(body)[i]) = kind

CheckForYieldAndPanic(body, returns) ==
  When(body # Null,
       When(Does(body, "PanicState"), Follow(returns) \o When(~Has(returns, "nullable"), Err))
       \o When(Does(body, "YieldState"), Follow(returns) \o When(~Has(returns, "yield"), Err)))

(* ModifyNestedFunctions: each statement of a body, after a semicolon; a function *)
(* becomes a lambda.  All of them are erased from the body behind it.            *)
NestedFunction(f) ==
  LET g == Kid(f, "generics")
  IN When(Kid(f, "name") # Null, T("auto") \o Src(BackIdent(Kid(f, "name")), "name") \o T("="))
     \o Bracket(<<>>) \o When(g # Null, Angle(Must(g, "params")))
     \o Paren(CommaSep(f, "params")) \o T("->") \o Returned(f)
     \o When(g # Null, Requires(g)) \o Must(f, "body") \o T(";")
ModifyNested(s) ==
  T(";") \o (CASE Kind(s) = "FuncDecl" -> NestedFunction(s)
               [] Kind(s) = "OpDecl"   -> Err
               [] Kind(s) = "LetDecl"  -> VisitAs(s, "statement") \o T(";")
               [] OTHER                -> Visit(s))

Definition(f) ==
  LET block == Kid(Kid(f, "body"), "body")
  IN IF block = Null THEN T(";")
     ELSE Brace(Each(Kids(block, "body"), ModifyNested) \o Set(block, "body", <<>>))

\* visit(FuncDecl, no_return_t): a constructor has no result
FuncDecl(n, constructor) ==
  Param(n, "generics") \o Modifiers(n) \o CheckForYieldAndPanic(Kid(n, "body"), Kid(n, "returns"))
    \o When(~constructor, T("auto")) \o Param(n, "name") \o Paren(CommaSep(n, "params"))
    \o Specifiers(n) \o When(~constructor, T("->") \o Returned(n))
    \o Definition(n)

(* contains_self_static: self is the name of the first parameter; with a type or *)
(* a value a Panic is thrown.                                                    *)
SelfParam(f)  == Kid(Kid(Kid(f, "params"), "var"), "path")
HasSelf(f)    == Has(SelfParam(f), "self")
SelfIsTyped(f) ==
  HasSelf(f) /\ (Kid(Kid(Kid(f, "params"), "var"), "type") # Null
                 \/ Kid(Kid(f, "params"), "value") # Null)

\* handle_static_self_fn_decl: a member has a self or is static, and loses its self
HandleSelf(f, static) ==
  When(~static /\ ~HasSelf(f), Err \o Mark(f, "static")) \o When(static /\ HasSelf(f), Err)
    \o When(HasSelf(f), Set(f, "params", Tail(Kids(f, "params"))))
===============================================================================
