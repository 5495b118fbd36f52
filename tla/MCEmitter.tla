------------------------------- MODULE MCEmitter -------------------------------
(* Trees for the emitter, as the parser builds them: each kind of expression in  *)
(* each kind of statement, functions and what is nested in them, classes,        *)
(* structs and interfaces with up to two members of every kind, modules, and     *)
(* programs with and without a main.                                             *)
EXTENDS HelixEmitter

(* A tree is written as nested nodes and laid out as a heap, its root first.     *)
RECURSIVE Heap(_, _), Children1(_, _, _), Fields(_, _, _)
\* heaps of the trees ts from place at on, behind what acc holds: the nodes, and the roots
Children1(ts, at, acc) ==
  IF ts = <<>> THEN acc
  ELSE LET child == at + Len(acc.nodes)
       IN Children1(Tail(ts), at, [nodes |-> acc.nodes \o Heap(ts[1], child), ids |-> Append(acc.ids, child)])
Fields(kids, fs, at) ==
  IF fs = {} THEN [nodes |-> <<>>, kids |-> <<>>]
  ELSE LET f     == CHOOSE f \in fs : TRUE
           here  == Children1(kids[f], at, [nodes |-> <<>>, ids |-> <<>>])
           there == Fields(kids, fs \ {f}, at + Len(here.nodes))
       IN [nodes |-> here.nodes \o there.nodes, kids |-> (f :> here.ids) @@ there.kids]
Heap(t, at) ==
  LET below == Fields(t.kids, DOMAIN t.kids, at + 1)
  IN <<Node(t.kind, t.tags, below.kids)>> \o below.nodes
Trees(progs) == {Heap(p, 1) : p \in progs}

(* Names, literals, types.                                                       *)
Leaf(kind, tags) == Node(kind, tags, <<>>)
Of(kind, kids)   == Node(kind, {}, kids)
Id(name)         == Leaf("IdentExpr", {name})
Lit(tag)         == Leaf("LiteralExpr", {tag})
Path(p)          == Of("PathExpr", [path |-> <<p>>])
Scope(path, x)   == Of("ScopePathExpr", [path |-> path, access |-> <<x>>])
Opt(x)           == IF x.kind = "none" THEN <<>> ELSE <<x>>
No               == Leaf("none", {})
Ty(x)            == Of("Type", [value |-> <<x>>])
TyOf(x, args)    == Of("Type", [value |-> <<x>>, generics |-> <<Of("GenericInvokeExpr", [args |-> args])>>])
Un(tags, x)      == Node("UnaryExpr", tags, [opd |-> <<x>>])
Maybe(x)         == Node("Type", {"nullable"}, [value |-> <<Un({"in_type", "postfix", "?"}, x)>>])
Yields1(x)       == Node("Type", {"yield"}, [value |-> <<x>>])
Ptr(x)           == Ty(Un({"in_type", "*"}, x))
FnTy             == Node("Type", {"fn"}, [params |-> <<Ty(Id("i32")), Ty(Id("T"))>>, returns |-> <<Ty(Id("i32"))>>])
FnTy0            == Node("Type", {"fn"}, [params |-> <<>>, returns |-> <<>>])
I32              == Ty(Id("i32"))
Bool             == Ty(Id("bool"))

(* Declarations of variables and functions.                                      *)
Named(x, type)      == Of("NamedVarSpecifier", [path |-> <<Id(x)>>, type |-> Opt(type)])
Var(x, type, value) == Of("VarDecl", [var |-> <<Named(x, type)>>, value |-> Opt(value)])
Self                == Var("self", No, No)
Let(tags, vs)       == Node("LetDecl", tags, [vars |-> vs])
Block(body)         == Of("BlockState", [body |-> body])
Suite(body)         == Of("SuiteState", [body |-> <<Block(body)>>])
GenericBy(bounds) ==
  Of("RequiresDecl",
     [params |-> <<Of("RequiresParamList", [params |-> <<Of("RequiresParamDecl", [var |-> <<Named("T", No)>>])>>])>>,
      bounds |-> bounds])
Bound(type) ==
  Of("TypeBoundList", [bounds |-> <<Of("TypeBoundDecl", [bound |->
    <<Node("InstOfExpr", {"in_requires"}, [value |-> <<Id("T")>>, type |-> <<type>>])>>])>>])
Generic(b) == GenericBy(IF b THEN <<Bound(TyOf(Id("I"), <<Ty(Id("X"))>>))>> ELSE <<>>)
Fn(tags, x, params, type, body) ==
  Node("FuncDecl", tags, [name |-> <<Path(Id(x))>>, params |-> params, returns |-> Opt(type), body |-> Opt(body)])
With(f, g)  == [f EXCEPT !.kids = [generics |-> <<g>>] @@ @]
Anon(params, type, body) ==
  Of("FuncDecl", [params |-> params, returns |-> Opt(type), body |-> Opt(body)])
Op1(tags, tokens, f) ==
  Node("OpDecl", tags, [op |-> [i \in 1..Len(tokens) |-> Leaf("Token", {tokens[i]})], func |-> <<f>>])
Prog(children)     == Of("Program", [children |-> children])
InFunction(stmts)  == Prog(<<Fn({}, "f", <<>>, No, Suite(stmts))>>)

(* Expressions, around the name x and around each other.                         *)
Arg(x)  == Of("ArgumentExpr", [value |-> <<x>>])
Call1(path, generic, args) ==
  Of("FunctionCallExpr", [path |-> <<Path(path)>>, generic |-> Opt(generic),
                          args |-> <<Of("ArgumentListExpr", [args |-> args])>>])
KwArgs(path, n) ==
  Of("ObjInitExpr", [path |-> Opt(path),
                     kwargs |-> [i \in 1..n |-> Of("NamedArgumentExpr", [name |-> <<Id("k")>>, value |-> <<Lit("int")>>])]])
Bin(tags, a, b) == Node("BinaryExpr", tags, [lhs |-> <<a>>, rhs |-> <<b>>])
Pair(a, b)      == Of("MapPairExpr", [key |-> <<a>>, value |-> <<b>>])
Lam(params, g, body) ==
  Of("LambdaExpr", [generics |-> Opt(g), params |-> params, returns |-> <<>>, body |-> Opt(body)])
FString(args)   == Node("LiteralExpr", {"string", "format"}, [format_args |-> args])

Around(x) == {
  x, Bin({}, x, Lit("int")), Bin({"range", "inclusive"}, x, Lit("int")), Un({"-"}, x),
  Un({"postfix", "?"}, x), Of("ParenthesizedExpr", [value |-> <<x>>]),
  Call1(Id("g"), No, <<Arg(x), Arg(Lit("string"))>>),
  Call1(Scope(<<Id("a"), Id("b")>>, Id("g")), Of("GenericInvokeExpr", [args |-> <<I32, Ty(Id("T"))>>]), <<Arg(x)>>),
  Of("FunctionCallExpr", [path |-> <<Path(Id("S"))>>, args |-> <<KwArgs(Id("S"), 2)>>]),
  Of("ArrayAccessExpr", [lhs |-> <<Id("a")>>, rhs |-> <<x>>]),
  Of("DotPathExpr", [lhs |-> <<Id("self")>>, rhs |-> <<x>>]),
  Of("ArrayLiteralExpr", [values |-> <<x, Lit("int")>>]), Of("SetLiteralExpr", [values |-> <<x, Lit("int")>>]),
  Of("TupleLiteralExpr", [values |-> <<x, Lit("char")>>]),
  Of("MapLiteralExpr", [values |-> <<Pair(x, Lit("float")), Pair(Lit("raw"), x)>>]),
  Of("TernaryExpr", [condition |-> <<x>>, if_true |-> <<Lit("huge")>>, if_false |-> <<Id("y")>>]),
  Of("CastExpr", [value |-> <<x>>, type |-> <<Node("Type", {"const"}, [value |-> <<Id("T")>>])>>]),
  Of("InstOfExpr", [value |-> <<x>>, type |-> <<I32>>]),
  Node("InstOfExpr", {"derives"}, [value |-> <<x>>, type |-> <<I32>>]),
  Node("AsyncThreading", {"await"}, [value |-> <<x>>]),
  FString(<<x, Id("y")>>), Lam(<<Var("p", I32, No)>>, No, Suite(<<Of("ReturnState", [value |-> <<x>>])>>))}
Odd == {
  Node("AsyncThreading", {"spawn"}, [value |-> <<Id("x")>>]), FString(<<>>), KwArgs(Id("S"), 0),
  Un({"&"}, Lit("null")), Un({"*"}, Lit("null")), Call1(Of("DotPathExpr", [lhs |-> <<Id("a")>>, rhs |-> <<Id("b")>>]), No, <<>>),
  Call1(Id("inline_cpp"), No, <<Arg(Lit("string"))>>), Call1(Id("inline_cpp"), No, <<Arg(Id("x"))>>),
  Call1(Node("ScopePathExpr", {"global"}, [path |-> <<>>, access |-> <<Id("g")>>]), Of("GenericInvokeExpr", [args |-> <<I32>>]), <<>>),
  Lam(<<>>, Generic(TRUE), Suite(<<>>)), Of("MapLiteralExpr", [values |-> <<>>])}
Exprs == UNION {Around(y) : y \in Around(Id("x"))} \cup Odd

(* Statements.                                                                   *)
Do(x)     == Of("ExprState", [value |-> <<x>>])
Else(tags, c, body) == Node("ElseState", tags, [condition |-> Opt(c), body |-> <<Suite(body)>>])
If(tags, elses)  == Node("IfState", tags, [condition |-> <<Id("x")>>, body |-> <<Suite(<<Do(Id("y"))>>)>>, else_body |-> elses])
Case(tags, c)    == Node("SwitchCaseState", tags, [condition |-> Opt(c), body |-> <<Suite(<<Do(Id("y"))>>)>>])
ForIn(vs) ==
  Of("ForState", [core |-> <<Of("ForPyStatementCore",
    [vars |-> <<Of("NamedVarSpecifierList", [vars |-> vs])>>, range |-> <<Id("x")>>, body |-> <<Suite(<<Do(Id("y"))>>)>>])>>])
Try(fin) ==
  Of("TryState", [body |-> <<Suite(<<Do(Id("x"))>>)>>, finally_state |-> Opt(fin), catch_states |->
    <<Of("CatchState", [catch_state |-> <<Named("e", I32)>>, body |-> <<Suite(<<>>)>>]), Of("CatchState", [body |-> <<Suite(<<>>)>>])>>])
Lets == {Let({"static"}, <<Var("x", I32, Lit("int")), Var("y", Maybe(Id("T")), No)>>), Let({}, <<Var("x", No, Lit("int"))>>),
         Let({}, <<Var("x", Ptr(FnTy), No)>>), Let({}, <<Var("x", Ty(FnTy), No), Var("y", Ptr(Ty(FnTy)), No)>>),
         Let({}, <<Var("x", Ptr(Ptr(Ty(Id("T")))), No), Var("y", Ptr(Ty(Lit("null"))), No)>>),
         Let({}, <<Var("x", FnTy, No), Var("z", FnTy0, No), Var("y", Ptr(Ty(Id("T"))), Un({"&"}, Lit("null")))>>)}
Local == Fn({}, "local", <<Var("p", I32, No)>>, No, Suite(<<Do(Id("p"))>>))
Stmts == Lets \cup {
  ForIn(<<Named("i", No)>>), ForIn(<<Named("i", No), Named("j", No)>>),
  Of("ForState", [core |-> <<Of("ForCStatementCore", [init |-> <<Let({}, <<Var("i", No, Lit("int"))>>)>>,
     condition |-> <<Id("x")>>, update |-> <<Un({"postfix"}, Id("i"))>>, body |-> <<Suite(<<>>)>>])>>]),
  Of("WhileState", [condition |-> <<Id("x")>>, body |-> <<Suite(<<Leaf("BreakState", {}), Leaf("ContinueState", {})>>)>>]),
  If({"eval"}, <<Else({}, Id("z"), <<>>), Else({"else"}, No, <<>>)>>), If({"unless"}, <<Else({"unless"}, Id("z"), <<>>)>>),
  If({"const", "eval"}, <<Else({}, Id("z"), <<Do(Id("u"))>>), Else({"else"}, No, <<Do(Id("v"))>>)>>),
  Of("SwitchState", [condition |-> <<Id("x")>>, cases |-> <<Case({}, Lit("int")), Case({"fallthrough"}, Lit("int")), Case({"default"}, No)>>]),
  Try(Of("FinallyState", [body |-> <<Suite(<<Do(Id("u"))>>)>>])), Try(No),
  Of("DeleteState", [value |-> <<Id("x")>>]), Of("ReturnState", [value |-> <<>>]), Suite(<<Do(Id("x")), Leaf("ContinueState", {})>>),
  Of("PanicState", [expr |-> <<Id("x")>>]), Of("YieldState", [value |-> <<Id("x")>>]),
  Local, With(Local, Generic(TRUE)), With(Local, GenericBy(<<Bound(FnTy)>>)), Op1({}, <<"+">>, Anon(<<Var("p", I32, No)>>, No, Suite(<<>>)))}
Inner == Stmts \cup {If({}, <<>>), Try(No)} \cup {Of("IfState", [condition |-> <<Id("x")>>, body |-> <<Suite(<<s>>)>>]) : s \in Stmts}

(* Members of classes and structs.                                               *)
Mem(tags, x, params) == Fn(tags, x, params, I32, Suite(<<Do(Id("x"))>>))
Q == Var("q", I32, No)
Functions == {
  Mem({}, "C", <<Self, Q>>), Fn({}, "C", <<Self>>, No, Suite(<<>>)), Mem({}, "C", <<>>), Mem({}, "get", <<Self, Q>>),
  Mem({"private"}, "get", <<Self>>), Mem({"protected", "const"}, "get", <<Self>>), Mem({"static"}, "get", <<Q>>),
  Mem({"static"}, "get", <<Self>>), Mem({}, "get", <<Q>>), Mem({}, "get", <<Var("self", I32, No)>>),
  With(Mem({"inline", "eval"}, "get", <<Self>>), Generic(FALSE)), Fn({}, "get", <<Self>>, No, No), Mem({}, "begin", <<Self>>),
  Fn({}, "get", <<Self>>, Maybe(Id("T")), Suite(<<Of("PanicState", [expr |-> <<Id("x")>>])>>))}
Body1 == Suite(<<Do(Id("x"))>>)
Operators(f(_, _)) == {
  Op1({}, <<"+">>, f(<<Self, Q>>, I32)), Op1({"private"}, <<"[", "]">>, f(<<Self, Q>>, I32)),
  Op1({"static"}, <<"+">>, f(<<Q, Q>>, I32)), Op1({}, <<"in">>, f(<<Self>>, Yields1(Id("T")))),
  Op1({"private"}, <<"in">>, f(<<Self>>, Yields1(Id("T")))), Op1({}, <<"in">>, f(<<Self, Q>>, Bool)),
  Op1({}, <<"in">>, f(<<Self>>, I32)), Op1({}, <<"as">>, f(<<Self>>, I32)), Op1({"private"}, <<"delete">>, f(<<Self>>, No)),
  Op1({}, <<"delete">>, f(<<Self>>, No)), Op1({}, <<"panic">>, f(<<Self>>, Ty(Id("string")))),
  Op1({}, <<"?">>, f(<<Self>>, Bool)), Op1({}, <<>>, f(<<Self>>, Bool)), Op1({}, <<"+">>, f(<<Q>>, I32))}
GivesAFunction(f(_, _)) == {
  Op1({}, <<"in">>, f(<<Self, Q>>, FnTy)), Op1({}, <<"in">>, f(<<Self>>, FnTy)), Op1({}, <<"+">>, f(<<Self, Q>>, FnTy)),
  Op1({}, <<"as">>, f(<<Self>>, FnTy)), Op1({}, <<"panic">>, f(<<Self>>, FnTy)), Op1({"static"}, <<"panic">>, f(<<>>, FnTy)),
  Op1({}, <<"panic">>, f(<<>>, FnTy)), Op1({}, <<"?">>, f(<<Self>>, FnTy)), Op1({}, <<"?">>, f(<<Self, Q>>, FnTy))}
Variables == {Let({"public"}, <<Var("x", I32, No)>>), Let({}, <<Var("x", I32, Lit("int")), Var("y", I32, No)>>),
              Let({"protected", "static"}, <<Var("x", I32, No)>>),
              Of("ConstDecl", [vars |-> <<Var("x", I32, Lit("int"))>>])}
Udt(kind, x, body) == Of(kind, [name |-> <<Id(x)>>, body |-> <<Suite(body)>>])
Types == {Udt("StructDecl", "S", <<>>), Of("TypeDecl", [name |-> <<Id("A")>>, type |-> <<I32>>]),
          Of("EnumDecl", [name |-> <<Id("E")>>, derives |-> <<I32>>, members |->
            <<Of("EnumMemberDecl", [name |-> <<Id("u")>>, value |-> <<Lit("int")>>]), Of("EnumMemberDecl", [name |-> <<Id("v")>>])>>])}
Unnamed(params, type)  == Anon(params, type, Body1)
AsF(params, type)      == Fn({}, "alias", params, type, Body1)
NoBody(params, type)   == Anon(params, type, No)
ClassMembers  == Functions \cup Operators(Unnamed) \cup Variables \cup Types
StructMembers == Operators(Unnamed) \cup Variables \cup Types \cup {Mem({}, "get", <<Self>>)}
Derive(tag) == Of("UDTDeriveDecl", [derives |-> <<Node("Base", {tag}, [type |-> <<Ty(Id("B"))>>]), Node("Base", {}, [type |-> <<Ty(Id("D"))>>])>>])

UpToTwo(ms) == {<<m>> : m \in ms} \cup {<<m, n>> : m, n \in ms}
Clad(kind, body) ==
  [Udt(kind, "C", body) EXCEPT !.kids =
     [derives |-> <<Derive("private")>>,
      extends |-> IF kind = "ClassDecl" THEN <<Ty(Id("I")), TyOf(Id("J"), <<I32>>)>> ELSE <<>>] @@ @]
Classes == {Udt("ClassDecl", "C", ms) : ms \in UpToTwo(ClassMembers)}
  \cup {Udt("StructDecl", "C", ms) : ms \in UpToTwo(StructMembers)}
  \cup {Clad(k, <<m>>) : k \in {"ClassDecl", "StructDecl"}, m \in Operators(AsF) \cup Operators(NoBody) \cup GivesAFunction(Unnamed)}
  \cup {With(Clad("ClassDecl", <<>>), Generic(TRUE)), Of("ClassDecl", [name |-> <<Id("C")>>]),
        Of("StructDecl", [name |-> <<Id("C")>>, derives |-> <<Derive("internal")>>])}

(* Interfaces.                                                                   *)
Asked(tags, x, params, type) == Fn(tags, x, params, type, No)
OfSelf == Ty(Id("self"))
Plus(params) == Op1({}, <<"+">>, Fn({}, "add", params, OfSelf, No))
Bare(tags, tokens, params) == Op1(tags, tokens, NoBody(params, I32))
InterfaceMembers == {
  Asked({}, "get", <<Self, Q>>, I32), Asked({}, "get", <<Self, Var("o", OfSelf, No), Q>>, No), Asked({"static"}, "make", <<Q>>, OfSelf),
  Asked({"static"}, "make", <<Self>>, No), Mem({}, "get", <<Self, Q>>), With(Asked({}, "get", <<Self>>, No), Generic(FALSE)),
  Asked({}, "get", <<Q, Self>>, No), Asked({}, "get", <<Var("self", I32, No)>>, No),
  Plus(<<Self, Var("o", OfSelf, No)>>), Bare({}, <<"(", ")">>, <<Self, Q>>), Bare({}, <<"[", "]">>, <<Self, Q>>),
  Bare({}, <<"r++">>, <<Self>>), Bare({}, <<"-">>, <<Self>>), Bare({}, <<>>, <<Self>>), Bare({"static"}, <<"+">>, <<Q, Q>>),
  Bare({"static"}, <<"-">>, <<Q>>), Bare({}, <<"+">>, <<Q>>), Bare({}, <<"+">>, <<Self, Q, Q>>),
  Let({}, <<Var("x", I32, No), Var("y", OfSelf, No)>>), Let({"static"}, <<Var("x", I32, No)>>), Let({}, <<Var("x", I32, Lit("int"))>>),
  Let({}, <<Var("x", I32, No), Var("y", No, Lit("int")), Var("z", I32, No)>>),
  Of("ConstDecl", [vars |-> <<Var("x", I32, Lit("int"))>>]), Of("TypeDecl", [name |-> <<Id("A")>>, type |-> <<I32>>])}
AboutFunctions == {
  Asked({}, "each", <<Self, Var("f", FnTy, No)>>, No), Asked({}, "each", <<Self>>, FnTy),
  Asked({"static"}, "each", <<Var("f", Ty(FnTy), No)>>, Ty(FnTy)),
  Op1({}, <<"+">>, NoBody(<<Self, Q>>, FnTy)), Op1({}, <<"+">>, NoBody(<<Self, Var("f", FnTy, No)>>, I32)),
  Let({}, <<Var("x", I32, No), Var("f", FnTy, No)>>)}
Interface(ms) == Udt("InterDecl", "I", ms)
Interfaces == {Interface(ms) : ms \in UpToTwo(InterfaceMembers) \cup {<<m>> : m \in AboutFunctions}}
  \cup {With(Interface(<<m>>), Generic(b)) : m \in InterfaceMembers, b \in BOOLEAN}

(* Modules, and programs.                                                        *)
Module(p, body) == Of("ModuleDecl", [name |-> <<Path(p)>>, body |-> <<Suite(body)>>])
Wrapped == {Udt("ClassDecl", "C", <<Mem({}, "C", <<Self>>), Mem({}, "get", <<Self>>)>>),
            Interface(<<Asked({}, "get", <<Self, Q>>, I32)>>), Fn({}, "g", <<>>, No, Suite(<<Do(Id("x"))>>)),
            Module(Id("n"), <<Let({}, <<Var("x", I32, No)>>)>>)}
Modules == {Module(p, <<w>>) : w \in Wrapped, p \in {Id("m"), Scope(<<Id("a")>>, Id("b")), Scope(<<Id("a"), Id("b")>>, Id("c")), Scope(<<>>, Id("a"))}}

Main1 == Fn({}, "main", <<Var("n", I32, No), Var("v", Ptr(Ty(Id("T"))), No)>>, I32, Suite(<<Of("ReturnState", [value |-> <<Lit("int")>>])>>))
Main2 == Fn({}, "_main", <<>>, No, Suite(<<Do(Id("x"))>>))
Main3 == Fn({}, "main", <<>>, I32, No)
Import(tags, p) == Of("ImportState", [import |-> <<Node("SingleImport", tags, [path |-> <<p>>])>>])
FFI(lang, tags, p) == Of("FFIDecl", [name |-> <<Leaf("LiteralExpr", {lang})>>, value |-> <<Import(tags, p)>>])
Tops == {Main1, Main2, Main3, Fn({}, "g", <<>>, No, Suite(<<Do(Id("x"))>>)), Let({}, <<Var("x", I32, Lit("int")), Var("y", I32, No)>>),
         FFI("c++", {}, Lit("string")), FFI("c++", {"module"}, Scope(<<Id("a"), Id("b")>>, Id("c"))), FFI("py", {}, Lit("string"))}
Note(args) == Call1(Id("trivially_import"), No, args)
Annotated(p, args) == [p EXCEPT !.kids = [annotations |-> <<Note(args)>>] @@ @]
Whole == {Prog(ms) : ms \in UpToTwo(Tops)} \cup {Prog(<<a, b, Main1>>) : a, b \in Tops}
  \cup {Annotated(Prog(ms), args) : ms \in UpToTwo({Main1, Main2} \cup Wrapped), args \in {<<>>, <<Arg(Lit("bool"))>>}}

MCPrograms ==
  Trees({InFunction(<<Do(x)>>) : x \in Exprs}
        \cup {InFunction(<<s>>) : s \in Inner} \cup {InFunction(<<s, Do(Id("x"))>>) : s \in Stmts}
        \cup {Prog(<<d>>) : d \in Classes \cup Interfaces \cup Modules} \cup Whole)

(* What was written in Helix is written in C++.                                  *)
Leaves     == {n \in Nodes : Kind(n) \in {"IdentExpr", "LiteralExpr"} /\ ~Has(n, "self")}
Emitted(n) == \E i \in 1..Len(out) : out[i].of = n
Below1(n)  == UNION {ToSet(Kids(n, f)) : f \in DOMAIN ast[n].kids}
RECURSIVE Below(_)
Below(ns) == IF ns = {} THEN {} ELSE ns \cup Below(UNION {Below1(n) : n \in ns})

\* what a visit leaves out: notes, the language of an ffi, the end of a module's
\* path, the arguments of what an interface asks for, the signature of a
\* destructor, what a generic class extends, the result of a constructor, and
\* what is asked of a generic that is said to be a function pointer
AskedArg(n) ==
  \E m \in Nodes : /\ Kind(m) = "InterDecl"
                   /\ \E d \in ToSet(Statements(Kid(m, "body"))) : IsFunction(d) /\ Contains(Args(d), n)
Destroys(n) ==
  \E m \in Nodes : Kind(m) = "OpDecl" /\ Op(m, "delete") /\ Kid(m, "func") = n /\ Owners(m) # {}
Silent(n) ==
  CASE Kind(n) = "Program" -> {"annotations"}
    [] Kind(n) = "FFIDecl" -> {"name"}
    [] Kind(n) = "ScopePathExpr" /\ (\E m \in Nodes : PathModule(m) /\ Kid(Kid(m, "name"), "path") = n) -> {"access"}
    [] Kind(n) = "VarDecl" /\ AskedArg(n) -> {"var"}
    [] Kind(n) = "FuncDecl" /\ Destroys(n) -> {"name", "params", "generics"}
    [] Kind(n) = "Type" /\ FnPointer(n) -> {"generics"}
    [] Kind(n) = "ClassDecl" /\ Kid(n, "generics") # Null -> {"extends"}
    [] Kind(n) = "FuncDecl" /\ (\E c \in Owners(n) : Constructs(c, n)) -> {"returns"}
    [] Kind(n) = "FunctionCallExpr" /\ Has(BackIdent(Kid(n, "path")), "inline_cpp") -> {"path"}
    [] OTHER -> {}
LeftOut == Below(UNION {UNION {ToSet(Kids(n, f)) : f \in Silent(n)} : n \in Nodes})
\* the name of an object that a call is made of, which the call has too
Renamed == {n \in Leaves : \A m \in Nodes : n \notin Below1(m)}

\* Every name and literal of a program that is written without an error is in
\* the C++ it becomes, or it is one of the few that a visit leaves out.
NothingIsLost == Written => \A n \in Leaves \ (LeftOut \cup Renamed) : Emitted(n)
===============================================================================
