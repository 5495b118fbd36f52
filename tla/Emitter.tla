-------------------------------- MODULE Emitter --------------------------------
(* CX-IR generation (source/generator/source/CX-IR): the visitor that walks the    *)
(* tree of a program and writes C++ tokens.  The visit functions are data, moves   *)
(* of module EmitSteps; this module is the machine that makes one move at a time,  *)
(* and Program::visit.                                                             *)
(*                                                                                 *)
(* The stack of calls is work, the moves still to be made: visiting a node puts    *)
(* the moves of its class in front of what is left of the caller's.  What a visit  *)
(* changes in the tree is seen by every visit after it.                            *)
EXTENDS EmitInterface

CONSTANT Programs   \* the trees that may come from the parser; the root is node 1

ASSUME ProgramsAssumption == \A tree \in Programs : IsTree(tree)

VARIABLES work,      \* the moves left to make
          out,       \* tokens: what was written, and the node whose token it is
          status,    \* run, done; panic and thrown: an exception of either kind;
                     \* crash: a null pointer followed; wild: memory exhausted
          errored    \* error::HAS_ERRORED

vars == <<ast, work, out, status, errored>>

Statuses == {"run", "done", "panic", "thrown", "crash", "wild"}
Root == 1

(* Program::visit.  Foreign imports are written first and leave the tree.          *)
MainNames == {"main", "_main", "wmain", "WinMain", "wWinMain", "_tmain", "_tWinMain"}

\* get_name_t: a path's access is not part of the name
NameOf(f) ==
  LET p == Kid(Kid(f, "name"), "path")
  IN IF Kind(p) = "ScopePathExpr" THEN Kids(p, "path") ELSE <<p>>
\* A file has no entry of another name: Program's member for one (AST_base.hh:146)
\* is never assigned.
IsMain(n) ==
  /\ Kind(n) = "FuncDecl" /\ Len(NameOf(n)) = 1
  /\ \E m \in MainNames : Has(NameOf(n)[1], m)

\* contains_trivial_import_directive: what the argument says is not looked at
\* (the validators are copied into their base class)
TriviallyImports(p) ==
  \E i \in 1..Len(Kids(p, "annotations")) :
    LET call == Kids(p, "annotations")[i]
        args == Kid(call, "args")
    IN /\ Kind(call) = "FunctionCallExpr" /\ Has(BackIdent(Kid(call, "path")), "trivially_import")
       /\ Kind(args) = "ArgumentListExpr" /\ Len(Kids(args, "args")) = 1
       /\ Kind(Kid(args, "args")) = "ArgumentExpr"

Children(p) == Each(Kids(p, "children"), LAMBDA c : When(Kind(c) # "FFIDecl", <<c>>))
Foreign(p)  == Each(Kids(p, "children"), LAMBDA c : When(Kind(c) = "FFIDecl", <<c>>))

\* The last main there is stays; each is checked.
Mains(p) == Each(Children(p), LAMBDA c : When(IsMain(c), <<c>>))
MainErrors(p) ==
  When(Len(Mains(p)) > 1, Err) \o Each(Mains(p), LAMBDA m : When(Kid(m, "returns") = Null, Err))

Child(c) ==
  IF IsMain(c) THEN <<>>
  ELSE IF Kind(c) = "LetDecl" THEN VisitAs(c, "statement") ELSE Visit(c)

Program(p) ==
  LET main   == Last(Mains(p))
      closes == When(~TriviallyImports(p), T("}")) \o T("}")
  IN Each(Foreign(p), Visit) \o Set(p, "children", Children(p))
       \o T("#ifndef") \o T("guard") \o T("#define") \o T("guard")
       \o T("namespace") \o T("helix") \o T("{")
       \o When(~TriviallyImports(p), T("namespace") \o T("file") \o T("{"))
       \o MainErrors(p) \o Each(Children(p), Child)
       \o (IF Mains(p) = <<>> THEN closes
           ELSE Visit(main) \o closes \o Later("main", "", main) \o Visit(main))
       \o T("#endif")

(* What accept dispatches on: the class of the node, and the second argument of    *)
(* the visit where it has one.                                                     *)
ExprMoves(n, a) ==
  CASE Kind(n) = "LiteralExpr" -> LiteralExpr(n)     [] Kind(n) = "BinaryExpr" -> BinaryExpr(n)
    [] Kind(n) = "UnaryExpr" -> UnaryExpr(n)         [] Kind(n) = "IdentExpr" -> IdentExpr(n)
    [] Kind(n) = "NamedArgumentExpr" -> NamedArgumentExpr(n)
    [] Kind(n) = "ArgumentExpr" -> ArgumentExpr(n)
    [] Kind(n) = "ArgumentListExpr" -> ArgumentListExpr(n)
    [] Kind(n) = "GenericInvokeExpr" -> GenericInvokeExpr(n)
    [] Kind(n) = "ScopePathExpr" -> ScopePathExpr(n, a # "no access")
    [] Kind(n) = "DotPathExpr" -> DotPathExpr(n)     [] Kind(n) = "ArrayAccessExpr" -> ArrayAccessExpr(n)
    [] Kind(n) = "PathExpr" -> PathExpr(n)           [] Kind(n) = "FunctionCallExpr" -> FunctionCallExpr(n)
    [] Kind(n) = "ArrayLiteralExpr" -> ArrayLiteralExpr(n)
    [] Kind(n) = "TupleLiteralExpr" -> TupleLiteralExpr(n)
    [] Kind(n) = "SetLiteralExpr" -> SetLiteralExpr(n)
    [] Kind(n) = "MapPairExpr" -> MapPairExpr(n)     [] Kind(n) = "MapLiteralExpr" -> MapLiteralExpr(n)
    [] Kind(n) = "ObjInitExpr" -> ObjInitExpr(n)     [] Kind(n) = "LambdaExpr" -> LambdaExpr(n)
    [] Kind(n) = "TernaryExpr" -> TernaryExpr(n)     [] Kind(n) = "CastExpr" -> CastExpr(n)
    [] Kind(n) = "ParenthesizedExpr" -> ParenthesizedExpr(n)
    [] Kind(n) = "InstOfExpr" -> InstOfExpr(n)       [] Kind(n) = "AsyncThreading" -> AsyncThreading(n)
    [] Kind(n) = "Type" -> Type(n)

StateMoves(n, a) ==
  CASE Kind(n) = "NamedVarSpecifier" -> NamedVarSpecifier(n, a = "omit")
    [] Kind(n) = "NamedVarSpecifierList" -> NamedVarSpecifierList(n, a = "omit")
    [] Kind(n) = "ForPyStatementCore" -> ForPyStatementCore(n)
    [] Kind(n) = "ForCStatementCore" -> ForCStatementCore(n)
    [] Kind(n) = "ForState" -> ForState(n)           [] Kind(n) = "WhileState" -> WhileState(n)
    [] Kind(n) = "ElseState" -> ElseState(n)         [] Kind(n) = "IfState" -> IfState(n)
    [] Kind(n) = "SwitchCaseState" -> SwitchCaseState(n)
    [] Kind(n) = "SwitchState" -> SwitchState(n)     [] Kind(n) = "YieldState" -> YieldState(n)
    [] Kind(n) = "DeleteState" -> DeleteState(n)     [] Kind(n) = "ReturnState" -> ReturnState(n)
    [] Kind(n) = "BreakState" -> BreakState(n)       [] Kind(n) = "ContinueState" -> ContinueState(n)
    [] Kind(n) = "ExprState" -> ExprState(n)         [] Kind(n) = "PanicState" -> PanicState(n)
    [] Kind(n) = "ImportState" -> ImportState(n)     [] Kind(n) = "BlockState" -> BlockState(n)
    [] Kind(n) = "SuiteState" -> SuiteState(n)       [] Kind(n) = "CatchState" -> CatchState(n)
    [] Kind(n) = "FinallyState" -> FinallyState(n)   [] Kind(n) = "TryState" -> TryState(n)

DeclMoves(n, a) ==
  CASE Kind(n) = "ConstDecl" -> ConstDecl(n)         [] Kind(n) = "VarDecl" -> VarDecl(n)
    [] Kind(n) = "LetDecl" -> LetDecl(n, a = "statement")
    [] Kind(n) = "FuncDecl" -> FuncDecl(n, a = "constructor")
    [] Kind(n) = "OpDecl" -> OpDecl(n, a = "udt")    [] Kind(n) = "ClassDecl" -> ClassDecl(n)
    [] Kind(n) = "StructDecl" -> StructDecl(n)       [] Kind(n) = "InterDecl" -> InterDecl(n)
    [] Kind(n) = "ModuleDecl" -> ModuleDecl(n)       [] Kind(n) = "EnumDecl" -> EnumDecl(n)
    [] Kind(n) = "EnumMemberDecl" -> EnumMemberDecl(n)
    [] Kind(n) = "TypeDecl" -> TypeDecl(n)           [] Kind(n) = "FFIDecl" -> FFIDecl(n)
    [] Kind(n) = "UDTDeriveDecl" -> UDTDeriveDecl(n) [] Kind(n) = "RequiresDecl" -> RequiresDecl(n)
    [] Kind(n) = "RequiresParamList" -> RequiresParamList(n)
    [] Kind(n) = "RequiresParamDecl" -> RequiresParamDecl(n)
    [] Kind(n) = "TypeBoundList" -> TypeBoundList(n) [] Kind(n) = "TypeBoundDecl" -> TypeBoundDecl(n)
    [] Kind(n) = "Program" -> Program(n)

Expression == {"LiteralExpr", "BinaryExpr", "UnaryExpr", "IdentExpr", "NamedArgumentExpr",
               "ArgumentExpr", "ArgumentListExpr", "GenericInvokeExpr", "ScopePathExpr",
               "DotPathExpr", "ArrayAccessExpr", "PathExpr", "FunctionCallExpr",
               "ArrayLiteralExpr", "TupleLiteralExpr", "SetLiteralExpr", "MapPairExpr",
               "MapLiteralExpr", "ObjInitExpr", "LambdaExpr", "TernaryExpr", "CastExpr",
               "ParenthesizedExpr", "InstOfExpr", "AsyncThreading", "Type"}
Statement == {"NamedVarSpecifier", "NamedVarSpecifierList", "ForPyStatementCore",
              "ForCStatementCore", "ForState", "WhileState", "ElseState", "IfState",
              "SwitchCaseState", "SwitchState", "YieldState", "DeleteState", "ReturnState",
              "BreakState", "ContinueState", "ExprState", "PanicState", "ImportState",
              "BlockState", "SuiteState", "CatchState", "FinallyState", "TryState"}
Declaration == {"ConstDecl", "VarDecl", "LetDecl", "FuncDecl", "OpDecl", "ClassDecl",
                "StructDecl", "InterDecl", "ModuleDecl", "EnumDecl", "EnumMemberDecl",
                "TypeDecl", "FFIDecl", "UDTDeriveDecl", "RequiresDecl", "RequiresParamList",
                "RequiresParamDecl", "TypeBoundList", "TypeBoundDecl", "Program"}
Moves(n, a) == IF Kind(n) \in Statement THEN StateMoves(n, a)
               ELSE IF Kind(n) \in Declaration THEN DeclMoves(n, a) ELSE ExprMoves(n, a)
-------------------------------------------------------------------------------
Init ==
  /\ ast \in Programs
  /\ work = Visit(Root) /\ out = <<>> /\ status = "run" /\ errored = FALSE

\* the next move is one of these
Next1(ops) == IF status = "run" /\ work # <<>> /\ work[1].op \in ops THEN {work[1]} ELSE {}

Emit ==
  \E m \in Next1({"emit"}) :
    /\ out' = Append(out, [t |-> m.text, of |-> m.of])
    /\ work' = Tail(work)
    /\ UNCHANGED <<ast, status, errored>>

VisitNode ==
  \E m \in Next1({"visit"}) :
    /\ m.of # Null /\ Kind(m.of) \in Expression \cup Statement \cup Declaration
    /\ work' = Moves(m.of, m.text) \o Tail(work)
    /\ UNCHANGED <<ast, out, status, errored>>

\* a visit put off until the tree was changed goes on
GoOn ==
  \E m \in Next1({"member", "operator", "signature", "interface"}) :
    /\ work' = (CASE m.op = "member"    -> Member(m.of, m.ids[1])
                  [] m.op = "operator"  -> OpHead(m.of, m.text)
                  [] m.op = "signature" -> OpRest(m.of, m.text)
                  [] OTHER              -> InterfaceBody(m.of))
               \o Tail(work)
    /\ UNCHANGED <<ast, out, status, errored>>

FollowPointer ==
  \E m \in Next1({"follow"}) :
    /\ m.of # Null
    /\ work' = Tail(work)
    /\ UNCHANGED <<ast, out, status, errored>>

FollowNull ==
  \E m \in Next1({"visit", "follow"}) :
    /\ m.of = Null
    /\ status' = "crash"
    /\ UNCHANGED <<ast, work, out, errored>>

\* tokens.pop_back(), of an empty vector as of any other
TakeBack ==
  \E m \in Next1({"pop"}) :
    /\ IF out = <<>> THEN status' = "crash" /\ out' = out
       ELSE out' = Front(out) /\ UNCHANGED status
    /\ work' = Tail(work)
    /\ UNCHANGED <<ast, errored>>

Report ==
  \E m \in Next1({"error"}) :
    /\ errored' = TRUE
    /\ work' = Tail(work)
    /\ UNCHANGED <<ast, out, status>>

\* an error::Panic that is thrown has been shown before
GiveUp ==
  \E m \in Next1({"panic", "throw", "never"}) :
    /\ status' = (CASE m.op = "panic" -> "panic" [] m.op = "throw" -> "thrown" [] OTHER -> "wild")
    /\ errored' = (errored \/ m.op = "panic")
    /\ UNCHANGED <<ast, work, out>>

(* Edits of the tree.                                                              *)
Edit(n, f, ids) == [ast EXCEPT ![n] = WithKids(@, f, ids)]
Edits(tree) == ast' = tree /\ work' = Tail(work) /\ UNCHANGED <<out, status, errored>>

SetKids == \E m \in Next1({"set"})  : Edits(Edit(m.of, m.text, m.ids))
MarkIt  == \E m \in Next1({"mark"}) : Edits([ast EXCEPT ![m.of].tags = @ \cup {m.text}])
AdoptModifiers ==
  \E m \in Next1({"adopt"}) : Edits([ast EXCEPT ![m.of].tags = ast[m.ids[1]].tags])

\* A mistake: the new list of arguments is not where the type points to.
HangOnMisses ==
  \E m \in Next1({"hang"}) :
    LET g   == Kid(m.of, "generics")
        new == Len(ast) + 2
    IN IF g # Null THEN Edits(Edit(g, "args", m.ids \o Kids(g, "args")))
       ELSE Edits(Edit(m.of, "generics", <<new>>)
                    \o <<Node("GenericInvokeExpr", {}, [args |-> m.ids])>>)

\* into the generic arguments of a type, which may have none
HangOn ==
  \E m \in Next1({"hang"}) :
    LET g   == Kid(m.of, "generics")
        new == Len(ast) + 1
    IN IF g # Null THEN Edits(Edit(g, "args", m.ids \o Kids(g, "args")))
       ELSE Edits(Edit(m.of, "generics", <<new>>)
                    \o <<Node("GenericInvokeExpr", {}, [args |-> m.ids])>>)

\* the cast operator is called with a pointer of the type, under no name
CastParameter ==
  \E m \in Next1({"cast"}) :
    LET k == Len(ast)
    IN Edits(Edit(m.of, "params", Append(Kids(m.of, "params"), k + 1))
             \o <<Node("VarDecl", {}, [var |-> <<k + 2>>]),
                  Node("NamedVarSpecifier", {}, [path |-> <<k + 3>>, type |-> <<k + 4>>]),
                  Node("IdentExpr", {"blank"}, <<>>),
                  Node("Type", {}, [value |-> <<k + 5>>]),
                  Node("UnaryExpr", {"in_type", "*"}, [opd |-> Kids(m.of, "returns")])>>)

SelfGeneric ==
  \E m \in Next1({"self generic"}) :
    LET k     == Len(ast)
        g     == Kid(m.of, "generics")
        param == <<Node("RequiresParamDecl", {}, [var |-> <<k + 2>>]),
                   Node("NamedVarSpecifier", {}, [path |-> <<k + 3>>]),
                   Node("IdentExpr", {"self"}, <<>>)>>
    IN IF g # Null
       THEN Edits(Edit(Kid(g, "params"), "params", <<k + 1>> \o Kids(Kid(g, "params"), "params"))
                    \o param)
       ELSE Edits(Edit(m.of, "generics", <<k + 4>>)
                    \o param \o <<Node("RequiresDecl", {}, [params |-> <<k + 5>>]),
                                  Node("RequiresParamList", {}, [params |-> <<k + 1>>])>>)

(* main is written again, outside the namespaces: its body starts the runtime and  *)
(* calls the function written inside.                                              *)
Call(k, path, access, args) ==
  <<Node("FunctionCallExpr", {}, [path |-> <<k + 2>>, args |-> <<k + 4>>]),
    Node("PathExpr", {}, [path |-> <<k + 3>>]),
    Node("ScopePathExpr", {}, [path |-> path, access |-> access]),
    Node("ArgumentListExpr", {}, [args |-> args])>>

ForwardMain ==
  \E m \in Next1({"main"}) :
    LET block  == Kid(Kid(m.of, "body"), "body")
        params == Kids(m.of, "params")
        k      == Len(ast)
        spaces == IF TriviallyImports(Root) THEN <<k + 1>> ELSE <<k + 1, k + 2>>
        names  == <<Node("IdentExpr", {"helix"}, <<>>), Node("IdentExpr", {"file"}, <<>>),
                    Node("IdentExpr", {"init"}, <<>>),
                    Node("IdentExpr", IF BackIdent(Kid(m.of, "name")) = Null THEN {"__global__"}
                                      ELSE ast[BackIdent(Kid(m.of, "name"))].tags, <<>>)>>
        init   == <<Node("ExprState", {}, [value |-> <<k + 6>>])>> \o Call(k + 5, <<k + 1>>, <<k + 3>>, <<>>)
        args   == [i \in 1..Len(params) |->
                     Node("ArgumentExpr", {}, [value |-> Kids(Kid(params[i], "var"), "path")])]
        return == <<Node("ReturnState", {}, [value |-> <<k + 11>>])>>
                    \o Call(k + 10, spaces, <<k + 4>>, [i \in 1..Len(params) |-> k + 14 + i])
    IN IF block = Null THEN status' = "crash" /\ UNCHANGED <<ast, work, out, errored>>
       ELSE Edits(Edit(block, "body", <<k + 5, k + 10>>) \o names \o init \o return \o args)

Finish ==
  /\ status = "run" /\ work = <<>>
  /\ status' = "done"
  /\ UNCHANGED <<ast, work, out, errored>>

Ended == status # "run" /\ UNCHANGED vars

Next ==
  \/ Emit \/ VisitNode \/ GoOn \/ FollowPointer \/ FollowNull \/ TakeBack \/ Report \/ GiveUp
  \/ SetKids \/ MarkIt \/ AdoptModifiers \/ HangOn \/ CastParameter \/ SelfGeneric \/ ForwardMain
  \/ Finish \/ Ended

Spec == Init /\ [][Next]_vars
===============================================================================
