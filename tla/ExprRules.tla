------------------------------- MODULE ExprRules -------------------------------
(* The parse functions of source/parser/ast/source/nodes/Exprs.cc, each the   *)
(* sequence of moves it makes (module ParseSteps).  A parse function that     *)
(* takes its left operand as an argument finds it as the node it starts with. *)
EXTENDS ParseSteps

(* A literal, and a string that follows another one.                         *)
LiteralExpr == <<Pick(<<On(<<{"s"}>>, "StringLiteral"), On(<<{"fs"}>>, "FormatString")>>),
                 Tok(Literals), Ret("Literal")>>
StringLiteral == <<Tok({"s"}), Ret("String")>>
FormatString  == <<Tok({"fs"}), Elements, Ret("String")>>
StringConcat  == <<Tok({"s", "fs"}), NodeIs({"String"}), Yield>>

IdentExpr == <<Tok(Identifiers), Ret("Ident")>>

(* parse_primary: what one token decides, and an identifier goes on as a path. *)
Primary ==
  <<Switch(<<On(<<Literals>>, "LiteralExpr"),
             On(<<Identifiers>>, "IdentPath"),
             On(<<UnaryOps>>, "UnaryExpr"),
             On(<<{"("}>>, "ParenOrTuple"),
             On(<<{"["}>>, "ArrayLiteralExpr"),
             On(<<{"{"}, {"}"}>>, "NoLiteral"),
             On(<<{"{"}, {"."}>>, "AnonymousObject"),
             On(<<{"{"}>>, "SetOrMap"),
             On(<<{";"}>>, "NoExpression"),
             On(<<{"fn"}>>, "LambdaExpr"),
             On(<<{"await"}>>, "AsyncThreading"),
             On(<<{"::"}>>, "GlobalPath")>>)>>
IdentPath    == <<Call("IdentExpr"),
                  Pick(<<On(<<{"::"}>>, "ScopePathExpr"), On(<<{"."}>>, "DotPathExpr")>>),
                  Yield>>
ParenOrTuple == <<Tok({"("}), Refuse({")"}), Call("Expression"),
                  Pick(<<On(<<{","}>>, "TupleRest")>>), Tok({")"}), Ret("Parenthesized")>>
TupleRest    == <<List(",", "Expression", {")"}), Tok({")"}), Ret("Tuple")>>
SetOrMap     == <<Tok({"{"}), Call("Expression"),
                  Switch(<<On(<<{":"}>>, "MapRest"), On(<<>>, "SetRest")>>)>>
NoLiteral    == <<Tok({"{"}), EmptyBraces, Ret("None")>>
NoExpression == <<Ret("None")>>

(* Expression::parse: a primary expression, then what follows wraps it, the   *)
(* loop counted against twice the tokens that were left.                      *)
ObjectPaths == {"Ident", "GenericInvoke", "ScopePath", "DotPath", "Path", "Type"}
Expression ==
  <<Call("Primary"),
    Bounded(<<On(<<{"("}>>, "FunctionCallExpr"),
              On(<<{"["}>>, "ArrayAccessExpr"),
              On(<<{"."}>>, "DotPathExpr"),
              On(<<{"::"}, {"<"}>>, "GenericCall"),
              On(<<{"::"}>>, "ScopePathExpr"),
              OnNode(ObjectPaths, <<{"{"}, {"}"}>>, "ObjInitExpr"),
              On(<<{"{"}, {"}"}>>, Spin),
              OnNode(ObjectPaths, <<{"{"}, Names, {"="}>>, "ObjInitExpr"),
              On(<<{"has", "derives"}>>, "InstOfExpr"),
              On(<<{"if"}>>, "TernaryExpr"),
              On(<<{"as"}>>, "CastExpr"),
              On(<<{"s", "fs", "chr"}>>, "StringConcat"),
              On(<<BinaryOps>>, "BinaryExpr"),
              On(<<UnaryOps>>, "PostfixExpr")>>),
    Yield>>

(* The right operand is a whole expression, so the precedence loops of        *)
(* parse_BinaryExpr end in their first round.                                 *)
BinaryExpr  == <<Tok(BinaryOps), Call("Expression"), Ret("Binary")>>
UnaryNotes  == <<Note({"?"}, "?"), Note({"*", "&"}, "ref"), Tok(UnaryOps)>>
UnaryExpr   == <<Tag("prefix")>> \o UnaryNotes \o <<Call("Expression"), Deref, Ret("Unary")>>
TypePrefix  == <<Tag("prefix")>> \o UnaryNotes \o <<Call("Type"), Ret("Unary")>>
PostfixExpr == UnaryNotes \o <<Ret("Unary")>>

(* Arguments, by position or x = v, and those of an object initializer.       *)
ArgumentExpr      == <<Call("Expression"), Deref, Ret("Argument")>>
ArgumentListExpr  == <<Tok({"("}), Opt(But({")"}), "Arguments"), Tok({")"}), Ret("ArgumentList")>>
Arguments         == <<Call("ArgumentExpr"), List(",", "ArgumentExpr", {}), Yield>>
NamedArgumentExpr == <<Bar({"."}), Call("IdentExpr"), Tok({"="}), Call("Expression"),
                       Ret("NamedArgument")>>
DotArgument       == <<Tok({"."}), Call("IdentExpr"), Tok({"="}), Call("Expression"),
                       Ret("NamedArgument")>>
ObjInitExpr       == <<Tok({"{"}), Opt(But({"}"}), "ObjFields"), Tok({"}"}), Ret("ObjInit")>>
ObjFields         == <<Call("NamedArgumentExpr"), List(",", "NamedArgumentExpr", {"}"}), Yield>>
AnonymousObject   == <<Tok({"{"}), Call("DotArgument"), List(",", "DotArgument", {"}"}),
                       Tok({"}"}), Ret("ObjInit")>>

(* Paths, calls and what else may follow an expression.  A path that a call    *)
(* goes through must be a plain one.                                           *)
Paths            == {"Ident", "ScopePath", "DotPath"}
PathExpr         == <<Call("Primary"), Deref, NodeIs(Paths), Yield>>
ScopePathExpr    == <<NodeIs({"Ident"}), Tag("path"), Scope({}), Ret("ScopePath")>>
GlobalPath       == <<Scope({}), Ret("ScopePath")>>
ImportPath       == <<Call("IdentExpr"), Tag("path"), Scope({"{", "*"}), Ret("ScopePath")>>
DotPathExpr      == <<Tok({"."}), Call("Expression"), Ret("DotPath")>>
ArrayAccessExpr  == <<Tok({"["}), Call("Expression"), Tok({"]"}), Ret("ArrayAccess")>>
FunctionCallExpr == <<Deref, NodeIs(Paths), Call("CallArguments"), Ret("FunctionCall")>>
CallArguments    == <<Switch(<<On(<<{"("}>>, "ArgumentListExpr"), On(<<{"{"}>>, "ObjInitExpr")>>)>>
GenericCall      == <<Tok({"::"}), Also("GenericInvokeExpr"), Deref, NodeIs(Paths),
                      Call("CallArguments"), Ret("FunctionCall")>>
\* A mistake: '>>' is one token here as everywhere.
GenericUnsplit   == <<Tok({"<"}), Opt(But({">"}), "GenericArguments"), Tok({">"}),
                      Ret("GenericInvoke")>>
GenericInvokeExpr == <<Tok({"<"}), Opt(But({">"}), "GenericArguments"),
                       Refuse(Tokens \ {">", ">>"}), Split, Tok({">"}), Ret("GenericInvoke")>>
GenericArguments == <<Call("Type"), List(",", "Type", {}), Yield>>

(* Literals of several elements; a trailing comma is allowed.                  *)
ArrayLiteralExpr == <<Tok({"["}), Look(But({"]"})), Call("Expression"),
                      List(",", "Expression", {"]"}), Tok({"]"}), Ret("Array")>>
SetRest          == <<Pick(<<On(<<{"}"}>>, "SetEnd")>>), Look({","}),
                      List(",", "Expression", {"}"}), Tok({"}"}), Ret("Set")>>
SetEnd           == <<Tok({"}"}), Ret("Set")>>
MapPairExpr      == <<Call("Expression"), Tok({":"}), Call("Expression"), Ret("MapPair")>>
MapRest          == <<Tok({":"}), Call("Expression"), List(",", "MapPairExpr", {"}"}),
                      Tok({"}"}), Ret("Map")>>

LambdaExpr     == <<Look({"fn"}), Call("NamelessFunc"), NodeHas({"body"}), Ret("Lambda")>>
TernaryExpr    == <<Tok({"if"}), Call("Expression"), Tok({"else"}), Call("Expression"),
                    Ret("Ternary")>>
CastExpr       == <<Tok({"as"}), Call("Type"), Ret("Cast")>>
InstOfExpr     == <<Switch(<<On(<<{"has"}>>, "HasExpr"), On(<<{"derives"}>>, "DerivesExpr")>>)>>
HasExpr        == <<Tok({"has"}), Call("Expression"), Ret("InstOf")>>
DerivesExpr    == <<Tok({"derives"}), Call("Type"), Ret("InstOf")>>
AsyncThreading == <<Tok({"await"}), Call("Expression"), Ret("Async")>>

(* A type: a function pointer, or specifiers, a head, and what wraps it; a     *)
(* generic invocation ends it.                                                 *)
TypeSpecifiers == {"const", "module", "yield", "async", "ffi", "static"}
Type ==
  <<Pick(<<On(<<{"fn"}>>, "FnPtr")>>),
    Skips(TypeSpecifiers),
    Call("TypeHead"),
    Repeat(<<On(<<{"(", "[", "<"}>>, "NotAType"),
             On(<<{"::"}, But({"<"})>>, "ScopePathExpr"),
             On(<<UnaryOps>>, "PostfixExpr")>>),
    Opt({"::"}, "TypeGenerics"),
    Deref, Placed, Ret("Type")>>
TypeHead     == <<Switch(<<On(<<{"*", "&"}>>, "TypePrefix"), On(<<{"("}>>, "TypeParen"),
                           On(<<>>, "Primary")>>)>>
TypeParen    == <<Tok({"("}), Look(But({")"})), Call("Type"),
                  Switch(<<On(<<{")"}>>, "TypeClose"), On(<<{","}>>, "TypeTuple")>>)>>
TypeClose    == <<Tok({")"}), Yield>>
TypeTuple    == <<List(",", "Type", {")"}), Tok({")"}), Ret("Tuple")>>
TypeGenerics == <<Tok({"::"}), Also("GenericInvokeExpr"), Yield>>
NotAType     == <<Refuse({"(", "[", "<"}), Yield>>
FnPtr        == <<Tok({"fn"}), Tok({"("}), Opt(But({")"}), "FnPtrParams"), Tok({")"}),
                  Opt({"->"}, "Returns"), Ret("Type")>>
FnPtrParams  == <<Call("Type"), While({","}, "Type"), Yield>>
Returns      == <<Tok({"->"}), Call("Type"), Yield>>
===============================================================================
