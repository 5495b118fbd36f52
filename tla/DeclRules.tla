------------------------------- MODULE DeclRules -------------------------------
(* The parse functions of source/parser/ast/source/nodes/Decls.cc, as         *)
(* sequences of moves, and the grammar they make with those of expressions    *)
(* and statements.                                                            *)
EXTENDS ExprRules, StateRules

(* What each declaration takes as a modifier (nodes/AST_declarations.hh).      *)
Access    == {"pub"}
FuncSpecs == {"inline", "async", "static", "const"}
FuncQuals == {"default", "panic", "delete", "const"}
FuncMods  == FuncSpecs \cup Access
ClassMods == {"const", "static"} \cup Access

(* Declaration::parse: the modifiers first, then what the next token begins;   *)
(* const in front of a name is a constant.                                     *)
Declaration ==
  <<Collect, ConstVars("ConstDecl"),
    Switch(<<On(<<{"class"}>>, "ClassDecl"),
             On(<<{"enum"}>>, "EnumDecl"),
             On(<<{"interface"}>>, "InterDecl"),
             On(<<{"let"}>>, "LetDecl"),
             On(<<{"ffi"}>>, "FFIDecl"),
             On(<<{"fn"}>>, "FuncDecl"),
             On(<<{"op"}>>, "OpDecl"),
             On(<<{"type"}>>, "TypeDecl"),
             On(<<{"struct"}>>, "StructDecl"),
             On(<<{"module"}>>, "ModuleDecl"),
             On(<<>>, "Statement")>>)>>

(* Generics: requires <T, const n: int = 1> if T has C && ...                  *)
RequiresDecl      == <<Tok({"requires"}), Tok({"<"}), Call("RequiresParamList"), Tok({">"}),
                       Opt({"if"}, "TypeBoundList"), Ret("Requires")>>
RequiresParamList == <<Look({"const"} \cup Names), Call("RequiresParamDecl"),
                       List(",", "RequiresParamDecl", {}), Yield>>
RequiresParamDecl == <<Pick(<<On(<<{"const"}>>, "ConstRequiresParam")>>),
                       Call("NamedVarSpecifier"), Opt({"="}, "Value"), Yield>>
ConstRequiresParam == <<Tok({"const"}), Call("TypedVar"), Opt({"="}, "Value"), Yield>>
TypeBoundList     == <<Tok({"if"}), Call("TypeBound"), List("&&", "TypeBound", {}), Yield>>
\* parse<InstOfExpr>(parse<Type>(), true): a type that does not parse is
\* taken for no left operand, and an expression is parsed in its place
TypeBound         == <<Try("Type"), Else("Expression"), Tok({"has", "derives"}), Call("Type"),
                       Ret("InstOf")>>
UDTDeriveDecl     == <<Tok({"derives"}), Call("Type"), List(",", "Type", {}), Yield>>
Extends           == <<Tok({"with"}), Call("Type"), List(",", "Type", {}), Yield>>

StructDecl == <<Mods(ClassMods), Tok({"struct"}), Call("IdentExpr"),
                Opt({"derives"}, "UDTDeriveDecl"), Opt({"requires"}, "RequiresDecl"),
                Pick(<<On(<<{";"}>>, "ForwardDecl")>>), Call("SuiteState"), Ret("Struct")>>
ClassDecl  == <<Mods(ClassMods), Tok({"class"}), Call("IdentExpr"),
                Opt({"derives"}, "UDTDeriveDecl"), Opt({"with"}, "Extends"),
                Opt({"requires"}, "RequiresDecl"),
                Pick(<<On(<<{";"}>>, "ForwardDecl")>>), Call("SuiteState"), Ret("Class")>>
InterDecl  == <<Mods(ClassMods), Tok({"interface"}), Call("IdentExpr"),
                Opt({"derives"}, "UDTDeriveDecl"), Opt({"requires"}, "RequiresDecl"),
                Refuse({";"}), Call("SuiteState"), Ret("Interface")>>
ForwardDecl == <<Tok({";"}), Ret("Forward")>>

EnumDecl   == <<Mods({}), Tok({"enum"}), Opt({"derives"}, "Type"), Opt(Names, "IdentExpr"),
                Switch(<<On(<<{"{"}>>, "EnumBody"), On(<<{":"}>>, "EnumOne")>>)>>
EnumBody   == <<Tok({"{"}), Opt(Names, "EnumMembers"), Tok({"}"}), Ret("Enum")>>
EnumMembers == <<Call("EnumMemberDecl"), List(",", "EnumMemberDecl", But(Names)), Yield>>
EnumOne    == <<Tok({":"}), Call("EnumMemberDecl"), Tok({";"}), Ret("Enum")>>
EnumMemberDecl == <<Look(Names), Call("IdentExpr"), Opt({"="}, "Value"), Ret("EnumMember")>>

TypeDecl   == <<Mods(Access), Tok({"type"}), Call("IdentExpr"), Opt({"requires"}, "RequiresDecl"),
                Tok({"="}), Call("Type"), Tok({";"}), Ret("TypeDecl")>>

(* Variables.  let takes a name without a comma after it, and needs a type or   *)
(* a value for each; const needs both.                                          *)
Value     == <<Tok({"="}), Call("Expression"), Yield>>
VarDecl   == <<Also("NamedVarSpecifier"), Note({"="}, "valued"), Opt({"="}, "Value"),
               Ret("VarDecl")>>
Param     == <<Also("TypedVar"), Note({"="}, "valued"), Opt({"="}, "Value"), Ret("VarDecl")>>
LetDecl   == <<Mods(FuncMods), Tok({"let"}), Skips(FuncSpecs), While(Names, "LetItem"),
               Tok({";"}), Ret("Let")>>
LetItem   == <<Call("VarDecl"), NodeHas({"typed", "valued"}), Skip({","}), Yield>>
ConstDecl == <<Mods(Access), Skips(FuncSpecs), While(Names, "ConstItem"), Tok({";"}),
               Ret("Const")>>
ConstItem == <<Also("TypedVar"), Refuse(But({"="})), Call("Value"), Skip({","}), Ret("VarDecl")>>

(* Functions: the name is wanted, but not behind op or as a lambda; generics     *)
(* stand in front of the result or behind it, once.                             *)
FuncBody ==
  Switch(<<On(<<{";"}>>, "FuncForward"), On(<<{"="}>>, "FuncQualified"),
           On(<<{"{"}>>, "FuncBlock")>>)
FuncTail ==
  <<Tok({"("}), Opt(But({")"}), "FuncParams"), Tok({")"}),
    Pick(<<On(<<{"requires"}>>, "FuncGenericFirst")>>),
    Pick(<<On(<<{"->"}>>, "FuncResult")>>), FuncBody>>
FuncDecl      == <<Mods(FuncMods), Tok({"fn"}), Call("FuncName")>> \o FuncTail
NamelessFunc  == <<Skips(FuncMods), Tok({"fn"}), Opt(Names \cup {"::"}, "FuncName")>> \o FuncTail
FuncName      == <<Call("Primary"), Deref, NodeIs({"Ident", "ScopePath"}), Yield>>
FuncParams    == <<Also("Param"), Params("Param"), Ret("Params")>>
FuncResult    == <<Call("Returns"), Opt({"requires"}, "RequiresDecl"), FuncBody>>
FuncGenericFirst == <<Call("RequiresDecl"), Pick(<<On(<<{"->"}>>, "FuncResultOnly")>>), FuncBody>>
FuncResultOnly == <<Call("Returns"), Refuse({"requires"}), FuncBody>>
FuncForward   == <<Tok({";"}), Ret("FuncDecl")>>
FuncQualified == <<Tok({"="}), Skips(FuncQuals), Tok({";"}), Ret("FuncDecl")>>
FuncBlock     == <<Call("SuiteState"), Tag("body"), Ret("FuncDecl")>>

(* What comes from C++, an operator and the function it is, a module.  That      *)
(* `ffi "c++" import a::<` is refused once more behind its import, which the     *)
(* text of the string decides, is left out.                                    *)
FFIDecl    == <<Mods(Access), Tok({"ffi"}), Look({"s", "fs"}), Unchecked("LiteralExpr"),
                Call("FFIImport"), Ret("FFIDecl")>>
OpDecl     == <<Mods(FuncMods), Look({"op"}), ScanToFn, Call("NamelessFunc"), Ret("OpDecl")>>
ModuleDecl == <<Mods({}), Skip({"inline"}), Tok({"module"}), Call("PathExpr"),
                Call("SuiteState"), Ret("Module")>>

(* Where a parse starts: Program::parse, the text of an f-string element or a   *)
(* compiler directive, the preprocessor at an import.                           *)
Program     == <<While(Tokens, "Declaration"), Ret("Program")>>
Element     == <<Call("Expression"), Ret("Element")>>
ImportEntry == <<Call("ImportState"), Ret("ImportEntry")>>

HelixGrammar ==
  [LiteralExpr |-> LiteralExpr, StringLiteral |-> StringLiteral,
   FormatString |-> FormatString, StringConcat |-> StringConcat, IdentExpr |-> IdentExpr,
   Primary |-> Primary, IdentPath |-> IdentPath, ParenOrTuple |-> ParenOrTuple,
   TupleRest |-> TupleRest, SetOrMap |-> SetOrMap, NoLiteral |-> NoLiteral,
   NoExpression |-> NoExpression, Expression |-> Expression, BinaryExpr |-> BinaryExpr,
   UnaryExpr |-> UnaryExpr, TypePrefix |-> TypePrefix, PostfixExpr |-> PostfixExpr,
   ArgumentExpr |-> ArgumentExpr, ArgumentListExpr |-> ArgumentListExpr,
   Arguments |-> Arguments, NamedArgumentExpr |-> NamedArgumentExpr,
   DotArgument |-> DotArgument, ObjInitExpr |-> ObjInitExpr, ObjFields |-> ObjFields,
   AnonymousObject |-> AnonymousObject, PathExpr |-> PathExpr,
   ScopePathExpr |-> ScopePathExpr, GlobalPath |-> GlobalPath, ImportPath |-> ImportPath,
   DotPathExpr |-> DotPathExpr, ArrayAccessExpr |-> ArrayAccessExpr,
   FunctionCallExpr |-> FunctionCallExpr, CallArguments |-> CallArguments,
   GenericCall |-> GenericCall, GenericInvokeExpr |-> GenericInvokeExpr,
   GenericArguments |-> GenericArguments, ArrayLiteralExpr |-> ArrayLiteralExpr,
   SetRest |-> SetRest, SetEnd |-> SetEnd, MapPairExpr |-> MapPairExpr, MapRest |-> MapRest,
   LambdaExpr |-> LambdaExpr, TernaryExpr |-> TernaryExpr, CastExpr |-> CastExpr,
   InstOfExpr |-> InstOfExpr, HasExpr |-> HasExpr, DerivesExpr |-> DerivesExpr,
   AsyncThreading |-> AsyncThreading, Type |-> Type, TypeHead |-> TypeHead,
   TypeParen |-> TypeParen, TypeClose |-> TypeClose, TypeTuple |-> TypeTuple,
   TypeGenerics |-> TypeGenerics, NotAType |-> NotAType, FnPtr |-> FnPtr,
   FnPtrParams |-> FnPtrParams, Returns |-> Returns,
   NamedVarSpecifier |-> NamedVarSpecifier, Annotation |-> Annotation,
   TypedVar |-> TypedVar, SelfVar |-> SelfVar,
   NamedVarSpecifierList |-> NamedVarSpecifierList, ForState |-> ForState,
   ForPyStatementCore |-> ForPyStatementCore, ForCStatementCore |-> ForCStatementCore,
   ForInit |-> ForInit, NoForInit |-> NoForInit, WhileState |-> WhileState,
   IfState |-> IfState, ElseState |-> ElseState, ElseIf |-> ElseIf,
   SwitchState |-> SwitchState, SwitchCases |-> SwitchCases, SwitchOne |-> SwitchOne,
   SwitchCaseState |-> SwitchCaseState, SkipColon |-> SkipColon, CaseArm |-> CaseArm,
   DefaultArm |-> DefaultArm, ReturnState |-> ReturnState, YieldState |-> YieldState,
   DeleteState |-> DeleteState, PanicState |-> PanicState, BreakState |-> BreakState,
   ContinueState |-> ContinueState, ExprState |-> ExprState, SuiteState |-> SuiteState,
   OneStatement |-> OneStatement, BlockState |-> BlockState, TryState |-> TryState,
   CatchState |-> CatchState, CatchBinding |-> CatchBinding, NoBinding |-> NoBinding,
   FinallyState |-> FinallyState, Statement |-> Statement, ImportState |-> ImportState,
   FFIImport |-> FFIImport, WildcardEnd |-> WildcardEnd, SpecImport |-> SpecImport,
   ImportItems |-> ImportItems, ImportItem |-> ImportItem, SingleImport |-> SingleImport,
   FileImport |-> FileImport, FormatImport |-> FormatImport, ModuleImport |-> ModuleImport,
   WildcardImport |-> WildcardImport, Alias |-> Alias, Declaration |-> Declaration,
   RequiresDecl |-> RequiresDecl, RequiresParamList |-> RequiresParamList,
   RequiresParamDecl |-> RequiresParamDecl, ConstRequiresParam |-> ConstRequiresParam,
   TypeBoundList |-> TypeBoundList, TypeBound |-> TypeBound,
   UDTDeriveDecl |-> UDTDeriveDecl, Extends |-> Extends, StructDecl |-> StructDecl,
   ClassDecl |-> ClassDecl, InterDecl |-> InterDecl, ForwardDecl |-> ForwardDecl,
   EnumDecl |-> EnumDecl, EnumBody |-> EnumBody, EnumMembers |-> EnumMembers,
   EnumOne |-> EnumOne, EnumMemberDecl |-> EnumMemberDecl, TypeDecl |-> TypeDecl,
   Value |-> Value, VarDecl |-> VarDecl, Param |-> Param, LetDecl |-> LetDecl,
   LetItem |-> LetItem, ConstDecl |-> ConstDecl, ConstItem |-> ConstItem,
   FuncDecl |-> FuncDecl, NamelessFunc |-> NamelessFunc, FuncName |-> FuncName,
   FuncParams |-> FuncParams, FuncResult |-> FuncResult,
   FuncGenericFirst |-> FuncGenericFirst, FuncResultOnly |-> FuncResultOnly,
   FuncForward |-> FuncForward, FuncQualified |-> FuncQualified, FuncBlock |-> FuncBlock,
   FFIDecl |-> FFIDecl, OpDecl |-> OpDecl, ModuleDecl |-> ModuleDecl, Program |-> Program,
   Element |-> Element, ImportEntry |-> ImportEntry]
===============================================================================
