------------------------------ MODULE StateRules ------------------------------
(* The parse functions of source/parser/ast/source/nodes/States.cc, as        *)
(* sequences of moves.                                                        *)
EXTENDS ParseSteps

(* Variables: const? name (':' type)?, the type wanted or not.                *)
NamedVarSpecifier == <<Skip({"const"}), Call("IdentExpr"), Note({":"}, "typed"),
                       Opt({":"}, "Annotation"), Ret("NamedVar")>>
Annotation        == <<Tok({":"}), Call("Type"), Yield>>
TypedVar          == <<Pick(<<On(<<{"self"}>>, "SelfVar"), On(<<{"const"}, {"self"}>>, "SelfVar")>>),
                       Skip({"const"}), Call("IdentExpr"), Look({":"}), Tag("typed"),
                       Call("Annotation"), Ret("NamedVar")>>
SelfVar           == <<Skip({"const"}), Call("IdentExpr"), Ret("NamedVar")>>
NamedVarSpecifierList == <<Refuse(Tokens \ Names), Call("NamedVarSpecifier"),
                           List(",", "NamedVarSpecifier", {}), Ret("NamedVars")>>

(* The parentheses of a for or a catch are optional; Close knows which it is.  *)
Open     == <<Note({"("}, "paren"), Skip({"("})>>
ForState == <<Tok({"for"}),
              Switch(<<On(<<Names, {",", ":", "in"}>>, "ForPyStatementCore"),
                       On(<<{"("}, Names, {",", ":", "in"}>>, "ForPyStatementCore"),
                       On(<<>>, "ForCStatementCore")>>)>>
ForPyStatementCore == Open \o <<Call("NamedVarSpecifierList"), Tok({"in"}), Call("Expression"),
                                Close, Call("SuiteState"), Ret("For")>>
ForCStatementCore  == Open \o <<Call("ForInit"), Opt(Tokens \ {";"}, "Expression"), Tok({";"}),
                                Opt(Tokens \ {"{", ":"}, "Expression"),
                                Close, Call("SuiteState"), Ret("For")>>
ForInit  == <<Pick(<<On(<<{";"}>>, "NoForInit")>>), Call("Declaration"), Yield>>
NoForInit == <<Tok({";"}), Ret("None")>>

WhileState == <<Tok({"while"}), Call("Expression"), Call("SuiteState"), Ret("While")>>
IfState    == <<Tok({"if", "unless"}), Call("Expression"), Call("SuiteState"),
                Elses("ElseState"), Ret("If")>>
ElseState  == <<Tok({"else"}), Pick(<<On(<<{"if", "unless"}>>, "ElseIf")>>), Tag("plain"),
                Call("SuiteState"), Ret("Else")>>
ElseIf     == <<Tok({"if", "unless"}), Call("Expression"), Call("SuiteState"), Ret("Else")>>

SwitchState == <<Tok({"switch"}), Call("Expression"),
                 Switch(<<On(<<{"{"}>>, "SwitchCases"), On(<<{":"}>>, "SwitchOne")>>)>>
SwitchCases == <<Tok({"{"}), While(Tokens \ {"}"}, "SwitchCaseState"), Tok({"}"}), Ret("Switch")>>
SwitchOne   == <<Tok({":"}), Call("SwitchCaseState"), Ret("Switch")>>
\* a ':' in front of a block is skipped, any other is the suite's own
SwitchCaseState == <<Switch(<<On(<<{"case"}>>, "CaseArm"), On(<<{"default"}>>, "DefaultArm")>>)>>
ColonBlock  == Repeat(<<On(<<{":"}, {"{"}>>, "SkipColon")>>)
SkipColon   == <<Tok({":"}), Yield>>
CaseArm     == <<Tok({"case"}), Call("Expression"), ColonBlock, Call("SuiteState"), Ret("Case")>>
DefaultArm  == <<Tok({"default"}), Refuse(Tokens \ {":", "{"}), ColonBlock,
                 Call("SuiteState"), Ret("Case")>>

(* Statements of a keyword and an expression.                                  *)
ReturnState   == <<Tok({"return"}), Call("Expression"), Tok({";"}), Ret("Return")>>
YieldState    == <<Tok({"yield"}), Call("Expression"), Tok({";"}), Ret("Yield")>>
DeleteState   == <<Tok({"delete"}), Call("Expression"), Tok({";"}), Ret("Delete")>>
PanicState    == <<Tok({"panic"}), Call("Expression"), Tok({";"}), Ret("Panic")>>
BreakState    == <<Tok({"break"}), Tok({";"}), Ret("Break")>>
ContinueState == <<Tok({"continue"}), Tok({";"}), Ret("Continue")>>
ExprState     == <<Call("Expression"), Tok({";"}), Ret("ExprState")>>

(* A body: a block, or a colon and one declaration.  The declarations in it    *)
(* are parsed by a Declaration of their own, which has no import processor.    *)
SuiteState == <<Switch(<<On(<<{"{"}>>, "BlockState"), On(<<{":"}>>, "OneStatement")>>)>>
OneStatement == <<Tok({":"}), Call("Declaration"), Ret("Suite")>>
BlockState == <<Tok({"{"}), While(Tokens \ {"}"}, "Declaration"), Tok({"}"}), Ret("Suite")>>

TryState     == <<Tok({"try"}), Call("SuiteState"), Pick(<<On(<<{"finally"}>>, "FinallyState")>>),
                  Look({"catch"}), Call("CatchState"), While({"catch"}, "CatchState"),
                  Opt({"finally"}, "FinallyState"), Ret("Try")>>
CatchState   == <<Tok({"catch"})>> \o Open \o
                <<Call("CatchBinding"), Close, Call("SuiteState"), Ret("Catch")>>
CatchBinding == <<Pick(<<On(<<Names, {":"}>>, "TypedVar"), On(<<{"{", ":"}>>, "NoBinding")>>),
                  Call("Type"), Yield>>
NoBinding    == <<Ret("None")>>
FinallyState == <<Tok({"finally"}), Call("SuiteState"), Ret("Finally")>>

(* Statement::parse                                                           *)
Statement ==
  <<Refuse({"else", "case", "default", "catch"}),
    Switch(<<On(<<{"if", "unless"}>>, "IfState"),
             On(<<{"return"}>>, "ReturnState"),
             On(<<{"for"}>>, "ForState"),
             On(<<{"while"}>>, "WhileState"),
             On(<<{"break"}>>, "BreakState"),
             On(<<{"continue"}>>, "ContinueState"),
             On(<<{"switch"}>>, "SwitchState"),
             On(<<{"try"}>>, "TryState"),
             On(<<{"panic"}>>, "PanicState"),
             On(<<{"finally"}>>, "FinallyState"),
             On(<<{"yield"}>>, "YieldState"),
             On(<<{"delete"}>>, "DeleteState"),
             On(<<>>, "ExprState")>>)>>

(* Imports.  The preprocessor parses them with ImportState, an ffi declaration *)
(* with parse_ImportState(true): no wildcard and no items there.               *)
ImportHead  == <<Tok({"import"}), Skip({"module"}), Call("SingleImport")>>
ImportState == ImportHead \o
               <<Pick(<<OnNode({"Wildcard"}, <<>>, "WildcardEnd"), On(<<{"{"}>>, "SpecImport")>>),
                 Ret("Import")>>
FFIImport   == ImportHead \o <<NodeIs({"Module", "File"}), Refuse({"{"}), Ret("Import")>>
WildcardEnd == <<NodeLacks("alias"), Tok({";"}), Ret("Import")>>
SpecImport  == <<NodeIs({"Module"}), Call("ImportItems"), Ret("Import")>>
\* the first item is used without a look at whether it parsed
ImportItems == <<Tok({"{"}), Unchecked("SingleImport"), NodeIs({"Module"}),
                 List(",", "ImportItem", {"}"}), Tok({"}"}), Ret("ImportItems")>>
ImportItem  == <<Call("SingleImport"), NodeIs({"Module"}), Yield>>

SingleImport == <<Switch(<<On(<<{"s"}>>, "FileImport"), On(<<{"fs"}>>, "FormatImport"),
                           On(<<Names>>, "ModuleImport")>>)>>
FileImport   == <<Call("LiteralExpr"), Processor, Refuse({"*", "{"}), Opt({"as"}, "Alias"),
                  Ret("File")>>
FormatImport == <<Call("LiteralExpr"), Switch(<<>>)>>
ModuleImport == <<Call("ImportPath"), Pick(<<On(<<{"*"}>>, "WildcardImport")>>),
                  Opt({"as"}, "Alias"), Ret("Module")>>
WildcardImport == <<Tok({"*"}), Note({"as"}, "alias"), Opt({"as"}, "Alias"), Ret("Wildcard")>>
Alias        == <<Tok({"as"}), Call("IdentExpr"), Yield>>
===============================================================================
