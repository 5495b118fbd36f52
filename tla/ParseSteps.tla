------------------------------ MODULE ParseSteps ------------------------------
(* The vocabulary the parse functions of source/parser/ast/source/nodes are   *)
(* written in.  Every parse_X there is a straight line of the same few moves: *)
(* the token macros of AST_config.def, iter.advance(), a call of another      *)
(* parse function followed by RETURN_IF_ERROR, a while on CURRENT_TOKEN_IS, a *)
(* switch on the current token, make_node.  A move is a record here, a parse  *)
(* function a sequence of moves (modules ExprRules, StateRules, DeclRules),   *)
(* and module Parser is the machine that performs them on a token list.       *)
EXTENDS Integers, Sequences, FiniteSets

(* Tokens, one per class the parser tells apart.  "id" is an identifier and  *)
(* "self" one that reads self; "prim" a primitive type; "num" every literal  *)
(* that is not text; "s", "fs", "chr" a string, an f-string, a character;    *)
(* "-" + and -, prefix and binary; "*", "&" likewise; "!" an operator that   *)
(* is only unary; "==" one that is only binary.                              *)
Literals    == {"num", "s", "fs", "chr"}
Names       == {"id", "self"}
Identifiers == Names \cup {"prim"}
UnaryOps    == {"-", "*", "&", "!", "?"}
BinaryOps   == {"-", "*", "&", "==", "=", "&&", "<", ">", ">>", "->"}
Punctuation == {"(", ")", "[", "]", "{", "}", ",", ":", ";", ".", "::"}
Modifiers   == {"const", "static", "pub", "inline", "async", "ffi"}
Keywords    == {"if", "unless", "else", "for", "while", "in", "switch", "case",
                "default", "break", "continue", "return", "yield", "delete",
                "try", "catch", "finally", "panic", "import", "module", "as",
                "has", "derives", "with", "requires", "await", "fn", "op", "let",
                "class", "struct", "interface", "enum", "type"}
Tokens      == Literals \cup Identifiers \cup UnaryOps \cup BinaryOps
                 \cup Punctuation \cup Modifiers \cup Keywords
EOF         == "EOF"
But(S)      == (Tokens \ S) \cup {EOF}

(* An alternative is taken when the current node is of one of its kinds (any  *)
(* if it names none) and the tokens ahead are in its sets, one by one.        *)
OnNode(kinds, ahead, fn) == [kinds |-> kinds, ahead |-> ahead, fn |-> fn]
On(ahead, fn)            == OnNode({}, ahead, fn)

(* A move: what it does, the tokens it does it on, a second set of tokens, the *)
(* parse function or tag or node kind it names, node kinds, alternatives.      *)
Plain(op)           == [op |-> op, on |-> {}, stop |-> {}, fn |-> "", kinds |-> {}, alts |-> <<>>]
OnTokens(op, S)     == [Plain(op) EXCEPT !.on = S]
Named(op, S, fn)    == [Plain(op) EXCEPT !.on = S, !.fn = fn]
Choice(op, alts)    == [Plain(op) EXCEPT !.alts = alts]

TokenSets    == SUBSET (Tokens \cup {EOF})
Alternatives == [kinds : SUBSET STRING, ahead : Seq(TokenSets), fn : STRING]
Moves        == [op : STRING, on : TokenSets, stop : TokenSets, fn : STRING,
                 kinds : SUBSET STRING, alts : Seq(Alternatives)]

(* The token macros of AST_config.def and the tests written without them:    *)
(* IS_EXCEPTED_TOKEN and IS_IN_EXCEPTED_TOKENS (Look) step over the token    *)
(* they refuse, an early return with PARSE_ERROR (Refuse) does not.          *)
Tok(S)     == OnTokens("tok", S)      \* expect one of S, and take it
Look(S)    == OnTokens("look", S)     \* expect one of S, and leave it
Bar(S)     == Look(Tokens \ S)        \* IS_NOT_EXCEPTED_TOKEN
Refuse(S)  == OnTokens("refuse", S)   \* return an error on one of S
Skip(S)    == OnTokens("skip", S)     \* take one of S if it is there
Skips(S)   == OnTokens("skips", S)    \* take them while they are there
Note(S, t) == Named("note", S, t)     \* remember t if one of S is there
Tag(t)     == Note(But({}), t)

(* Calls of other parse functions.  IS_NOT_EMPTY, their first line, is part  *)
(* of the call; RETURN_IF_ERROR, the caller's next one, of the failure.      *)
Call(f)     == Named("call", {}, f)       \* its node becomes the node
Also(f)     == Named("also", {}, f)       \* its tags are added, the node stays
Opt(S, f)   == Named("opt", S, f)         \* if CURRENT_TOKEN_IS(S)
While(S, f) == Named("while", S, f)       \* while CURRENT_TOKEN_IS(S)
\* while CURRENT_TOKEN_IS(sep): skip it, break on one of stop, else parse f
List(sep, f, stop) == [Named("list", {sep}, f) EXCEPT !.stop = stop]
Params(f)   == Named("params", {","}, f)  \* a list, defaulted ones last
Elses(f)    == Named("elses", {"else"}, f) \* a while, at most one plain else
Try(f)      == Named("try", {}, f)        \* parse<...>() with no check at all
Else(f)     == Named("else", {}, f)       \* parse f if that has failed
Unchecked(f) == Named("unchecked", {}, f) \* parse<...>().value(): an error throws
Switch(alts)  == Choice("switch", alts)   \* return parse<...>(), or refuse
Pick(alts)    == Choice("pick", alts)     \* return parse<...>(), or go on
Repeat(alts)  == Choice("repeat", alts)   \* while one applies, wrap the node
Bounded(alts) == Choice("bounded", alts)  \* the same, a counted number of times
Spin          == "spin"                   \* an iteration that does nothing

(* The ends of a parse function and the tests of the node it holds.          *)
Ret(kind)     == Named("ret", {}, kind)   \* return make_node<kind>(...)
Yield         == Plain("yield")           \* return the node it holds
Deref         == Plain("deref")           \* node->getNodeType()
NodeIs(kinds) == [Plain("nodeis") EXCEPT !.kinds = kinds]
NodeHas(tags) == [Plain("nodehas") EXCEPT !.kinds = tags]   \* one of them
NodeLacks(t)  == Named("nodelacks", {}, t)

(* The moves only one function makes; module Parser says what each is.       *)
Mods(S)    == OnTokens("mods", S)         \* every modifier collected is in S
Scope(S)   == Named("scope", S, "Primary") \* the while of ScopePathExpr
Collect    == Plain("collect")            \* the modifiers in front
ConstVars(f) == Named("const", Names, f)  \* const x: T = v;
ScanToFn   == Plain("scan")               \* advance() until 'fn'
Split      == Plain("split")              \* '>>' becomes '>' '>'
Close      == Plain("close")              \* the ')' of a '(' that was taken
Elements   == Plain("elements")           \* the { } elements of an f-string
Processor  == Plain("processor")          \* import_processor->get_dirs()
EmptyBraces == Plain("braces")            \* what stands before '{' '}'
Placed     == Plain("placed")             \* where ? * & stand in a type
===============================================================================
