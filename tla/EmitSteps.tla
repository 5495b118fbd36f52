------------------------------- MODULE EmitSteps -------------------------------
(* The vocabulary the visit functions of source/generator/source/CX-IR are     *)
(* written in.  A visit of a node is a straight line of the same few moves:     *)
(* the macros of Gen_config.def, which push a token or visit a child, and a     *)
(* handful of edits of the tree.  Here a move is a record, a visit function an  *)
(* operator from a node to the sequence of its moves (modules EmitExprs,        *)
(* EmitStates, EmitDecls), and module Emitter is the machine that makes them.   *)
(*                                                                              *)
(* The tree is a heap, as it is behind its shared pointers: some visits change  *)
(* nodes, and a node that is visited again is then another one.                 *)
EXTENDS Integers, Sequences, SequencesExt

VARIABLE ast   \* the tree: node n is ast[n], its children are numbers of nodes

Null == 0

(* A node: the class of its C++ type, the flags and token classes that a visit *)
(* asks for, and its children by the name of the member that holds them.       *)
Node(kind, tags, kids) == [kind |-> kind, tags |-> tags, kids |-> kids]

Kind(n)     == IF n = Null THEN "null" ELSE ast[n].kind
Has(n, t)   == n # Null /\ t \in ast[n].tags
Kids(n, f)  == IF n # Null /\ f \in DOMAIN ast[n].kids THEN ast[n].kids[f] ELSE <<>>
Kid(n, f)   == IF Kids(n, f) = <<>> THEN Null ELSE Kids(n, f)[1]
WithKids(node, f, ids) ==
  [node EXCEPT !.kids = [g \in {f} \cup DOMAIN @ |-> IF g = f THEN ids ELSE @[g]]]

\* A tree: the children of its nodes are nodes of it, or missing.
IsNode(node, size) ==
  /\ node = Node(node.kind, node.tags, [f \in DOMAIN node.kids |-> node.kids[f]])
  /\ \A f \in DOMAIN node.kids : node.kids[f] \in Seq(0..size)
IsTree(tree) ==
  /\ Len(tree) \in Nat \ {0} /\ tree = [n \in 1..Len(tree) |-> tree[n]]
  /\ \A n \in 1..Len(tree) : IsNode(tree[n], Len(tree))

\* two names are the same when their tokens are
SameName(a, b) == a # Null /\ b # Null /\ ast[a].tags = ast[b].tags

(* A move: what it does, the text it is about, a node, and nodes or flags.     *)
Move(op, text, n) == [op |-> op, text |-> text, of |-> n, ids |-> <<>>]

T(text)        == <<Move("emit", text, Null)>>     \* ADD_TOKEN, ADD_TOKEN_AS_VALUE
Src(n, text)   == <<Move("emit", text, n)>>        \* ADD_TOKEN_AS_TOKEN: a token of n
Visit(n)       == <<Move("visit", "", n)>>         \* ADD_PARAM: n->accept(*this)
VisitAs(n, a)  == <<Move("visit", a, n)>>          \* visit(*n, a)
Follow(n)      == <<Move("follow", "", n)>>        \* a member of *n is looked at
PopBack        == <<Move("pop", "", Null)>>        \* tokens.pop_back()
Err            == <<Move("error", "", Null)>>      \* CODEGEN_ERROR, or a Panic that is shown
ThrowPanic     == <<Move("panic", "", Null)>>      \* throw error::Panic(...)
Throw          == <<Move("throw", "", Null)>>      \* throw std::runtime_error(...)
Never          == <<Move("never", "", Null)>>      \* a loop that no memory holds
Later(f, a, n) == <<Move(f, a, n)>>                \* the visit goes on, on the tree as it is then
Set(n, f, ids) == <<[Move("set", f, n) EXCEPT !.ids = ids]>>     \* n->f = ids
Mark(n, t)     == <<Move("mark", t, n)>>           \* a flag of n is set
Adopt(f, n)    == <<[Move("adopt", "", f) EXCEPT !.ids = <<n>>]>>   \* f->modifiers = n->modifiers
Hang(n, v)     == <<[Move("hang", "generics", n) EXCEPT !.ids = <<v>>]>>
                  \* v becomes the first generic argument of the type n

When(c, moves) == IF c THEN moves ELSE <<>>
Cat(parts)     == FlattenSeq(parts)
Each(ids, V(_)) == Cat([i \in 1..Len(ids) |-> V(ids[i])])

Param(n, f)    == When(Kids(n, f) # <<>>, Visit(Kid(n, f)))  \* ADD_NODE_PARAM
Must(n, f)     == Visit(Kid(n, f))                           \* ADD_PARAM of a member
All(n, f)      == Each(Kids(n, f), Visit)                    \* ADD_ALL_NODE_PARAMS
Body(n)        == IF Kid(n, "body") = Null THEN T(";") ELSE Must(n, "body")

\* SEP: what stands between two elements
Between(ids, sep) ==
  Cat([i \in 1..Len(ids) |-> When(i > 1, sep) \o When(ids[i] # Null, Visit(ids[i]))])
CommaSep(n, f) == Between(Kids(n, f), T(","))
\* the other idiom: a comma after each element, the last one taken back
CommaAfter(ids, V(_)) == Each(ids, LAMBDA m : V(m) \o T(",")) \o When(ids # <<>>, PopBack)

Paren(moves)   == T("(") \o moves \o T(")")
Brace(moves)   == T("{") \o moves \o T("}")
Bracket(moves) == T("[") \o moves \o T("]")
Angle(moves)   == T("<") \o moves \o T(">")
Scoped(name)   == T("helix") \o T("::") \o T(name)
===============================================================================
