-------------------------------- MODULE Parser --------------------------------
(* The recursive descent parser: the call stack of the parse functions, the   *)
(* cursor of TokenListIter they share, and what one of their moves (module    *)
(* ParseSteps) does to both.  Grammar gives the moves of each parse function; *)
(* DeclRules has Helix's.  A parse starts in Program::parse, in ImportState   *)
(* (the preprocessor) or in an expression (an element of an f-string, a       *)
(* compiler directive).                                                       *)
(*                                                                            *)
(* The list ends in EOF and the cursor stays on it: every parse function      *)
(* tests remaining_n() before it reads.  Where one does not, the iterator     *)
(* steps over the end and remaining_n() wraps: the parse is wild from there.  *)
EXTENDS ParseSteps

CONSTANTS Grammar,  \* [function -> Seq(move)]
          Inputs    \* set of [entry : function, toks : Seq(Tokens)]

VARIABLES toks,     \* the token list; '>>' is split in place
          cur,      \* TokenListIter::cursor_position, counted from 1
          stack,    \* the parse functions that have not returned
          status    \* how the parse stands

vars == <<toks, cur, stack, status>>

\* run, or how it ended: parsed; refused with a parse error; refused as too
\* long an expression; value() of an error threw; a null node was followed;
\* the iterator left the list
Statuses == {"run", "done", "error", "toolong", "thrown", "crash", "wild"}

Rules  == DOMAIN Grammar
Loops  == {"while", "list", "params", "elses", "repeat", "bounded"}
Checks == {"nodeis", "nodehas", "nodelacks", "placed", "mods", "refuse"}

(* What Inputs holds, and what Grammar is: every function ends in a move that *)
(* leaves it, and no move takes EOF for a token to step over.                 *)
Ends == {"ret", "yield", "switch"}
ASSUME InputsAssumption ==
  \A i \in Inputs : i.entry \in Rules /\ i.toks \in Seq(Tokens) /\ i.toks # <<>>
ASSUME GrammarAssumption ==
  \A r \in Rules :
    /\ r \in STRING /\ Grammar[r] \in Seq(Moves) /\ Grammar[r] # <<>>
    /\ Grammar[r][Len(Grammar[r])].op \in Ends
ASSUME StepsAssumption ==
  \A r \in Rules : \A p \in 1..Len(Grammar[r]) :
    LET m == Grammar[r][p] IN
      /\ m.op \in {"tok", "skip", "skips", "list", "params"} => EOF \notin m.on
      /\ m.op \in {"call", "also", "opt", "while", "list", "params", "elses", "else", "try",
                   "unchecked", "const", "scope"} => m.fn \in Rules
      /\ \A a \in 1..Len(m.alts) :
           m.alts[a].fn \in Rules \/ (m.op = "bounded" /\ m.alts[a].fn = Spin)

-------------------------------------------------------------------------------
(* Frames and the node a parse function holds.                                *)

Node(kind, tags) == [kind |-> kind, tags |-> tags]
NoNode           == Node("None", {})

\* A mistake: one round for each token, and none for the end.
RoundsOnce(c) == Len(toks) - c

\* n_max, the rounds Expression::parse may make: twice the tokens left
Rounds(c) == 2 * (Len(toks) - c)

\* a parse function entered at token c by a move, with the node it is given
Frame(fn, c, by, node) ==
  [fn |-> fn, pc |-> 1, by |-> by, node |-> node, tags |-> {}, mods |-> <<>>,
   fuel |-> Rounds(c), start |-> c]

Top          == stack[Len(stack)]
Move         == Grammar[Top.fn][Top.pc]
AtHand(ops)  == {m \in {Move} : status = "run" /\ m.op \in ops}
Done(f)      == [f EXCEPT !.pc = @ + 1]
Become(f, r) == [f EXCEPT !.fn = r, !.pc = 1]
Marked(f, t) == [f EXCEPT !.tags = @ \cup {t}]

Here     == toks[cur]
Ahead(n) == IF cur + n <= Len(toks) THEN toks[cur + n] ELSE EOF   \* iter.peek(n)

\* the top function goes on as f with the cursor at c
Goes(f, c) ==
  /\ stack' = [stack EXCEPT ![Len(stack)] = f]
  /\ cur' = c
  /\ UNCHANGED <<toks, status>>
Proceeds == Goes(Done(Top), cur)

Stops(why, c) == status' = why /\ cur' = c /\ UNCHANGED <<toks, stack>>

(* An error is returned through every function of the stack, down to one whose *)
(* caller does not ask whether the call went well.                            *)
\* A mistake: value() of a part that may be left out is taken unasked.
UnaskedParts == {"try", "unchecked", "opt"}
Unasked == {"try", "unchecked"}
Fails(why, c, frames) ==
  \E last \in 0..Len(frames) :
    /\ last # 0 => frames[last].by \in Unasked
    /\ \A i \in last + 1..Len(frames) : frames[i].by \notin Unasked
    /\ cur' = c
    /\ UNCHANGED toks
    /\ IF last # 0 /\ frames[last].by = "try"
       THEN /\ stack' = Append(SubSeq(frames, 1, last - 2),
                               [Done(frames[last - 1]) EXCEPT !.node = NoNode])
            /\ UNCHANGED status
       ELSE /\ stack' = frames
            /\ status' = IF last # 0 THEN "thrown" ELSE why
Refuses   == Fails("error", cur, stack)
\* A mistake: IS_EXCEPTED_TOKEN without its test of remaining_n().
StepsOverTheEnd == Fails("error", cur + 1, stack)
StepsOver == Fails("error", IF cur < Len(toks) THEN cur + 1 ELSE cur, stack)

(* The top function, as f, calls another at token c and gives it a node: the  *)
(* IS_NOT_EMPTY that opens every parse function is part of it.                *)
Calls(f, c, m, fn, node) ==
  LET called == Append([stack EXCEPT ![Len(stack)] = f], Frame(fn, c, m.op, node)) IN
    IF c < Len(toks)
    THEN stack' = called /\ cur' = c /\ UNCHANGED <<toks, status>>
    ELSE Fails("error", c, called)

(* The top function returns node.  A caller in a loop tests again; one that   *)
(* only wanted the parts keeps its own node and the tags.                     *)
Resumed(f, by, node) ==
  IF by = "also" THEN Done([f EXCEPT !.tags = @ \cup node.tags])
  ELSE IF by \in Loops THEN [f EXCEPT !.node = node]
  ELSE Done([f EXCEPT !.node = node])
Returns1(node) ==
  /\ UNCHANGED <<toks, cur>>
  /\ IF Len(stack) = 1
     THEN status' = "done" /\ stack' = <<[Top EXCEPT !.node = node]>>
     ELSE /\ stack' = Append(SubSeq(stack, 1, Len(stack) - 2),
                             Resumed(stack[Len(stack) - 1], Top.by, node))
          /\ UNCHANGED status

\* the first alternative of a move that applies, if there is one
Applies(a) ==
  /\ a.kinds = {} \/ Top.node.kind \in a.kinds
  /\ \A k \in 1..Len(a.ahead) : Ahead(k - 1) \in a.ahead[k]
Chosen(m) ==
  {m.alts[n].fn : n \in {k \in 1..Len(m.alts) :
     Applies(m.alts[k]) /\ \A l \in 1..k - 1 : ~Applies(m.alts[l])}}

-------------------------------------------------------------------------------
Init ==
  \E i \in Inputs :
    /\ toks = Append(i.toks, EOF)
    /\ cur = 1
    /\ stack = <<Frame(i.entry, 1, "entry", NoNode)>>
    /\ status = "run"

(* The token moves.                                                           *)
\* A mistake: the token is tested and left.
TestToken ==
  \E m \in AtHand({"tok"}) : IF Here \in m.on THEN Proceeds ELSE StepsOver
TakeToken ==
  \E m \in AtHand({"tok"}) :
    IF Here \in m.on THEN Goes(Done(Top), cur + 1) ELSE StepsOver

LookAtToken ==
  \E m \in AtHand({"look"}) :
    IF Here \in m.on THEN Proceeds ELSE StepsOver

SkipToken ==
  \E m \in AtHand({"skip"}) :
    Goes(Done(Top), IF Here \in m.on THEN cur + 1 ELSE cur)

SkipTokens ==
  \E m \in AtHand({"skips"}) :
    IF Here \in m.on THEN Goes(Top, cur + 1) ELSE Proceeds

NoteToken ==
  \E m \in AtHand({"note"}) :
    Goes(IF Here \in m.on THEN Marked(Done(Top), m.fn) ELSE Done(Top), cur)

(* The calls.                                                                 *)
CallOther ==
  \E m \in AtHand({"call", "also", "try", "unchecked"}) : Calls(Top, cur, m, m.fn, NoNode)

CallOptional ==
  \E m \in AtHand({"opt"}) :
    IF Here \in m.on THEN Calls(Top, cur, m, m.fn, Top.node) ELSE Proceeds

CallInstead ==
  \E m \in AtHand({"else"}) :
    IF Top.node.kind = "None" THEN Calls(Top, cur, m, m.fn, NoNode) ELSE Proceeds

CallWhile ==
  \E m \in AtHand({"while"}) :
    IF Here \in m.on THEN Calls(Top, cur, m, m.fn, NoNode) ELSE Proceeds

CallInList ==
  \E m \in AtHand({"list"}) :
    IF Here \notin m.on THEN Proceeds
    ELSE IF Ahead(1) \in m.stop THEN Goes(Done(Top), cur + 1)
    ELSE Calls(Top, cur + 1, m, m.fn, NoNode)

\* has_keyword: a parameter with a default, and a later one without
Param1    == Top.node.kind = "VarDecl"
Defaulted == Param1 /\ "valued" \in Top.node.tags
CallInParams ==
  \E m \in AtHand({"params"}) :
    LET f == IF Defaulted THEN Marked(Top, "keyword") ELSE Top IN
      IF Param1 /\ ~Defaulted /\ "keyword" \in Top.tags THEN Refuses
      ELSE IF Here \in m.on THEN Calls(f, cur + 1, m, m.fn, NoNode)
      ELSE Goes(Done(f), cur)

\* captured_final_else: a plain else, and a later one
CallInElses ==
  \E m \in AtHand({"elses"}) :
    LET plain == "plain" \in Top.node.tags
        f     == IF plain THEN Marked(Top, "plain") ELSE Top
    IN IF plain /\ "plain" \in Top.tags THEN Refuses
       ELSE IF Here \in m.on THEN Calls(f, cur, m, m.fn, NoNode)
       ELSE Goes(Done(f), cur)

(* The choices.                                                               *)
SwitchOn ==
  \E m \in AtHand({"switch"}) :
    IF Chosen(m) = {} THEN Refuses ELSE \E r \in Chosen(m) : Goes(Become(Top, r), cur)

PickOne ==
  \E m \in AtHand({"pick"}) :
    IF Chosen(m) = {} THEN Proceeds ELSE \E r \in Chosen(m) : Goes(Become(Top, r), cur)

RepeatOne ==
  \E m \in AtHand({"repeat"}) :
    IF Chosen(m) = {} THEN Proceeds
    ELSE \E r \in Chosen(m) : Calls(Top, cur, m, r, Top.node)

\* A mistake: rounds that are not counted.
UncountedOne ==
  \E m \in AtHand({"bounded"}) :
    IF Chosen(m) = {} THEN Proceeds
    ELSE IF Spin \in Chosen(m) THEN Goes(Top, cur)
    ELSE \E r \in Chosen(m) : Calls(Top, cur, m, r, Top.node)

\* a while of at most n_max rounds; the one that ends it counts too
CountedOne ==
  \E m \in AtHand({"bounded"}) :
    LET f == [Top EXCEPT !.fuel = @ - 1] IN
      IF Top.fuel = 0 \/ (Top.fuel = 1 /\ Chosen(m) = {}) THEN Fails("toolong", cur, stack)
      ELSE IF Chosen(m) = {} THEN Goes(Done(f), cur)
      ELSE IF Spin \in Chosen(m) THEN Goes(f, cur)
      ELSE \E r \in Chosen(m) : Calls(f, cur, m, r, Top.node)

(* The ends.                                                                  *)
ReturnNode == \E m \in AtHand({"ret"}) : Returns1(Node(m.fn, Top.tags))
YieldNode  == \E m \in AtHand({"yield"}) : Returns1(Top.node)

(* The tests of the node, of the modifiers, and of the token ahead.           *)
\* ? * and & in a type, the last operator only: ? behind it, * and & before
InPlace ==
  Top.node.kind = "Unary" =>
    \/ "?" \in Top.node.tags /\ "prefix" \notin Top.node.tags
    \/ "ref" \in Top.node.tags /\ "prefix" \in Top.node.tags
Holds(m) ==
  CASE m.op = "nodeis"    -> Top.node.kind \in m.kinds
    [] m.op = "nodehas"   -> m.kinds \cap Top.node.tags # {}
    [] m.op = "nodelacks" -> m.fn \notin Top.node.tags
    [] m.op = "placed"    -> InPlace
    [] m.op = "mods"      -> \A n \in 1..Len(Top.mods) : Top.mods[n] \in m.on
    [] m.op = "refuse"    -> Here \notin m.on
CheckOne == \E m \in AtHand(Checks) : IF Holds(m) THEN Proceeds ELSE Refuses

\* getNodeType() of the node, which ';' leaves null
FollowNode ==
  \E m \in AtHand({"deref"}) :
    IF Top.node.kind # "None" THEN Proceeds ELSE Stops("crash", cur)

(* The moves of one function each.                                            *)
\* Declaration::parse: modifiers up to ffi "..."
CollectModifiers ==
  \E m \in AtHand({"collect"}) :
    IF Here \in Modifiers /\ ~(Here = "ffi" /\ Ahead(1) \in {"s", "fs", "chr"})
    THEN Goes([Top EXCEPT !.mods = Append(@, Here)], cur + 1)
    ELSE Proceeds

\* and a name behind const: the const is taken out of the list
ConstOrNot ==
  \E m \in AtHand({"const"}) :
    LET first == {n \in 1..Len(Top.mods) :
                    Top.mods[n] = "const" /\ \A k \in 1..n - 1 : Top.mods[k] # "const"}
    IN IF Here \in m.on /\ first # {}
       THEN \E n \in first :
              Goes([Become(Top, m.fn) EXCEPT
                      !.mods = SubSeq(@, 1, n - 1) \o SubSeq(@, n + 1, Len(@))], cur)
       ELSE Proceeds

\* ScopePathExpr: a name with '::' behind it joins the path; a turbofish gives
\* the last name back, which an empty path does not have
ScopeStep ==
  \E m \in AtHand({"scope"}) :
    IF Here # "::" THEN Proceeds
    ELSE IF Ahead(1) \in m.on THEN Goes(Done(Top), cur + 1)
    ELSE IF Ahead(1) = "<" THEN IF "path" \in Top.tags THEN Proceeds ELSE Stops("crash", cur)
    ELSE IF Ahead(1) \in Names /\ Ahead(2) = "::" THEN Goes(Marked(Top, "path"), cur + 2)
    ELSE Calls(Top, cur + 1, m, m.fn, NoNode)

\* OpDecl: advance() until 'fn', with no look at what is left
ScanForFn ==
  \E m \in AtHand({"scan"}) :
    LET first == {n \in cur + 1..Len(toks) :
                    toks[n] = "fn" /\ \A k \in cur + 1..n - 1 : toks[k] # "fn"}
    IN IF first = {} THEN Stops("wild", cur) ELSE \E n \in first : Goes(Done(Top), n)

\* GenericInvokeExpr: '>>' closes two of them
SplitAngles ==
  \E m \in AtHand({"split"}) :
    IF Here # ">>" THEN Proceeds
    ELSE /\ toks' = SubSeq(toks, 1, cur - 1) \o <<">", ">">> \o SubSeq(toks, cur + 1, Len(toks))
         /\ stack' = [stack EXCEPT ![Len(stack)] = Done(Top)]
         /\ UNCHANGED <<cur, status>>

\* A mistake: a ')' is taken, and the end stepped over, for any '(' or none.
CloseAnyParen ==
  \E m \in AtHand({"close"}) :
    IF Here = ")" THEN Goes(Done(Top), cur + 1)
    ELSE IF Here = EOF THEN Stops("wild", cur)
    ELSE IF "paren" \in Top.tags THEN Refuses ELSE Proceeds

\* except_closing_paren: CURRENT_TOKEN_IS_NOT(')') is false at the end of the
\* list, and advance() leaves it
CloseParen ==
  \E m \in AtHand({"close"}) :
    IF "paren" \notin Top.tags THEN Proceeds
    ELSE IF Here = ")" THEN Goes(Done(Top), cur + 1)
    ELSE IF Here = EOF THEN Stops("wild", cur)
    ELSE Refuses

\* LiteralExpr: the elements of an f-string are parsed as expressions of
\* their own, each on a token list of its own
ParseElements == \E m \in AtHand({"elements"}) : Proceeds \/ Refuses

\* SingleImport: import_processor is the Program's; a Declaration that a body
\* makes has none
AskProcessor ==
  \E m \in AtHand({"processor"}) :
    IF \E i \in 1..Len(stack) : stack[i].fn \in {"BlockState", "OneStatement", "ForInit"}
    THEN Stops("crash", cur) ELSE Proceeds

\* parse_primary behind '{', at '}': peek_back(2), from the '}', must be a name
LookBehind ==
  \E m \in AtHand({"braces"}) :
    IF cur <= 2 THEN Stops("wild", cur)
    ELSE IF toks[cur - 2] \in Names THEN Proceeds ELSE Refuses

Ended == status # "run" /\ UNCHANGED vars

Next ==
  \/ TakeToken \/ LookAtToken \/ SkipToken \/ SkipTokens \/ NoteToken
  \/ CallOther \/ CallOptional \/ CallInstead \/ CallWhile
  \/ CallInList \/ CallInParams \/ CallInElses
  \/ SwitchOn \/ PickOne \/ RepeatOne \/ CountedOne
  \/ ReturnNode \/ YieldNode \/ CheckOne \/ FollowNode
  \/ CollectModifiers \/ ConstOrNot \/ ScopeStep \/ ScanForFn \/ SplitAngles
  \/ CloseParen \/ ParseElements \/ AskProcessor \/ LookBehind
  \/ Ended

Spec     == Init /\ [][Next]_vars
FairSpec == Spec /\ WF_vars(Next)
-------------------------------------------------------------------------------
\* The iterator stays in the list, at EOF at the latest, and every parse
\* function that has not returned is at one of its moves.
TypeOK ==
  /\ toks \in Seq(Tokens \cup {EOF}) /\ toks[Len(toks)] = EOF
  /\ cur \in 1..Len(toks)
  /\ status \in Statuses
  /\ stack # <<>>
  /\ \A i \in 1..Len(stack) :
       /\ stack[i].fn \in Rules
       /\ stack[i].pc \in 1..Len(Grammar[stack[i].fn])
       /\ stack[i].start \in 1..cur
       /\ stack[i].fuel \in Nat
===============================================================================
