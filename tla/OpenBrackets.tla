------------------------------ MODULE OpenBrackets ------------------------------
(* Why the texts that the parser accepts are balanced, though no parse        *)
(* function knows of more brackets than its own: what a grammar of module     *)
(* Parser must be like for that.                                              *)
EXTENDS ExpressionBudget

\* the move before, where there is one
Before(r, p) == IF p > 1 THEN Grammar[r][p - 1] ELSE Plain("entry")
Returns2(m)  == m.op \in {"ret", "yield"}
Entered      == (UNION {Called[r] : r \in Rules}) \cup {i.entry : i \in Inputs}

(* What a function owes: the brackets it has taken and not closed, and whether *)
(* it remembers that one of them was a '(' that need not have been there.     *)
Owing   == [owed : Seq(Openers), paren : BOOLEAN]
Nothing == [owed |-> <<>>, paren |-> FALSE]

(* What it may owe when a move is passed.  A bracket is skipped where it was   *)
(* noted first; a node whose tags are added may hold any; and {} is not passed *)
(* but behind a name, where it is not met.                                     *)
SkipsIt(m)  == m.op = "skip" /\ m.on \cap Brackets # {}
NotesIt(m)  == m.op = "note" /\ m.fn = "paren"
Reads(d, t) == [d EXCEPT !.owed = Turn(@, t)]
Taken(m, d) == {Reads(d, t) : t \in m.on}
Recalls(d)  == [owed |-> d.owed, paren |-> TRUE]
Past(m, d) ==
  IF m.op = "tok" \/ (SkipsIt(m) /\ d.paren) THEN Taken(m, d)
  ELSE IF m.op = "close" /\ d.paren THEN {Reads(d, ")")}
  ELSE IF m.op = "also" \/ NotesIt(m) THEN {d, Recalls(d)}
  ELSE IF m.op = "braces" THEN {}
  ELSE {d}

(* What each function may owe at each of its moves, if it owes nothing where   *)
(* it is called, and what another does where it goes on as this one.          *)
Onwards(r, first) ==
  LET owed[p \in Places(r)] ==
        IF p = 1 THEN first
        ELSE LET D == owed[p - 1] IN UNION {Past(Grammar[r][p - 1], d) : d \in D}
  IN owed
OwedIn(D, r) == Onwards(r, {e[2] : e \in {x \in D : x[1] = r}})
LeftWith(D, r) ==
  LET owed == OwedIn(D, r)
  IN UNION {Leaves(Grammar[r][p]) \X owed[p] : p \in {k \in Places(r) : Leaves(Grammar[r][k]) # {}}}
Owed ==
  LET first[n \in 0..Depth] ==
        IF n = 0 THEN Entered \X {Nothing}
        ELSE LET D == first[n - 1] IN D \cup UNION {LeftWith(D, r) : r \in Rules}
  IN LET D == first[Depth] IN [r \in Rules |-> OwedIn(D, r)]

(* A return finds nothing owed, and only what is said here takes a bracket.    *)
Settles(r, p) ==
  LET m == Grammar[r][p] IN
    /\ Owed[r][p] \subseteq Owing
    /\ p < Len(Grammar[r]) => \A d \in Owed[r][p] : Past(m, d) \subseteq Owed[r][p + 1]
    /\ \A g \in Leaves(m) : Owed[r][p] \subseteq Owed[g][1]
    /\ Returns2(m) => \A d \in Owed[r][p] : d.owed = <<>>
    /\ m.op \in {"skips", "list", "params"} => m.on \cap Brackets = {}
    /\ SkipsIt(m) => /\ NotesIt(Before(r, p)) /\ Before(r, p).on = m.on
                     /\ \A d \in Owed[r][p - 1] : ~d.paren

(* A function that goes on although a call has failed does not get far: it    *)
(* calls another, which leaves none of the tokens it would then take.         *)
Covers(m) ==
  {t \in Tokens \cup {EOF} : \E a \in 1..Len(m.alts) :
     m.alts[a].kinds = {} /\ Len(m.alts[a].ahead) = 1 /\ t \in m.alts[a].ahead[1]}
Stuck(r, p) ==
  LET m == Grammar[r][p]
      n == Grammar[r][p + 1] IN
    /\ m.op = "try" => n.op = "else"
    /\ m.op = "else" =>
         /\ n.op = "tok"
         /\ \A q \in Places(m.fn) :
              /\ Leaves(Grammar[m.fn][q]) = {}
              /\ Returns2(Grammar[m.fn][q]) =>
                   Before(m.fn, q).op = "bounded" /\ n.on \subseteq Covers(Before(m.fn, q))

(* The moves at which {} may be met behind a name.                            *)
Braces == <<"{", "}">>
Becomes ==
  [r \in Rules |->
     LET all[n \in 0..Depth] ==
           IF n = 0 THEN {r} ELSE LET P == all[n - 1] IN P \cup UNION {GoesOnAs[g] : g \in P}
     IN all[Depth]]
Answers(m) == UNION {Becomes[g] : g \in Asks(m) \cup AsksOn(m)}
Guarded == {"opt", "while", "list", "params", "elses", "skip", "skips"}
MayPass(m) ==
  CASE m.op = "look" -> "{" \in m.on
    [] m.op = "refuse" \/ m.op \in Guarded -> "{" \notin m.on
    [] m.op \in {"repeat", "pick", "bounded"} -> \A a \in 1..Len(m.alts) : ~Must(m.alts[a], Braces)
    [] m.op \in Sure \cup {"try", "tok", "scan", "switch", "ret", "yield", "braces"} -> FALSE
    [] OTHER -> TRUE
MayAsk(m) ==
  CASE m.op \in Sure \cup {"try"} -> {m.fn}
    [] m.op \in {"opt", "while", "elses"} -> IF "{" \in m.on THEN {m.fn} ELSE {}
    [] m.op = "repeat" -> LikelyOn(m, Braces)
    [] m.op = "bounded" -> LikelyOn(m, Braces) \ {Spin}
    [] OTHER -> {}
MayLeave(m) == IF m.op \in {"switch", "pick"} THEN LikelyOn(m, Braces) ELSE Leaves(m)

Steps   == UNION {{r} \X Places(r) : r \in Rules}
Meets(at) ==
  LET back == {x[1] : x \in {y \in at : Returns2(Grammar[y[1]][y[2]])}}
      gone == UNION {MayLeave(Grammar[x[1]][x[2]]) \cup MayAsk(Grammar[x[1]][x[2]]) : x \in at}
  IN {x \in Steps :
        LET m == Grammar[x[1]][x[2]]
            b == Before(x[1], x[2]) IN
          \/ b.op \in {"tok", "skip"} /\ b.on \cap Names # {}
          \/ m.op = "scope" \/ (m.op = "skips" /\ m.on \cap Names # {})
          \/ <<x[1], x[2] - 1>> \in at /\ MayPass(b)
          \/ m.op \in Loops /\ Answers(m) \cap back # {}
          \/ b.op \notin Loops /\ Answers(b) \cap back # {}
          \/ x[2] = 1 /\ x[1] \in gone}
Far == 16
Met == LET met[n \in 0..Far] == IF n = 0 THEN {} ELSE LET P == met[n - 1] IN Meets(P)
       IN met[Far]

Unmet(r, p) ==
  LET m == Grammar[r][p] IN
    /\ m.op \in {"list", "params"} => m.on \cap Names = {}
    /\ m.op = "braces" =>
         /\ p = 2 /\ Before(r, p).op = "tok" /\ r \notin Entered /\ <<r, 1>> \notin Met
         /\ \A q \in Rules : \A k \in Places(q) :
              LET a == Grammar[q][k] IN
                r \in Leaves(a) =>
                  /\ a.op \in {"switch", "pick"}
                  /\ \A n \in 1..Len(a.alts) : a.alts[n].fn = r => a.alts[n].ahead = <<{"{"}, {"}"}>>
    /\ m.op = "scan" => Before(r, p).op = "look" /\ Before(r, p).on = {"op"}

\* a program ends where its text does
ReadsAll(p) ==
  LET b == Before("Program", p) IN
    /\ Leaves(Grammar["Program"][p]) = {}
    /\ Returns2(Grammar["Program"][p]) => b.op = "while" /\ b.on = Tokens

ASSUME BracketsMatch ==
  /\ \A r \in Entered : Nothing \in Owed[r][1]
  /\ \A r \in Rules : \A p \in Places(r) :
       Settles(r, p) /\ Stuck(r, p) /\ Unmet(r, p) /\ (r = "Program" => ReadsAll(p))
  /\ Meets(Met) \subseteq Met
  /\ \A r \in Rules : r \in Becomes[r] /\ \A g \in Becomes[r] : GoesOnAs[g] \subseteq Becomes[r]

-------------------------------------------------------------------------------
(* The i-th function of a stack goes on without the answer it wanted, with t   *)
(* at hand, and will fail.                                                     *)
Lost(s, i, t) ==
  LET m == Grammar[s[i].fn][s[i].pc] IN
    IF i < Len(s) THEN m.op = "else" /\ s[i + 1].by = "else" /\ s[i + 1].fn = m.fn
    ELSE \/ m.op = "else" /\ s[i].node.kind = "None"
         \/ m.op = "tok" /\ t \notin m.on

(* What the functions on the stack owe.                                        *)
Owes(w, f, c) == [owed |-> OpenIn(w, f.start, c), paren |-> "paren" \in f.tags]
Until(s, c, i) == IF i = Len(s) THEN c ELSE s[i + 1].start
Debts(s, c, w) ==
  \A i \in 1..Len(s) : Owes(w, s[i], Until(s, c, i)) \in Owed[s[i].fn][s[i].pc]

(* A {}, and one behind a name.                                                *)
BracesAt(w, c)   == c < Len(w) /\ w[c] = "{" /\ w[c + 1] = "}"
BehindName(w, c) == c > 1 /\ w[c - 1] \in Names /\ BracesAt(w, c)

(* What a function f that is at work at c may rely on: a '(' is skipped if it  *)
(* was noted; a {} behind a name is met where the grammar says.                *)
Sorted(f, c, w) ==
  LET m == Grammar[f.fn][f.pc] IN SkipsIt(m) => (w[c] \in m.on <=> "paren" \in f.tags)
Clean(f, c, w) ==
  /\ BehindName(w, c) => <<f.fn, f.pc>> \in Met
  /\ Grammar[f.fn][f.pc].op = "braces" => c <= 2 \/ w[c - 2] \notin Names

(* What the move before has shown it.                                          *)
Told(f, c, w) ==
  LET m == Grammar[f.fn][f.pc]
      b == Before(f.fn, f.pc) IN
    /\ Returns2(m) => /\ b.op = "while" => w[c] \notin b.on
                      /\ b.op = "bounded" => w[c] \notin Covers(b)
    /\ m.op = "scan" => w[c] = "op"
    /\ f.pc = 1 /\ Len(Grammar[f.fn]) > 1 /\ Grammar[f.fn][2].op = "braces" => BracesAt(w, c)
    /\ m.op = "braces" => c > 1 /\ w[c - 1] = "{" /\ w[c] = "}"

(* No text makes a function owe what the grammar does not say, none meets {}   *)
(* behind a name but there, or somebody is lost.                               *)
Straight ==
  status = "run" =>
    \/ \E i \in 1..Len(stack) : Lost(stack, i, Here)
    \/ /\ ~Has("op") => Debts(stack, cur, toks) /\ Sorted(Top, cur, toks)
       /\ Clean(Top, cur, toks)

(* Who is above whom; and EOF is nowhere but at the end.                       *)
Answered(s) ==
  \A i \in 2..Len(s) :
    LET m == Grammar[s[i - 1].fn][s[i - 1].pc] IN s[i].by = m.op /\ s[i].fn \in Answers(m)
OneEnd(w) == \A n \in 1..Len(w) - 1 : w[n] # EOF
Shown ==
  /\ OneEnd(toks)
  /\ status = "run" => stack[1].start = 1 /\ Answered(stack) /\ Told(Top, cur, toks)
===============================================================================
