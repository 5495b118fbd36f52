----------------------------- MODULE LeftRecursion -----------------------------
(* Whether a grammar of module Parser has left recursion: a parse function    *)
(* that may be called again, no token taken, before it has returned.          *)
EXTENDS HelixParser

(* What the parser sees at a token: the token, but a '::' before a '<' is told *)
(* from the others, which are a step of a path.                               *)
Turbofish  == "::<"
Views      == Tokens \cup {EOF, Turbofish}
View(w, c) == IF w[c] = "::" /\ c < Len(w) /\ w[c + 1] = "<" THEN Turbofish ELSE w[c]

(* The functions that a choice may fall on where it sees the tokens b, or the *)
(* view v: those of the alternatives that what is seen does not rule out, up  *)
(* to the first that nothing more can.                                        *)
Sees(a, b) == \A k \in 1..Len(a.ahead) : k <= Len(b) => b[k] \in a.ahead[k]
Must(a, b) == a.kinds = {} /\ Len(a.ahead) <= Len(b) /\ Sees(a, b)
LikelyOn(m, b) ==
  {m.alts[a].fn : a \in {n \in 1..Len(m.alts) :
     Sees(m.alts[n], b) /\ \A l \in 1..n - 1 : ~Must(m.alts[l], b)}}
Behind(v)    == IF v = Turbofish THEN <<"::", "<">> ELSE <<v>>
Likely(m, v) == LikelyOn(m, Behind(v))

(* What a move may do with the functions it names: go on as one of them, call *)
(* it at the token at hand, or call it at the next one.                       *)
Targets(m)   == {m.alts[a].fn : a \in 1..Len(m.alts)}
Leaves(m)    == CASE m.op \in {"switch", "pick"} -> Targets(m)
                  [] m.op = "const" -> {m.fn}
                  [] OTHER -> {}
LeavesAt(m, v) == IF m.op \in {"switch", "pick"} THEN Likely(m, v) ELSE Leaves(m)
Sure         == {"call", "also", "unchecked"}
Asks(m)      == CASE m.op \in Sure \cup {"opt", "while", "elses", "else", "try"} -> {m.fn}
                  [] m.op = "repeat" -> Targets(m)
                  [] m.op = "bounded" -> Targets(m) \ {Spin}
                  [] OTHER -> {}
AsksOn(m)    == IF m.op \in {"list", "params", "scope"} THEN {m.fn} ELSE {}

(* The moves that are not passed at a token seen as v unless it is taken, if  *)
(* no function in firm returns before it is, and the functions that then do   *)
(* not either.                                                                *)
Takes(m, v, firm) ==
  m.op \in {"tok", "scan"} \/ (m.op = "scope" /\ v = "::") \/ (m.op \in Sure /\ m.fn \in firm)
Took(r, p, v, firm) == \E q \in 1..p - 1 : Takes(Grammar[r][q], v, firm)
IsFirm(r, v, firm) ==
  \A p \in 1..Len(Grammar[r]) :
    \/ Took(r, p, v, firm)
    \/ Grammar[r][p].op \notin {"ret", "yield"} /\ LeavesAt(Grammar[r][p], v) \subseteq firm
Depth == 6  \* rounds: enough when they change nothing more, see NoLeftRecursion
Firm ==
  [v \in Views |->
     LET firm[n \in 0..Depth] ==
           IF n = 0 THEN Rules ELSE LET P == firm[n - 1] IN {r \in P : IsFirm(r, v, P)}
     IN firm[Depth]]

(* What a function goes on as, and what it may go on as or call before it has *)
(* taken a token; the functions that some frame begins as.                    *)
Places(r) == 1..Len(Grammar[r])
GoesOnAs  == [r \in Rules |-> UNION {Leaves(Grammar[r][p]) : p \in Places(r)}]
Left      == [r \in Rules |-> UNION {Leaves(Grammar[r][p]) \cup Asks(Grammar[r][p]) :
                                       p \in {q \in Places(r) : \E v \in Views : ~Took(r, q, v, Firm[v])}}]
Called    == [r \in Rules |-> UNION {Asks(Grammar[r][p]) \cup AsksOn(Grammar[r][p]) :
                                       p \in Places(r)}]
Begun     == UNION {Left[r] \cup Called[r] : r \in Rules}

(* The functions that may be entered, while r has not returned, at the token  *)
(* that r was entered at; and what they may have gone on as since.            *)
EnteredUnder ==
  [r \in Rules |->
     LET all[n \in 0..Cardinality(Rules)] ==
           IF n = 0 THEN Left[r] ELSE LET P == all[n - 1] IN P \cup UNION {Left[g] : g \in P}
     IN all[Cardinality(Rules)]]
FoundUnder ==
  [r \in Rules |->
     LET all[n \in 0..Cardinality(Rules)] ==
           IF n = 0 THEN EnteredUnder[r]
           ELSE LET P == all[n - 1] IN P \cup UNION {GoesOnAs[g] : g \in P}
     IN all[Cardinality(Rules)]]

(* No function is under itself.  That the sets above are closed, which they   *)
(* are after so many rounds, is said here as well: it is all they are for.    *)
ASSUME NoLeftRecursion ==
  /\ \A v \in Views : Firm[v] \subseteq Rules /\ \A r \in Firm[v] : IsFirm(r, v, Firm[v])
  /\ \A r \in Rules :
       /\ Left[r] \subseteq EnteredUnder[r] /\ EnteredUnder[r] \subseteq FoundUnder[r]
       /\ \A g \in EnteredUnder[r] : Left[g] \subseteq EnteredUnder[r]
       /\ \A g \in FoundUnder[r] : GoesOnAs[g] \subseteq FoundUnder[r]
  /\ \A r \in Begun \cup {i.entry : i \in Inputs} : r \notin FoundUnder[r]
===============================================================================
