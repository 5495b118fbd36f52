---------------------------- MODULE ExpressionBudget ----------------------------
(* Why the rounds that Expression::parse counts are always enough: what a     *)
(* grammar of module Parser must be like for each of them to take a token.    *)
EXTENDS LeftRecursion

(* A counted loop is the last thing its function does before it returns.  A   *)
(* round that is not idle takes a token; the first one does not meet the      *)
(* token its function was entered at, unless another is behind it; and only   *)
(* at {} is a round idle.  '>>' is split where a '>' is then taken, by a       *)
(* function that took a token before.                                         *)
Loop(r, p) ==
  LET m == Grammar[r][p] IN
    /\ Grammar[r][p + 1].op \in {"ret", "yield"}
    /\ \A v \in Views :
         /\ Likely(m, v) \ {Spin} \subseteq Firm[v]
         /\ Took(r, p, v, Firm[v]) \/ v = Turbofish \/ Likely(m, v) \ {Spin} = {}
    /\ \A a \in 1..Len(m.alts) : m.alts[a].fn = Spin => m.alts[a].ahead = <<{"{"}, {"}"}>>
Halving(r, p) ==
  /\ Grammar[r][p + 1].op = "tok" /\ ">" \in Grammar[r][p + 1].on
  /\ \A v \in Views : Took(r, p, v, Firm[v])
ASSUME RoundsTake ==
  \A r \in Rules : \A p \in Places(r) :
    /\ Grammar[r][p].op = "bounded" => Loop(r, p)
    /\ Grammar[r][p].op = "split" => Halving(r, p)

(* A function that may yet come to a loop has two rounds more than tokens are *)
(* left, once the cursor is behind the token it was entered at: less the one  *)
(* it has begun, if nothing was taken in it, and the token that a '>>' became *)
(* two of, until the first of them is taken.                                  *)
Round(s, c, i) == IF i < Len(s) /\ s[i + 1].by = "bounded" /\ s[i + 1].start = c THEN 1 ELSE 0
Half == IF Top.pc > 1 /\ Grammar[Top.fn][Top.pc - 1].op = "split" /\ Here = ">" THEN 1 ELSE 0
Enough(f, c, n, round, half) ==
  /\ f.start < n
  /\ f.start = c => f.fuel + round + half >= 2 * (n - c) /\ (round = 1 => c + 1 < n)
  /\ f.start < c => f.fuel + round + half >= n - c + 2

\* but for the function on top where it is about to return, or takes idle rounds
Exempt == Move.op \in {"ret", "yield"} \/ (Move.op = "bounded" /\ Spin \in Chosen(Move))
Budget ==
  status = "run" =>
    \A i \in 1..Len(stack) :
      \/ i = Len(stack) /\ Exempt
      \/ Enough(stack[i], cur, Len(toks), Round(stack, cur, i), Half)
===============================================================================
