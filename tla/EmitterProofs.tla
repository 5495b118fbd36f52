---------------------------- MODULE EmitterProofs ----------------------------
(* Theorems about Emitter, for any trees that a parser may build.                *)
(*                                                                               *)
(* What carries them is a set of sequences of moves, Good: those that move in    *)
(* the tree there is, take back no token but a comma they have just written, and *)
(* close what they open, or cannot end without an error.  It is closed under all *)
(* that visit functions are written with, so one lemma per visit function puts   *)
(* its moves there.                                                              *)
EXTENDS HelixEmitter, StackTheorems

(* Induction over an interval, for a set.                                        *)
LEMMA Climb ==
    ASSUME NEW k \in Nat, NEW D, 0 \in D, \A n \in 0 .. k : n \in D
       /\ n + 1 \in 0 .. k => n + 1 \in D
    PROVE  \A n \in 0 .. k : n \in D
<1> DEFINE Out == {n \in 0 .. k : n \notin D}
<1>1. SUFFICES ASSUME Out # {}  PROVE FALSE
  OBVIOUS
<1>2. Out \in SUBSET Nat
  OBVIOUS
<1>3. PICK n \in Out : \A m \in Out : n <= m
  <2> HIDE DEF Out
  <2>1. QED BY <1>1, <1>2, LeastNatural
<1>4. n # 0 /\ n - 1 \in 0 .. k /\ n - 1 \in D
  BY <1>3
<1>5. n = (n - 1) + 1 /\ n \in 0 .. k
  BY <1>3
<1>6. QED BY <1>3, <1>4, <1>5

(* Flattening.  A recursive function exists when each value is given by the one   *)
(* before it.                                                                    *)
LEMMA Flatten ==
    ASSUME NEW S, NEW X \in SUBSET Seq(S), \A s, t \in X : s \o t \in X,
           NEW k \in Nat \ {0}, NEW f \in [1 .. k -> X]
    PROVE  /\ FlattenSeq(f) \in X
           /\ FlattenSeq(f) = f[k] \/ \E x \in X : FlattenSeq(f) = x \o f[k]
<1> DEFINE Upto(n, g) ==
        g \in [1 .. n -> X] /\ \A i \in 1 .. n : g[i] = IF i = 1 THEN f[i] ELSE g[i - 1] \o f[i]
           Exists1(n) == \E g : Upto(n, g)
           D == {n \in 0 .. k : Exists1(n)}
<1>0. Exists1(0)
  <2> DEFINE g == [i \in 1 .. 0 |-> f[i]]
  <2>1. Upto(0, g)
    OBVIOUS
  <2> HIDE DEF g, Upto
  <2>2. QED BY <2>1
<1>1. ASSUME NEW n \in 0 .. k, Exists1(n), n + 1 \in 0 .. k
      PROVE  Exists1(n + 1)
  <2>1. PICK g : Upto(n, g)
    BY <1>1
  <2> DEFINE v == IF n = 0 THEN f[n + 1] ELSE g[n] \o f[n + 1]
             h == [i \in 1 .. n + 1 |-> IF i = n + 1 THEN v ELSE g[i]]
  <2>2. f[n + 1] \in X /\ (n # 0 => g[n] \in X)
    BY <1>1, <2>1
  <2>3. v \in X
    BY <2>2
  <2> HIDE DEF v
  <2>4. h \in [1 .. n + 1 -> X]
    BY <2>1, <2>3
  <2>5. ASSUME NEW i \in 1 .. n + 1
        PROVE  h[i] = IF i = 1 THEN f[i] ELSE h[i - 1] \o f[i]
    <3>1. CASE i = n + 1
      <4>1. i # 1 => i - 1 \in 1 .. n /\ h[i - 1] = g[n]
        BY <3>1
      <4>2. QED BY <3>1, <4>1 DEF v
    <3>2. CASE i # n + 1
      <4>1. i \in 1 .. n /\ h[i] = g[i] /\ (i # 1 => h[i - 1] = g[i - 1])
        BY <3>2
      <4>2. QED BY <2>1, <4>1
    <3>3. QED BY <3>1, <3>2
  <2> HIDE DEF h
  <2>6. Upto(n + 1, h)
    BY <2>4, <2>5
  <2> HIDE DEF Upto
  <2>7. QED BY <2>6
<1>2. Exists1(k)
  <2> HIDE DEF Exists1
  <2>1. 0 \in D /\ \A n \in 0 .. k : n \in D /\ n + 1 \in 0 .. k => n + 1 \in D
    BY <1>0, <1>1
  <2>2. k \in D
    <3>1. \A n \in 0 .. k : n \in D
      <4> HIDE DEF D
      <4>1. QED BY <2>1, Climb
    <3>2. QED BY <3>1
  <2>3. QED BY <2>2
<1>3. PICK g : Upto(k, g)
  BY <1>2
<1>4. f \in Seq(X) /\ Len(f) = k /\ Len(f) # 0
  BY SeqDef
<1> DEFINE Rule(h) == h = [i \in 1 .. Len(f) |-> IF i = 1 THEN f[i] ELSE h[i - 1] \o f[i]]
           flat == CHOOSE h : Rule(h)
<1>5. Rule(g)
  BY <1>3, <1>4
<1>6. Rule(flat)
  <2> HIDE DEF Rule
  <2>1. QED BY <1>5
<1>7. FlattenSeq(f) = flat[k]
  BY <1>4 DEF FlattenSeq
<1> HIDE DEF flat
<1>8. \A i \in 1 .. k : flat[i] = IF i = 1 THEN f[i] ELSE flat[i - 1] \o f[i]
  BY <1>4, <1>6
<1> HIDE DEF Rule
<1>9. \A i \in 1 .. k : flat[i] \in X
  <2> DEFINE E == {n \in 0 .. k : n # 0 => flat[n] \in X}
  <2>1. 0 \in E
    OBVIOUS
  <2>2. ASSUME NEW n \in 0 .. k, n \in E, n + 1 \in 0 .. k  PROVE n + 1 \in E
    <3>1. n + 1 \in 1 .. k /\ f[n + 1] \in X
      BY <2>2
    <3>2. flat[n + 1] = IF n + 1 = 1 THEN f[n + 1] ELSE flat[(n + 1) - 1] \o f[n + 1]
      BY <1>8, <3>1
    <3>3. (n + 1) - 1 = n /\ (n # 0 => flat[n] \in X)
      BY <2>2
    <3>4. flat[n + 1] \in X
      <4>1. CASE n = 0
        BY <3>1, <3>2, <4>1
      <4>2. CASE n # 0
        BY <3>1, <3>2, <3>3, <4>2
      <4>3. QED BY <4>1, <4>2
    <3>5. QED BY <3>1, <3>4
  <2>3. \A n \in 0 .. k : n \in E
    <3> HIDE DEF E
    <3>1. QED BY <2>1, <2>2, Climb
  <2>4. QED BY <2>3
<1>10. flat[k] = IF k = 1 THEN f[k] ELSE flat[k - 1] \o f[k]
  BY <1>8
<1>11. flat[k] \in X /\ (k # 1 => flat[k - 1] \in X)
  BY <1>9
<1>12. QED BY <1>7, <1>10, <1>11

(* The brackets open after a text that grows.                                    *)
LEMMA OpenInFacts ==
    /\ OpenIn(<<>>) = <<>>
    /\ \A S : \A s \in Seq(S), e \in S : OpenIn(Append(s, e)) = OpenWith(OpenIn(s), e.t)
<1> DEFINE Upto(n, s, g) ==
        /\ g = [i \in 0 .. n |-> g[i]]
        /\ \A i \in 0 .. n : g[i] = IF i = 0 THEN <<>> ELSE OpenWith(g[i - 1], s[i].t)
           Rule(s, h) ==
        h = [i \in 0 .. Len(s) |-> IF i = 0 THEN <<>> ELSE OpenWith(h[i - 1], s[i].t)]
           after(s) == CHOOSE h : Rule(s, h)
<1>1. ASSUME NEW S, NEW s \in Seq(S)  PROVE Rule(s, after(s))
  <2> DEFINE Exists1(n) == \E g : Upto(n, s, g)
             D == {n \in 0 .. Len(s) : Exists1(n)}
  <2>0. Len(s) \in Nat
    OBVIOUS
  <2>1. Exists1(0)
    <3> DEFINE g == [i \in 0 .. 0 |-> <<>>]
    <3>1. Upto(0, s, g)
      OBVIOUS
    <3> HIDE DEF g, Upto
    <3>2. QED BY <3>1
  <2>2. ASSUME NEW n \in 0 .. Len(s), Exists1(n), n + 1 \in 0 .. Len(s)
        PROVE  Exists1(n + 1)
    <3>1. PICK g : Upto(n, s, g)
      BY <2>2
    <3> DEFINE v == OpenWith(g[n], s[n + 1].t)
               h == [i \in 0 .. n + 1 |-> IF i = n + 1 THEN v ELSE g[i]]
    <3>2. h = [i \in 0 .. n + 1 |-> h[i]]
      OBVIOUS
    <3>3. ASSUME NEW i \in 0 .. n + 1
          PROVE  h[i] = IF i = 0 THEN <<>> ELSE OpenWith(h[i - 1], s[i].t)
      <4>1. CASE i = n + 1
        <5>1. i # 0 /\ i - 1 = n /\ h[i - 1] = g[n] /\ h[i] = v
          BY <2>0, <4>1
        <5>2. QED BY <4>1, <5>1
      <4>2. CASE i # n + 1
        <5>1. i \in 0 .. n /\ h[i] = g[i] /\ (i # 0 => h[i - 1] = g[i - 1])
          BY <2>0, <4>2
        <5>2. QED BY <3>1, <5>1
      <4>3. QED BY <4>1, <4>2
    <3> HIDE DEF h
    <3>4. Upto(n + 1, s, h)
      BY <3>2, <3>3
    <3> HIDE DEF Upto
    <3>5. QED BY <3>4
  <2>3. Exists1(Len(s))
    <3> HIDE DEF Exists1
    <3>1. 0 \in D /\ \A n \in 0 .. Len(s) : n \in D /\ n + 1 \in 0 .. Len(s) => n + 1 \in D
      BY <2>0, <2>1, <2>2
    <3>2. \A n \in 0 .. Len(s) : n \in D
      <4> HIDE DEF D
      <4>1. QED BY <2>0, <3>1, Climb
    <3>3. QED BY <2>0, <3>2
  <2>4. PICK g : Upto(Len(s), s, g)
    BY <2>3
  <2>5. Rule(s, g)
    BY <2>4
  <2> HIDE DEF Rule
  <2>6. QED BY <2>5
<1>2. ASSUME NEW S, NEW s \in Seq(S)
      PROVE  /\ OpenIn(s) = after(s)[Len(s)]
             /\ \A i \in 0 .. Len(s) :
                  after(s)[i] = IF i = 0 THEN <<>> ELSE OpenWith(after(s)[i - 1], s[i].t)
  <2>1. OpenIn(s) = after(s)[Len(s)]
    BY DEF OpenIn
  <2>2. Rule(s, after(s))
    BY <1>1, <1>2
  <2> HIDE DEF after
  <2>3. QED BY <2>1, <2>2
<1> HIDE DEF after, Rule
<1>3. OpenIn(<<>>) = <<>>
  <2> DEFINE z == <<>>
  <2>1. z \in Seq(Int) /\ Len(z) = 0
    OBVIOUS
  <2> HIDE DEF z
  <2>2. OpenIn(z) = after(z)[Len(z)]
    BY <1>2, <2>1
  <2>3. after(z)[0] = <<>>
    <3>1. 0 \in 0 .. Len(z)
      BY <2>1
    <3>2. QED BY <1>2, <2>1, <3>1
  <2>4. QED BY <2>1, <2>2, <2>3 DEF z
<1>4. ASSUME NEW S, NEW s \in Seq(S), NEW e \in S
      PROVE  OpenIn(Append(s, e)) = OpenWith(OpenIn(s), e.t)
  <2> DEFINE u == Append(s, e)
             p == after(s)
             q == after(u)
  <2>1. u \in Seq(S) /\ Len(u) = Len(s) + 1 /\ u[Len(u)] = e /\ Len(s) \in Nat
        /\ \A i \in 1 .. Len(s) : u[i] = s[i]
    BY AppendProperties
  <2> HIDE DEF u
  <2>2. /\ OpenIn(s) = p[Len(s)]
        /\ \A i \in 0 .. Len(s) : p[i] = IF i = 0 THEN <<>> ELSE OpenWith(p[i - 1], s[i].t)
    BY <1>2
  <2>3. /\ OpenIn(u) = q[Len(u)]
        /\ \A i \in 0 .. Len(u) : q[i] = IF i = 0 THEN <<>> ELSE OpenWith(q[i - 1], u[i].t)
    BY <1>2, <2>1
  <2> HIDE DEF p, q
  <2> DEFINE D == {i \in 0 .. Len(s) : p[i] = q[i]}
  <2>4. 0 \in D
    BY <2>1, <2>2, <2>3
  <2>5. ASSUME NEW n \in 0 .. Len(s), n \in D, n + 1 \in 0 .. Len(s)  PROVE n + 1 \in D
    <3>1. /\ n + 1 # 0 /\ (n + 1) - 1 = n /\ n + 1 \in 0 .. Len(u) /\ u[n + 1] = s[n + 1]
          /\ p[n] = q[n]
      BY <2>1, <2>5
    <3>2. p[n + 1] = OpenWith(p[n], s[n + 1].t)
      BY <2>2, <2>5, <3>1
    <3>3. q[n + 1] = OpenWith(q[n], u[n + 1].t)
      BY <2>3, <3>1
    <3>4. QED BY <2>5, <3>1, <3>2, <3>3
  <2>6. p[Len(s)] = q[Len(s)]
    <3>1. \A n \in 0 .. Len(s) : n \in D
      <4> HIDE DEF D
      <4>1. QED BY <2>1, <2>4, <2>5, Climb
    <3>2. QED BY <2>1, <3>1
  <2>7. q[Len(u)] = OpenWith(q[Len(s)], e.t)
    BY <2>1, <2>3
  <2>8. QED BY <2>2, <2>3, <2>6, <2>7 DEF u
<1>5. QED BY <1>3, <1>4

(* A move of the tree there is.                                                  *)
Refs == 0 .. Len(ast)
IsMove(m) ==
  /\ m.of \in Refs /\ m.ids \in Seq(Refs)
  /\ m.op \in {"member", "adopt"} => m.ids # <<>>
  /\ m.op = "interface" => Kind(m.of) = "InterDecl"
IsMoves(s) == (\E S : s \in Seq(S)) /\ \A i \in 1 .. Len(s) : IsMove(s[i])

(* A comma is taken back at once.                                                *)
Comma(m)       == m.op = "emit" /\ m.text = ","
Pops(s)        == \A i \in 1 .. Len(s) : s[i].op = "pop" => i > 1 /\ Comma(s[i - 1])
EndsInComma(s) == s # <<>> /\ Comma(s[Len(s)])

(* A move that ends in an error, or ends the visit.                              *)
Dooms(m)  == \/ m.op \in {"error", "panic", "throw", "never"}
             \/ m.op \in {"visit", "follow"} /\ m.of = Null
Doomed(s) == \E i \in 1 .. Len(s) : Dooms(s[i])

(* The brackets a sequence of moves opens and closes: from those open before it  *)
(* to those open behind it.                                                      *)
After(open, m) == IF m.op = "emit" THEN OpenWith(open, m.text) ELSE open
Nests(s, a, b) ==
  \E st \in [0 .. Len(s) -> Seq(Openers)] :
    /\ st[0] = a /\ st[Len(s)] = b
    /\ \A i \in 1 .. Len(s) : st[i] = After(st[i - 1], s[i])

(* The two forms that leave a bracket open.                                      *)
Unclosed == \E n \in Nodes : PathModule(n) \/ CallAsked(n)

Leads(s, a, b) == IsMoves(s) /\ Pops(s) /\ (Unclosed \/ Doomed(s) \/ Nests(s, a, b))
Good(s)        == Leads(s, <<>>, <<>>)

(* Front drops the last element and keeps the others.                          *)
LEMMA FrontFacts ==
    ASSUME NEW S, NEW s \in Seq(S), s # <<>>
    PROVE  /\ Front(s) \in Seq(S) /\ Len(s) \in Nat \ {0} /\ Len(Front(s)) = Len(s) - 1
           /\ \A i \in 1 .. Len(s) - 1 : Front(s)[i] = s[i]
<1> DEFINE n == Len(s) - 1
           f == SubSeq(s, 1, n)
<1>1. Len(s) \in Nat \ {0} /\ n \in Nat /\ \A i \in 1 .. Len(s) : s[i] \in S
  BY EmptySeq, ElementOfSeq
<1>2. \A i \in 1 .. n : s[i] \in S
  BY <1>1
<1> HIDE DEF n
<1>3. /\ f \in Seq(S) /\ Len(f) = IF 1 <= n THEN n - 1 + 1 ELSE 0
      /\ \A i \in 1 .. n - 1 + 1 : f[i] = s[1 + i - 1]
  BY <1>1, <1>2, SubSeqProperties
<1> HIDE DEF f
<1>4. Len(f) = n /\ \A i \in 1 .. n : f[i] = s[i]
  BY <1>1, <1>3
<1>5. QED BY <1>1, <1>3, <1>4 DEF f, n, Front

(* The four kinds of brackets.                                                 *)
LEMMA BracketFacts ==
    /\ Openers = {"(", "{", "[", "<"} /\ DOMAIN Opposite = {")", "}", "]", ">"}
    /\ Opposite[")"] = "(" /\ Opposite["}"] = "{" /\ Opposite["]"] = "[" /\ Opposite[">"] = "<"
<1>1. DOMAIN Opposite = {")", "}", "]", ">"}
  BY DEF Opposite
<1>2. Opposite[")"] = "(" /\ Opposite["}"] = "{" /\ Opposite["]"] = "[" /\ Opposite[">"] = "<"
  BY DEF Opposite
<1>3. QED BY <1>1, <1>2 DEF Openers

(* A list of open brackets never is what a wrong closing bracket leaves.       *)
LEMMA NotCrossed == \A z \in Seq(Openers) : z # <<"?">>
<1>1. ASSUME <<"?">> \in Seq(Openers)  PROVE FALSE
  <2>1. <<"?">>[1] \in Openers
    BY <1>1, ElementOfSeq
  <2>2. QED BY <2>1, BracketFacts
<1>2. QED BY <1>1

(* One sequence of moves after another.                                          *)
LEMMA JoinMoves ==
    ASSUME NEW s, NEW t, IsMoves(s), IsMoves(t)
    PROVE  /\ \E S : s \in Seq(S) /\ t \in Seq(S)
           /\ IsMoves(s \o t) /\ Len(s \o t) = Len(s) + Len(t) /\ Len(s) \in Nat /\ Len(t) \in Nat
           /\ \A i \in 1 .. Len(s) + Len(t) : (s \o t)[i] = IF i <= Len(s) THEN s[i]
              ELSE t[i - Len(s)]
<1>1. PICK S : s \in Seq(S)
  BY DEF IsMoves
<1>2. PICK R : t \in Seq(R)
  BY DEF IsMoves
<1>3. s \in Seq(S \cup R) /\ t \in Seq(S \cup R)
  BY <1>1, <1>2, SeqMonotonic
<1> DEFINE u == s \o t
<1>4. /\ u \in Seq(S \cup R) /\ Len(u) = Len(s) + Len(t) /\ Len(s) \in Nat /\ Len(t) \in Nat
      /\ \A i \in 1 .. Len(s) + Len(t) : u[i] = IF i <= Len(s) THEN s[i] ELSE t[i - Len(s)]
  BY <1>3, ConcatProperties, LenProperties
<1> HIDE DEF u
<1>5. ASSUME NEW i \in 1 .. Len(u)  PROVE IsMove(u[i])
  <2>1. CASE i <= Len(s)
    <3>1. i \in 1 .. Len(s) /\ u[i] = s[i]
      BY <1>4, <1>5, <2>1
    <3>2. QED BY <3>1 DEF IsMoves
  <2>2. CASE i > Len(s)
    <3>1. i - Len(s) \in 1 .. Len(t) /\ u[i] = t[i - Len(s)]
      BY <1>4, <1>5, <2>2
    <3>2. QED BY <3>1 DEF IsMoves
  <2>3. QED BY <1>4, <1>5, <2>1, <2>2
<1>6. IsMoves(u)
  BY <1>4, <1>5 DEF IsMoves
<1>7. QED BY <1>3, <1>4, <1>6 DEF u

(* Two sequences that take back only commas of their own, joined, do so too.   *)
LEMMA JoinPops ==
    ASSUME NEW s, NEW t, IsMoves(s), IsMoves(t), Pops(s), Pops(t)
    PROVE  Pops(s \o t)
<1> DEFINE u == s \o t
<1>1. IsMoves(s) /\ IsMoves(t) /\ Pops(s) /\ Pops(t)
  OBVIOUS
<1>2. /\ IsMoves(u) /\ Len(u) = Len(s) + Len(t) /\ Len(s) \in Nat /\ Len(t) \in Nat
      /\ \A i \in 1 .. Len(s) + Len(t) : u[i] = IF i <= Len(s) THEN s[i] ELSE t[i - Len(s)]
  BY <1>1, JoinMoves
<1> HIDE DEF u
<1>3. Pops(u)
  <2>1. SUFFICES ASSUME NEW i \in 1 .. Len(u), u[i].op = "pop"
                 PROVE  i > 1 /\ Comma(u[i - 1])
    BY DEF Pops
  <2>2. CASE i <= Len(s)
    <3>1. i \in 1 .. Len(s) /\ u[i] = s[i]
      BY <1>2, <2>2
    <3>2. i > 1 /\ Comma(s[i - 1])
      BY <1>1, <2>1, <3>1 DEF Pops
    <3>3. i - 1 \in 1 .. Len(s) + Len(t) /\ i - 1 <= Len(s)
      BY <1>2, <3>1, <3>2
    <3>4. u[i - 1] = s[i - 1]
      BY <1>2, <3>3
    <3>5. QED BY <3>2, <3>4
  <2>3. CASE i > Len(s)
    <3>1. i - Len(s) \in 1 .. Len(t) /\ u[i] = t[i - Len(s)]
      BY <1>2, <2>3
    <3>2. i - Len(s) > 1 /\ Comma(t[(i - Len(s)) - 1])
      BY <1>1, <2>1, <3>1 DEF Pops
    <3>3. /\ i - 1 \in 1 .. Len(s) + Len(t) /\ ~(i - 1 <= Len(s))
          /\ (i - 1) - Len(s) = (i - Len(s)) - 1
      BY <1>2, <2>3, <3>1, <3>2
    <3>4. u[i - 1] = t[(i - 1) - Len(s)]
      BY <1>2, <3>3
    <3>5. QED BY <1>2, <2>3, <3>2, <3>3, <3>4
  <2>4. QED BY <1>2, <2>2, <2>3
<1>4. QED BY <1>3 DEF u

(* What leads from one list of open brackets to a second and what leads from   *)
(* there to a third, joined, lead from the first to the third.                 *)
LEMMA Join ==
    ASSUME NEW a \in Seq(Openers), NEW b \in Seq(Openers), NEW c \in Seq(Openers),
           NEW s, Leads(s, a, b), NEW t, Leads(t, b, c)
    PROVE  Leads(s \o t, a, c)
<1> DEFINE u == s \o t
<1>1. IsMoves(s) /\ IsMoves(t) /\ Pops(s) /\ Pops(t)
  BY DEF Leads
<1>2. /\ IsMoves(u) /\ Len(u) = Len(s) + Len(t) /\ Len(s) \in Nat /\ Len(t) \in Nat
      /\ \A i \in 1 .. Len(s) + Len(t) : u[i] = IF i <= Len(s) THEN s[i] ELSE t[i - Len(s)]
  BY <1>1, JoinMoves
<1> HIDE DEF u
<1>3. Pops(u)
  BY <1>1, JoinPops DEF u
<1>4. CASE Doomed(s)
  <2>1. PICK i \in 1 .. Len(s) : Dooms(s[i])
    BY <1>4 DEF Doomed
  <2>2. i \in 1 .. Len(u) /\ u[i] = s[i]
    BY <1>2
  <2>3. QED BY <1>2, <1>3, <2>1, <2>2 DEF Leads, Doomed, u
<1>5. CASE Doomed(t)
  <2>1. PICK i \in 1 .. Len(t) : Dooms(t[i])
    BY <1>5 DEF Doomed
  <2>2. i + Len(s) \in 1 .. Len(u) /\ u[i + Len(s)] = t[i]
    <3>1. /\ i + Len(s) \in 1 .. Len(s) + Len(t) /\ ~(i + Len(s) <= Len(s))
          /\ (i + Len(s)) - Len(s) = i
      BY <1>2, <2>1
    <3>2. QED BY <1>2, <3>1
  <2>3. QED BY <1>2, <1>3, <2>1, <2>2 DEF Leads, Doomed, u
<1>6. CASE Nests(s, a, b) /\ Nests(t, b, c)
  <2>1. PICK p \in [0 .. Len(s) -> Seq(Openers)] :
          /\ p[0] = a /\ p[Len(s)] = b
          /\ \A i \in 1 .. Len(s) : p[i] = After(p[i - 1], s[i])
    BY <1>6 DEF Nests
  <2>2. PICK q \in [0 .. Len(t) -> Seq(Openers)] :
          /\ q[0] = b /\ q[Len(t)] = c
          /\ \A i \in 1 .. Len(t) : q[i] = After(q[i - 1], t[i])
    BY <1>6 DEF Nests
  <2> DEFINE st == [i \in 0 .. Len(u) |-> IF i <= Len(s) THEN p[i] ELSE q[i - Len(s)]]
  <2>3. st \in [0 .. Len(u) -> Seq(Openers)]
    <3>1. ASSUME NEW i \in 0 .. Len(u)  PROVE st[i] \in Seq(Openers)
      <4>1. CASE i <= Len(s)
        BY <1>2, <2>1, <4>1
      <4>2. CASE i > Len(s)
        <5>1. i - Len(s) \in 0 .. Len(t) /\ st[i] = q[i - Len(s)]
          BY <1>2, <4>2
        <5>2. QED BY <2>2, <5>1
      <4>3. QED BY <1>2, <4>1, <4>2
    <3>2. QED BY <3>1
  <2>4. st[0] = a /\ st[Len(u)] = c
    <3>1. st[0] = a
      BY <1>2, <2>1
    <3>2. st[Len(u)] = c
      <4>1. CASE Len(t) = 0
        BY <1>2, <2>1, <2>2, <4>1
      <4>2. CASE Len(t) # 0
        <5>1. Len(u) - Len(s) = Len(t)
          BY <1>2
        <5>2. QED BY <1>2, <2>2, <4>2, <5>1
      <4>3. QED BY <4>1, <4>2
    <3>3. QED BY <3>1, <3>2
  <2>5. ASSUME NEW i \in 1 .. Len(u)  PROVE st[i] = After(st[i - 1], u[i])
    <3>1. CASE i <= Len(s)
      <4>1. i \in 1 .. Len(s) /\ u[i] = s[i] /\ st[i] = p[i] /\ st[i - 1] = p[i - 1]
        BY <1>2, <3>1
      <4>2. QED BY <2>1, <4>1
    <3>2. CASE i > Len(s)
      <4>1. i - Len(s) \in 1 .. Len(t) /\ u[i] = t[i - Len(s)] /\ st[i] = q[i - Len(s)]
        BY <1>2, <3>2
      <4>2. st[i - 1] = q[(i - Len(s)) - 1]
        <5>1. CASE i - 1 = Len(s)
          BY <1>2, <2>1, <2>2, <5>1
        <5>2. CASE i - 1 # Len(s)
          <6>1. /\ i \in Nat /\ i > Len(s) /\ i <= Len(u)
                /\ Len(s) \in Nat /\ Len(u) \in Nat /\ i - 1 # Len(s)
            BY <1>2, <3>2, <5>2
          <6>2. ~(i - 1 <= Len(s)) /\ i - 1 \in 0 .. Len(u) /\ (i - 1) - Len(s) = (i - Len(s)) - 1
            BY <6>1
          <6>3. QED BY <6>2
        <5>3. QED BY <5>1, <5>2
      <4>3. QED BY <2>2, <4>1, <4>2
    <3>3. QED BY <1>2, <3>1, <3>2
  <2> HIDE DEF st
  <2>6. Nests(u, a, c)
    BY <2>3, <2>4, <2>5 DEF Nests
  <2>7. QED BY <1>2, <1>3, <2>6 DEF Leads, u
<1>7. CASE Unclosed
  BY <1>2, <1>3, <1>7 DEF Leads, u
<1>8. QED BY <1>4, <1>5, <1>6, <1>7 DEF Leads

(* What is good behind nothing is good behind brackets that are open.            *)
LEMMA Shift ==
    ASSUME NEW a \in Seq(Openers), NEW s, Good(s)
    PROVE  Leads(s, a, a)
<1>1. IsMoves(s) /\ Pops(s) /\ Len(s) \in Nat
  BY DEF Good, Leads, IsMoves
<1>2. CASE Nests(s, <<>>, <<>>)
  <2>1. PICK p \in [0 .. Len(s) -> Seq(Openers)] :
          /\ p[0] = <<>> /\ p[Len(s)] = <<>>
          /\ \A i \in 1 .. Len(s) : p[i] = After(p[i - 1], s[i])
    BY <1>2 DEF Nests
  <2> DEFINE st == [i \in 0 .. Len(s) |-> a \o p[i]]
  <2>2. st \in [0 .. Len(s) -> Seq(Openers)] /\ st[0] = a /\ st[Len(s)] = a
    <3>1. Len(s) \in Nat
      BY <1>1
    <3>2. a \o <<>> = a
      OBVIOUS
    <3>3. \A i \in 0 .. Len(s) : a \o p[i] \in Seq(Openers)
      BY <2>1
    <3>4. QED BY <2>1, <3>1, <3>2, <3>3
  <2>3. ASSUME NEW x \in Seq(Openers), NEW t, OpenWith(x, t) \in Seq(Openers)
        PROVE  OpenWith(a \o x, t) = a \o OpenWith(x, t)
    <3> DEFINE y == a \o x
    <3>1. /\ y \in Seq(Openers) /\ Len(y) = Len(a) + Len(x) /\ Len(a) \in Nat /\ Len(x) \in Nat
          /\ \A i \in 1 .. Len(a) + Len(x) : y[i] = IF i <= Len(a) THEN a[i] ELSE x[i - Len(a)]
      BY ConcatProperties
    <3>2. x # <<"?">> /\ y # <<"?">> /\ OpenWith(x, t) # <<"?">>
      BY <2>3, <3>1, NotCrossed
    <3>4. CASE t \in Openers
      <4>1. OpenWith(y, t) = Append(y, t) /\ OpenWith(x, t) = Append(x, t)
        BY <3>2, <3>4 DEF OpenWith
      <4>2. Append(y, t) = a \o Append(x, t)
        <5>1. /\ Append(y, t) = y \o <<t>> /\ Append(x, t) = x \o <<t>>
              /\ <<t>> \in Seq(Openers)
          BY <3>1, <3>4, AppendIsConcat
        <5>2. QED BY <5>1, ConcatAssociative
      <4>3. QED BY <4>1, <4>2
    <3>5. CASE t \notin Openers /\ t \notin DOMAIN Opposite
      BY <3>2, <3>5 DEF OpenWith
    <3>6. CASE t \notin Openers /\ t \in DOMAIN Opposite
      <4>1. x # <<>> /\ Last(x) = Opposite[t] /\ OpenWith(x, t) = Front(x)
        BY <3>2, <3>6 DEF OpenWith
      <4>2. Len(x) # 0
        BY <4>1, EmptySeq
      <4>3. y # <<>> /\ Last(y) = Last(x)
        BY <3>1, <4>2 DEF Last
      <4>4. OpenWith(y, t) = Front(y)
        BY <3>2, <3>6, <4>1, <4>3 DEF OpenWith
      <4>5. Front(y) = a \o Front(x)
        <5>1. /\ Front(y) \in Seq(Openers) /\ Len(Front(y)) = Len(y) - 1
              /\ \A i \in 1 .. Len(y) - 1 : Front(y)[i] = y[i]
          BY <3>1, <4>3, FrontFacts
        <5>2. /\ Front(x) \in Seq(Openers) /\ Len(Front(x)) = Len(x) - 1
              /\ \A i \in 1 .. Len(x) - 1 : Front(x)[i] = x[i]
          BY <4>1, FrontFacts
        <5> DEFINE f == Front(x)
                   g == Front(y)
        <5> HIDE DEF f, g
        <5>3. /\ a \o f \in Seq(Openers) /\ Len(a \o f) = Len(a) + Len(f)
              /\ \A i \in 1 .. Len(a) + Len(f) :
                   (a \o f)[i] = IF i <= Len(a) THEN a[i] ELSE f[i - Len(a)]
          BY <5>2, ConcatProperties DEF f
        <5>4. ASSUME NEW i \in 1 .. Len(g)  PROVE g[i] = (a \o f)[i]
          <6>1. g[i] = y[i] /\ i \in 1 .. Len(a) + Len(x) /\ i \in 1 .. Len(a) + Len(f)
            BY <3>1, <5>1, <5>2 DEF f, g
          <6>2. i > Len(a) => f[i - Len(a)] = x[i - Len(a)]
            <7>1. i > Len(a) => i - Len(a) \in 1 .. Len(x) - 1
              BY <3>1, <5>2, <6>1 DEF f
            <7>2. QED BY <5>2, <7>1 DEF f
          <6>3. QED BY <3>1, <5>3, <6>1, <6>2
        <5>5. g \in Seq(Openers) /\ Len(g) = Len(a \o f)
          BY <3>1, <5>1, <5>2, <5>3 DEF f, g
        <5>6. g = a \o f
          BY <5>3, <5>4, <5>5, SeqEqual
        <5>7. QED BY <5>6 DEF f, g
      <4>6. QED BY <4>1, <4>4, <4>5
    <3>7. QED BY <3>4, <3>5, <3>6
  <2>4. ASSUME NEW i \in 1 .. Len(s)  PROVE st[i] = After(st[i - 1], s[i])
    <3>1. /\ Len(s) \in Nat /\ i \in 0 .. Len(s) /\ i - 1 \in 0 .. Len(s)
          /\ p[i] \in Seq(Openers) /\ p[i - 1] \in Seq(Openers)
          /\ p[i] = After(p[i - 1], s[i]) /\ st[i] = a \o p[i] /\ st[i - 1] = a \o p[i - 1]
      <4>1. Len(s) \in Nat /\ i \in 0 .. Len(s) /\ i - 1 \in 0 .. Len(s)
        BY <1>1, <2>4
      <4>2. p[i] \in Seq(Openers) /\ p[i - 1] \in Seq(Openers) /\ p[i] = After(p[i - 1], s[i])
        BY <2>1, <4>1
      <4>3. QED BY <4>1, <4>2
    <3> HIDE DEF st
    <3>2. CASE s[i].op = "emit"
      <4>1. p[i] = OpenWith(p[i - 1], s[i].text)
        BY <3>1, <3>2 DEF After
      <4>2. OpenWith(a \o p[i - 1], s[i].text) = a \o p[i]
        BY <2>3, <3>1, <4>1
      <4>3. QED BY <3>1, <3>2, <4>2 DEF After
    <3>3. CASE s[i].op # "emit"
      BY <3>1, <3>3 DEF After
    <3>4. QED BY <3>2, <3>3
  <2> HIDE DEF st
  <2>5. Nests(s, a, a)
    BY <2>2, <2>4 DEF Nests
  <2>6. QED BY <1>1, <2>5 DEF Leads
<1>3. CASE Unclosed \/ Doomed(s)
  BY <1>1, <1>3 DEF Leads
<1>4. QED BY <1>2, <1>3 DEF Good, Leads

(* The shortest lists of open brackets.                                        *)
LEMMA NoBrackets == <<>> \in Seq(Openers) /\ \A x \in Openers : <<x>> \in Seq(Openers)
OBVIOUS

(* A move that names a node of the tree and needs no extra is a move.          *)
LEMMA SomeMove ==
    ASSUME NEW op, NEW text, NEW n \in Refs, op \notin {"member", "adopt", "interface"}
    PROVE  IsMove(Move(op, text, n)) /\ Move(op, text, n).op = op /\ Move(op, text, n).text = text
<1>1. <<>> \in Seq(Refs)
  OBVIOUS
<1>2. QED BY <1>1 DEF Move, IsMove

(* The first conjunct of the tree's type that moves need.                       *)
LEMMA NullIsOne == ASSUME IsTree(ast)  PROVE Null \in Refs
BY DEF IsTree, Refs, Null

(* No move, and one that is not a pop.                                           *)
LEMMA NoMove == ASSUME NEW a \in Seq(Openers)  PROVE Leads(<<>>, a, a)
<1> DEFINE z == <<>>
<1>1. z \in Seq({}) /\ Len(z) = 0
  OBVIOUS
<1> HIDE DEF z
<1>2. Pops(z) /\ IsMoves(z)
  BY <1>1 DEF Pops, IsMoves
<1> DEFINE st == [i \in 0 .. Len(z) |-> a]
<1>3. /\ st \in [0 .. Len(z) -> Seq(Openers)] /\ st[0] = a /\ st[Len(z)] = a
      /\ \A i \in 1 .. Len(z) : st[i] = After(st[i - 1], z[i])
  BY <1>1
<1> HIDE DEF st
<1>4. Nests(z, a, a)
  BY <1>3 DEF Nests
<1>5. QED BY <1>1, <1>2, <1>4 DEF Leads, z

(* A single move other than a pop leads to what it leaves open.                *)
LEMMA OneMove ==
    ASSUME NEW a \in Seq(Openers), NEW b \in Seq(Openers), NEW m, IsMove(m), m.op # "pop",
           Dooms(m) \/ After(a, m) = b
    PROVE  Leads(<<m>>, a, b)
<1> DEFINE s == <<m>>
<1>1. s \in Seq({m}) /\ Len(s) = 1 /\ s[1] = m
  OBVIOUS
<1> HIDE DEF s
<1>2. \A i \in 1 .. Len(s) : i = 1
  BY <1>1
<1>3. Pops(s) /\ IsMoves(s)
  BY <1>1, <1>2 DEF Pops, IsMoves
<1>4. CASE Dooms(m)
  <2>1. Doomed(s)
    BY <1>1, <1>4 DEF Doomed
  <2>2. QED BY <1>1, <1>3, <2>1 DEF Leads, s
<1>5. CASE After(a, m) = b
  <2> DEFINE st == [i \in 0 .. Len(s) |-> IF i = 0 THEN a ELSE b]
  <2>1. st \in [0 .. Len(s) -> Seq(Openers)] /\ st[0] = a /\ st[Len(s)] = b /\ st[1] = b
    BY <1>1
  <2> HIDE DEF st
  <2>2. \A i \in 1 .. Len(s) : st[i] = After(st[i - 1], s[i])
    <3>1. 1 - 1 = 0
      OBVIOUS
    <3>2. st[1] = After(st[1 - 1], s[1])
      BY <1>1, <1>5, <2>1, <3>1
    <3>3. QED BY <1>2, <3>2
  <2>3. Nests(s, a, b)
    BY <2>1, <2>2 DEF Nests
  <2>4. QED BY <1>1, <1>3, <2>3 DEF Leads, s
<1>6. QED BY <1>4, <1>5

(* A comma that has just been written is taken back.                             *)
LEMMA TakeBackComma ==
    ASSUME IsTree(ast),
           NEW a \in Seq(Openers), NEW b \in Seq(Openers), NEW s, Leads(s, a, b), EndsInComma(s)
    PROVE  Leads(s \o PopBack, a, b)
<1> DEFINE p == Move("pop", "", Null)
           t == <<p>>
           u == s \o t
<1>1. IsMove(p) /\ p.op = "pop"
  <2>1. p.op = "pop"
    BY DEF Move
  <2>2. QED BY <2>1, NullIsOne, SomeMove
<1> HIDE DEF p
<1>2. t \in Seq({p}) /\ Len(t) = 1 /\ t[1] = p
  OBVIOUS
<1> HIDE DEF t
<1>3. IsMoves(s) /\ IsMoves(t) /\ Pops(s) /\ Len(s) \in Nat \ {0}
  <2>1. IsMoves(s) /\ Pops(s) /\ s # <<>>
    BY DEF Leads, EndsInComma
  <2>2. Len(s) \in Nat \ {0}
    BY <2>1, EmptySeq DEF IsMoves
  <2>3. \A i \in 1 .. Len(t) : i = 1
    BY <1>2
  <2>4. IsMoves(t)
    BY <1>1, <1>2, <2>3 DEF IsMoves
  <2>5. QED BY <2>1, <2>2, <2>4
<1>4. /\ IsMoves(u) /\ Len(u) = Len(s) + 1
      /\ \A i \in 1 .. Len(s) + 1 : u[i] = IF i <= Len(s) THEN s[i] ELSE t[i - Len(s)]
  <2>1. /\ IsMoves(u) /\ Len(u) = Len(s) + Len(t)
        /\ \A i \in 1 .. Len(s) + Len(t) : u[i] = IF i <= Len(s) THEN s[i] ELSE t[i - Len(s)]
    BY <1>3, JoinMoves
  <2> HIDE DEF u
  <2>2. QED BY <1>2, <2>1
<1> HIDE DEF u
<1>5. u[Len(s) + 1] = p /\ \A i \in 1 .. Len(s) : u[i] = s[i]
  BY <1>2, <1>3, <1>4
<1>6. Pops(u)
  <2>1. SUFFICES ASSUME NEW i \in 1 .. Len(u), u[i].op = "pop"
                 PROVE  i > 1 /\ Comma(u[i - 1])
    BY DEF Pops
  <2>2. CASE i \in 1 .. Len(s)
    <3>1. i > 1 /\ Comma(s[i - 1])
      BY <1>3, <1>5, <2>1, <2>2 DEF Pops
    <3>2. i - 1 \in 1 .. Len(s)
      BY <1>3, <2>2, <3>1
    <3>3. QED BY <1>5, <3>1, <3>2
  <2>3. CASE i = Len(s) + 1
    <3>1. i > 1 /\ i - 1 = Len(s) /\ Len(s) \in 1 .. Len(s)
      BY <1>3, <2>3
    <3>2. QED BY <1>5, <3>1 DEF EndsInComma
  <2>4. QED BY <1>3, <1>4, <2>2, <2>3
<1>7. CASE Doomed(s)
  <2>1. Doomed(u)
    BY <1>3, <1>4, <1>5, <1>7 DEF Doomed
  <2>2. QED BY <1>4, <1>6, <2>1 DEF Leads, u, t, p, PopBack
<1>8. CASE Nests(s, a, b)
  <2>1. PICK q \in [0 .. Len(s) -> Seq(Openers)] :
          /\ q[0] = a /\ q[Len(s)] = b
          /\ \A i \in 1 .. Len(s) : q[i] = After(q[i - 1], s[i])
    BY <1>8 DEF Nests
  <2> DEFINE st == [i \in 0 .. Len(u) |-> IF i <= Len(s) THEN q[i] ELSE b]
  <2>2. /\ st \in [0 .. Len(u) -> Seq(Openers)] /\ st[0] = a /\ st[Len(u)] = b
        /\ \A i \in 0 .. Len(s) : st[i] = q[i]
    BY <1>3, <1>4, <2>1
  <2> HIDE DEF st
  <2>3. ASSUME NEW i \in 1 .. Len(u)  PROVE st[i] = After(st[i - 1], u[i])
    <3>1. CASE i \in 1 .. Len(s)
      <4>1. i - 1 \in 0 .. Len(s) /\ i \in 0 .. Len(s)
        BY <1>3, <3>1
      <4>2. QED BY <1>5, <2>1, <2>2, <3>1, <4>1
    <3>2. CASE i = Len(s) + 1
      <4>1. i - 1 = Len(s) /\ Len(s) \in 0 .. Len(s) /\ i = Len(u)
        BY <1>3, <1>4, <3>2
      <4>2. After(b, u[i]) = b
        BY <1>1, <1>5, <3>2 DEF After
      <4>3. QED BY <2>1, <2>2, <4>1, <4>2
    <3>3. QED BY <1>3, <1>4, <2>3, <3>1, <3>2
  <2>4. Nests(u, a, b)
    BY <2>2, <2>3 DEF Nests
  <2>5. QED BY <1>4, <1>6, <2>4 DEF Leads, u, t, p, PopBack
<1>9. CASE Unclosed
  BY <1>4, <1>6, <1>9 DEF Leads, u, t, p, PopBack
<1>10. QED BY <1>7, <1>8, <1>9 DEF Leads

(* Good moves after good ones.                                                   *)
LEMMA GoodJoin == \A s, t : Good(s) /\ Good(t) => Good(s \o t)
BY NoBrackets, Join DEF Good

(* Good moves behind others lead nowhere else.                                 *)
LEMMA GoodBehind ==
    \A a, b \in Seq(Openers) : \A s, t : Leads(s, a, b) /\ Good(t) => Leads(s \o t, a, b)
BY Shift, Join

(* A sequence all of whose elements are in a set is a sequence over it.        *)
LEMMA SeqOfMembers ==
    ASSUME NEW R, NEW s \in Seq(R), NEW S, \A i \in 1 .. Len(s) : s[i] \in S
    PROVE  s \in Seq(S)
<1>1. Len(s) \in Nat /\ s = [i \in 1 .. Len(s) |-> s[i]]
  BY LenProperties
<1> DEFINE n == Len(s)
<1> HIDE DEF n
<1>2. QED BY <1>1, SeqDef DEF n

(* Good sequences, joined, are good, and the last of them is at the end.       *)
LEMMA GoodCat ==
    ASSUME NEW k \in Nat, NEW f, f = [i \in 1 .. k |-> f[i]], \A i \in 1 .. k : Good(f[i])
    PROVE  /\ Good(Cat(f))
           /\ k # 0 => Cat(f) = f[k] \/ \E s : Good(s) /\ Cat(f) = s \o f[k]
<1>1. CASE k = 0
  <2>1. f = <<>>
    BY <1>1
  <2>2. Cat(<<>>) = <<>>
    BY DEF Cat, FlattenSeq
  <2>3. QED BY <1>1, <2>1, <2>2, NoMove, NoBrackets DEF Good
<1>2. CASE k # 0
  <2> DEFINE S == UNION {{f[i][j] : j \in 1 .. Len(f[i])} : i \in 1 .. k}
             X == {s \in Seq(S) : Good(s)}
  <2>1. ASSUME NEW i \in 1 .. k  PROVE f[i] \in X
    <3>1. PICK R : f[i] \in Seq(R)
      BY <2>1 DEF Good, Leads, IsMoves
    <3>2. \A j \in 1 .. Len(f[i]) : f[i][j] \in S
      OBVIOUS
    <3> HIDE DEF S
    <3>3. f[i] \in Seq(S)
      BY <3>1, <3>2, SeqOfMembers
    <3>4. QED BY <2>1, <3>3
  <2> HIDE DEF S
  <2>2. X \in SUBSET Seq(S) /\ \A s, t \in X : s \o t \in X
    BY GoodJoin, ConcatProperties
  <2>3. f \in [1 .. k -> X] /\ \A s \in X : Good(s)
    BY <2>1
  <2> HIDE DEF X
  <2>4. QED BY <1>2, <2>2, <2>3, Flatten DEF Cat
<1>3. QED BY <1>1, <1>2

(* A comma behind each, the last one taken back.                                 *)
LEMMA CommaBehind ==
    ASSUME NEW s, NEW t, IsMoves(s), IsMoves(t), EndsInComma(t)
    PROVE  EndsInComma(s \o t)
<1> DEFINE u == s \o t
<1>1. /\ Len(u) = Len(s) + Len(t) /\ Len(s) \in Nat /\ Len(t) \in Nat
      /\ \A i \in 1 .. Len(s) + Len(t) : u[i] = IF i <= Len(s) THEN s[i] ELSE t[i - Len(s)]
  BY JoinMoves
<1>2. Len(t) # 0 /\ Comma(t[Len(t)])
  BY EmptySeq DEF EndsInComma, IsMoves
<1> HIDE DEF u
<1>3. /\ Len(s) + Len(t) \in 1 .. Len(s) + Len(t) /\ ~(Len(s) + Len(t) <= Len(s))
      /\ Len(s) + Len(t) - Len(s) = Len(t)
  BY <1>1, <1>2
<1>4. u[Len(u)] = t[Len(t)] /\ Len(u) # 0
  BY <1>1, <1>3
<1>5. u # <<>>
  BY <1>4
<1>6. QED BY <1>2, <1>4, <1>5 DEF EndsInComma, u

(* Good sequences that each end in a comma, joined, may have their last        *)
(* comma taken back; when there are none there is nothing to take back.        *)
LEMMA GoodCommas ==
    ASSUME IsTree(ast), NEW k \in Nat, NEW f, f = [i \in 1 .. k |-> f[i]],
           \A i \in 1 .. k : Good(f[i]) /\ EndsInComma(f[i])
    PROVE  /\ k # 0 => EndsInComma(Cat(f)) /\ Good(Cat(f) \o PopBack)
           /\ k = 0 => Cat(f) = <<>> /\ Good(Cat(f) \o <<>>)
<1>1. CASE k = 0
  <2>1. f = <<>>
    BY <1>1
  <2>2. Cat(<<>>) = <<>>
    BY DEF Cat, FlattenSeq
  <2>3. QED BY <1>1, <2>1, <2>2, GoodCat, GoodJoin, NoMove, NoBrackets DEF Good
<1>2. CASE k # 0
  <2>1. Good(f[k]) /\ EndsInComma(f[k])
    BY <1>2
  <2>2. EndsInComma(Cat(f))
    <3>1. Cat(f) = f[k] \/ \E s : Good(s) /\ Cat(f) = s \o f[k]
      BY <1>2, GoodCat
    <3>2. QED BY <2>1, <3>1, CommaBehind DEF Good, Leads
  <2>3. QED BY <1>2, <2>2, GoodCat, TakeBackComma, NoBrackets DEF Good
<1>3. QED BY <1>1, <1>2

(* What is read of a tree is in it.                                              *)
LEMMA TreeFacts ==
    ASSUME IsTree(ast)
    PROVE  /\ Null \in Refs /\ Len(ast) \in Nat \ {0} /\ Root \in Refs
           /\ \A n \in Refs : n # Null => n \in Nodes
           /\ \A n \in Refs : \A f : Kids(n, f) \in Seq(Refs) /\ Kid(n, f) \in Refs
           /\ \A n \in Refs : \A f : Len(Kids(n, f)) \in Nat
              /\ (Len(Kids(n, f)) = 0 <=> Kids(n, f) = <<>>)
           /\ \A n \in Refs : \A f : \A i \in 1 .. Len(Kids(n, f)) : Kids(n, f)[i] \in Refs
<1>1. Len(ast) \in Nat \ {0} /\ Null \in Refs /\ Root \in Refs
  BY DEF IsTree, Refs, Null, Root
<1>2. \A n \in Refs : n # Null => n \in Nodes
  BY <1>1 DEF Refs, Null, Nodes
<1>3. ASSUME NEW n \in Refs, NEW f  PROVE Kids(n, f) \in Seq(Refs)
  <2>1. CASE n # Null /\ f \in DOMAIN ast[n].kids
    <3>1. IsNode(ast[n], Len(ast))
      BY <1>2, <2>1 DEF IsTree, Nodes
    <3>2. QED BY <2>1, <3>1 DEF IsNode, Kids, Refs
  <2>2. CASE ~(n # Null /\ f \in DOMAIN ast[n].kids)
    BY <2>2 DEF Kids
  <2>3. QED BY <2>1, <2>2
<1>4. ASSUME NEW n \in Refs, NEW f
      PROVE  /\ Len(Kids(n, f)) \in Nat /\ Kid(n, f) \in Refs
             /\ Len(Kids(n, f)) = 0 <=> Kids(n, f) = <<>>
             /\ \A i \in 1 .. Len(Kids(n, f)) : Kids(n, f)[i] \in Refs
  <2> DEFINE s == Kids(n, f)
  <2>1. s \in Seq(Refs)
    BY <1>3
  <2> HIDE DEF s
  <2>2. Len(s) \in Nat /\ \A i \in 1 .. Len(s) : s[i] \in Refs
    BY <2>1
  <2>3. s # <<>> => s[1] \in Refs
    BY <2>1, <2>2, EmptySeq
  <2>4. Len(s) = 0 <=> s = <<>>
    BY <2>1, EmptySeq
  <2>5. QED BY <1>1, <2>2, <2>3, <2>4 DEF Kid, s
<1>5. QED BY <1>1, <1>2, <1>3, <1>4

(* Single moves.                                                                 *)
Brackets == {"(", ")", "{", "}", "[", "]", "<", ">"}

(* A single move is good unless it is a pop or writes a bracket.               *)
LEMMA GoodMove ==
    ASSUME NEW m, IsMove(m), m.op # "pop", m.op = "emit" => m.text \notin Brackets
    PROVE  Good(<<m>>)
<1>1. CASE m.op = "emit"
  <2>1. m.text \notin Openers /\ m.text \notin DOMAIN Opposite
    BY <1>1, BracketFacts DEF Brackets
  <2>2. OpenWith(<<>>, m.text) = <<>>
    <3> DEFINE z == <<>>
               w == <<"?">>
    <3>1. z # w
      OBVIOUS
    <3> HIDE DEF z, w
    <3>2. OpenWith(z, m.text) = z
      BY <2>1, <3>1 DEF OpenWith, w
    <3>3. QED BY <3>2 DEF z
  <2>3. QED BY <1>1, <2>2, OneMove, NoBrackets DEF Good, After
<1>2. CASE m.op # "emit"
  BY <1>2, OneMove, NoBrackets DEF Good, After
<1>3. QED BY <1>1, <1>2

(* A token that is no bracket is good.                                         *)
LEMMA GoodWords ==
    ASSUME IsTree(ast)
    PROVE  /\ \A x : x \notin Brackets => Good(T(x))
           /\ \A n \in Refs : \A x : x \notin Brackets => Good(Src(n, x))
<1>1. ASSUME NEW n \in Refs, NEW x, x \notin Brackets
      PROVE  Good(<<Move("emit", x, n)>>)
  BY <1>1, SomeMove, GoodMove
<1>2. QED BY <1>1, TreeFacts DEF T, Src

(* A visit, a pointer followed, an error and the ends of the program are       *)
(* good.                                                                       *)
LEMMA GoodSingles ==
    ASSUME IsTree(ast)
    PROVE  /\ \A n \in Refs : \A a : Good(Visit(n)) /\ Good(VisitAs(n, a)) /\ Good(Follow(n))
           /\ Good(Err) /\ Good(ThrowPanic) /\ Good(Throw) /\ Good(Never)
<1>1. ASSUME NEW n \in Refs, NEW a, NEW op \in {"visit", "follow", "error", "panic", "throw", "never"}
      PROVE  Good(<<Move(op, a, n)>>)
  <2>1. op # "pop" /\ op # "emit" /\ op \notin {"member", "adopt", "interface"}
    BY <1>1
  <2>2. QED BY <2>1, SomeMove, GoodMove
<1>2. QED BY <1>1, TreeFacts DEF Visit, VisitAs, Follow, Err, ThrowPanic, Throw, Never

(* The edits of the tree, and what is put off until one is made, are good.     *)
LEMMA GoodEdits ==
    ASSUME IsTree(ast)
    PROVE  /\ \A n \in Refs : \A a : \A op \in {"main", "operator", "signature", "self generic", "cast"} :
                Good(Later(op, a, n))
           /\ \A n \in Refs : \A t : Good(Mark(n, t))
           /\ \A n \in Refs : \A f : \A ids \in Seq(Refs) : Good(Set(n, f, ids))
           /\ \A n, m \in Refs : Good(Adopt(n, m)) /\ Good(Hang(n, m))
           /\ \A n \in Refs : Kind(n) = "InterDecl" => Good(Later("interface", "", n))
           /\ \A n, m \in Refs : Good(<<[Move("member", "", n) EXCEPT !.ids = <<m>>]>>)
<1>1. ASSUME NEW n \in Refs, NEW a, NEW op \in {"main", "operator", "signature", "self generic", "cast", "mark"}
      PROVE  Good(<<Move(op, a, n)>>)
  <2>1. op # "pop" /\ op # "emit" /\ op \notin {"member", "adopt", "interface"}
    BY <1>1
  <2>2. QED BY <2>1, SomeMove, GoodMove
<1>2. ASSUME NEW n \in Refs, NEW f, NEW ids \in Seq(Refs)
      PROVE  Good(Set(n, f, ids))
  <2> DEFINE m == [Move("set", f, n) EXCEPT !.ids = ids]
  <2>1. m.op = "set" /\ m.of = n /\ m.ids = ids
    BY DEF Move
  <2> HIDE DEF m
  <2>2. IsMove(m)
    BY <2>1 DEF IsMove
  <2>3. Good(<<m>>)
    BY <2>1, <2>2, GoodMove
  <2>4. QED BY <2>3 DEF m, Set
<1>3. ASSUME NEW n \in Refs, NEW k \in Refs
      PROVE  /\ Good(Adopt(n, k)) /\ Good(Hang(n, k))
             /\ Good(<<[Move("member", "", n) EXCEPT !.ids = <<k>>]>>)
  <2>0. <<k>> \in Seq(Refs) /\ <<k>> # <<>>
    OBVIOUS
  <2>1. Good(Adopt(n, k))
    <3> DEFINE m == [Move("adopt", "", n) EXCEPT !.ids = <<k>>]
    <3>1. m.op = "adopt" /\ m.of = n /\ m.ids = <<k>>
      BY DEF Move
    <3> HIDE DEF m
    <3>2. IsMove(m)
      BY <2>0, <3>1 DEF IsMove
    <3>3. Good(<<m>>)
      BY <3>1, <3>2, GoodMove
    <3>4. QED BY <3>3 DEF m, Adopt
  <2>2. Good(Hang(n, k))
    <3> DEFINE m == [Move("hang", "generics", n) EXCEPT !.ids = <<k>>]
    <3>1. m.op = "hang" /\ m.of = n /\ m.ids = <<k>>
      BY DEF Move
    <3> HIDE DEF m
    <3>2. IsMove(m)
      BY <2>0, <3>1 DEF IsMove
    <3>3. Good(<<m>>)
      BY <3>1, <3>2, GoodMove
    <3>4. QED BY <3>3 DEF m, Hang
  <2>3. Good(<<[Move("member", "", n) EXCEPT !.ids = <<k>>]>>)
    <3> DEFINE m == [Move("member", "", n) EXCEPT !.ids = <<k>>]
    <3>1. m.op = "member" /\ m.of = n /\ m.ids = <<k>>
      BY DEF Move
    <3> HIDE DEF m
    <3>2. IsMove(m)
      BY <2>0, <3>1 DEF IsMove
    <3>3. Good(<<m>>)
      BY <3>1, <3>2, GoodMove
    <3>4. QED BY <3>3 DEF m
  <2>4. QED BY <2>1, <2>2, <2>3
<1>4. ASSUME NEW n \in Refs, Kind(n) = "InterDecl"  PROVE Good(Later("interface", "", n))
  <2> DEFINE m == Move("interface", "", n)
  <2>1. m.op = "interface" /\ m.of = n /\ m.ids = <<>>
    BY DEF Move
  <2> HIDE DEF m
  <2>2. <<>> \in Seq(Refs)
    OBVIOUS
  <2>3. IsMove(m)
    BY <1>4, <2>1, <2>2 DEF IsMove
  <2>4. Good(<<m>>)
    BY <2>1, <2>3, GoodMove
  <2>5. QED BY <2>4 DEF m, Later
<1>5. QED BY <1>1, <1>2, <1>3, <1>4 DEF Later, Mark

(* Brackets around good moves.                                                   *)
LEMMA Opens ==
    ASSUME IsTree(ast), NEW a \in Seq(Openers), NEW x \in Openers
    PROVE  Leads(T(x), a, Append(a, x))
<1> DEFINE m == Move("emit", x, Null)
<1>1. IsMove(m) /\ m.op = "emit" /\ m.text = x
  BY TreeFacts, SomeMove
<1> HIDE DEF m
<1>2. a # <<"?">> /\ Append(a, x) \in Seq(Openers)
  BY NotCrossed, AppendProperties
<1>3. After(a, m) = Append(a, x)
  BY <1>1, <1>2 DEF After, OpenWith
<1>4. Leads(<<m>>, a, Append(a, x))
  BY <1>1, <1>2, <1>3, OneMove
<1>5. QED BY <1>4 DEF T, m

(* A closing bracket closes the innermost open one of its kind.                *)
LEMMA Closes ==
    ASSUME IsTree(ast), NEW a \in Seq(Openers), NEW x \in DOMAIN Opposite
    PROVE  Leads(T(x), Append(a, Opposite[x]), a)
<1> DEFINE m == Move("emit", x, Null)
           y == Opposite[x]
           b == Append(a, y)
<1>1. IsMove(m) /\ m.op = "emit" /\ m.text = x
  BY TreeFacts, SomeMove
<1> HIDE DEF m
<1>2. y \in Openers /\ x \notin Openers
  BY BracketFacts
<1> HIDE DEF y
<1>3. b \in Seq(Openers) /\ b # <<>> /\ Len(b) = Len(a) + 1 /\ b[Len(b)] = y
      /\ \A i \in 1 .. Len(a) : b[i] = a[i]
  BY <1>2, AppendProperties
<1> HIDE DEF b
<1>4. b # <<"?">>
  BY <1>3, NotCrossed
<1>5. Front(b) = a
  <2>1. /\ Front(b) \in Seq(Openers) /\ Len(Front(b)) = Len(b) - 1
        /\ \A i \in 1 .. Len(b) - 1 : Front(b)[i] = b[i]
    BY <1>3, FrontFacts
  <2> DEFINE c == Front(b)
  <2> HIDE DEF c
  <2>2. Len(a) \in Nat /\ Len(c) = Len(a) /\ \A i \in 1 .. Len(c) : c[i] = a[i]
    BY <1>3, <2>1 DEF c
  <2>3. c = a
    BY <2>1, <2>2, SeqEqual DEF c
  <2>4. QED BY <2>3 DEF c
<1>6. After(b, m) = a
  BY <1>1, <1>2, <1>3, <1>4, <1>5 DEF After, OpenWith, Last, y
<1>7. Leads(<<m>>, b, a)
  BY <1>1, <1>3, <1>6, OneMove
<1>8. QED BY <1>7 DEF T, m, b, y

(* What stands between a pair of brackets is good when its inside is.          *)
LEMMA GoodBetween ==
    ASSUME IsTree(ast), NEW s, Good(s)
    PROVE  Good(Paren(s)) /\ Good(Brace(s)) /\ Good(Bracket(s)) /\ Good(Angle(s))
<1>1. ASSUME NEW x \in DOMAIN Opposite
      PROVE  Good(T(Opposite[x]) \o s \o T(x))
  <2> DEFINE b == Append(<<>>, Opposite[x])
  <2>1. Opposite[x] \in Openers
    BY BracketFacts
  <2>2. b \in Seq(Openers)
    BY <2>1, NoBrackets, AppendProperties
  <2>3. Leads(T(Opposite[x]), <<>>, b)
    BY <2>1, NoBrackets, Opens
  <2>4. Leads(T(x), b, <<>>)
    BY NoBrackets, Closes
  <2> HIDE DEF b
  <2>5. Leads(T(Opposite[x]) \o s, <<>>, b)
    BY <2>2, <2>3, NoBrackets, GoodBehind
  <2>6. QED BY <2>2, <2>4, <2>5, NoBrackets, Join DEF Good
<1>2. QED BY <1>1, BracketFacts DEF Paren, Brace, Bracket, Angle

(* What all visit functions are written with.                                  *)
LEMMA GoodFacts ==
    ASSUME IsTree(ast)
    PROVE  /\ Good(<<>>)
           /\ \A s, t : Good(s) /\ Good(t) => Good(s \o t)
           /\ \A s : Good(s) => Good(Paren(s)) /\ Good(Brace(s)) /\ Good(Bracket(s))
              /\ Good(Angle(s))
           /\ \A n \in Refs : \A a : Good(Visit(n)) /\ Good(VisitAs(n, a)) /\ Good(Follow(n))
           /\ Good(Err) /\ Good(ThrowPanic) /\ Good(Throw) /\ Good(Never)
           /\ \A x : x \notin Brackets => Good(T(x))
           /\ \A n \in Refs : \A x : x \notin Brackets => Good(Src(n, x))
BY GoodJoin, GoodBetween, GoodSingles, GoodWords, NoMove, NoBrackets DEF Good

(* A comma behind something good ends it in a comma.                           *)
LEMMA CommaLast == ASSUME IsTree(ast)  PROVE \A s : Good(s) => Good(s \o T(",")) /\ EndsInComma(s
   \o T(","))
<1>1. Good(T(","))
  BY GoodFacts DEF Brackets
<1>2. EndsInComma(T(","))
  <2> DEFINE m == Move("emit", ",", Null)
  <2>1. Comma(m)
    BY DEF Move, Comma
  <2> HIDE DEF m
  <2>2. EndsInComma(<<m>>)
    BY <2>1 DEF EndsInComma
  <2>3. QED BY <2>2 DEF m, T
<1>3. QED BY <1>1, <1>2, GoodFacts, CommaBehind DEF Good, Leads

(* The last comma may be taken back also where the list may be empty and a     *)
(* comma stands in front of it.                                                *)
LEMMA MoreCommas ==
    ASSUME IsTree(ast), NEW s, Good(s), EndsInComma(s),
           NEW k \in Nat, NEW f, f = [i \in 1 .. k |-> f[i]], \A i \in 1 .. k : Good(f[i])
              /\ EndsInComma(f[i])
    PROVE  Good(s \o Cat(f) \o PopBack)
<1>1. EndsInComma(s \o Cat(f))
  <2>1. CASE k = 0
    <3>1. s \o <<>> = s
      <4>1. PICK S : s \in Seq(S)
        BY DEF Good, Leads, IsMoves
      <4>2. QED BY <4>1, ConcatEmptySeq
    <3>2. Cat(f) = <<>>
      BY <2>1, GoodCommas
    <3>3. QED BY <3>1, <3>2
  <2>2. CASE k # 0
    BY <2>2, GoodCat, GoodCommas, CommaBehind DEF Good, Leads
  <2>3. QED BY <2>1, <2>2
<1>2. Good(s \o Cat(f))
  BY GoodCat, GoodFacts
<1>3. QED BY <1>1, <1>2, TakeBackComma, NoBrackets DEF Good

(* Lists of children.                                                            *)
LEMMA NoChildren == <<>> \in Seq(Refs)
OBVIOUS

(* The visits of all children of a field are good.                             *)
LEMMA GoodAll == ASSUME IsTree(ast), NEW n \in Refs, NEW f  PROVE Good(All(n, f))
<1>1. Good(Each(Kids(n, f), Visit))
  <2> DEFINE k == Len(Kids(n, f))
             g == [i \in 1 .. k |-> Visit(Kids(n, f)[i])]
  <2>1. k \in Nat /\ \A i \in 1 .. k : Good(Visit(Kids(n, f)[i]))
    BY TreeFacts, GoodFacts
  <2>2. Good(Cat(g))
    BY <2>1, GoodCat
  <2>3. QED BY <2>2 DEF Each
<1>2. QED BY <1>1 DEF All

(* The visits of some nodes, a good sequence between every two, are good.      *)
LEMMA GoodBetweenThem ==
    ASSUME IsTree(ast), NEW ids \in Seq(Refs), NEW sep, Good(sep)
    PROVE  Good(Between(ids, sep))
<1> DEFINE k == Len(ids)
           g == [i \in 1 .. k |-> When(i > 1, sep) \o When(ids[i] # Null, Visit(ids[i]))]
<1>1. k \in Nat /\ \A i \in 1 .. k : Good(When(i > 1, sep) \o When(ids[i] # Null, Visit(ids[i])))
  BY GoodFacts DEF When
<1>2. Good(Cat(g))
  BY <1>1, GoodCat
<1>3. QED BY <1>2 DEF Between

(* The parts of many visits: a child that may be null, one that may not,       *)
(* lists, bodies and requirements.                                             *)
LEMMA GoodParts ==
    ASSUME IsTree(ast), NEW n \in Refs
    PROVE  /\ \A f : Good(Param(n, f)) /\ Good(Must(n, f)) /\ Good(All(n, f))
              /\ Good(CommaSep(n, f))
           /\ Good(Body(n)) /\ Good(Returned(n)) /\ Good(Requires(n))
<1>1. \A f : Good(Param(n, f)) /\ Good(Must(n, f)) /\ Good(All(n, f))
  BY TreeFacts, GoodFacts, GoodAll DEF Param, Must, When
<1>2. \A f : Good(CommaSep(n, f))
  BY TreeFacts, GoodFacts, GoodBetweenThem DEF CommaSep, Brackets
<1>3. Good(Body(n)) /\ Good(Returned(n)) /\ Good(Requires(n))
  BY <1>1, GoodFacts DEF Body, Returned, Requires, When, Brackets
<1>4. QED BY <1>1, <1>2, <1>3

(* The visit functions of expressions.                                           *)
LEMMA GoodExprs ==
    ASSUME IsTree(ast), NEW n \in Refs
    PROVE  /\ Good(Literal(n))
           /\ Good(BinaryExpr(n))
           /\ Good(UnaryType(n))
           /\ Good(UnaryExpr(n))
           /\ Good(IdentExpr(n))
           /\ Good(NamedArgumentExpr(n))
           /\ Good(ArgumentExpr(n))
           /\ Good(ArgumentListExpr(n))
           /\ Good(GenericInvokeExpr(n))
           /\ Good(ScopePathExpr(n, TRUE))
           /\ Good(ScopePathExpr(n, FALSE))
           /\ Good(DotPathExpr(n))
           /\ Good(ArrayAccessExpr(n))
           /\ Good(PathExpr(n))
           /\ Good(ArrayLiteralExpr(n))
           /\ Good(TupleLiteralExpr(n))
           /\ Good(SetLiteralExpr(n))
           /\ Good(MapPairExpr(n))
           /\ Good(MapLiteralExpr(n))
           /\ Good(ObjInitExpr(n))
           /\ Good(TernaryExpr(n))
           /\ Good(ParenthesizedExpr(n))
           /\ Good(CastExpr(n))
           /\ Good(AsyncThreading(n))
           /\ Good(InstOfExpr(n))
           /\ Good(LambdaExpr(n))
           /\ Good(FnPtr(n))
           /\ Good(Type(n))
           /\ Good(LiteralExpr(n))
           /\ Good(InlineCpp(n))
           /\ Good(CalledPath(n, Kid(Kid(n, "path"), "path")))
           /\ Good(FunctionCallExpr(n))
<1>1. Good(Literal(n))
  BY TreeFacts, GoodFacts, GoodParts DEF Literal, Brackets
<1>2. Good(BinaryExpr(n))
  BY TreeFacts, GoodFacts, GoodParts DEF BinaryExpr, When, Brackets
<1>3. Good(UnaryType(n))
  BY TreeFacts, GoodFacts, GoodParts DEF UnaryType, When, Brackets
<1>4. Good(UnaryExpr(n))
  BY <1>3, TreeFacts, GoodFacts, GoodParts DEF UnaryExpr, When, Brackets
<1>5. Good(IdentExpr(n))
  BY TreeFacts, GoodFacts, GoodParts DEF IdentExpr, Brackets
<1>6. Good(NamedArgumentExpr(n))
  BY TreeFacts, GoodFacts, GoodParts DEF NamedArgumentExpr, When, Brackets
<1>7. Good(ArgumentExpr(n))
  BY TreeFacts, GoodFacts, GoodParts DEF ArgumentExpr, Brackets
<1>8. Good(ArgumentListExpr(n))
  BY TreeFacts, GoodFacts, GoodParts DEF ArgumentListExpr, Brackets
<1>9. Good(GenericInvokeExpr(n))
  BY TreeFacts, GoodFacts, GoodParts DEF GenericInvokeExpr, Brackets
<1>10. Good(Each(Kids(n, "path"), LAMBDA m : Visit(m) \o T("::")))
  <2> DEFINE k == Len(Kids(n, "path"))
             g == [i \in 1 .. k |-> Visit(Kids(n, "path")[i]) \o T("::")]
  <2>1. k \in Nat /\ \A i \in 1 .. k : Good(Visit(Kids(n, "path")[i]) \o T("::"))
    BY TreeFacts, GoodFacts, GoodParts DEF Brackets
  <2>2. Good(Cat(g))
    BY <2>1, GoodCat
  <2>3. QED BY <2>2 DEF Each
<1>11. Good(ScopePathExpr(n, TRUE)) /\ Good(ScopePathExpr(n, FALSE))
  BY <1>10, GoodFacts, GoodParts DEF ScopePathExpr, When, Brackets
<1>12. Good(DotPathExpr(n))
  BY TreeFacts, GoodFacts, GoodParts DEF DotPathExpr, Brackets
<1>13. Good(ArrayAccessExpr(n))
  BY TreeFacts, GoodFacts, GoodParts DEF ArrayAccessExpr, Brackets
<1>14. Good(PathExpr(n))
  BY TreeFacts, GoodFacts, GoodParts DEF PathExpr, Brackets
<1>15. Good(ArrayLiteralExpr(n))
  BY TreeFacts, GoodFacts, GoodParts DEF ArrayLiteralExpr, Brackets
<1>16. Good(TupleLiteralExpr(n))
  BY TreeFacts, GoodFacts, GoodParts DEF TupleLiteralExpr, Brackets
<1>17. Good(SetLiteralExpr(n))
  BY TreeFacts, GoodFacts, GoodParts DEF SetLiteralExpr, Brackets
<1>18. Good(MapPairExpr(n))
  BY TreeFacts, GoodFacts, GoodParts DEF MapPairExpr, Brackets
<1>19. Good(CommaAfter(Kids(n, "values"), LAMBDA m : Brace(Must(m, "key") \o T(",")
       \o Must(m, "value"))))
  <2> DEFINE k == Len(Kids(n, "values"))
             g == [i \in 1 .. k |-> Brace(Must(Kids(n, "values")[i], "key") \o T(",")
                    \o Must(Kids(n, "values")[i], "value")) \o T(",")]
  <2>1. k \in Nat /\ (k = 0 <=> Kids(n, "values") = <<>>)
    BY TreeFacts
  <2>2. \A i \in 1 .. k : Good(Brace(Must(Kids(n, "values")[i], "key") \o T(",")
        \o Must(Kids(n, "values")[i], "value")))
    BY TreeFacts, GoodFacts, GoodParts DEF Brackets
  <2>3. \A i \in 1 .. k : Good(g[i]) /\ EndsInComma(g[i])
    BY <2>2, CommaLast
  <2>4. (k # 0 => Good(Cat(g) \o PopBack)) /\ (k = 0 => Good(Cat(g) \o <<>>))
    BY <2>1, <2>3, GoodCommas
  <2>5. QED BY <2>1, <2>4 DEF CommaAfter, Each, When
<1>20. Good(MapLiteralExpr(n))
  BY <1>19, TreeFacts, GoodFacts, GoodParts DEF MapLiteralExpr, When, Brackets
<1>21. Good(CommaAfter(Kids(n, "kwargs"), LAMBDA m : T(".") \o Must(m, "name") \o T("=")
       \o Must(m, "value")))
  <2> DEFINE k == Len(Kids(n, "kwargs"))
             g == [i \in 1 .. k |-> T(".") \o Must(Kids(n, "kwargs")[i], "name") \o T("=")
                    \o Must(Kids(n, "kwargs")[i], "value") \o T(",")]
  <2>1. k \in Nat /\ (k = 0 <=> Kids(n, "kwargs") = <<>>)
    BY TreeFacts
  <2>2. \A i \in 1 .. k : Good(T(".") \o Must(Kids(n, "kwargs")[i], "name") \o T("=")
        \o Must(Kids(n, "kwargs")[i], "value"))
    BY TreeFacts, GoodFacts, GoodParts DEF Brackets
  <2>3. \A i \in 1 .. k : Good(g[i]) /\ EndsInComma(g[i])
    BY <2>2, CommaLast
  <2>4. (k # 0 => Good(Cat(g) \o PopBack)) /\ (k = 0 => Good(Cat(g) \o <<>>))
    BY <2>1, <2>3, GoodCommas
  <2>5. QED BY <2>1, <2>4 DEF CommaAfter, Each, When
<1>22. Good(ObjInitExpr(n))
  BY <1>21, TreeFacts, GoodFacts, GoodParts DEF ObjInitExpr, When, Brackets
<1>23. Good(TernaryExpr(n))
  BY TreeFacts, GoodFacts, GoodParts DEF TernaryExpr, Brackets
<1>24. Good(ParenthesizedExpr(n))
  BY TreeFacts, GoodFacts, GoodParts DEF ParenthesizedExpr, Brackets
<1>25. Good(CastExpr(n))
  BY TreeFacts, GoodFacts, GoodParts DEF CastExpr, Scoped, Brackets
<1>26. Good(AsyncThreading(n))
  BY TreeFacts, GoodFacts, GoodParts DEF AsyncThreading, Brackets
<1>27. Good(InstOfExpr(n))
  BY TreeFacts, GoodFacts, GoodParts, GoodEdits DEF InstOfExpr, Brackets
<1>28. Good(LambdaExpr(n))
  BY TreeFacts, GoodFacts, GoodParts DEF LambdaExpr, When, Brackets
<1>29. Good(CommaAfter(Kids(n, "params"), Visit))
  <2> DEFINE k == Len(Kids(n, "params"))
             g == [i \in 1 .. k |-> Visit(Kids(n, "params")[i]) \o T(",")]
  <2>1. k \in Nat /\ (k = 0 <=> Kids(n, "params") = <<>>)
    BY TreeFacts
  <2>2. \A i \in 1 .. k : Good(Visit(Kids(n, "params")[i]))
    BY TreeFacts, GoodFacts DEF Brackets
  <2>3. \A i \in 1 .. k : Good(g[i]) /\ EndsInComma(g[i])
    BY <2>2, CommaLast
  <2>4. (k # 0 => Good(Cat(g) \o PopBack)) /\ (k = 0 => Good(Cat(g) \o <<>>))
    BY <2>1, <2>3, GoodCommas
  <2>5. QED BY <2>1, <2>4 DEF CommaAfter, Each, When
<1>30. Good(FnPtr(n))
  BY <1>29, TreeFacts, GoodFacts, GoodParts DEF FnPtr, Scoped, Brackets
<1>31. Good(Type(n))
  BY <1>30, TreeFacts, GoodFacts, GoodParts DEF Type, Scoped, Brackets
<1>32. Good(LiteralExpr(n))
  <2> DEFINE k == Len(Kids(n, "format_args"))
             g == [i \in 1 .. k |-> Paren(Visit(Kids(n, "format_args")[i])) \o T(",")]
             s == Literal(n) \o T(",")
  <2>1. k \in Nat /\ \A i \in 1 .. k : Good(Paren(Visit(Kids(n, "format_args")[i])))
    BY TreeFacts, GoodFacts
  <2>2. \A i \in 1 .. k : Good(g[i]) /\ EndsInComma(g[i])
    BY <2>1, CommaLast
  <2>3. Good(s) /\ EndsInComma(s)
    BY <1>1, CommaLast
  <2> HIDE DEF s
  <2>4. Good(s \o Cat(g) \o PopBack)
    BY <2>1, <2>2, <2>3, MoreCommas
  <2>5. Good(Paren(s \o Each(Kids(n, "format_args"), LAMBDA m : Paren(Visit(m)) \o T(","))
        \o PopBack))
    BY <2>4, GoodFacts DEF Each
  <2>6. QED BY <1>1, <2>5, GoodFacts DEF LiteralExpr, Scoped, Brackets, s
<1>33. Good(InlineCpp(n))
  BY TreeFacts, GoodFacts, GoodParts DEF InlineCpp, Brackets
<1>34. Good(CalledPath(n, Kid(Kid(n, "path"), "path")))
  BY TreeFacts, GoodFacts, GoodParts DEF CalledPath, When, Brackets
<1>35. Good(FunctionCallExpr(n))
  BY <1>33, <1>34, NoChildren, TreeFacts, GoodFacts, GoodParts, GoodEdits DEF FunctionCallExpr,
     When, Brackets
<1>36. QED BY <1>1, <1>2, <1>3, <1>4, <1>5, <1>6, <1>7, <1>8, <1>9, <1>10, <1>11, <1>12, <1>13,
              <1>14, <1>15, <1>16, <1>17, <1>18, <1>19, <1>20, <1>21, <1>22, <1>23, <1>24, <1>25,
                 <1>26, <1>27, <1>28, <1>29, <1>30, <1>31, <1>32, <1>33, <1>34, <1>35

(* The visit functions of statements.                                            *)
LEMMA GoodConditions ==
    ASSUME IsTree(ast), NEW n \in Refs
    PROVE  /\ Good(Condition(n))
           /\ Good(Inside(n))
<1>1. Good(Condition(n))
  BY TreeFacts, GoodFacts, GoodParts DEF Condition, Brackets
<1>2. Good(Inside(n))
  BY TreeFacts, GoodFacts, GoodParts DEF Inside, When, Brackets
<1>3. QED BY <1>1, <1>2

(* The visits of statements, and of declarations that are written like them.   *)
LEMMA GoodStates ==
    ASSUME IsTree(ast), NEW n \in Refs, NEW a
    PROVE  /\ Good(NamedVarSpecifier(n, a = "omit"))
           /\ Good(NamedVarSpecifierList(n, a = "omit"))
           /\ Good(ConstDecl(n))
           /\ Good(VarDecl(n))
           /\ Good(LetDecl(n, a = "statement"))
           /\ Good(ForPyStatementCore(n))
           /\ Good(ForCStatementCore(n))
           /\ Good(ForState(n))
           /\ Good(WhileState(n))
           /\ Good(ElseState(n))
           /\ Good(IfDirective(n))
           /\ Good(IfElse(n))
           /\ Good(IfState(n))
           /\ Good(SwitchCaseState(n))
           /\ Good(SwitchState(n))
           /\ Good(YieldState(n))
           /\ Good(DeleteState(n))
           /\ Good(ReturnState(n))
           /\ Good(BreakState(n))
           /\ Good(ContinueState(n))
           /\ Good(ExprState(n))
           /\ Good(PanicState(n))
           /\ Good(ImportState(n))
           /\ Good(BlockState(n))
           /\ Good(SuiteState(n))
           /\ Good(CatchState(n))
           /\ Good(FinallyState(n))
           /\ Good(TryState(n))
<1>1. Good(NamedVarSpecifier(n, a = "omit"))
  BY TreeFacts, GoodFacts, GoodParts DEF NamedVarSpecifier, When, Brackets
<1>2. Good(NamedVarSpecifierList(n, a = "omit"))
  <2> DEFINE k == Len(Kids(n, "vars"))
             g == [i \in 1 .. k |-> When(i > 1, T(",")) \o VisitAs(Kids(n, "vars")[i], IF a = "omit"
                    THEN "omit" ELSE "")]
  <2>1. k \in Nat /\ \A i \in 1 .. k : Good(When(i > 1, T(",")))
    BY TreeFacts, GoodFacts DEF When, Brackets
  <2>2. \A i \in 1 .. k : Good(VisitAs(Kids(n, "vars")[i], IF a = "omit" THEN "omit" ELSE ""))
    BY TreeFacts, GoodFacts
  <2>3. \A i \in 1 .. k : Good(g[i])
    BY <2>1, <2>2, GoodFacts
  <2>4. Good(Cat(g))
    BY <2>1, <2>3, GoodCat
  <2>5. QED BY <2>4 DEF NamedVarSpecifierList
<1>3. Good(Each(Kids(n, "vars"), LAMBDA v : T("const") \o Visit(v)))
  <2> DEFINE k == Len(Kids(n, "vars"))
             g == [i \in 1 .. k |-> T("const") \o Visit(Kids(n, "vars")[i])]
  <2>1. k \in Nat /\ \A i \in 1 .. k : Good(T("const") \o Visit(Kids(n, "vars")[i]))
    BY TreeFacts, GoodFacts, GoodParts DEF Brackets
  <2>2. Good(Cat(g))
    BY <2>1, GoodCat
  <2>3. QED BY <2>2 DEF Each
<1>4. Good(ConstDecl(n))
  BY <1>3, TreeFacts, GoodFacts, GoodParts DEF ConstDecl, When, Brackets
<1>5. Good(VarDecl(n))
  BY TreeFacts, GoodFacts, GoodParts DEF VarDecl, When, Brackets
<1>6. Good(Each(Kids(n, "vars"), LAMBDA v : Visit(v) \o When(a = "statement", T(";"))))
  <2> DEFINE k == Len(Kids(n, "vars"))
             g == [i \in 1 .. k |-> Visit(Kids(n, "vars")[i]) \o When(a = "statement", T(";"))]
  <2>1. k \in Nat /\ \A i \in 1 .. k : Good(Visit(Kids(n, "vars")[i]) \o When(a = "statement",
        T(";")))
    BY TreeFacts, GoodFacts, GoodParts DEF When, Brackets
  <2>2. Good(Cat(g))
    BY <2>1, GoodCat
  <2>3. QED BY <2>2 DEF Each
<1>7. Good(LetDecl(n, a = "statement"))
  BY <1>6, TreeFacts, GoodFacts, GoodParts DEF LetDecl, When, Brackets
<1>8. Good(ForPyStatementCore(n))
  BY TreeFacts, GoodFacts, GoodParts DEF ForPyStatementCore, Brackets
<1>9. Good(ForCStatementCore(n))
  BY TreeFacts, GoodFacts, GoodParts DEF ForCStatementCore, Brackets
<1>10. Good(ForState(n))
  BY TreeFacts, GoodFacts, GoodParts DEF ForState, Brackets
<1>11. Good(WhileState(n))
  BY TreeFacts, GoodFacts, GoodParts DEF WhileState, Brackets
<1>12. Good(ElseState(n))
  BY TreeFacts, GoodFacts, GoodParts DEF ElseState, When, Brackets
<1>13. Good(Each(Kids(n, "else_body"), LAMBDA e : (IF Has(e, "else") THEN T("#else") ELSE T("#elif")
       \o Condition(e)) \o Inside(e)))
  <2> DEFINE k == Len(Kids(n, "else_body"))
             g == [i \in 1 .. k |-> (IF Has(Kids(n, "else_body")[i], "else") THEN T("#else")
                    ELSE T("#elif") \o Condition(Kids(n, "else_body")[i]))
                       \o Inside(Kids(n, "else_body")[i])]
  <2>1. k \in Nat /\ \A i \in 1 .. k : Good((IF Has(Kids(n, "else_body")[i], "else") THEN T("#else")
        ELSE T("#elif") \o Condition(Kids(n, "else_body")[i])) \o Inside(Kids(n, "else_body")[i]))
    BY TreeFacts, GoodFacts, GoodConditions DEF Brackets
  <2>2. Good(Cat(g))
    BY <2>1, GoodCat
  <2>3. QED BY <2>2 DEF Each
<1>14. Good(IfDirective(n))
  BY <1>13, GoodConditions, TreeFacts, GoodFacts, GoodParts DEF IfDirective, When, Brackets
<1>15. Good(Each(Kids(n, "else_body"), LAMBDA e : T("else") \o When(~Has(e, "else"), T("if")
       \o T("constexpr") \o Condition(e)) \o Param(e, "body")))
  <2> DEFINE k == Len(Kids(n, "else_body"))
             g == [i \in 1 .. k |-> T("else") \o When(~Has(Kids(n, "else_body")[i], "else"), T("if")
                    \o T("constexpr") \o Condition(Kids(n, "else_body")[i]))
                       \o Param(Kids(n, "else_body")[i], "body")]
  <2>1. k \in Nat /\ \A i \in 1 .. k : Good(T("else") \o When(~Has(Kids(n, "else_body")[i], "else"),
        T("if") \o T("constexpr") \o Condition(Kids(n, "else_body")[i]))
           \o Param(Kids(n, "else_body")[i], "body"))
    BY TreeFacts, GoodFacts, GoodParts, GoodConditions DEF When, Brackets
  <2>2. Good(Cat(g))
    BY <2>1, GoodCat
  <2>3. QED BY <2>2 DEF Each
<1>16. Good(IfElse(n))
  BY <1>15, TreeFacts, GoodFacts, GoodParts DEF IfElse, When, Brackets
<1>17. Good(IfState(n))
  BY <1>14, <1>16, GoodConditions, GoodFacts, GoodParts DEF IfState, When, Brackets
<1>18. Good(SwitchCaseState(n))
  BY TreeFacts, GoodFacts, GoodParts DEF SwitchCaseState, When, Brackets
<1>19. Good(SwitchState(n))
  BY TreeFacts, GoodFacts, GoodParts DEF SwitchState, Brackets
<1>20. Good(YieldState(n))
  BY TreeFacts, GoodFacts, GoodParts DEF YieldState, Brackets
<1>21. Good(DeleteState(n))
  BY TreeFacts, GoodFacts, GoodParts DEF DeleteState, Brackets
<1>22. Good(ReturnState(n))
  BY TreeFacts, GoodFacts, GoodParts DEF ReturnState, Brackets
<1>23. Good(BreakState(n))
  BY TreeFacts, GoodFacts, GoodParts DEF BreakState, Brackets
<1>24. Good(ContinueState(n))
  BY TreeFacts, GoodFacts, GoodParts DEF ContinueState, Brackets
<1>25. Good(ExprState(n))
  BY TreeFacts, GoodFacts, GoodParts DEF ExprState, Brackets
<1>26. Good(PanicState(n))
  BY TreeFacts, GoodFacts, GoodParts DEF PanicState, Brackets
<1>27. Good(ImportState(n))
  BY TreeFacts, GoodFacts, GoodParts DEF ImportState, Brackets
<1>28. Good(Each(Kids(n, "body"), LAMBDA s : (IF Kind(s) = "LetDecl" THEN VisitAs(s, "statement")
       ELSE When(s # Null, Visit(s))) \o T(";")))
  <2> DEFINE k == Len(Kids(n, "body"))
             g == [i \in 1 .. k |-> (IF Kind(Kids(n, "body")[i]) = "LetDecl"
                    THEN VisitAs(Kids(n, "body")[i], "statement")
                       ELSE When(Kids(n, "body")[i] # Null, Visit(Kids(n, "body")[i]))) \o T(";")]
  <2>1. k \in Nat /\ \A i \in 1 .. k : Good((IF Kind(Kids(n, "body")[i]) = "LetDecl"
        THEN VisitAs(Kids(n, "body")[i], "statement") ELSE When(Kids(n, "body")[i] # Null,
           Visit(Kids(n, "body")[i]))) \o T(";"))
    BY TreeFacts, GoodFacts, GoodParts DEF When, Brackets
  <2>2. Good(Cat(g))
    BY <2>1, GoodCat
  <2>3. QED BY <2>2 DEF Each
<1>29. Good(BlockState(n))
  BY <1>28, TreeFacts, GoodFacts, GoodParts DEF BlockState, When, Brackets
<1>30. Good(SuiteState(n))
  BY TreeFacts, GoodFacts, GoodParts DEF SuiteState, Brackets
<1>31. Good(CatchState(n))
  BY TreeFacts, GoodFacts, GoodParts DEF CatchState, Brackets
<1>32. Good(FinallyState(n))
  BY TreeFacts, GoodFacts, GoodParts DEF FinallyState, Scoped, Brackets
<1>33. Good(TryState(n))
  BY TreeFacts, GoodFacts, GoodParts DEF TryState, Brackets
<1>34. QED BY <1>1, <1>2, <1>3, <1>4, <1>5, <1>6, <1>7, <1>8, <1>9, <1>10, <1>11, <1>12, <1>13,
              <1>14, <1>15, <1>16, <1>17, <1>18, <1>19, <1>20, <1>21, <1>22, <1>23, <1>24, <1>25,
                 <1>26, <1>27, <1>28, <1>29, <1>30, <1>31, <1>32, <1>33

(* What is asked of names and parameters is in the tree.                        *)
LEMMA NameFacts ==
    ASSUME IsTree(ast), NEW n \in Refs
    PROVE  /\ BackName(n) \in Refs /\ BackIdent(n) \in Refs
           /\ \A f : Kids(n, f) # <<>> => Last(Kids(n, f)) \in Refs
              /\ Tail(Kids(n, f)) \in Seq(Refs)
           /\ HasSelf(n) => Kids(n, "params") # <<>>
<1>1. \A f : Kids(n, f) # <<>> => Last(Kids(n, f)) \in Refs /\ Tail(Kids(n, f)) \in Seq(Refs)
  <2>1. SUFFICES ASSUME NEW f, Kids(n, f) # <<>>
                 PROVE  Last(Kids(n, f)) \in Refs /\ Tail(Kids(n, f)) \in Seq(Refs)
    OBVIOUS
  <2> DEFINE s == Kids(n, f)
  <2>2. s \in Seq(Refs) /\ s # <<>>
    BY <2>1, TreeFacts
  <2> HIDE DEF s
  <2>3. Len(s) \in 1 .. Len(s) /\ Tail(s) \in Seq(Refs)
    BY <2>2, EmptySeq, HeadTailProperties
  <2>4. s[Len(s)] \in Refs
    BY <2>2, <2>3, ElementOfSeq
  <2>5. QED BY <2>3, <2>4 DEF Last, s
<1>2. ASSUME NEW p \in Refs  PROVE BackName(p) \in Refs
  <2>1. Kids(p, "path") # <<>> => Last(Kids(p, "path")) \in Refs
    <3> DEFINE s == Kids(p, "path")
    <3>1. s \in Seq(Refs)
      BY TreeFacts
    <3> HIDE DEF s
    <3>2. s # <<>> => s[Len(s)] \in Refs
      BY <3>1, EmptySeq, ElementOfSeq
    <3>3. QED BY <3>2 DEF s, Last
  <2>2. QED BY <1>2, <2>1, TreeFacts DEF BackName
<1>3. HasSelf(n) => Kids(n, "params") # <<>>
  BY DEF HasSelf, Has, SelfParam, Kid, Kids
<1>4. QED BY <1>1, <1>2, <1>3, TreeFacts DEF BackIdent

(* With a form in the tree that leaves a bracket open, nothing is asked of     *)
(* brackets.                                                                   *)
LEMMA LeftOpen ==
    ASSUME IsTree(ast), Unclosed
    PROVE  \A x : Good(T(x))
<1>1. ASSUME NEW x  PROVE Good(T(x))
  <2> DEFINE m == Move("emit", x, Null)
             s == <<m>>
  <2>1. IsMove(m) /\ m.op = "emit"
    BY TreeFacts, SomeMove
  <2> HIDE DEF m
  <2>2. s \in Seq({m}) /\ Len(s) = 1 /\ s[1] = m
    OBVIOUS
  <2> HIDE DEF s
  <2>3. \A i \in 1 .. Len(s) : i = 1
    BY <2>2
  <2>4. IsMoves(s) /\ Pops(s)
    BY <2>1, <2>2, <2>3 DEF IsMoves, Pops
  <2>5. QED BY <2>4, Unclosed DEF Good, Leads, T, m, s
<1>2. QED BY <1>1

(* The visit functions of declarations, and the helpers they share.             *)
LEMMA GoodHelpers ==
    ASSUME IsTree(ast), NEW n \in Refs
    PROVE  /\ Good(Modifiers(n)) /\ Good(Specifiers(n)) /\ Good(Base(n))
           /\ \A m \in Refs : Good(CheckForYieldAndPanic(n, m)) /\ Good(HandleSelf(n,
              Has(m, "static")))
           /\ HasSelf(n) => Good(Set(n, "params", Tail(Kids(n, "params"))))
<1>1. Good(Modifiers(n)) /\ Good(Specifiers(n))
  BY GoodFacts DEF Modifiers, Specifiers, When, Brackets
<1>2. Good(Base(n))
  BY GoodFacts, GoodParts DEF Base, Brackets
<1>3. \A m \in Refs : Good(CheckForYieldAndPanic(n, m))
  BY GoodFacts DEF CheckForYieldAndPanic, When
<1>4. HasSelf(n) => Good(Set(n, "params", Tail(Kids(n, "params"))))
  BY NameFacts, GoodEdits
<1>5. \A m \in Refs : Good(HandleSelf(n, Has(m, "static")))
  BY <1>4, GoodFacts, GoodEdits DEF HandleSelf, When
<1>6. QED BY <1>1, <1>2, <1>3, <1>4, <1>5

(* The visit of a function within a function.                                  *)
LEMMA GoodFunctions ==
    ASSUME IsTree(ast), NEW n \in Refs, NEW a
    PROVE  Good(NestedFunction(n))
<1>1. Good(NestedFunction(n))
  BY NameFacts, TreeFacts, GoodFacts, GoodParts DEF NestedFunction, When, Brackets
<1>2. QED BY <1>1

(* The visit of a function that is not in a type.                              *)
LEMMA GoodNested ==
    ASSUME IsTree(ast), NEW n \in Refs
    PROVE  Good(ModifyNested(n))
<1>1. Good(ModifyNested(n))
  BY GoodFacts, GoodFunctions DEF ModifyNested, Brackets
<1>2. QED BY <1>1

(* The visits of declarations without members.                                 *)
LEMMA GoodDecls ==
    ASSUME IsTree(ast), NEW n \in Refs, NEW a
    PROVE  /\ Good(RequiresParamList(n))
           /\ Good(TypeBoundDecl(n))
           /\ Good(RequiresDecl(n))
           /\ Good(EnumMemberDecl(n))
           /\ Good(EnumDecl(n))
           /\ Good(TypeDecl(n))
           /\ Good(RequiresParamDecl(n))
           /\ Good(TypeBoundList(n))
           /\ Good(UDTDeriveDecl(n))
           /\ Good(FFIDecl(n))
           /\ Good(Definition(n))
           /\ Good(FuncDecl(n, a = "constructor"))
<1>1. Good(RequiresParamList(n))
  BY TreeFacts, GoodFacts, GoodParts DEF RequiresParamList, Brackets
<1>2. Good(TypeBoundDecl(n))
  BY TreeFacts, GoodFacts, GoodParts DEF TypeBoundDecl, Brackets
<1>3. Good(RequiresDecl(n))
  BY TreeFacts, GoodFacts, GoodParts DEF RequiresDecl, Brackets
<1>4. Good(EnumMemberDecl(n))
  BY TreeFacts, GoodFacts, GoodParts DEF EnumMemberDecl, When, Brackets
<1>5. Good(EnumDecl(n))
  BY TreeFacts, GoodFacts, GoodParts DEF EnumDecl, When, Brackets
<1>6. Good(TypeDecl(n))
  BY TreeFacts, GoodFacts, GoodParts DEF TypeDecl, Brackets
<1>7. Good(RequiresParamDecl(n))
  BY TreeFacts, GoodFacts, GoodParts DEF RequiresParamDecl, When, Brackets
<1>8. Good(TypeBoundList(n))
  BY TreeFacts, GoodFacts, GoodBetweenThem DEF TypeBoundList, Brackets
<1>9. Good(UDTDeriveDecl(n))
  <2> DEFINE k == Len(Kids(n, "derives"))
             g == [i \in 1 .. k |-> When(i > 1, T(",")) \o Base(Kids(n, "derives")[i])]
  <2>1. k \in Nat /\ \A i \in 1 .. k : Good(When(i > 1, T(",")))
        /\ Good(Base(Kids(n, "derives")[i]))
    BY TreeFacts, GoodFacts, GoodHelpers DEF When, Brackets
  <2>2. \A i \in 1 .. k : Good(g[i])
    BY <2>1, GoodFacts
  <2>3. Good(Cat(g))
    BY <2>1, <2>2, GoodCat
  <2>4. QED BY <2>3 DEF UDTDeriveDecl
<1>10. Good(Each(Kids(Kid(Kid(Kid(n, "value"), "import"), "path"), "path"), LAMBDA p : Visit(p)
       \o T(".")))
  <2> DEFINE k == Len(Kids(Kid(Kid(Kid(n, "value"), "import"), "path"), "path"))
             g == [i \in 1 .. k |-> Visit(Kids(Kid(Kid(Kid(n, "value"), "import"), "path"), "path")[i]) \o T(".")]
  <2>1. k \in Nat /\ \A i \in 1 .. k : Good(Visit(Kids(Kid(Kid(Kid(n, "value"), "import"), "path"), "path")[i]) \o T("."))
    BY TreeFacts, GoodFacts, GoodParts DEF Brackets
  <2>2. Good(Cat(g))
    BY <2>1, GoodCat
  <2>3. QED BY <2>2 DEF Each
<1>11. Good(FFIDecl(n))
  BY <1>10, TreeFacts, GoodFacts, GoodParts DEF FFIDecl, ImportModule, When, Brackets
<1>12. Good(Each(Kids(Kid(Kid(n, "body"), "body"), "body"), ModifyNested))
  <2> DEFINE k == Len(Kids(Kid(Kid(n, "body"), "body"), "body"))
             g == [i \in 1 .. k |-> ModifyNested(Kids(Kid(Kid(n, "body"), "body"), "body")[i])]
  <2>1. k \in Nat /\ \A i \in 1 .. k : Good(ModifyNested(Kids(Kid(Kid(n, "body"), "body"), "body")[i]))
    BY TreeFacts, GoodNested
  <2>2. Good(Cat(g))
    BY <2>1, GoodCat
  <2>3. QED BY <2>2 DEF Each
<1>13. Good(Definition(n))
  BY <1>12, NoChildren, TreeFacts, GoodFacts, GoodEdits DEF Definition, Brackets
<1>14. Good(FuncDecl(n, a = "constructor"))
  BY <1>13, TreeFacts, GoodFacts, GoodParts, GoodHelpers DEF FuncDecl, When, Brackets
<1>15. QED BY <1>1, <1>2, <1>3, <1>4, <1>5, <1>6, <1>7, <1>8, <1>9, <1>10, <1>11, <1>12, <1>13,
              <1>14

(* The visit of a module: one named by a path opens a brace for each name of   *)
(* it and closes one.                                                          *)
LEMMA GoodModule ==
    ASSUME IsTree(ast), NEW n \in Refs, Kind(n) = "ModuleDecl"
    PROVE  Good(ModuleDecl(n))
<1> DEFINE name  == Kid(Kid(n, "name"), "path")
           parts == Kids(name, "path")
           inner == SubSeq(parts, 1, Len(parts) - 1)
<1>1. CASE Kind(name) # "ScopePathExpr"
  BY <1>1, GoodFacts, GoodParts DEF ModuleDecl, When, Brackets
<1>2. CASE Kind(name) = "ScopePathExpr" /\ parts = <<>>
  BY <1>2, GoodFacts, GoodParts DEF ModuleDecl, When, Brackets
<1>3. CASE Kind(name) = "ScopePathExpr" /\ parts # <<>>
  <2>1. Unclosed
    <3>1. n \in Nodes
      BY TreeFacts DEF Kind
    <3>2. QED BY <1>3, <3>1 DEF Unclosed, PathModule
  <2>2. inner \in Seq(Refs) /\ Last(parts) \in Refs
    <3>1. parts \in Seq(Refs) /\ Last(parts) \in Refs
      BY <1>3, TreeFacts, NameFacts
    <3>2. inner = Front(parts)
      BY DEF Front
    <3> HIDE DEF inner, parts
    <3>3. QED BY <1>3, <3>1, <3>2, FrontFacts DEF parts
  <2>3. Len(inner) \in Nat /\ \A i \in 1 .. Len(inner) : inner[i] \in Refs
    BY <2>2
  <2> HIDE DEF inner
  <2>4. Good(Each(inner, LAMBDA p : T("namespace") \o Visit(p) \o T("{")))
    <3> DEFINE k == Len(inner)
               g == [i \in 1 .. k |-> T("namespace") \o Visit(inner[i]) \o T("{")]
    <3>1. k \in Nat /\ \A i \in 1 .. k : Good(T("namespace") \o Visit(inner[i]) \o T("{"))
      BY <2>1, <2>3, LeftOpen, GoodFacts
    <3>2. Good(Cat(g))
      BY <3>1, GoodCat
    <3>3. QED BY <3>2 DEF Each
  <2>5. Good(Each(inner, LAMBDA p : T("{")))
    <3> DEFINE k == Len(inner)
               g == [i \in 1 .. k |-> T("{")]
    <3>1. k \in Nat /\ \A i \in 1 .. k : Good(T("{"))
      BY <2>1, <2>3, LeftOpen, GoodFacts
    <3>2. Good(Cat(g))
      BY <3>1, GoodCat
    <3>3. QED BY <3>2 DEF Each
  <2>6. QED BY <1>3, <2>2, <2>4, <2>5, GoodFacts, GoodParts DEF ModuleDecl, When, Brackets, inner
<1>4. QED BY <1>1, <1>2, <1>3

(* The visit functions of operators, classes and structs.                        *)
LEMMA InternalNames ==
    /\ DOMAIN Internal = {"generator", "contains", "cast", "panic", "question"}
    /\ \A t \in DOMAIN Internal : Internal[t] \notin Brackets
<1>1. DOMAIN Internal = {"generator", "contains", "cast", "panic", "question"}
  BY DEF Internal
<1>2. /\ Internal["generator"] = "operator$generator" /\ Internal["contains"] = "operator$contains"
      /\ Internal["cast"] = "operator$cast" /\ Internal["panic"] = "operator$panic"
      /\ Internal["question"] = "operator$question"
  BY DEF Internal
<1>3. \A t \in {"generator", "contains", "cast", "panic", "question"} : Internal[t] \notin Brackets
  BY <1>2 DEF Brackets
<1>4. QED BY <1>1, <1>3

(* The tokens of an operator and the lists of its parameters.                  *)
LEMMA GoodLists ==
    ASSUME IsTree(ast), NEW n \in Refs
    PROVE  /\ Good(OperatorTokens(n)) /\ Good(CommaAfter(Kids(n, "params"), Visit))
           /\ Good(CommaAfter(Kids(n, "params"), LAMBDA p : Must(Kid(p, "var"), "path")))
<1>1. Good(Each(Kids(n, "op"), LAMBDA o : Src(o, "op")))
  <2> DEFINE k == Len(Kids(n, "op"))
             g == [i \in 1 .. k |-> Src(Kids(n, "op")[i], "op")]
  <2>1. k \in Nat /\ \A i \in 1 .. k : Good(Src(Kids(n, "op")[i], "op"))
    BY TreeFacts, GoodFacts, GoodParts DEF Brackets
  <2>2. Good(Cat(g))
    BY <2>1, GoodCat
  <2>3. QED BY <2>2 DEF Each
<1>2. Good(CommaAfter(Kids(n, "params"), Visit))
  <2> DEFINE k == Len(Kids(n, "params"))
             g == [i \in 1 .. k |-> Visit(Kids(n, "params")[i]) \o T(",")]
  <2>1. k \in Nat /\ (k = 0 <=> Kids(n, "params") = <<>>)
    BY TreeFacts
  <2>2. \A i \in 1 .. k : Good(Visit(Kids(n, "params")[i]))
    BY TreeFacts, GoodFacts, GoodParts DEF Brackets
  <2>3. \A i \in 1 .. k : Good(g[i]) /\ EndsInComma(g[i])
    BY <2>2, CommaLast
  <2>4. (k # 0 => Good(Cat(g) \o PopBack)) /\ (k = 0 => Good(Cat(g) \o <<>>))
    BY <2>1, <2>3, GoodCommas
  <2>5. QED BY <2>1, <2>4 DEF CommaAfter, Each, When
<1>3. Good(CommaAfter(Kids(n, "params"), LAMBDA p : Must(Kid(p, "var"), "path")))
  <2> DEFINE k == Len(Kids(n, "params"))
             g == [i \in 1 .. k |-> Must(Kid(Kids(n, "params")[i], "var"), "path") \o T(",")]
  <2>1. k \in Nat /\ (k = 0 <=> Kids(n, "params") = <<>>)
    BY TreeFacts
  <2>2. \A i \in 1 .. k : Good(Must(Kid(Kids(n, "params")[i], "var"), "path"))
    BY TreeFacts, GoodFacts, GoodParts DEF Brackets
  <2>3. \A i \in 1 .. k : Good(g[i]) /\ EndsInComma(g[i])
    BY <2>2, CommaLast
  <2>4. (k # 0 => Good(Cat(g) \o PopBack)) /\ (k = 0 => Good(Cat(g) \o <<>>))
    BY <2>1, <2>3, GoodCommas
  <2>5. QED BY <2>1, <2>4 DEF CommaAfter, Each, When
<1>4. Good(OperatorTokens(n))
  BY <1>1, GoodFacts DEF OperatorTokens, Brackets
<1>5. QED BY <1>2, <1>3, <1>4

(* The parts of the visit of an operator.                                      *)
LEMMA GoodPieces ==
    ASSUME IsTree(ast), NEW n \in Refs
    PROVE  /\ Good(OpCheck(n))
           /\ Good(GeneratorState(n))
           /\ Good(ExplicitCast(n))
           /\ Good(Iterator("begin"))
           /\ Good(Iterator("end"))
<1>1. Good(OpCheck(n))
  BY TreeFacts, GoodFacts, GoodParts DEF OpCheck, When, Brackets
<1>2. Good(GeneratorState(n))
  BY TreeFacts, GoodFacts, GoodParts DEF GeneratorState, Brackets
<1>3. Good(ExplicitCast(n))
  BY TreeFacts, GoodFacts, GoodParts DEF ExplicitCast, Brackets
<1>4. Good(Iterator("begin")) /\ Good(Iterator("end"))
  BY GoodFacts DEF Iterator, Brackets
<1>5. QED BY <1>1, <1>2, <1>3, <1>4

(* The visit of an operator, and what goes on after its edits.                 *)
LEMMA GoodOperators ==
    ASSUME IsTree(ast), NEW n \in Refs, NEW a
    PROVE  /\ Good(OpDecl(n, a = "udt"))
           /\ Good(OpHead(n, a))
           /\ Good(OpAlias(n, a))
           /\ Good(OpRest(n, a))
<1>1. Good(OpDecl(n, a = "udt"))
  BY TreeFacts, GoodFacts, GoodPieces, GoodHelpers, GoodEdits DEF OpDecl, When, Brackets
<1>2. Good(OpHead(n, a))
  <2> DEFINE f == Kid(n, "func")
             named == CASE a = "none" -> OperatorTokens(n)
                        [] a \in {"generator", "contains"} -> T(Internal[a])
                        [] a = "cast" -> T(Internal[a]) \o Later("cast", "", f)
                        [] OTHER -> <<>>
  <2>1. f \in Refs
    BY TreeFacts
  <2>2. a \in {"generator", "contains", "cast"} => Good(T(Internal[a]))
    BY InternalNames, GoodFacts
  <2> HIDE DEF f
  <2>3. Good(named)
    BY <2>1, <2>2, GoodFacts, GoodLists, GoodEdits
  <2> HIDE DEF named
  <2>4. Good(Later("signature", a, n))
    BY GoodEdits
  <2>5. Good(When(a = "generator", GeneratorState(f)) \o Param(f, "generics")
               \o When(~Has(n, "inline"), T("inline")) \o Modifiers(n) \o T("auto"))
    BY <2>1, GoodFacts, GoodParts, GoodPieces, GoodHelpers DEF When, Brackets
  <2>6. QED BY <2>3, <2>4, <2>5, GoodFacts DEF OpHead, f, named
<1>3. Good(OpAlias(n, a))
  BY InternalNames, TreeFacts, GoodFacts, GoodParts, GoodHelpers, GoodLists DEF OpAlias, When,
     Brackets
<1>4. Good(OpRest(n, a))
  BY <1>3, TreeFacts, GoodFacts, GoodParts, GoodHelpers, GoodPieces, GoodDecls,
     GoodLists DEF OpRest, When, Brackets
<1>5. QED BY <1>1, <1>2, <1>3, <1>4

(* The constructors, destructor and assignments of a type.                     *)
LEMMA GoodSpecials ==
    ASSUME IsTree(ast), NEW n \in Refs
    PROVE  /\ Good(Special(n, "constructor"))
           /\ Good(Special(n, "destructor"))
           /\ Good(Special(n, "copy"))
           /\ Good(Special(n, "copy assign"))
           /\ Good(Special(n, "move"))
           /\ Good(Special(n, "move assign"))
<1>1. Good(Special(n, "constructor"))
  BY TreeFacts, GoodFacts DEF Special, Given, Brackets
<1>2. Good(Special(n, "destructor"))
  BY TreeFacts, GoodFacts DEF Special, Given, Brackets
<1>3. Good(Special(n, "copy"))
  BY TreeFacts, GoodFacts DEF Special, Given, Brackets
<1>4. Good(Special(n, "copy assign"))
  BY TreeFacts, GoodFacts DEF Special, Given, Brackets
<1>5. Good(Special(n, "move"))
  BY TreeFacts, GoodFacts DEF Special, Given, Brackets
<1>6. Good(Special(n, "move assign"))
  BY TreeFacts, GoodFacts DEF Special, Given, Brackets
<1>7. QED BY <1>1, <1>2, <1>3, <1>4, <1>5, <1>6

(* The access labels of members.                                               *)
LEMMA GoodLabels ==
    ASSUME IsTree(ast), NEW n \in Refs
    PROVE  Good(Label(n, "public")) /\ Good(Label(n, "private"))
BY GoodFacts DEF Label, Brackets

(* The members of classes and structs.                                         *)
LEMMA GoodMembers ==
    ASSUME IsTree(ast), NEW n \in Refs, NEW c \in Refs
    PROVE  /\ Good(ClassFunction(c, n))
           /\ Good(Destructor(c, n))
           /\ Good(MemberOperator(c, n))
           /\ Good(ClassMember(c, n))
           /\ Good(StructMember(c, n))
           /\ Good(Member(c, n))
<1>1. Good(ClassFunction(c, n))
  BY TreeFacts, GoodFacts, GoodHelpers, GoodLabels DEF ClassFunction, Brackets
<1>2. Good(Destructor(c, n))
  BY TreeFacts, GoodFacts, GoodParts DEF Destructor, When, Brackets
<1>3. Good(MemberOperator(c, n))
  BY <1>2, TreeFacts, GoodFacts, GoodPieces, GoodLabels, GoodEdits DEF MemberOperator, When,
     Brackets
<1>4. Good(ClassMember(c, n))
  BY <1>1, <1>3, GoodFacts, GoodLabels DEF ClassMember, Brackets
<1>5. Good(StructMember(c, n))
  BY <1>3, GoodFacts, GoodLabels DEF StructMember, Brackets
<1>6. Good(Member(c, n))
  BY <1>4, <1>5 DEF Member, Brackets
<1>7. QED BY <1>1, <1>2, <1>3, <1>4, <1>5, <1>6

(* The visits of classes and structs.                                          *)
LEMMA GoodUdts ==
    ASSUME IsTree(ast), NEW n \in Refs
    PROVE  /\ Good(ClassDecl(n))
           /\ Good(StructDecl(n))
<1>1. Good(Members(n))
  <2> DEFINE ids == Kids(Kid(Kid(n, "body"), "body"), "body")
             k == Len(ids)
             g == [i \in 1 .. k |-> <<[Move("member", "", n) EXCEPT !.ids = <<ids[i]>>]>>]
  <2>1. k \in Nat /\ \A i \in 1 .. k : ids[i] \in Refs
    BY TreeFacts
  <2> HIDE DEF ids
  <2>2. \A i \in 1 .. k : Good(<<[Move("member", "", n) EXCEPT !.ids = <<ids[i]>>]>>)
    BY <2>1, GoodEdits
  <2>3. Good(Cat(g))
    BY <2>1, <2>2, GoodCat
  <2>4. QED BY <2>3 DEF Members, Each, Statements, ids
<1>2. Good(Each(Kids(n, "extends"), LAMBDA e : T("static_assert") \o Paren(Hang(e, Kid(n, "name"))
      \o Visit(e) \o T(",") \o T("text")) \o T(";")))
  <2> DEFINE k == Len(Kids(n, "extends"))
             g == [i \in 1 .. k |-> T("static_assert") \o Paren(Hang(Kids(n, "extends")[i],
                    Kid(n, "name")) \o Visit(Kids(n, "extends")[i]) \o T(",") \o T("text"))
                       \o T(";")]
  <2>1. k \in Nat /\ \A i \in 1 .. k : Good(T("static_assert") \o Paren(Hang(Kids(n, "extends")[i],
        Kid(n, "name")) \o Visit(Kids(n, "extends")[i]) \o T(",") \o T("text")) \o T(";"))
    BY TreeFacts, GoodFacts, GoodEdits DEF Brackets
  <2>2. Good(Cat(g))
    BY <2>1, GoodCat
  <2>3. QED BY <2>2 DEF Each
<1>3. Good(Derives(n)) /\ Good(Asserts(n))
  BY <1>2, GoodFacts, GoodParts DEF Derives, Asserts, When, Brackets
<1>4. Good(ClassDecl(n))
  BY <1>1, <1>3, GoodFacts, GoodParts, GoodSpecials DEF ClassDecl, When, Brackets
<1>5. Good(StructDecl(n))
  BY <1>1, <1>3, GoodFacts, GoodParts, GoodSpecials DEF StructDecl, When, Brackets
<1>6. QED BY <1>1, <1>2, <1>3, <1>4, <1>5

(* The visit function of interfaces, and that of programs.                       *)
LEMMA GoodNodes ==
    ASSUME IsTree(ast), NEW k \in Nat, NEW f, f = [i \in 1 .. k |-> f[i]],
       \A i \in 1 .. k : f[i] \in Seq(Refs)
    PROVE  Cat(f) \in Seq(Refs)
<1> DEFINE X == Seq(Refs)
<1>1. X \in SUBSET Seq(Refs) /\ \A s, t \in X : s \o t \in X
  BY ConcatProperties
<1>2. f \in [1 .. k -> X]
  OBVIOUS
<1>3. CASE k = 0
  <2>1. f = <<>>
    BY <1>3
  <2>2. Cat(<<>>) = <<>>
    BY DEF Cat, FlattenSeq
  <2>3. <<>> \in Seq(Refs)
    BY NoChildren
  <2>4. QED BY <2>1, <2>2, <2>3
<1>4. CASE k # 0
  <2> HIDE DEF X
  <2>1. Cat(f) \in X
    BY <1>1, <1>2, <1>4, Flatten DEF Cat
  <2>2. QED BY <2>1 DEF X
<1>5. QED BY <1>3, <1>4

(* The least of some numbers is one of them.                                   *)
LEMMA MinFacts == ASSUME NEW S \in SUBSET Nat, S # {}  PROVE Min(S) \in S
BY LeastNatural DEF Min

\* what stands in front of the first element that a test is true of
(* The first elements of a sequence, and those before the last of them.        *)
LEMMA UpToFacts ==
    ASSUME NEW S, NEW s \in Seq(S), NEW m \in 1 .. Len(s)
    PROVE  /\ SubSeq(s, 1, m) \in Seq(S) /\ Len(SubSeq(s, 1, m)) = m /\ m \in Nat \ {0}
           /\ \A i \in 1 .. m : SubSeq(s, 1, m)[i] = s[i]
           /\ SubSeq(s, 1, m - 1) \in Seq(S)
<1>1. m \in Nat \ {0} /\ m - 1 \in Nat /\ \A i \in 1 .. m : i \in 1 .. Len(s) /\ s[i] \in S
  BY ElementOfSeq
<1> DEFINE p == SubSeq(s, 1, m)
<1>2. p \in Seq(S) /\ Len(p) = (IF 1 <= m THEN m - 1 + 1 ELSE 0)
      /\ \A i \in 1 .. m - 1 + 1 : p[i] = s[1 + i - 1]
  BY <1>1, SubSeqProperties
<1> HIDE DEF p
<1>3. Len(p) = m /\ \A i \in 1 .. m : p[i] = s[i]
  BY <1>1, <1>2
<1>4. \A i \in 1 .. m - 1 : s[i] \in S
  BY <1>1
<1>5. SubSeq(s, 1, m - 1) \in Seq(S)
  BY <1>1, <1>4, SubSeqProperties
<1>6. QED BY <1>1, <1>2, <1>3, <1>5 DEF p

(* What ends in an error is good, and leads anywhere.                          *)
LEMMA Fails ==
    ASSUME IsTree(ast), NEW s, NEW a \in Seq(Openers), NEW b \in Seq(Openers), Leads(s, a, b)
    PROVE  /\ Good(s \o Err) /\ Doomed(s \o Err)
           /\ \A t, c, d : IsMoves(t) /\ Pops(t) /\ Doomed(t) => Leads(t, c, d)
<1> DEFINE m == Move("error", "", Null)
           e == <<m>>
           u == s \o e
<1>1. Good(Err)
  BY GoodFacts
<1>2. m.op = "error"
  BY DEF Move
<1> HIDE DEF m
<1>3. Len(e) = 1 /\ e[1] = m /\ Good(e)
  BY <1>1 DEF Err, m
<1> HIDE DEF e
<1>4. Leads(u, a, b)
  BY <1>3, GoodBehind
<1>5. /\ Len(u) = Len(s) + 1 /\ Len(s) \in Nat
      /\ \A i \in 1 .. Len(s) + 1 : u[i] = IF i <= Len(s) THEN s[i] ELSE e[i - Len(s)]
  BY <1>3, JoinMoves DEF Good, Leads
<1> HIDE DEF u
<1>6. u[Len(s) + 1] = m /\ Len(s) + 1 \in 1 .. Len(u)
  BY <1>3, <1>5
<1>7. Doomed(u)
  BY <1>2, <1>6 DEF Doomed, Dooms
<1>8. Good(u)
  BY <1>4, <1>7 DEF Leads, Good
<1>9. u = s \o Err
  BY DEF u, e, m, Err
<1>10. QED BY <1>7, <1>8, <1>9 DEF Leads

(* What is doomed stays so behind other moves.                                 *)
LEMMA DoomedBehind ==
    ASSUME NEW s, NEW t, IsMoves(s), IsMoves(t), Doomed(t)
    PROVE  Doomed(s \o t)
<1>1. PICK i \in 1 .. Len(t) : Dooms(t[i])
  BY DEF Doomed
<1> DEFINE u == s \o t
<1>2. /\ Len(u) = Len(s) + Len(t) /\ Len(s) \in Nat /\ Len(t) \in Nat
      /\ \A j \in 1 .. Len(s) + Len(t) : u[j] = IF j <= Len(s) THEN s[j] ELSE t[j - Len(s)]
  BY JoinMoves
<1> HIDE DEF u
<1>3. /\ Len(s) + i \in 1 .. Len(s) + Len(t) /\ ~(Len(s) + i <= Len(s)) /\ (Len(s) + i) - Len(s) = i
  BY <1>1, <1>2
<1>4. u[Len(s) + i] = t[i]
  BY <1>2, <1>3
<1>5. Doomed(u)
  BY <1>1, <1>2, <1>3, <1>4 DEF Doomed
<1>6. QED BY <1>5 DEF u

(* A list whose last part is doomed is doomed.                                 *)
LEMMA LastDooms ==
    ASSUME NEW k \in Nat \ {0}, NEW f, f = [i \in 1 .. k |-> f[i]],
           \A i \in 1 .. k : Good(f[i]), Doomed(f[k])
    PROVE  Doomed(Cat(f))
<1>1. Good(f[k])
  OBVIOUS
<1>2. Cat(f) = f[k] \/ \E s : Good(s) /\ Cat(f) = s \o f[k]
  BY GoodCat
<1>3. QED BY <1>1, <1>2, DoomedBehind DEF Good, Leads

\* braces that a visit function opens and closes itself
(* One bracket, and two of a kind, are lists of open brackets.                 *)
LEMMA OneOrTwo ==
    ASSUME NEW x \in Openers
    PROVE  /\ <<x>> \in Seq(Openers) /\ <<x, x>> \in Seq(Openers)
           /\ <<x>> = Append(<<>>, x) /\ <<x, x>> = Append(<<x>>, x)
<1> HIDE DEF Openers
<1> DEFINE two == <<x, x>>
           u   == Append(<<x>>, x)
<1>1. <<x>> \in Seq(Openers) /\ two \in Seq(Openers)
  OBVIOUS
<1>2. <<x>> = Append(<<>>, x)
  OBVIOUS
<1>3. Len(<<x>>) = 1 /\ <<x>>[1] = x /\ Len(two) = 2 /\ two[1] = x /\ two[2] = x
  OBVIOUS
<1> DEFINE one == <<x>>
<1> HIDE DEF two, one
<1>4. /\ Append(one, x) \in Seq(Openers) /\ Len(Append(one, x)) = 2
      /\ Append(one, x)[1] = x /\ Append(one, x)[2] = x
  BY <1>1, <1>3, AppendProperties DEF one
<1>5. \A i \in 1 .. 2 : Append(one, x)[i] = two[i]
  <2>1. \A i \in 1 .. 2 : i = 1 \/ i = 2
    OBVIOUS
  <2>2. QED BY <1>3, <1>4, <2>1
<1>6. Append(one, x) = two
  BY <1>1, <1>3, <1>4, <1>5, SeqEqual
<1>7. QED BY <1>1, <1>2, <1>6 DEF one, two

(* Opening and closing up to two braces, and an angle bracket.                 *)
LEMMA Braces ==
    ASSUME IsTree(ast)
    PROVE  /\ <<>> \in Seq(Openers) /\ <<"{">> \in Seq(Openers) /\ <<"{", "{">> \in Seq(Openers)
           /\ Leads(T("{"), <<>>, <<"{">>) /\ Leads(T("{"), <<"{">>, <<"{", "{">>)
           /\ Leads(T("}"), <<"{">>, <<>>) /\ Leads(T("}"), <<"{", "{">>, <<"{">>)
           /\ Leads(T("<"), <<>>, <<"<">>) /\ <<"<">> \in Seq(Openers)
<1>1. "{" \in Openers /\ "<" \in Openers /\ "}" \in DOMAIN Opposite /\ Opposite["}"] = "{"
  BY BracketFacts
<1>2. <<>> \in Seq(Openers)
  BY NoBrackets
<1>3. /\ Leads(T("{"), <<>>, Append(<<>>, "{")) /\ Leads(T("{"), <<"{">>, Append(<<"{">>, "{"))
      /\ Leads(T("<"), <<>>, Append(<<>>, "<"))
  BY <1>1, <1>2, OneOrTwo, Opens
<1>4. Leads(T("}"), Append(<<>>, "{"), <<>>) /\ Leads(T("}"), Append(<<"{">>, "{"), <<"{">>)
  <2>1. \A a \in Seq(Openers) : Leads(T("}"), Append(a, "{"), a)
    BY <1>1, Closes
  <2>2. QED BY <1>1, <1>2, <2>1, OneOrTwo
<1>5. QED BY <1>1, <1>2, <1>3, <1>4, OneOrTwo

(* Interfaces.                                                                   *)
LEMMA AskedFacts ==
    ASSUME IsTree(ast), NEW d \in Refs
    PROVE  /\ FuncOf(d) \in Refs /\ Args(d) \in Seq(Refs) /\ Len(Args(d)) \in Nat
           /\ Len(Args(d)) = 0 <=> Args(d) = <<>>
           /\ \A i \in 1 .. Len(Args(d)) : Args(d)[i] \in Refs
<1>1. FuncOf(d) \in Refs
  BY TreeFacts DEF FuncOf
<1>2. Args(d) \in Seq(Refs)
  BY <1>1, TreeFacts, NameFacts DEF Args, IsInstance
<1>3. QED BY <1>1, <1>2, EmptySeq

(* The type of a parameter in a requirement.                                   *)
LEMMA GoodTypeOrSelf == ASSUME IsTree(ast), NEW n \in Refs  PROVE Good(TypeOrSelf(n))
BY TreeFacts, GoodFacts DEF TypeOrSelf, Brackets

(* The parts of the requirements of an interface.                              *)
LEMMA GoodAsked ==
    ASSUME IsTree(ast), NEW n \in Refs
    PROVE  /\ Good(Check(n))
           /\ Good(TypeOrSelf(n))
           /\ Good(Placeholder(n))
           /\ Good(Arguments(n))
           /\ Good(Owner(n))
           /\ Good(AsksToken(n))
           /\ Good(ReturnsOf(n))
           /\ Good(ConceptParam(n))
<1>1. Good(Check(n))
  BY AskedFacts, GoodFacts, GoodEdits DEF Check, When, Brackets
<1>2. Good(TypeOrSelf(n))
  BY TreeFacts, GoodFacts DEF TypeOrSelf, Brackets
<1>3. Good(Placeholder(n))
  BY GoodFacts DEF Placeholder, Brackets
<1>4. Good(Arguments(n))
  <2> DEFINE k == Len(Args(n))
             g == [i \in 1 .. k |-> Placeholder(Args(n)[i]) \o T(",")]
  <2>1. k \in Nat /\ (k = 0 <=> Args(n) = <<>>)
    BY AskedFacts
  <2>2. \A i \in 1 .. k : Good(Placeholder(Args(n)[i]))
    BY AskedFacts, GoodFacts DEF Placeholder, Brackets
  <2>3. \A i \in 1 .. k : Good(g[i]) /\ EndsInComma(g[i])
    BY <2>2, CommaLast
  <2>4. (k # 0 => Good(Cat(g) \o PopBack)) /\ (k = 0 => Good(Cat(g) \o <<>>))
    BY <2>1, <2>3, GoodCommas
  <2>5. QED BY <2>1, <2>4 DEF Arguments, CommaAfter, Each, When
<1>5. Good(Owner(n))
  BY GoodFacts DEF Owner, Brackets
<1>6. Good(AsksToken(n))
  BY TreeFacts, GoodFacts DEF AsksToken, When, Brackets
<1>7. Good(ReturnsOf(n))
  BY GoodTypeOrSelf, TreeFacts, GoodFacts DEF ReturnsOf, Brackets
<1>8. Good(ConceptParam(n))
  BY TreeFacts, GoodFacts DEF ConceptParam, Brackets
<1>9. QED BY <1>1, <1>2, <1>3, <1>4, <1>5, <1>6, <1>7, <1>8

(* What a requirement says of its result.                                      *)
LEMMA GoodYields ==
    ASSUME IsTree(ast), NEW s, Good(s)
    PROVE  Good(Yields("same_as", s)) /\ Good(Yields("convertible_to", s))
BY GoodFacts DEF Yields, Brackets

(* The requirement a function of an interface becomes.                         *)
LEMMA GoodFuncRequirement == ASSUME IsTree(ast), NEW d \in Refs  PROVE Good(FuncRequirement(d))
BY GoodFacts, GoodParts, GoodAsked, GoodYields DEF FuncRequirement, Brackets

\* an operator, unless it is a call
(* The requirement an operator becomes: that of a call operator leaves a       *)
(* bracket open.                                                               *)
LEMMA GoodOpRequirement ==
    ASSUME IsTree(ast), NEW d \in Refs, Kind(d) = "OpDecl", OperatorType(d) = "call" => Unclosed
    PROVE  Good(OpRequirement(d))
<1> DEFINE f     == Kid(d, "func")
           type  == OperatorType(d)
           named == When(Kid(f, "name") # Null,
                         Brace(Owner(d) \o Must(f, "name") \o Paren(Arguments(d)))
                           \o Yields("convertible_to", ReturnsOf(f)))
           yields == Yields("convertible_to", ReturnsOf(f))
           opened == named \o T("{") \o AsksToken(d)
<1>1. f \in Refs /\ FuncOf(d) = f
  BY TreeFacts DEF FuncOf
<1> HIDE DEF f
<1>2. Good(yields)
  BY <1>1, GoodAsked, GoodYields
<1> HIDE DEF yields
<1>3. Good(named)
  BY <1>1, <1>2, GoodFacts, GoodParts, GoodAsked DEF When, yields
<1> HIDE DEF named
<1>4. Leads(opened, <<>>, <<"{">>)
  <2>1. Leads(named \o T("{"), <<>>, <<"{">>)
    BY <1>3, Braces, Join DEF Good
  <2>2. QED BY <2>1, Braces, GoodAsked, GoodBehind
<1> HIDE DEF opened
<1>5. CASE type = "none"
  <2>1. Good(opened \o Err)
    BY <1>4, Braces, Fails
  <2>2. QED BY <1>5, <2>1 DEF OpRequirement, opened, named, f
<1>6. CASE type # "none"
  <2> DEFINE params == Kids(f, "params")
             tokens == Each(Kids(d, "op"), LAMBDA o : Src(o, "op"))
  <2>1. Good(tokens)
    <3>1. Good(OperatorTokens(d))
      BY GoodLists
    <3> DEFINE k == Len(Kids(d, "op"))
               g == [i \in 1 .. k |-> Src(Kids(d, "op")[i], "op")]
    <3>2. k \in Nat /\ \A i \in 1 .. k : Good(Src(Kids(d, "op")[i], "op"))
      BY TreeFacts, GoodFacts DEF Brackets
    <3>3. Good(Cat(g))
      BY <3>2, GoodCat
    <3>4. QED BY <3>3 DEF Each
  <2>2. params # <<>>
    <3>1. CASE IsInstance(d)
      BY <1>1, <3>1, NameFacts DEF IsInstance
    <3>2. CASE ~IsInstance(d)
      <4>1. Len(params) # 0
        BY <1>6, <3>2 DEF OperatorType, f
      <4>2. QED BY <4>1
    <3>3. QED BY <3>1, <3>2
  <2>3. params[1] \in Refs /\ Last(params) \in Refs
    <3>1. Last(params) \in Refs /\ params \in Seq(Refs)
      BY <1>1, <2>2, TreeFacts, NameFacts
    <3> HIDE DEF params
    <3>2. 1 \in 1 .. Len(params)
      BY <2>2, <3>1, EmptySeq
    <3>3. QED BY <3>1, <3>2, ElementOfSeq
  <2> DEFINE left == IF IsInstance(d) THEN T("object") ELSE Placeholder(params[1])
             use  == OperatorUse(d, type)
  <2>4. Good(left) /\ Good(Placeholder(Last(params)))
    BY <2>3, GoodFacts, GoodAsked DEF Brackets
  <2> HIDE DEF params
  <2>5. Good(use)
    <3>1. use = (CASE type = "prefix"  -> tokens \o left
                   [] type = "postfix" -> left \o tokens
                   [] type = "binary"  -> left \o tokens \o Placeholder(Last(params))
                   [] type = "array"   -> left \o Bracket(Placeholder(Last(params)))
                   [] OTHER            -> left \o T("(") \o Arguments(d))
      BY DEF OperatorUse, f, params
    <3> HIDE DEF left, tokens, use, type
    <3>2. type \in {"prefix", "postfix", "binary", "array", "call"}
      BY <1>6 DEF type, OperatorType
    <3>3. CASE type = "prefix"
      BY <2>1, <2>4, <3>1, <3>3, GoodFacts
    <3>4. CASE type = "postfix"
      BY <2>1, <2>4, <3>1, <3>4, GoodFacts
    <3>5. CASE type = "binary"
      BY <2>1, <2>4, <3>1, <3>5, GoodFacts
    <3>6. CASE type = "array"
      BY <2>4, <3>1, <3>6, GoodFacts
    <3>7. CASE type = "call"
      <4>1. Unclosed
        BY <3>7 DEF type
      <4>2. QED BY <2>4, <3>1, <3>7, <4>1, LeftOpen, GoodFacts, GoodAsked
    <3>8. QED BY <3>2, <3>3, <3>4, <3>5, <3>6, <3>7
  <2> HIDE DEF left, tokens, use
  <2>6. Leads(use \o T("}") \o yields, <<"{">>, <<>>)
    <3>1. Leads(use, <<"{">>, <<"{">>)
      BY <2>5, Shift, Braces
    <3>2. Leads(use \o T("}"), <<"{">>, <<>>)
      BY <3>1, Join, Braces
    <3>3. QED BY <1>2, <3>2, GoodBehind, Braces
  <2>7. Good(opened \o (use \o T("}") \o yields))
    BY <1>4, <2>6, Join, Braces DEF Good
  <2>8. QED BY <1>6, <2>7 DEF OpRequirement, opened, named, use, yields, f
<1>7. QED BY <1>5, <1>6

(* The requirement a variable becomes: one without a type closes one bracket   *)
(* too few and reports an error.                                               *)
LEMMA GoodVarRequirement ==
    ASSUME IsTree(ast), NEW d \in Refs, NEW v \in Refs
    PROVE  Good(VarRequirement(d, v)) /\ (NoType(v) => Doomed(VarRequirement(d, v)))
<1> DEFINE use  == Brace((IF Static(d) THEN T("self") \o T("::") ELSE T("object") \o T("."))
                         \o Must(Kid(v, "var"), "path"))
           cut  == T("->") \o T("convertible_to") \o T("<")
           type == TypeOrSelf(Kid(Kid(v, "var"), "type"))
<1>1. Good(use) /\ Good(T("->") \o T("convertible_to"))
  BY TreeFacts, GoodFacts, GoodParts DEF Brackets
<1>2. Good(Yields("convertible_to", type))
  BY TreeFacts, GoodAsked, GoodYields
<1>3. Good(cut \o Err) /\ Doomed(cut \o Err)
  <2>1. Leads(cut, <<>>, <<"<">>)
    BY <1>1, Braces, Join DEF Good
  <2>2. QED BY <2>1, Braces, Fails
<1>4. VarRequirement(d, v) = use \o (IF NoType(v) THEN cut \o Err
      ELSE Yields("convertible_to", type))
  BY DEF VarRequirement
<1> HIDE DEF use, cut, type
<1>5. QED BY <1>1, <1>2, <1>3, <1>4, GoodFacts, DoomedBehind DEF Good, Leads

(* The requirement a let of an interface becomes: only the variables up to     *)
(* the first without a type are written.                                       *)
LEMMA GoodLetRequirement ==
    ASSUME IsTree(ast), NEW d \in Refs
    PROVE  /\ Good(LetRequirement(d))
           /\ SelectInSeq(Kids(d, "vars"), NoType) # 0 => Doomed(LetRequirement(d))
<1> DEFINE lets == Kids(d, "vars")
           at   == {i \in 1 .. Len(lets) : NoType(lets[i])}
           cut  == SelectInSeq(lets, NoType)
           ids  == IF cut = 0 THEN lets ELSE SubSeq(lets, 1, cut)
           g    == [i \in 1 .. Len(ids) |-> VarRequirement(d, ids[i])]
<1>1. lets \in Seq(Refs) /\ Len(lets) \in Nat
  BY TreeFacts
<1>2. cut = IF at # {} THEN Min(at) ELSE 0
  BY DEF SelectInSeq
<1>3. at \in SUBSET Nat
  OBVIOUS
<1>4. LetRequirement(d) = Cat(g)
  BY DEF LetRequirement, Each
<1> HIDE DEF cut
<1>5. cut # 0 => cut \in 1 .. Len(lets) /\ NoType(lets[cut])
  <2>1. at # {} => Min(at) \in at
    <3> HIDE DEF at
    <3>1. QED BY <1>3, MinFacts
  <2>2. QED BY <1>2, <2>1
<1> HIDE DEF lets
<1>6. /\ Len(ids) \in Nat /\ \A i \in 1 .. Len(ids) : ids[i] \in Refs
      /\ cut # 0 => Len(ids) = cut /\ cut \in Nat \ {0} /\ ids[cut] = lets[cut]
  <2>1. CASE cut = 0
    BY <1>1, <2>1, ElementOfSeq
  <2>2. CASE cut # 0
    <3>1. ids = SubSeq(lets, 1, cut) /\ cut \in 1 .. Len(lets)
      BY <1>5, <2>2
    <3> HIDE DEF ids
    <3>2. /\ ids \in Seq(Refs) /\ Len(ids) = cut /\ cut \in Nat \ {0}
          /\ \A i \in 1 .. cut : ids[i] = lets[i]
      BY <1>1, <3>1, UpToFacts
    <3>3. \A i \in 1 .. Len(ids) : ids[i] \in Refs
      BY <3>2, ElementOfSeq
    <3>4. cut \in 1 .. cut
      BY <3>2
    <3>5. QED BY <2>2, <3>2, <3>3, <3>4
  <2>3. QED BY <2>1, <2>2
<1> HIDE DEF ids
<1>7. \A i \in 1 .. Len(ids) : Good(VarRequirement(d, ids[i]))
  BY <1>6, GoodVarRequirement
<1>8. Good(Cat(g))
  BY <1>6, <1>7, GoodCat
<1>9. ASSUME cut # 0  PROVE Doomed(Cat(g))
  <2>1. Len(ids) \in Nat \ {0} /\ Doomed(VarRequirement(d, ids[Len(ids)]))
    BY <1>5, <1>6, <1>9, GoodVarRequirement
  <2>2. Doomed(g[Len(ids)]) /\ \A i \in 1 .. Len(ids) : Good(g[i])
    BY <1>7, <2>1
  <2>3. QED BY <2>1, <2>2, LastDooms
<1>10. QED BY <1>4, <1>8, <1>9 DEF cut, lets

(* The requirement any declaration of an interface becomes.                    *)
LEMMA GoodRequirement ==
    ASSUME IsTree(ast), NEW d \in Refs, Kind(d) = "OpDecl" /\ OperatorType(d) = "call" => Unclosed
    PROVE  Good(Requirement(d)) /\ (Untyped(d) => Doomed(Requirement(d)))
<1>1. CASE Kind(d) = "FuncDecl"
  BY <1>1, GoodFuncRequirement DEF Requirement, Untyped
<1>2. CASE Kind(d) = "OpDecl"
  BY <1>2, GoodOpRequirement DEF Requirement, Untyped
<1>3. CASE Kind(d) \notin {"FuncDecl", "OpDecl"}
  BY <1>3, GoodLetRequirement DEF Requirement, Untyped
<1>4. QED BY <1>1, <1>2, <1>3

(* The requirements of an interface close the brace they stand in; they stop   *)
(* at the first declaration that has no type, which ends in an error.          *)
LEMMA GoodRequirements ==
    ASSUME IsTree(ast), NEW decls \in Seq(Refs),
           \A i \in 1 .. Len(decls) :
             Kind(decls[i]) = "OpDecl" /\ OperatorType(decls[i]) = "call" => Unclosed
    PROVE  Leads(Requirements(decls), <<"{">>, <<>>)
<1> DEFINE at  == {i \in 1 .. Len(decls) : Untyped(decls[i])}
           cut == SelectInSeq(decls, Untyped)
           ids == IF cut = 0 THEN decls ELSE SubSeq(decls, 1, cut)
           g   == [i \in 1 .. Len(ids) |-> Requirement(ids[i])]
<1>1. Len(decls) \in Nat
  OBVIOUS
<1>2. cut = IF at # {} THEN Min(at) ELSE 0
  BY DEF SelectInSeq
<1>3. at \in SUBSET Nat
  OBVIOUS
<1>4. Requirements(decls) = IF cut = 0 THEN Cat(g) \o T("}") \o T(";") ELSE Cat(g)
  BY DEF Requirements, Each
<1> HIDE DEF cut
<1>5. cut # 0 => cut \in 1 .. Len(decls) /\ Untyped(decls[cut])
  <2>1. at # {} => Min(at) \in at
    <3> HIDE DEF at
    <3>1. QED BY <1>3, MinFacts
  <2>2. QED BY <1>2, <2>1
<1>6. /\ Len(ids) \in Nat
      /\ \A i \in 1 .. Len(ids) : ids[i] \in Refs /\ i \in 1 .. Len(decls) /\ ids[i] = decls[i]
      /\ cut # 0 => Len(ids) = cut /\ cut \in Nat \ {0} /\ ids[cut] = decls[cut]
  <2>1. CASE cut = 0
    BY <1>1, <2>1, ElementOfSeq
  <2>2. CASE cut # 0
    <3>1. ids = SubSeq(decls, 1, cut) /\ cut \in 1 .. Len(decls)
      BY <1>5, <2>2
    <3> HIDE DEF ids
    <3>2. /\ ids \in Seq(Refs) /\ Len(ids) = cut /\ cut \in Nat \ {0}
          /\ \A i \in 1 .. cut : ids[i] = decls[i]
      BY <3>1, UpToFacts
    <3>3. \A i \in 1 .. Len(ids) : ids[i] \in Refs
      BY <3>2, ElementOfSeq
    <3>4. cut \in 1 .. cut /\ \A i \in 1 .. cut : i \in 1 .. Len(decls)
      BY <1>1, <3>1, <3>2
    <3>5. QED BY <2>2, <3>2, <3>3, <3>4
  <2>3. QED BY <2>1, <2>2
<1> HIDE DEF ids
<1>7. \A i \in 1 .. Len(ids) :
        Good(Requirement(ids[i])) /\ (Untyped(ids[i]) => Doomed(Requirement(ids[i])))
  BY <1>6, GoodRequirement
<1>8. Good(Cat(g))
  BY <1>6, <1>7, GoodCat
<1>9. CASE cut # 0
  <2>1. Len(ids) \in Nat \ {0} /\ Doomed(Requirement(ids[Len(ids)]))
    BY <1>5, <1>6, <1>7, <1>9
  <2>2. Doomed(g[Len(ids)]) /\ \A i \in 1 .. Len(ids) : Good(g[i])
    BY <1>7, <2>1
  <2>3. Doomed(Cat(g))
    BY <2>1, <2>2, LastDooms
  <2>4. QED BY <1>4, <1>8, <1>9, <2>3 DEF Good, Leads
<1>10. CASE cut = 0
  <2> HIDE DEF g
  <2>1. Leads(Cat(g), <<"{">>, <<"{">>)
    BY <1>8, Braces, Shift
  <2>2. Leads(Cat(g) \o T("}"), <<"{">>, <<>>)
    BY <2>1, Braces, Join
  <2>3. Good(T(";"))
    BY GoodFacts DEF Brackets
  <2>4. QED BY <1>4, <1>10, <2>2, <2>3, Braces, GoodBehind
<1>11. QED BY <1>9, <1>10

(* The parameters that are given placeholders are nodes of the tree.           *)
LEMMA PlaceholdersInTree ==
    ASSUME IsTree(ast), NEW decls \in Seq(Refs)
    PROVE  Placeholders(decls) \in Seq(Refs)
<1> DEFINE k == Len(decls)
           g == [i \in 1 .. k |->
                  IF IsFunction(decls[i]) /\ ~Refused(decls[i]) THEN Args(decls[i]) ELSE <<>>]
<1>1. k \in Nat /\ \A i \in 1 .. k : decls[i] \in Refs
  BY ElementOfSeq
<1>2. \A i \in 1 .. k : g[i] \in Seq(Refs)
  BY <1>1, AskedFacts, NoChildren
<1>3. Cat(g) \in Seq(Refs)
  BY <1>1, <1>2, GoodNodes
<1>4. QED BY <1>3 DEF Placeholders, Each

(* The checks of the declarations of an interface.                             *)
LEMMA GoodChecks ==
    ASSUME IsTree(ast), NEW decls \in Seq(Refs)
    PROVE  Good(Each(decls, Check))
<1> DEFINE k == Len(decls)
           g == [i \in 1 .. k |-> Check(decls[i])]
<1>1. k \in Nat /\ \A i \in 1 .. k : decls[i] \in Refs
  BY ElementOfSeq
<1>2. \A i \in 1 .. k : Good(Check(decls[i]))
  BY <1>1, GoodAsked
<1>3. Good(Cat(g))
  BY <1>1, <1>2, GoodCat
<1>4. QED BY <1>3 DEF Each

(* The concept an interface is written as.                                     *)
LEMMA GoodInterfaceBody ==
    ASSUME IsTree(ast), NEW n \in Refs, Kind(n) = "InterDecl"
    PROVE  Good(InterfaceBody(n))
<1> DEFINE g     == Kid(n, "generics")
           decls == Statements(Kid(n, "body"))
           stops == {i \in 1 .. Len(decls) : \/ ~IsFunction(decls[i]) /\ Kind(decls[i]) # "LetDecl"
                                             \/ IsFunction(decls[i])
                                                /\ SelfIsTyped(FuncOf(decls[i]))}
           stop  == Min(stops)
           args  == Placeholders(decls)
           fails == Each(SubSeq(decls, 1, stop - 1), Check)
                      \o (IF IsFunction(decls[stop]) THEN ThrowPanic ELSE Err)
           params == CommaAfter(Kids(Kid(g, "params"), "params"), ConceptParam)
           bounds == Each(Kids(Kid(g, "bounds"), "bounds"), LAMBDA b : Visit(b) \o T("&&"))
           holders == CommaAfter(args, LAMBDA p : TypeOrSelf(Kid(Kid(p, "var"), "type"))
                                                    \o Placeholder(p))
           head  == Each(decls, Check)
                      \o T("template") \o Angle(params)
                      \o T("concept") \o Param(n, "name") \o T("=")
                      \o bounds \o T("requires")
                      \o Paren(T("self") \o T("object") \o When(args # <<>>, T(",") \o holders))
<1>1. decls \in Seq(Refs) /\ g \in Refs
  BY TreeFacts DEF Statements
<1>2. \A i \in 1 .. Len(decls) :
        Kind(decls[i]) = "OpDecl" /\ OperatorType(decls[i]) = "call" => Unclosed
  <2>1. n \in Nodes
    <3>1. n # Null
      BY DEF Kind
    <3>2. QED BY <3>1, TreeFacts
  <2>2. QED BY <2>1 DEF Unclosed, CallAsked
<1>3. ASSUME stops # {}  PROVE Good(fails)
  <2>1. stops \in SUBSET Nat
    OBVIOUS
  <2>2. stop \in 1 .. Len(decls)
    <3>1. stop \in stops
      <4> HIDE DEF stops
      <4>1. QED BY <1>3, <2>1, MinFacts
    <3>2. QED BY <3>1
  <2> HIDE DEF stop, decls
  <2>3. SubSeq(decls, 1, stop - 1) \in Seq(Refs)
    BY <1>1, <2>2, UpToFacts
  <2>4. QED BY <2>3, GoodChecks, GoodFacts
<1> HIDE DEF stops
<1>4. Good(params)
  <2> DEFINE ids == Kids(Kid(g, "params"), "params")
             k == Len(ids)
             f == [i \in 1 .. k |-> ConceptParam(ids[i]) \o T(",")]
  <2>1. k \in Nat /\ (k = 0 <=> ids = <<>>)
    BY <1>1, TreeFacts
  <2>2. \A i \in 1 .. k : Good(ConceptParam(ids[i]))
    BY <1>1, TreeFacts, GoodAsked
  <2>3. \A i \in 1 .. k : Good(f[i]) /\ EndsInComma(f[i])
    BY <2>2, CommaLast
  <2>4. (k # 0 => Good(Cat(f) \o PopBack)) /\ (k = 0 => Good(Cat(f) \o <<>>))
    BY <2>1, <2>3, GoodCommas
  <2>5. QED BY <2>1, <2>4 DEF CommaAfter, Each, When
<1>5. Good(bounds)
  <2> DEFINE ids == Kids(Kid(g, "bounds"), "bounds")
             k == Len(ids)
             f == [i \in 1 .. k |-> Visit(ids[i]) \o T("&&")]
  <2>1. k \in Nat /\ \A i \in 1 .. k : Good(Visit(ids[i]) \o T("&&"))
    BY <1>1, TreeFacts, GoodFacts DEF Brackets
  <2>2. Good(Cat(f))
    BY <2>1, GoodCat
  <2>3. QED BY <2>2 DEF Each
<1>6. Good(holders)
  <2> DEFINE k == Len(args)
             f == [i \in 1 .. k |-> (TypeOrSelf(Kid(Kid(args[i], "var"), "type"))
                    \o Placeholder(args[i]))
                                      \o T(",")]
  <2>0. args \in Seq(Refs)
    BY <1>1, PlaceholdersInTree
  <2> HIDE DEF args
  <2>1. k \in Nat /\ (k = 0 <=> args = <<>>) /\ \A i \in 1 .. k : args[i] \in Refs
    BY <2>0, EmptySeq, ElementOfSeq
  <2>2. \A i \in 1 .. k : Good(TypeOrSelf(Kid(Kid(args[i], "var"), "type")) \o Placeholder(args[i]))
    BY <2>1, TreeFacts, GoodFacts, GoodAsked
  <2>3. \A i \in 1 .. k : Good(f[i]) /\ EndsInComma(f[i])
    BY <2>2, CommaLast
  <2>4. (k # 0 => Good(Cat(f) \o PopBack)) /\ (k = 0 => Good(Cat(f) \o <<>>))
    BY <2>1, <2>3, GoodCommas
  <2>5. QED BY <2>1, <2>4 DEF CommaAfter, Each, When
<1>7. Good(head)
  <2>1. Good(Each(decls, Check))
    BY <1>1, GoodChecks
  <2>2. Good(Param(n, "name"))
    BY GoodParts
  <2> HIDE DEF decls, params, bounds, holders, args
  <2>3. QED BY <1>4, <1>5, <1>6, <2>1, <2>2, GoodFacts DEF When, Brackets
<1>8. Good(head \o T("{") \o Requirements(decls))
  <2>1. Leads(Requirements(decls), <<"{">>, <<>>)
    BY <1>1, <1>2, GoodRequirements
  <2> HIDE DEF head, decls
  <2>2. Leads(head \o T("{"), <<>>, <<"{">>)
    BY <1>7, Braces, Join DEF Good
  <2>3. QED BY <2>1, <2>2, Braces, Join DEF Good
<1>9. InterfaceBody(n) = IF stops # {} THEN fails ELSE head \o T("{") \o Requirements(decls)
  BY DEF InterfaceBody, stops
<1> HIDE DEF head, fails
<1>10. QED BY <1>3, <1>8, <1>9

(* The visit of an interface.                                                  *)
LEMMA GoodInterDecl ==
    ASSUME IsTree(ast), NEW n \in Refs, Kind(n) = "InterDecl"
    PROVE  Good(InterDecl(n))
BY GoodEdits, GoodFacts DEF InterDecl

(* Programs.                                                                     *)
LEMMA ChildrenInTree ==
    ASSUME IsTree(ast), NEW p \in Refs
    PROVE  /\ Children(p) \in Seq(Refs) /\ Foreign(p) \in Seq(Refs) /\ Mains(p) \in Seq(Refs)
           /\ Mains(p) # <<>> => Last(Mains(p)) \in Refs
<1>1. \A c \in Refs : <<c>> \in Seq(Refs)
  OBVIOUS
<1>2. Children(p) \in Seq(Refs)
  <2> DEFINE ids == Kids(p, "children")
             k == Len(ids)
             g == [i \in 1 .. k |-> When(Kind(ids[i]) # "FFIDecl", <<ids[i]>>)]
  <2>1. k \in Nat /\ \A i \in 1 .. k : g[i] \in Seq(Refs)
    BY <1>1, TreeFacts, NoChildren DEF When
  <2>2. Cat(g) \in Seq(Refs)
    BY <2>1, GoodNodes
  <2>3. QED BY <2>2 DEF Children, Each
<1>3. Foreign(p) \in Seq(Refs)
  <2> DEFINE ids == Kids(p, "children")
             k == Len(ids)
             g == [i \in 1 .. k |-> When(Kind(ids[i]) = "FFIDecl", <<ids[i]>>)]
  <2>1. k \in Nat /\ \A i \in 1 .. k : g[i] \in Seq(Refs)
    BY <1>1, TreeFacts, NoChildren DEF When
  <2>2. Cat(g) \in Seq(Refs)
    BY <2>1, GoodNodes
  <2>3. QED BY <2>2 DEF Foreign, Each
<1>4. Mains(p) \in Seq(Refs)
  <2> DEFINE ids == Children(p)
             k == Len(ids)
             g == [i \in 1 .. k |-> When(IsMain(ids[i]), <<ids[i]>>)]
  <2> HIDE DEF ids
  <2>1. k \in Nat /\ \A i \in 1 .. k : ids[i] \in Refs
    BY <1>2, ElementOfSeq DEF ids
  <2>2. \A i \in 1 .. k : g[i] \in Seq(Refs)
    BY <1>1, <2>1, NoChildren DEF When
  <2>3. Cat(g) \in Seq(Refs)
    BY <2>1, <2>2, GoodNodes
  <2>4. QED BY <2>3 DEF Mains, Each, ids
<1>5. Mains(p) # <<>> => Last(Mains(p)) \in Refs
  <2> DEFINE s == Mains(p)
  <2> HIDE DEF s
  <2>1. s # <<>> => s[Len(s)] \in Refs
    BY <1>4, EmptySeq, ElementOfSeq DEF s
  <2>2. QED BY <2>1 DEF s, Last
<1>6. QED BY <1>2, <1>3, <1>4, <1>5

(* The visits of the children of a program.                                    *)
LEMMA GoodChildren ==
    ASSUME IsTree(ast), NEW ids \in Seq(Refs)
    PROVE  /\ Good(Each(ids, Visit)) /\ Good(Each(ids, Child))
           /\ Good(Each(ids, LAMBDA m : When(Kid(m, "returns") = Null, Err)))
<1> DEFINE k == Len(ids)
<1>1. k \in Nat /\ \A i \in 1 .. k : ids[i] \in Refs
  BY ElementOfSeq
<1>2. Good(Each(ids, Visit))
  <2> DEFINE g == [i \in 1 .. k |-> Visit(ids[i])]
  <2>1. \A i \in 1 .. k : Good(Visit(ids[i]))
    BY <1>1, GoodFacts
  <2>2. Good(Cat(g))
    BY <1>1, <2>1, GoodCat
  <2>3. QED BY <2>2 DEF Each
<1>3. Good(Each(ids, Child))
  <2> DEFINE g == [i \in 1 .. k |-> Child(ids[i])]
  <2>1. \A i \in 1 .. k : Good(Child(ids[i]))
    BY <1>1, GoodFacts DEF Child
  <2>2. Good(Cat(g))
    BY <1>1, <2>1, GoodCat
  <2>3. QED BY <2>2 DEF Each
<1>4. Good(Each(ids, LAMBDA m : When(Kid(m, "returns") = Null, Err)))
  <2> DEFINE g == [i \in 1 .. k |-> When(Kid(ids[i], "returns") = Null, Err)]
  <2>1. \A i \in 1 .. k : Good(When(Kid(ids[i], "returns") = Null, Err))
    BY <1>1, GoodFacts DEF When
  <2>2. Good(Cat(g))
    BY <1>1, <2>1, GoodCat
  <2>3. QED BY <2>2 DEF Each
<1>5. QED BY <1>2, <1>3, <1>4

(* The visit of a program.                                                     *)
LEMMA GoodProgram ==
    ASSUME IsTree(ast), NEW p \in Refs
    PROVE  Good(Program(p))
<1> DEFINE trivial == TriviallyImports(p)
           deep    == IF trivial THEN <<"{">> ELSE <<"{", "{">>
           main    == Last(Mains(p))
           closes  == When(~trivial, T("}")) \o T("}")
           head    == Each(Foreign(p), Visit) \o Set(p, "children", Children(p))
                        \o T("#ifndef") \o T("guard") \o T("#define") \o T("guard")
                        \o T("namespace") \o T("helix")
           file    == When(~trivial, T("namespace") \o T("file") \o T("{"))
           each    == Each(Children(p), Child)
           end     == IF Mains(p) = <<>> THEN closes
                      ELSE Visit(main) \o closes \o Later("main", "", main) \o Visit(main)
<1> HIDE DEF trivial
<1>0. deep \in Seq(Openers)
  BY Braces
<1> HIDE DEF deep
<1>1. Good(head)
  BY ChildrenInTree, GoodChildren, GoodFacts, GoodEdits DEF Brackets
<1>2. Leads(file, <<"{">>, deep)
  <2>1. CASE trivial
    BY <2>1, NoMove, Braces DEF When, deep
  <2>2. CASE ~trivial
    <3>1. Good(T("namespace") \o T("file"))
      BY GoodFacts DEF Brackets
    <3>2. Leads(T("namespace") \o T("file"), <<"{">>, <<"{">>)
      BY <3>1, Shift, Braces
    <3>3. QED BY <2>2, <3>2, Join, Braces DEF When, deep
  <2>3. QED BY <2>1, <2>2
<1>3. Good(MainErrors(p))
  BY ChildrenInTree, GoodChildren, GoodFacts DEF MainErrors, When
<1>4. Good(each)
  BY ChildrenInTree, GoodChildren
<1>5. Leads(closes, deep, <<>>)
  <2>1. Leads(When(~trivial, T("}")), deep, <<"{">>)
    BY NoMove, Braces DEF When, deep
  <2>2. QED BY <1>0, <2>1, Join, Braces
<1>6. Leads(end, deep, <<>>)
  <2>1. CASE Mains(p) = <<>>
    BY <1>5, <2>1
  <2>2. CASE Mains(p) # <<>>
    <3>1. Good(Visit(main)) /\ Good(Later("main", "", main))
      BY <2>2, ChildrenInTree, GoodFacts, GoodEdits
    <3> HIDE DEF main, closes
    <3>2. Leads(Visit(main), deep, deep)
      BY <1>0, <3>1, Shift
    <3>3. Leads(Visit(main) \o closes, deep, <<>>)
      BY <1>0, <1>5, <3>2, Join, Braces
    <3>4. Leads(Visit(main) \o closes \o Later("main", "", main), deep, <<>>)
      BY <1>0, <3>1, <3>3, GoodBehind, Braces
    <3>5. Leads(Visit(main) \o closes \o Later("main", "", main) \o Visit(main), deep, <<>>)
      BY <1>0, <3>1, <3>4, GoodBehind, Braces
    <3>6. QED BY <2>2, <3>5
  <2>3. QED BY <2>1, <2>2
<1>7. Program(p) = head \o T("{") \o file \o MainErrors(p) \o each \o end \o T("#endif")
  BY DEF Program, trivial
<1> HIDE DEF head, file, each, end
<1>8. Leads(head \o T("{"), <<>>, <<"{">>)
  BY <1>1, Join, Braces DEF Good
<1>9. Leads(head \o T("{") \o file, <<>>, deep)
  BY <1>0, <1>2, <1>8, Join, Braces
<1>10. Leads(head \o T("{") \o file \o MainErrors(p) \o each, <<>>, deep)
  BY <1>0, <1>3, <1>4, <1>9, GoodBehind, Braces
<1>11. Leads(head \o T("{") \o file \o MainErrors(p) \o each \o end, <<>>, <<>>)
  BY <1>0, <1>6, <1>10, Join, Braces
<1>12. Good(T("#endif"))
  BY GoodFacts DEF Brackets
<1>13. QED BY <1>7, <1>11, <1>12, GoodFacts DEF Good

(* The visit of any node of any tree moves in that tree, takes back only       *)
(* commas it has just written, and closes what it opens or cannot end          *)
(* without an error.                                                           *)
LEMMA GoodMoves ==
    ASSUME IsTree(ast), NEW n \in Refs, NEW a, Kind(n) \in Expression \cup Statement \cup Declaration
    PROVE  Good(Moves(n, a))
<1>1. CASE Kind(n) \in Statement
  BY <1>1, GoodStates DEF Moves, StateMoves, Statement
<1>2. CASE Kind(n) \notin Statement /\ Kind(n) \in Declaration
  BY <1>2, GoodStates, GoodDecls, GoodOperators, GoodUdts, GoodModule, GoodInterDecl, GoodProgram
     DEF Moves, DeclMoves, Declaration
<1>3. CASE Kind(n) \notin Statement \cup Declaration /\ Kind(n) \in Expression
  <2>1. Good(ScopePathExpr(n, a # "no access"))
    BY GoodExprs DEF ScopePathExpr
  <2>2. QED BY <1>3, <2>1, GoodExprs DEF Moves, ExprMoves, Expression
<1>4. QED BY <1>1, <1>2, <1>3

(* The tree an edit leaves.                                                      *)
NodesOf(s, size) == (\E S : s \in Seq(S)) /\ \A i \in 1 .. Len(s) : IsNode(s[i], size)

\* the nodes there were keep their class
Keeps(tree) ==
  /\ IsTree(tree) /\ Len(ast) <= Len(tree)
  /\ \A n \in 1 .. Len(ast) : tree[n].kind = ast[n].kind

(* A node whose children are in the tree is a node of it.                      *)
LEMMA NewNode ==
    ASSUME NEW size \in Nat, NEW kind, NEW tags, NEW kids, kids = [f \in DOMAIN kids |-> kids[f]],
           \A f \in DOMAIN kids : kids[f] \in Seq(0 .. size)
    PROVE  IsNode(Node(kind, tags, kids), size)
<1> DEFINE node == Node(kind, tags, kids)
<1>1. node.kind = kind /\ node.tags = tags /\ node.kids = kids
  BY DEF Node
<1> HIDE DEF node
<1>2. node = Node(node.kind, node.tags, [f \in DOMAIN node.kids |-> node.kids[f]])
  <2>1. node = Node(kind, tags, kids)
    BY DEF node
  <2> HIDE DEF node
  <2>2. QED BY <1>1, <2>1
<1>3. IsNode(node, size)
  BY <1>1, <1>2 DEF IsNode
<1>4. QED BY <1>3 DEF node

(* A node without children is a node of any tree.                              *)
LEMMA LeafNode == ASSUME NEW size \in Nat, NEW kind, NEW tags
    PROVE IsNode(Node(kind, tags, <<>>), size)
<1> DEFINE kids == <<>>
<1>1. DOMAIN kids = {}
  OBVIOUS
<1>2. kids = [f \in DOMAIN kids |-> kids[f]]
  OBVIOUS
<1> HIDE DEF kids
<1>3. IsNode(Node(kind, tags, kids), size)
  BY <1>1, <1>2, NewNode
<1>4. QED BY <1>3 DEF kids

(* The nodes that visits make, with one or two lists of children.              *)
LEMMA SomeNodes ==
    ASSUME NEW size \in Nat, NEW kind, NEW tags, NEW s \in Seq(0 .. size), NEW t \in Seq(0 .. size)
    PROVE  /\ IsNode(Node(kind, tags, [args |-> s]), size)
              /\ IsNode(Node(kind, tags, [value |-> s]), size)
           /\ IsNode(Node(kind, tags, [path |-> s]), size)
              /\ IsNode(Node(kind, tags, [params |-> s]), size)
           /\ IsNode(Node(kind, tags, [opd |-> s]), size)
           /\ IsNode(Node(kind, tags, [var |-> s]), size)
           /\ IsNode(Node(kind, tags, [path |-> s, type |-> t]), size)
           /\ IsNode(Node(kind, tags, [path |-> s, args |-> t]), size)
           /\ IsNode(Node(kind, tags, [path |-> s, access |-> t]), size)
<1>1. IsNode(Node(kind, tags, [args |-> s]), size) /\ IsNode(Node(kind, tags, [value |-> s]), size)
  BY NewNode
<1>2. IsNode(Node(kind, tags, [path |-> s]), size) /\ IsNode(Node(kind, tags, [params |-> s]), size)
  BY NewNode
<1>3. IsNode(Node(kind, tags, [var |-> s]), size)
  BY NewNode
<1>3a. IsNode(Node(kind, tags, [opd |-> s]), size)
  BY NewNode
<1>4. IsNode(Node(kind, tags, [path |-> s, type |-> t]), size)
  BY NewNode
<1>5. IsNode(Node(kind, tags, [path |-> s, args |-> t]), size)
  BY NewNode
<1>6. IsNode(Node(kind, tags, [path |-> s, access |-> t]), size)
  BY NewNode
<1>7. QED BY <1>1, <1>2, <1>3, <1>3a, <1>4, <1>5, <1>6

(* Children that are in a tree are in a larger one.                            *)
LEMMA WiderSeq ==
    ASSUME NEW a \in Nat, NEW b \in Nat, a <= b, NEW s \in Seq(0 .. a)
    PROVE  s \in Seq(0 .. b)
<1>1. \A i \in 1 .. Len(s) : s[i] \in 0 .. b
  BY ElementOfSeq
<1>2. QED BY <1>1, SeqOfMembers

(* A node of a tree is a node of a larger one.                                 *)
LEMMA WiderNode ==
    ASSUME NEW a \in Nat, NEW b \in Nat, a <= b, NEW node, IsNode(node, a)
    PROVE  IsNode(node, b)
BY WiderSeq DEF IsNode

(* A node given other children of the tree is a node of it, of the same        *)
(* kind.                                                                       *)
LEMMA NodeWithKids ==
    ASSUME NEW size \in Nat, NEW node, IsNode(node, size), NEW f, NEW ids \in Seq(0 .. size)
    PROVE  IsNode(WithKids(node, f, ids), size) /\ WithKids(node, f, ids).kind = node.kind
<1> DEFINE old  == node.kids
           kids == [g \in {f} \cup DOMAIN old |-> IF g = f THEN ids ELSE old[g]]
           new  == WithKids(node, f, ids)
<1>1. node = [kind |-> node.kind, tags |-> node.tags, kids |-> [g \in DOMAIN old |-> old[g]]]
  BY DEF IsNode, Node
<1> DEFINE k == node.kind
           t == node.tags
           c == [g \in DOMAIN old |-> old[g]]
<1> HIDE DEF k, t, c
<1>2. new = Node(k, t, kids)
  <2>1. node = [kind |-> k, tags |-> t, kids |-> c]
    BY <1>1 DEF k, t, c
  <2>2. new = [node EXCEPT !.kids = kids]
    BY DEF WithKids
  <2> HIDE DEF kids, new
  <2>3. QED BY <2>1, <2>2 DEF Node
<1>3. kids = [g \in DOMAIN kids |-> kids[g]] /\ \A g \in DOMAIN kids : kids[g] \in Seq(0 .. size)
  BY DEF IsNode
<1> HIDE DEF kids, new
<1>4. IsNode(new, size)
  BY <1>2, <1>3, NewNode
<1>5. new.kind = node.kind
  BY <1>2 DEF Node, k
<1>6. QED BY <1>4, <1>5 DEF new

(* A tree stays one, with its kinds, when nodes are changed and others put     *)
(* behind them.                                                                *)
LEMMA TreeGrows ==
    ASSUME IsTree(ast), NEW k \in Nat, NEW tree, Len(tree) = Len(ast),
           tree = [n \in 1 .. Len(ast) |-> tree[n]],
           \A n \in 1 .. Len(ast) : IsNode(tree[n], Len(ast) + k) /\ tree[n].kind = ast[n].kind,
           NEW news, NodesOf(news, Len(ast) + k), Len(news) = k
    PROVE  Keeps(tree \o news)
<1> DEFINE size == Len(ast)
           all  == tree \o news
<1>1. size \in Nat \ {0} /\ size + k \in Nat \ {0}
  BY DEF IsTree
<1> HIDE DEF size
<1>2. PICK S : tree \in Seq(S) /\ news \in Seq(S)
  <2> DEFINE A == {tree[n] : n \in 1 .. size}
  <2>1. tree \in Seq(A)
    BY <1>1, SeqDef DEF size
  <2>2. PICK B : news \in Seq(B)
    BY DEF NodesOf
  <2> HIDE DEF A
  <2>3. tree \in Seq(A \cup B) /\ news \in Seq(A \cup B)
    BY <2>1, <2>2, SeqMonotonic
  <2>4. QED BY <2>3
<1>3. /\ all \in Seq(S) /\ Len(all) = size + k
      /\ \A i \in 1 .. size + k : all[i] = IF i <= size THEN tree[i] ELSE news[i - size]
  BY <1>1, <1>2, ConcatProperties DEF size
<1> HIDE DEF all
<1>4. all = [n \in 1 .. Len(all) |-> all[n]]
  BY <1>3, LenProperties
<1>5. ASSUME NEW n \in 1 .. Len(all)  PROVE IsNode(all[n], Len(all))
  <2>1. CASE n <= size
    BY <1>1, <1>3, <2>1 DEF size
  <2>2. CASE n > size
    <3>0. n - size \in 1 .. k /\ n \in 1 .. size + k /\ ~(n <= size)
      BY <1>1, <1>3, <2>2
    <3>1. n - size \in 1 .. k /\ all[n] = news[n - size]
      BY <1>3, <3>0
    <3>2. QED BY <1>3, <3>1 DEF NodesOf, size
  <2>3. QED BY <1>1, <1>3, <2>1, <2>2
<1>6. \A n \in 1 .. size : all[n].kind = ast[n].kind
  BY <1>1, <1>3 DEF size
<1>7. QED BY <1>1, <1>3, <1>4, <1>5, <1>6 DEF Keeps, IsTree, all, size

(* A tree stays one, with its kinds, when nodes are changed.                   *)
LEMMA TreeStays ==
    ASSUME IsTree(ast), NEW tree, Len(tree) = Len(ast), tree = [n \in 1 .. Len(ast) |-> tree[n]],
           \A n \in 1 .. Len(ast) : IsNode(tree[n], Len(ast)) /\ tree[n].kind = ast[n].kind
    PROVE  Keeps(tree)
BY DEF Keeps, IsTree

\* the lists of a node are set, and new nodes are put behind
(* A node given other children, in a tree of the same length.                  *)
LEMMA EditFacts ==
    ASSUME IsTree(ast), NEW k \in Nat, NEW n, NEW f, NEW ids \in Seq(0 .. Len(ast) + k)
    PROVE  /\ Len(Edit(n, f, ids)) = Len(ast) /\ Edit(n, f, ids) = [i \in 1 .. Len(ast) |-> Edit(n, f, ids)[i]]
           /\ \A i \in 1 .. Len(ast) :
                IsNode(Edit(n, f, ids)[i], Len(ast) + k) /\ Edit(n, f, ids)[i].kind = ast[i].kind
<1> DEFINE size == Len(ast)
           tree == Edit(n, f, ids)
<1>1. size \in Nat /\ DOMAIN ast = 1 .. size /\ \A i \in 1 .. size : IsNode(ast[i], size)
  BY DEF IsTree
<1>2. tree = [i \in 1 .. size |-> IF i = n THEN WithKids(ast[i], f, ids) ELSE ast[i]]
  BY <1>1 DEF Edit
<1> HIDE DEF tree, size
<1>3. ASSUME NEW i \in 1 .. size  PROVE IsNode(tree[i], size + k) /\ tree[i].kind = ast[i].kind
  <2>1. IsNode(ast[i], size + k)
    BY <1>1, WiderNode
  <2>2. QED BY <1>1, <1>2, <2>1, NodeWithKids DEF size
<1>4. Len(tree) = size /\ tree = [i \in 1 .. size |-> tree[i]]
  BY <1>1, <1>2
<1>5. QED BY <1>3, <1>4 DEF tree, size

(* A node given other children of the tree leaves a tree.                      *)
LEMMA EditKeeps ==
    ASSUME IsTree(ast), NEW n, NEW f, NEW ids \in Seq(Refs)
    PROVE  Keeps(Edit(n, f, ids))
<1>1. ids \in Seq(0 .. Len(ast) + 0) /\ Len(ast) + 0 = Len(ast)
  BY DEF Refs, IsTree
<1> DEFINE tree == Edit(n, f, ids)
<1>2. /\ Len(tree) = Len(ast) /\ tree = [i \in 1 .. Len(ast) |-> tree[i]]
      /\ \A i \in 1 .. Len(ast) : IsNode(tree[i], Len(ast)) /\ tree[i].kind = ast[i].kind
  <2>1. 0 \in Nat
    OBVIOUS
  <2>2. /\ Len(tree) = Len(ast) /\ tree = [i \in 1 .. Len(ast) |-> tree[i]]
        /\ \A i \in 1 .. Len(ast) :
             IsNode(Edit(n, f, ids)[i], Len(ast) + 0) /\ Edit(n, f, ids)[i].kind = ast[i].kind
    BY <1>1, <2>1, EditFacts
  <2>3. QED BY <1>1, <2>2
<1> HIDE DEF tree
<1>3. Keeps(tree)
  BY <1>2, TreeStays
<1>4. QED BY <1>3 DEF tree

(* A node given children among new nodes leaves a tree.                        *)
LEMMA EditGrows ==
    ASSUME IsTree(ast), NEW k \in Nat, NEW n, NEW f, NEW ids \in Seq(0 .. Len(ast) + k),
           NEW news, NodesOf(news, Len(ast) + k), Len(news) = k
    PROVE  Keeps(Edit(n, f, ids) \o news)
<1> DEFINE tree == Edit(n, f, ids)
<1>1. /\ Len(tree) = Len(ast) /\ tree = [i \in 1 .. Len(ast) |-> tree[i]]
      /\ \A i \in 1 .. Len(ast) : IsNode(tree[i], Len(ast) + k) /\ tree[i].kind = ast[i].kind
  BY EditFacts
<1> HIDE DEF tree
<1>2. Keeps(tree \o news)
  BY <1>1, TreeGrows
<1>3. QED BY <1>2 DEF tree

(* A node given other tags leaves a tree.                                      *)
LEMMA TagsKeep ==
    ASSUME IsTree(ast), NEW n, NEW tags
    PROVE  Keeps([ast EXCEPT ![n].tags = tags])
<1> DEFINE tree == [ast EXCEPT ![n].tags = tags]
<1>1. Len(ast) \in Nat /\ DOMAIN ast = 1 .. Len(ast) /\ \A i \in 1 .. Len(ast) : IsNode(ast[i],
      Len(ast))
  BY DEF IsTree
<1>2. tree = [i \in 1 .. Len(ast) |-> IF i = n THEN [ast[i] EXCEPT !.tags = tags] ELSE ast[i]]
  BY <1>1
<1>3. Len(tree) = Len(ast) /\ tree = [i \in 1 .. Len(ast) |-> tree[i]]
  BY <1>1, <1>2
<1> HIDE DEF tree
<1>4. ASSUME NEW i \in 1 .. Len(ast)  PROVE IsNode(tree[i], Len(ast)) /\ tree[i].kind = ast[i].kind
  <2> DEFINE node == ast[i]
             k    == node.kind
             t    == node.tags
             c    == node.kids
  <2>1. IsNode(node, Len(ast))
    BY <1>1
  <2>2. node = Node(k, t, [f \in DOMAIN c |-> c[f]])
        /\ \A f \in DOMAIN c : c[f] \in Seq(0 .. Len(ast))
    BY <2>1 DEF IsNode
  <2> DEFINE d == [f \in DOMAIN c |-> c[f]]
             new == [node EXCEPT !.tags = tags]
  <2>3. d = [f \in DOMAIN d |-> d[f]] /\ \A f \in DOMAIN d : d[f] \in Seq(0 .. Len(ast))
    BY <2>2
  <2>4. tree[i] = IF i = n THEN new ELSE node
    BY <1>2
  <2> HIDE DEF node, k, t, c, d
  <2>5. node = Node(k, t, d)
    BY <2>2 DEF d
  <2>6. new = Node(k, tags, d) /\ node.kind = k
    BY <2>5 DEF Node
  <2> HIDE DEF new
  <2>7. IsNode(new, Len(ast)) /\ new.kind = k
    BY <1>1, <2>3, <2>6, NewNode DEF Node
  <2>8. QED BY <2>1, <2>4, <2>6, <2>7 DEF node
<1>5. Keeps(tree)
  BY <1>3, <1>4, TreeStays
<1>6. QED BY <1>5 DEF tree

(* Nodes of a tree, joined.                                                    *)
LEMMA JoinNodes ==
    ASSUME NEW size, NEW s, NEW t, NodesOf(s, size), NodesOf(t, size)
    PROVE  NodesOf(s \o t, size) /\ Len(s \o t) = Len(s) + Len(t) /\ Len(s) \in Nat
       /\ Len(t) \in Nat
<1>1. PICK A : s \in Seq(A)
  BY DEF NodesOf
<1>2. PICK B : t \in Seq(B)
  BY DEF NodesOf
<1>3. s \in Seq(A \cup B) /\ t \in Seq(A \cup B)
  BY <1>1, <1>2, SeqMonotonic
<1> DEFINE u == s \o t
<1>4. /\ u \in Seq(A \cup B) /\ Len(u) = Len(s) + Len(t) /\ Len(s) \in Nat /\ Len(t) \in Nat
      /\ \A i \in 1 .. Len(s) + Len(t) : u[i] = IF i <= Len(s) THEN s[i] ELSE t[i - Len(s)]
  BY <1>3, ConcatProperties, LenProperties
<1> HIDE DEF u
<1>5. ASSUME NEW i \in 1 .. Len(u)  PROVE IsNode(u[i], size)
  <2>1. CASE i <= Len(s)
    <3>1. i \in 1 .. Len(s) /\ u[i] = s[i]
      BY <1>4, <1>5, <2>1
    <3>2. QED BY <3>1 DEF NodesOf
  <2>2. CASE i > Len(s)
    <3>1. i - Len(s) \in 1 .. Len(t) /\ u[i] = t[i - Len(s)]
      BY <1>4, <1>5, <2>2
    <3>2. QED BY <3>1 DEF NodesOf
  <2>3. QED BY <1>4, <1>5, <2>1, <2>2
<1>6. QED BY <1>4, <1>5 DEF NodesOf, u

(* Up to five nodes of a tree as a sequence of them.                           *)
LEMMA FewNodes ==
    ASSUME NEW size, NEW a, NEW b, NEW c, NEW d, NEW e, IsNode(a, size), IsNode(b, size),
           IsNode(c, size), IsNode(d, size), IsNode(e, size)
    PROVE  /\ NodesOf(<<a>>, size) /\ Len(<<a>>) = 1
           /\ NodesOf(<<a, b>>, size) /\ Len(<<a, b>>) = 2
           /\ NodesOf(<<a, b, c>>, size) /\ Len(<<a, b, c>>) = 3
           /\ NodesOf(<<a, b, c, d>>, size) /\ Len(<<a, b, c, d>>) = 4
           /\ NodesOf(<<a, b, c, d, e>>, size) /\ Len(<<a, b, c, d, e>>) = 5
<1> DEFINE S == {a, b, c, d, e}
<1>1. \A x \in S : IsNode(x, size)
  OBVIOUS
<1>2. ASSUME NEW s \in Seq(S)  PROVE NodesOf(s, size)
  <2> HIDE DEF S
  <2>1. \A i \in 1 .. Len(s) : s[i] \in S
    BY ElementOfSeq
  <2>2. QED BY <1>1, <2>1 DEF NodesOf
<1>3. a \in S /\ b \in S /\ c \in S /\ d \in S /\ e \in S
  OBVIOUS
<1> HIDE DEF S
<1>4. /\ <<a>> \in Seq(S) /\ <<a, b>> \in Seq(S) /\ <<a, b, c>> \in Seq(S)
      /\ <<a, b, c, d>> \in Seq(S) /\ <<a, b, c, d, e>> \in Seq(S)
  BY <1>3
<1>5. /\ Len(<<a>>) = 1 /\ Len(<<a, b>>) = 2 /\ Len(<<a, b, c>>) = 3
      /\ Len(<<a, b, c, d>>) = 4 /\ Len(<<a, b, c, d, e>>) = 5
  OBVIOUS
<1>6. QED BY <1>2, <1>4, <1>5

(* Joining is associative.                                                     *)
LEMMA Regroup ==
    ASSUME NEW a, NEW b, NEW c, \E S : a \in Seq(S), \E S : b \in Seq(S), \E S : c \in Seq(S)
    PROVE  (a \o b) \o c = a \o (b \o c)
<1>1. PICK A : a \in Seq(A)
  OBVIOUS
<1>2. PICK B : b \in Seq(B)
  OBVIOUS
<1>3. PICK C : c \in Seq(C)
  OBVIOUS
<1> DEFINE S == A \cup B \cup C
<1>4. a \in Seq(S) /\ b \in Seq(S) /\ c \in Seq(S)
  BY <1>1, <1>2, <1>3, SeqMonotonic
<1> HIDE DEF S
<1>5. QED BY <1>4, ConcatAssociative

(* A tree with a node edited is a sequence.                                    *)
LEMMA TreeIsSeq ==
    ASSUME IsTree(ast), NEW n, NEW f, NEW ids
    PROVE  \E S : Edit(n, f, ids) \in Seq(S)
<1> DEFINE tree == Edit(n, f, ids)
           S == {tree[i] : i \in 1 .. Len(ast)}
<1>1. Len(ast) \in Nat /\ DOMAIN ast = 1 .. Len(ast)
  BY DEF IsTree
<1>2. tree = [i \in 1 .. Len(ast) |-> tree[i]]
  BY <1>1 DEF Edit
<1> HIDE DEF tree
<1>3. tree \in Seq(S)
  BY <1>1, <1>2, SeqDef
<1> HIDE DEF S
<1>4. QED BY <1>3 DEF tree

\* numbers of nodes, of the tree there is or of new ones
(* The children of the tree and the numbers of new nodes are in the tree       *)
(* that the new nodes make.                                                    *)
LEMMA Wide ==
    ASSUME IsTree(ast), NEW k \in Nat
    PROVE  /\ Len(ast) + k \in Nat
           /\ \A s \in Seq(Refs) : s \in Seq(0 .. Len(ast) + k)
           /\ \A i \in 1 .. k : <<Len(ast) + i>> \in Seq(0 .. Len(ast) + k)
<1>1. Len(ast) \in Nat
  BY DEF IsTree
<1>2. \A s \in Seq(Refs) : s \in Seq(0 .. Len(ast) + k)
  BY <1>1, WiderSeq DEF Refs
<1>3. ASSUME NEW i \in 1 .. k  PROVE <<Len(ast) + i>> \in Seq(0 .. Len(ast) + k)
  <2>1. Len(ast) + i \in 0 .. Len(ast) + k
    BY <1>1
  <2>2. QED BY <2>1
<1>4. QED BY <1>1, <1>2, <1>3

(* The move that is made is a move of the tree, the first of those to come.    *)
LEMMA FirstMove ==
    ASSUME IsMoves(work), NEW ops, NEW m \in Next1(ops)
    PROVE  IsMove(m) /\ status = "run" /\ work # <<>> /\ m = work[1] /\ m.op \in ops
<1>1. status = "run" /\ work # <<>> /\ m = work[1] /\ m.op \in ops
  BY DEF Next1
<1>2. 1 \in 1 .. Len(work)
  BY <1>1, EmptySeq DEF IsMoves
<1>3. QED BY <1>1, <1>2 DEF IsMoves

(* One lemma per edit.                                                           *)
LEMMA SetKeeps ==
    ASSUME IsTree(ast), IsMoves(work), SetKids
    PROVE  Keeps(ast')
<1>1. PICK m : IsMove(m) /\ ast' = Edit(m.of, m.text, m.ids)
  BY FirstMove DEF SetKids, Edits
<1>2. m.ids \in Seq(Refs)
  BY <1>1 DEF IsMove
<1>3. QED BY <1>1, <1>2, EditKeeps

(* Marking a node and moving modifiers leave a tree.                           *)
LEMMA MarkKeeps ==
    ASSUME IsTree(ast), MarkIt \/ AdoptModifiers
    PROVE  Keeps(ast')
<1>1. PICK n, tags : ast' = [ast EXCEPT ![n].tags = tags]
  <2>1. CASE MarkIt
    <3>1. PICK m \in Next1({"mark"}) : ast' = [ast EXCEPT ![m.of].tags = @ \cup {m.text}]
      BY <2>1 DEF MarkIt, Edits
    <3>2. ast' = [ast EXCEPT ![m.of].tags = ast[m.of].tags \cup {m.text}]
      BY <3>1
    <3>3. QED BY <3>2
  <2>2. CASE AdoptModifiers
    <3>1. PICK m \in Next1({"adopt"}) : ast' = [ast EXCEPT ![m.of].tags = ast[m.ids[1]].tags]
      BY <2>2 DEF AdoptModifiers, Edits
    <3>2. QED BY <3>1
  <2>3. QED BY <2>1, <2>2
<1>2. QED BY <1>1, TagsKeep

(* Hanging a type at another leaves a tree.                                    *)
LEMMA HangKeeps ==
    ASSUME IsTree(ast), IsMoves(work), HangOn
    PROVE  Keeps(ast')
<1>1. PICK m : IsMove(m) /\
        LET g   == Kid(m.of, "generics")
            new == Len(ast) + 1
        IN IF g # Null THEN Edits(Edit(g, "args", m.ids \o Kids(g, "args")))
           ELSE Edits(Edit(m.of, "generics", <<new>>)
                        \o <<Node("GenericInvokeExpr", {}, [args |-> m.ids])>>)
  BY FirstMove DEF HangOn
<1>2. m.ids \in Seq(Refs) /\ m.of \in Refs
  BY <1>1 DEF IsMove
<1> DEFINE g == Kid(m.of, "generics")
<1>3. CASE g # Null
  <2>1. ast' = Edit(g, "args", m.ids \o Kids(g, "args"))
    BY <1>1, <1>3 DEF Edits
  <2>2. m.ids \o Kids(g, "args") \in Seq(Refs)
    BY <1>2, TreeFacts, ConcatProperties
  <2>3. QED BY <2>1, <2>2, EditKeeps
<1>4. CASE g = Null
  <2> DEFINE node == Node("GenericInvokeExpr", {}, [args |-> m.ids])
             ids  == <<Len(ast) + 1>>
             news == <<node>>
  <2>1. ast' = Edit(m.of, "generics", ids) \o news
    BY <1>1, <1>4 DEF Edits
  <2>2. 1 \in Nat /\ 1 \in 1 .. 1
    OBVIOUS
  <2>3. ids \in Seq(0 .. Len(ast) + 1) /\ m.ids \in Seq(0 .. Len(ast) + 1) /\ Len(ast) + 1 \in Nat
    BY <1>2, <2>2, Wide
  <2>4. IsNode(node, Len(ast) + 1)
    BY <2>3, SomeNodes
  <2> HIDE DEF node, ids
  <2>5. NodesOf(news, Len(ast) + 1) /\ Len(news) = 1
    BY <2>4, FewNodes
  <2> HIDE DEF news
  <2>6. QED BY <2>1, <2>2, <2>3, <2>5, EditGrows
<1>5. QED BY <1>3, <1>4

(* The parameter made for a cast leaves a tree.                                *)
LEMMA CastKeeps ==
    ASSUME IsTree(ast), IsMoves(work), CastParameter
    PROVE  Keeps(ast')
<1> DEFINE k == Len(ast)
<1>1. PICK m : IsMove(m) /\
        ast' = Edit(m.of, "params", Append(Kids(m.of, "params"), k + 1))
             \o <<Node("VarDecl", {}, [var |-> <<k + 2>>]),
                  Node("NamedVarSpecifier", {}, [path |-> <<k + 3>>, type |-> <<k + 4>>]),
                  Node("IdentExpr", {"blank"}, <<>>),
                  Node("Type", {}, [value |-> <<k + 5>>]),
                  Node("UnaryExpr", {"in_type", "*"}, [opd |-> Kids(m.of, "returns")])>>
  BY FirstMove DEF CastParameter, Edits
<1>2. m.of \in Refs
  BY <1>1 DEF IsMove
<1> DEFINE a == Node("VarDecl", {}, [var |-> <<k + 2>>])
           b == Node("NamedVarSpecifier", {}, [path |-> <<k + 3>>, type |-> <<k + 4>>])
           c == Node("IdentExpr", {"blank"}, <<>>)
           d == Node("Type", {}, [value |-> <<k + 5>>])
           e == Node("UnaryExpr", {"in_type", "*"}, [opd |-> Kids(m.of, "returns")])
           ids  == Append(Kids(m.of, "params"), k + 1)
           news == <<a, b, c, d, e>>
<1>3. /\ k + 5 \in Nat /\ <<k + 2>> \in Seq(0 .. k + 5) /\ <<k + 3>> \in Seq(0 .. k + 5)
      /\ <<k + 4>> \in Seq(0 .. k + 5) /\ <<k + 5>> \in Seq(0 .. k + 5) /\ k + 1 \in 0 .. k + 5
      /\ Kids(m.of, "params") \in Seq(0 .. k + 5) /\ Kids(m.of, "returns") \in Seq(0 .. k + 5)
  <2>1. 5 \in Nat /\ 2 \in 1 .. 5 /\ 3 \in 1 .. 5 /\ 4 \in 1 .. 5 /\ 5 \in 1 .. 5
    OBVIOUS
  <2>2. k \in Nat
    BY DEF IsTree
  <2>3. k + 1 \in 0 .. k + 5
    BY <2>2
  <2>4. QED BY <1>2, <2>1, <2>3, TreeFacts, Wide
<1>4. IsNode(a, k + 5) /\ IsNode(b, k + 5) /\ IsNode(c, k + 5) /\ IsNode(d, k + 5)
      /\ IsNode(e, k + 5)
  BY <1>3, SomeNodes, LeafNode
<1> HIDE DEF a, b, c, d, e
<1>5. NodesOf(news, k + 5) /\ Len(news) = 5
  BY <1>4, FewNodes
<1>6. ids \in Seq(0 .. k + 5)
  BY <1>3, AppendProperties
<1>7. ast' = Edit(m.of, "params", ids) \o news
  BY <1>1 DEF a, b, c, d, e
<1> HIDE DEF ids, news
<1>8. 5 \in Nat
  OBVIOUS
<1>9. QED BY <1>5, <1>6, <1>7, <1>8, EditGrows

(* The numbers of the new nodes.                                               *)
LEMMA SmallNumbers ==
    /\ {1, 3, 5} \subseteq Nat /\ {1, 2, 3} \subseteq 1 .. 3 /\ {1, 2, 3, 4, 5} \subseteq 1 .. 5
    /\ {1, 2, 3, 4, 5, 6, 10, 11} \subseteq 1 .. 14
OBVIOUS

(* Sequences of one and two elements.                                          *)
LEMMA OneAndTwo ==
    ASSUME NEW S, NEW a \in S, NEW b \in S
    PROVE  <<a>> \in Seq(S) /\ <<a, b>> \in Seq(S)
OBVIOUS

(* The generic argument put in front for self leaves a tree.                   *)
LEMMA SelfKeeps ==
    ASSUME IsTree(ast), IsMoves(work), SelfGeneric
    PROVE  Keeps(ast')
<1> DEFINE k == Len(ast)
           a == Node("RequiresParamDecl", {}, [var |-> <<k + 2>>])
           b == Node("NamedVarSpecifier", {}, [path |-> <<k + 3>>])
           c == Node("IdentExpr", {"self"}, <<>>)
           d == Node("RequiresDecl", {}, [params |-> <<k + 5>>])
           e == Node("RequiresParamList", {}, [params |-> <<k + 1>>])
           param == <<a, b, c>>
<1>1. PICK m : IsMove(m) /\
        IF Kid(m.of, "generics") # Null
        THEN ast' = Edit(Kid(Kid(m.of, "generics"), "params"), "params",
                         <<k + 1>> \o Kids(Kid(Kid(m.of, "generics"), "params"), "params")) \o param
        ELSE ast' = Edit(m.of, "generics", <<k + 4>>) \o param \o <<d, e>>
  BY FirstMove DEF SelfGeneric, Edits
<1> DEFINE g == Kid(m.of, "generics")
           p == Kid(g, "params")
<1>2. m.of \in Refs /\ g \in Refs /\ p \in Refs /\ Kids(p, "params") \in Seq(Refs)
  <2>1. m.of \in Refs
    BY <1>1 DEF IsMove
  <2>2. QED BY <2>1, TreeFacts
<1>3. k \in Nat /\ k + 3 \in Nat /\ k + 5 \in Nat
  <2>1. k \in Nat
    BY DEF IsTree
  <2> HIDE DEF k
  <2>2. QED BY <2>1
<1>4. CASE g # Null
  <2>1. <<k + 1>> \in Seq(0 .. k + 3) /\ <<k + 2>> \in Seq(0 .. k + 3)
        /\ <<k + 3>> \in Seq(0 .. k + 3)
        /\ Kids(p, "params") \in Seq(0 .. k + 3)
    <3>1. 3 \in Nat /\ 1 \in 1 .. 3 /\ 2 \in 1 .. 3 /\ 3 \in 1 .. 3
      BY SmallNumbers
    <3>2. QED BY <1>2, <3>1, Wide
  <2>2. IsNode(a, k + 3) /\ IsNode(b, k + 3) /\ IsNode(c, k + 3)
    BY <1>3, <2>1, SomeNodes, LeafNode
  <2> DEFINE ids == <<k + 1>> \o Kids(p, "params")
  <2>3. ids \in Seq(0 .. k + 3)
    BY <2>1, ConcatProperties
  <2>4. ast' = Edit(p, "params", ids) \o param
    BY <1>1, <1>4
  <2> HIDE DEF a, b, c, d, e, ids
  <2>5. NodesOf(param, k + 3) /\ Len(param) = 3
    BY <2>2, FewNodes
  <2> HIDE DEF param, p, g
  <2>6. 3 \in Nat
    BY SmallNumbers
  <2>7. QED BY <2>3, <2>4, <2>5, <2>6, EditGrows
<1>5. CASE g = Null
  <2>1. /\ <<k + 1>> \in Seq(0 .. k + 5) /\ <<k + 2>> \in Seq(0 .. k + 5)
        /\ <<k + 3>> \in Seq(0 .. k + 5)
        /\ <<k + 4>> \in Seq(0 .. k + 5) /\ <<k + 5>> \in Seq(0 .. k + 5)
    <3>1. 5 \in Nat /\ 1 \in 1 .. 5 /\ 2 \in 1 .. 5 /\ 3 \in 1 .. 5 /\ 4 \in 1 .. 5 /\ 5 \in 1 .. 5
      BY SmallNumbers
    <3>2. QED BY <3>1, Wide
  <2>2. IsNode(a, k + 5) /\ IsNode(b, k + 5) /\ IsNode(c, k + 5) /\ IsNode(d, k + 5)
        /\ IsNode(e, k + 5)
    BY <1>3, <2>1, SomeNodes, LeafNode
  <2> DEFINE ids   == <<k + 4>>
             tree  == Edit(m.of, "generics", ids)
             lists == <<d, e>>
             news  == param \o lists
  <2>3. ast' = tree \o param \o lists
    BY <1>1, <1>5
  <2>4. ids \in Seq(0 .. k + 5) /\ \E S : tree \in Seq(S)
    BY <2>1, TreeIsSeq
  <2> HIDE DEF a, b, c, d, e, ids
  <2>5. NodesOf(param, k + 5) /\ Len(param) = 3 /\ NodesOf(lists, k + 5) /\ Len(lists) = 2
    BY <2>2, FewNodes
  <2> HIDE DEF param, lists, g, p
  <2>6. NodesOf(news, k + 5) /\ Len(news) = 5
    <3> DEFINE size == k + 5
    <3> HIDE DEF size
    <3>1. NodesOf(param, size) /\ NodesOf(lists, size)
      BY <2>5 DEF size
    <3>2. NodesOf(param \o lists, size) /\ Len(param \o lists) = Len(param) + Len(lists)
      BY <3>1, JoinNodes
    <3>3. QED BY <2>5, <3>2 DEF size
  <2>7. ast' = tree \o news
    <3> HIDE DEF tree
    <3>1. QED BY <2>3, <2>4, <2>5, Regroup DEF NodesOf
  <2> HIDE DEF news
  <2>8. 5 \in Nat
    BY SmallNumbers
  <2>9. QED BY <2>4, <2>6, <2>7, <2>8, EditGrows
<1>6. QED BY <1>4, <1>5

\* the nodes of a call, put behind n nodes
(* The four nodes of a call that main is forwarded by.                         *)
LEMMA CallNodes ==
    ASSUME NEW n \in Nat, NEW size \in Nat, n + 4 <= size,
           NEW path \in Seq(0 .. size), NEW access \in Seq(0 .. size), NEW args \in Seq(0 .. size)
    PROVE  NodesOf(Call(n, path, access, args), size) /\ Len(Call(n, path, access, args)) = 4
<1> DEFINE a == Node("FunctionCallExpr", {}, [path |-> <<n + 2>>, args |-> <<n + 4>>])
           b == Node("PathExpr", {}, [path |-> <<n + 3>>])
           c == Node("ScopePathExpr", {}, [path |-> path, access |-> access])
           d == Node("ArgumentListExpr", {}, [args |-> args])
<1>1. <<n + 2>> \in Seq(0 .. size) /\ <<n + 3>> \in Seq(0 .. size) /\ <<n + 4>> \in Seq(0 .. size)
  <2>1. n + 2 \in 0 .. size /\ n + 3 \in 0 .. size /\ n + 4 \in 0 .. size
    OBVIOUS
  <2>2. QED BY <2>1
<1>2. IsNode(a, size) /\ IsNode(b, size) /\ IsNode(c, size) /\ IsNode(d, size)
  BY <1>1, SomeNodes
<1> HIDE DEF a, b, c, d
<1>3. NodesOf(<<a, b, c, d>>, size) /\ Len(<<a, b, c, d>>) = 4
  BY <1>2, FewNodes
<1>4. QED BY <1>3 DEF Call, a, b, c, d

(* A run of nodes is a sequence over some set.                                 *)
LEMMA AreSeqs ==
    ASSUME NEW s, NEW l, NodesOf(s, l)
    PROVE  \E S : s \in Seq(S)
  BY DEF NodesOf

(* The nodes made to forward main leave a tree.                                *)
LEMMA MainKeeps ==
    ASSUME IsTree(ast), IsMoves(work), ForwardMain
    PROVE  Keeps(ast')
<1> DEFINE k == Len(ast)
           spaces == IF TriviallyImports(Root) THEN <<k + 1>> ELSE <<k + 1, k + 2>>
           word(tags) == Node("IdentExpr", tags, <<>>)
           init   == <<Node("ExprState", {}, [value |-> <<k + 6>>])>>
                       \o Call(k + 5, <<k + 1>>, <<k + 3>>, <<>>)
<1>1. PICK m : IsMove(m) /\
        LET block  == Kid(Kid(m.of, "body"), "body")
            params == Kids(m.of, "params")
            names  == <<word({"helix"}), word({"file"}), word({"init"}),
                        word(IF BackIdent(Kid(m.of, "name")) = Null THEN {"__global__"}
                             ELSE ast[BackIdent(Kid(m.of, "name"))].tags)>>
            args   == [i \in 1 .. Len(params) |->
                         Node("ArgumentExpr", {}, [value |-> Kids(Kid(params[i], "var"), "path")])]
            return == <<Node("ReturnState", {}, [value |-> <<k + 11>>])>>
                        \o Call(k + 10, spaces, <<k + 4>>, [i \in 1 .. Len(params) |-> k + 14 + i])
        IN IF block = Null THEN UNCHANGED ast
           ELSE ast' = Edit(block, "body", <<k + 5, k + 10>>) \o names \o init \o return \o args
  BY FirstMove DEF ForwardMain, Edits
<1>2. m.of \in Refs
  BY <1>1 DEF IsMove
<1> DEFINE block  == Kid(Kid(m.of, "body"), "body")
           params == Kids(m.of, "params")
           called == IF BackIdent(Kid(m.of, "name")) = Null THEN {"__global__"}
                     ELSE ast[BackIdent(Kid(m.of, "name"))].tags
           names  == <<word({"helix"}), word({"file"}), word({"init"}), word(called)>>
           args   == [i \in 1 .. Len(params) |->
                        Node("ArgumentExpr", {}, [value |-> Kids(Kid(params[i], "var"), "path")])]
           numbers == [i \in 1 .. Len(params) |-> k + 14 + i]
           result == <<Node("ReturnState", {}, [value |-> <<k + 11>>])>>
           return == result \o Call(k + 10, spaces, <<k + 4>>, numbers)
           n      == 14 + Len(params)
           size   == k + n
           ids    == <<k + 5, k + 10>>
           tree   == Edit(block, "body", ids)
<1>3. block = Null => ast' = ast
  BY <1>1
<1>4. block # Null => ast' = tree \o names \o init \o return \o args
  BY <1>1
<1>5. Len(params) \in Nat /\ n \in Nat /\ k \in Nat /\ size \in Nat
  BY <1>2, TreeFacts
<1>6. \A i \in 1 .. 14 : k + i \in 0 .. size /\ <<k + i>> \in Seq(0 .. size)
  <2>1. ASSUME NEW i \in 1 .. 14  PROVE k + i \in 0 .. size
    BY <1>5
  <2> HIDE DEF size
  <2>2. QED BY <2>1
<1>7. numbers \in Seq(0 .. size) /\ <<>> \in Seq(0 .. size)
  <2>1. \A i \in 1 .. Len(params) : k + 14 + i \in 0 .. size
    BY <1>5
  <2> HIDE DEF size, params
  <2>2. QED BY <1>5, <2>1
<1>8. ids \in Seq(0 .. size) /\ spaces \in Seq(0 .. size)
  <2>1. 5 \in 1 .. 14 /\ 10 \in 1 .. 14 /\ 1 \in 1 .. 14 /\ 2 \in 1 .. 14
    BY SmallNumbers
  <2>2. k + 5 \in 0 .. size /\ k + 10 \in 0 .. size /\ k + 1 \in 0 .. size /\ k + 2 \in 0 .. size
    BY <1>6, <2>1
  <2> HIDE DEF size
  <2>3. <<k + 5, k + 10>> \in Seq(0 .. size) /\ <<k + 1>> \in Seq(0 .. size)
        /\ <<k + 1, k + 2>> \in Seq(0 .. size)
    BY <2>2, OneAndTwo
  <2>4. QED BY <2>3
<1>9. NodesOf(names, size) /\ Len(names) = 4
  <2> HIDE DEF size, called
  <2>1. \A t : IsNode(word(t), size)
    BY <1>5, LeafNode
  <2> HIDE DEF word
  <2>2. QED BY <2>1, FewNodes
<1>10. NodesOf(init, size) /\ Len(init) = 5
  <2> DEFINE state == Node("ExprState", {}, [value |-> <<k + 6>>])
             call  == Call(k + 5, <<k + 1>>, <<k + 3>>, <<>>)
  <2>1. 6 \in 1 .. 14 /\ 1 \in 1 .. 14 /\ 3 \in 1 .. 14
    BY SmallNumbers
  <2>2. <<k + 6>> \in Seq(0 .. size) /\ <<k + 1>> \in Seq(0 .. size) /\ <<k + 3>> \in Seq(0 .. size)
    BY <1>6, <2>1
  <2>3. k + 5 \in Nat /\ k + 5 + 4 <= size
    BY <1>5
  <2> HIDE DEF size
  <2>4. IsNode(state, size)
    BY <1>5, <2>2, SomeNodes
  <2>5. NodesOf(call, size) /\ Len(call) = 4
    BY <1>5, <1>7, <2>2, <2>3, CallNodes
  <2> HIDE DEF state, call
  <2>6. NodesOf(<<state>>, size) /\ Len(<<state>>) = 1
    BY <2>4, FewNodes
  <2> DEFINE one == <<state>>
  <2>7. NodesOf(one, size) /\ Len(one) = 1
    BY <2>6
  <2> HIDE DEF one
  <2>8. NodesOf(one \o call, size) /\ Len(one \o call) = Len(one) + Len(call)
    BY <2>5, <2>7, JoinNodes
  <2>9. NodesOf(one \o call, size) /\ Len(one \o call) = 5
    BY <2>5, <2>7, <2>8
  <2>10. QED BY <2>9 DEF one, state, call
<1>11. NodesOf(return, size) /\ Len(return) = 5
  <2> DEFINE state == Node("ReturnState", {}, [value |-> <<k + 11>>])
             call  == Call(k + 10, spaces, <<k + 4>>, numbers)
  <2>1. 11 \in 1 .. 14 /\ 4 \in 1 .. 14
    BY SmallNumbers
  <2>2. <<k + 11>> \in Seq(0 .. size) /\ <<k + 4>> \in Seq(0 .. size)
    BY <1>6, <2>1
  <2>3. k + 10 \in Nat /\ k + 10 + 4 <= size
    BY <1>5
  <2> HIDE DEF size, spaces, numbers
  <2>4. IsNode(state, size)
    BY <1>5, <2>2, SomeNodes
  <2>5. NodesOf(call, size) /\ Len(call) = 4
    BY <1>5, <1>7, <1>8, <2>2, <2>3, CallNodes
  <2> HIDE DEF state, call
  <2>6. NodesOf(<<state>>, size) /\ Len(<<state>>) = 1
    BY <2>4, FewNodes
  <2> DEFINE one == <<state>>
  <2>7. NodesOf(one, size) /\ Len(one) = 1
    BY <2>6
  <2> HIDE DEF one
  <2>8. NodesOf(one \o call, size) /\ Len(one \o call) = Len(one) + Len(call)
    BY <2>5, <2>7, JoinNodes
  <2>9. NodesOf(one \o call, size) /\ Len(one \o call) = 5
    BY <2>5, <2>7, <2>8
  <2>10. QED BY <2>9 DEF one, state, call
<1>12. NodesOf(args, size) /\ Len(args) = Len(params)
  <2>1. \A i \in 1 .. Len(params) : Kids(Kid(params[i], "var"), "path") \in Seq(Refs)
    BY <1>2, TreeFacts
  <2>2. \A s \in Seq(Refs) : s \in Seq(0 .. size)
    BY <1>5, Wide
  <2> HIDE DEF size, params
  <2>3. \A i \in 1 .. Len(params) : IsNode(args[i], size)
    BY <1>5, <2>1, <2>2, SomeNodes
  <2> DEFINE S == {args[i] : i \in 1 .. Len(params)}
  <2>4. args = [i \in 1 .. Len(params) |-> args[i]]
    OBVIOUS
  <2> HIDE DEF args
  <2>5. args \in Seq(S) /\ Len(args) = Len(params)
    BY <1>5, <2>4, SeqDef
  <2> HIDE DEF S
  <2>6. QED BY <2>3, <2>5 DEF NodesOf
<1>13. \E S : tree \in Seq(S)
  BY TreeIsSeq
<1>14. CASE block # Null
  <2> DEFINE news == names \o init \o return \o args
  <2> HIDE DEF tree, names, init, return, args
  <2>1. /\ tree \o names \o init \o return \o args = tree \o news
        /\ NodesOf(news, size) /\ Len(news) = 4 + 5 + 5 + Len(params)
    <3> HIDE DEF size, params
    <3>1. NodesOf(names, size) /\ NodesOf(init, size) /\ NodesOf(return, size)
          /\ NodesOf(args, size)
      BY <1>9, <1>10, <1>11, <1>12
    <3>2. /\ tree \o names \o init \o return \o args = tree \o (names \o init \o return \o args)
          /\ NodesOf(names \o init \o return \o args, size)
          /\ Len(names \o init \o return \o args) = Len(names) + Len(init) + Len(return) + Len(args)
      <4> DEFINE a == names
                 b == init
                 c == return
                 d == args
                 t == tree
                 l == size
      <4>1. /\ NodesOf(a, l) /\ NodesOf(b, l) /\ NodesOf(c, l) /\ NodesOf(d, l)
            /\ \E S : t \in Seq(S)
        BY <1>13, <3>1
      <4> HIDE DEF a, b, c, d, t, l
      <4> DEFINE two   == a \o b
                 three == two \o c
                 all   == three \o d
      <4>12. /\ \E S : a \in Seq(S)
             /\ \E S : b \in Seq(S)
             /\ \E S : c \in Seq(S)
             /\ \E S : d \in Seq(S)
        BY <4>1, AreSeqs
      <4>3. NodesOf(two, l) /\ Len(two) = Len(a) + Len(b)
        BY <4>1, JoinNodes
      <4>4. t \o a \o b = t \o two
        BY <4>1, <4>12, Regroup
      <4> HIDE DEF two
      <4>13. \E S : two \in Seq(S)
        BY <4>3, AreSeqs
      <4>5. NodesOf(three, l) /\ Len(three) = Len(two) + Len(c)
        BY <4>1, <4>3, JoinNodes
      <4>6. (t \o two) \o c = t \o three
        BY <4>1, <4>12, <4>13, Regroup
      <4> HIDE DEF three
      <4>14. \E S : three \in Seq(S)
        BY <4>5, AreSeqs
      <4>7. NodesOf(all, l) /\ Len(all) = Len(three) + Len(d)
        BY <4>1, <4>5, JoinNodes
      <4>8. (t \o three) \o d = t \o all
        BY <4>1, <4>12, <4>14, Regroup
      <4> HIDE DEF all
      <4>9. t \o a \o b \o c \o d = t \o all
        BY <4>4, <4>6, <4>8
      <4>10. Len(all) = Len(a) + Len(b) + Len(c) + Len(d)
        BY <4>3, <4>5, <4>7
      <4>2. /\ t \o a \o b \o c \o d = t \o (a \o b \o c \o d)
            /\ NodesOf(a \o b \o c \o d, l)
            /\ Len(a \o b \o c \o d) = Len(a) + Len(b) + Len(c) + Len(d)
        BY <4>7, <4>9, <4>10 DEF two, three, all
      <4>11. QED BY <4>2 DEF a, b, c, d, t, l
    <3>3. QED BY <1>9, <1>10, <1>11, <1>12, <3>2
  <2>2. Len(news) = n
    <3> HIDE DEF params, news
    <3>1. QED BY <1>5, <2>1
  <2>3. ast' = tree \o news
    <3> HIDE DEF news
    <3>1. QED BY <1>4, <1>14, <2>1
  <2> HIDE DEF news, n, block, ids
  <2>4. QED BY <1>5, <1>8, <2>1, <2>2, <2>3, EditGrows DEF tree
<1>15. CASE block = Null
  BY <1>3, <1>15 DEF Keeps
<1>16. QED BY <1>14, <1>15

(* The machine.  A comma is taken back only when it was the last token.          *)
Behind(s)      == \A i \in 2 .. Len(s) : s[i].op = "pop" => Comma(s[i - 1])
Comes(s, text) == s # <<>> /\ s[1].op = "pop" => text # <<>> /\ Last(text).t = ","
IsText(s)      == (\E S : s \in Seq(S)) /\ \A i \in 1 .. Len(s) : s[i].of \in Refs

EInv ==
  /\ IsTree(ast) /\ IsMoves(work) /\ IsText(out)
  /\ status \in Statuses /\ errored \in BOOLEAN
  /\ Behind(work) /\ Comes(work, out)
  /\ status = "done" => work = <<>>

\* what is left to write closes what is open, or the visit does not end well
Failed == errored \/ status \in {"panic", "thrown", "crash", "wild"}
Ends   == Unclosed \/ Failed \/ Doomed(work) \/ Nests(work, OpenIn(out), <<>>)

(* The rest of a sequence of moves, once the first is made.                    *)
LEMMA Rest ==
    ASSUME NEW s, IsMoves(s), s # <<>>
    PROVE  /\ IsMove(s[1]) /\ Len(s) \in Nat \ {0} /\ Len(Tail(s)) = Len(s) - 1 /\ IsMoves(Tail(s))
           /\ \A i \in 1 .. Len(s) - 1 : Tail(s)[i] = s[i + 1]
<1>1. PICK S : s \in Seq(S)
  BY DEF IsMoves
<1> DEFINE t == Tail(s)
<1>2. /\ t \in Seq(S) /\ Len(s) \in Nat \ {0} /\ Len(t) = Len(s) - 1
      /\ \A i \in 1 .. Len(s) - 1 : t[i] = s[i + 1]
  BY <1>1, PopFacts
<1> HIDE DEF t
<1>3. ASSUME NEW i \in 1 .. Len(t)  PROVE IsMove(t[i])
  <2>1. i + 1 \in 1 .. Len(s) /\ t[i] = s[i + 1]
    BY <1>2
  <2>2. QED BY <2>1 DEF IsMoves
<1>4. 1 \in 1 .. Len(s)
  BY <1>2
<1>5. IsMove(s[1])
  BY <1>4 DEF IsMoves
<1>6. QED BY <1>2, <1>3, <1>5 DEF IsMoves, t

(* The rest of moves that take back commas of their own takes back the comma   *)
(* just written, or commas of its own.                                         *)
LEMMA RestBehind ==
    ASSUME NEW s, IsMoves(s), s # <<>>, Behind(s)
    PROVE  /\ Behind(Tail(s))
           /\ ~Comma(s[1]) => Pops(Tail(s))
           /\ Tail(s) # <<>> /\ Tail(s)[1].op = "pop" => Comma(s[1])
<1> DEFINE t == Tail(s)
<1>1. /\ Len(s) \in Nat \ {0} /\ Len(t) = Len(s) - 1 /\ IsMoves(t)
      /\ \A i \in 1 .. Len(s) - 1 : t[i] = s[i + 1]
  BY Rest
<1> HIDE DEF t
<1>2. ASSUME NEW i \in 1 .. Len(t), t[i].op = "pop"
      PROVE  /\ i = 1 => Comma(s[1])
             /\ i > 1 => Comma(t[i - 1])
  <2>1. i + 1 \in 2 .. Len(s) /\ t[i] = s[i + 1] /\ (i + 1) - 1 = i
    BY <1>1
  <2>2. Comma(s[i])
    BY <1>2, <2>1 DEF Behind
  <2>3. i > 1 => t[i - 1] = s[i]
    <3>1. i > 1 => i - 1 \in 1 .. Len(s) - 1 /\ (i - 1) + 1 = i
      BY <1>1
    <3>2. QED BY <1>1, <3>1
  <2>4. QED BY <2>2, <2>3
<1>3. Behind(t)
  BY <1>1, <1>2 DEF Behind
<1>4. ~Comma(s[1]) => Pops(t)
  BY <1>1, <1>2 DEF Pops
<1>5. t # <<>> => 1 \in 1 .. Len(t)
  <2>1. t # <<>> => Len(t) # 0
    BY EmptySeq DEF IsMoves, t
  <2>2. QED BY <1>1, <2>1
<1>6. QED BY <1>2, <1>3, <1>4, <1>5 DEF t

(* Moves that take back commas of their own do so after any text.              *)
LEMMA PopsBehind ==
    ASSUME NEW s, IsMoves(s), Pops(s)
    PROVE  Behind(s) /\ \A text : Comes(s, text)
<1>1. Len(s) \in Nat /\ (s # <<>> => 1 \in 1 .. Len(s))
  BY EmptySeq DEF IsMoves
<1>2. s # <<>> => s[1].op # "pop"
  BY <1>1 DEF Pops
<1>3. \A text : Comes(s, text)
  BY <1>2 DEF Comes
<1>4. \A i \in 2 .. Len(s) : i \in 1 .. Len(s)
  BY <1>1
<1>5. Behind(s)
  BY <1>4 DEF Behind, Pops
<1>6. QED BY <1>3, <1>5

(* The rest of moves that are doomed is, unless the first doomed them.         *)
LEMMA RestDooms ==
    ASSUME NEW s, IsMoves(s), s # <<>>, ~Dooms(s[1]), Doomed(s)
    PROVE  Doomed(Tail(s))
<1>1. PICK i \in 1 .. Len(s) : Dooms(s[i])
  BY DEF Doomed
<1>2. i # 1
  BY <1>1
<1>3. i - 1 \in 1 .. Len(Tail(s)) /\ i - 1 \in 1 .. Len(s) - 1 /\ (i - 1) + 1 = i
  BY <1>1, <1>2, Rest
<1>4. Tail(s)[i - 1] = s[i]
  BY <1>3, Rest
<1>5. QED BY <1>1, <1>3, <1>4 DEF Doomed

(* The rest of moves nests from what the first leaves open.                    *)
LEMMA RestNests ==
    ASSUME NEW s, IsMoves(s), s # <<>>, NEW a, NEW b, Nests(s, a, b)
    PROVE  Nests(Tail(s), After(a, s[1]), b) /\ a \in Seq(Openers)
<1> DEFINE t == Tail(s)
<1>1. /\ Len(s) \in Nat \ {0} /\ Len(t) = Len(s) - 1
      /\ \A i \in 1 .. Len(s) - 1 : t[i] = s[i + 1]
  BY Rest
<1> HIDE DEF t
<1>2. PICK p \in [0 .. Len(s) -> Seq(Openers)] :
        /\ p[0] = a /\ p[Len(s)] = b
        /\ \A i \in 1 .. Len(s) : p[i] = After(p[i - 1], s[i])
  BY DEF Nests
<1> DEFINE q == [i \in 0 .. Len(t) |-> p[i + 1]]
<1>3. q \in [0 .. Len(t) -> Seq(Openers)]
  BY <1>1, <1>2
<1>4. q[0] = After(a, s[1]) /\ q[Len(t)] = b
  BY <1>1, <1>2
<1>5. ASSUME NEW i \in 1 .. Len(t)  PROVE q[i] = After(q[i - 1], t[i])
  <2>1. /\ i + 1 \in 1 .. Len(s) /\ t[i] = s[i + 1] /\ (i + 1) - 1 = i
        /\ q[i] = p[i + 1] /\ q[i - 1] = p[i]
    BY <1>1
  <2>2. QED BY <1>2, <2>1
<1> HIDE DEF q
<1>6. Nests(t, After(a, s[1]), b)
  BY <1>3, <1>4, <1>5 DEF Nests
<1>7. 0 \in 0 .. Len(s)
  BY <1>1
<1>8. QED BY <1>2, <1>6, <1>7 DEF t

(* No moves lead from what is open to just that.                               *)
LEMMA NothingNests == ASSUME NEW a, NEW b, Nests(<<>>, a, b)  PROVE a = b
<1> DEFINE z == <<>>
<1>1. Len(z) = 0
  OBVIOUS
<1>2. Nests(z, a, b)
  OBVIOUS
<1> HIDE DEF z
<1>3. QED BY <1>1, <1>2 DEF Nests

(* A visit goes on with good moves in front of the rest.                         *)
LEMMA Calls ==
    ASSUME NEW s, IsMoves(s), Behind(s), s # <<>>, ~Comma(s[1]), NEW x, Good(x)
    PROVE  /\ IsMoves(x \o Tail(s)) /\ Pops(x \o Tail(s))
           /\ Doomed(Tail(s)) => Doomed(x \o Tail(s))
           /\ \A a : Nests(Tail(s), a, <<>>) /\ a \in Seq(Openers) =>
                Unclosed \/ Doomed(x \o Tail(s)) \/ Nests(x \o Tail(s), a, <<>>)
<1> DEFINE t == Tail(s)
<1>1. IsMoves(t) /\ Pops(t) /\ IsMoves(x) /\ Pops(x)
  BY Rest, RestBehind DEF Good, Leads
<1> HIDE DEF t
<1>2. IsMoves(x \o t) /\ Pops(x \o t)
  BY <1>1, JoinMoves, JoinPops
<1>3. Doomed(t) => Doomed(x \o t)
  BY <1>1, DoomedBehind
<1>4. ASSUME NEW a \in Seq(Openers), Nests(t, a, <<>>)
      PROVE  Unclosed \/ Doomed(x \o t) \/ Nests(x \o t, a, <<>>)
  <2>1. Leads(t, a, <<>>)
    BY <1>1, <1>4 DEF Leads
  <2>2. Leads(x, a, a)
    BY Shift
  <2>3. Leads(x \o t, a, <<>>)
    BY <2>1, <2>2, Join, NoBrackets
  <2>4. QED BY <2>3 DEF Leads
<1>5. QED BY <1>2, <1>3, <1>4 DEF t

(* Moves of a tree are moves of the tree that an edit leaves.                    *)
MovesIn(tree, s) ==
  /\ \E S : s \in Seq(S)
  /\ \A i \in 1 .. Len(s) :
       /\ s[i].of \in 0 .. Len(tree) /\ s[i].ids \in Seq(0 .. Len(tree))
       /\ s[i].op \in {"member", "adopt"} => s[i].ids # <<>>
       /\ s[i].op = "interface" => s[i].of # Null /\ tree[s[i].of].kind = "InterDecl"

(* The moves of a tree are moves of the tree an edit leaves.                   *)
LEMMA MovesStay ==
    ASSUME IsTree(ast), NEW tree, Keeps(tree), NEW s, IsMoves(s)
    PROVE  MovesIn(tree, s)
<1>1. Len(ast) \in Nat /\ Len(tree) \in Nat /\ Len(ast) <= Len(tree)
  BY DEF Keeps, IsTree
<1>2. ASSUME NEW i \in 1 .. Len(s)
      PROVE  /\ s[i].of \in 0 .. Len(tree) /\ s[i].ids \in Seq(0 .. Len(tree))
             /\ s[i].op \in {"member", "adopt"} => s[i].ids # <<>>
             /\ s[i].op = "interface" => s[i].of # Null /\ tree[s[i].of].kind = "InterDecl"
  <2> DEFINE m == s[i]
  <2>1. IsMove(m)
    BY DEF IsMoves
  <2> HIDE DEF m
  <2>2. m.of \in 0 .. Len(tree)
    BY <1>1, <2>1 DEF IsMove, Refs
  <2>3. m.ids \in Seq(0 .. Len(tree))
    BY <1>1, <2>1, WiderSeq DEF IsMove, Refs
  <2>4. m.op = "interface" => m.of # Null /\ tree[m.of].kind = "InterDecl"
    <3>1. SUFFICES ASSUME m.op = "interface"  PROVE m.of # Null /\ tree[m.of].kind = "InterDecl"
      OBVIOUS
    <3>2. Kind(m.of) = "InterDecl"
      BY <2>1, <3>1 DEF IsMove
    <3>3. m.of # Null /\ ast[m.of].kind = "InterDecl"
      BY <3>2 DEF Kind
    <3>4. m.of \in 1 .. Len(ast)
      BY <1>1, <2>1, <3>3 DEF IsMove, Refs, Null
    <3>5. QED BY <3>3, <3>4 DEF Keeps
  <2>5. QED BY <2>1, <2>2, <2>3, <2>4 DEF IsMove, m
<1>3. QED BY <1>2 DEF MovesIn, IsMoves

(* The moves to come, in the tree that comes.                                  *)
LEMMA MovesNext == MovesIn(ast', work') => IsMoves(work)'
BY DEF MovesIn, IsMoves, IsMove, Refs, Kind, Null

(* The tokens written name nodes of the tree an edit leaves.                   *)
LEMMA TextNext ==
    ASSUME IsTree(ast), Keeps(ast'), IsText(out), UNCHANGED out
    PROVE  IsText(out)'
<1>1. Len(ast) \in Nat /\ Len(ast') \in Nat /\ Len(ast) <= Len(ast')
  BY DEF Keeps, IsTree
<1>2. \A i \in 1 .. Len(out) : out[i].of \in 0 .. Len(ast')
  BY <1>1 DEF IsText, Refs
<1>3. QED BY <1>2 DEF IsText, Refs

(* One lemma for all edits of the tree.                                          *)
Edited ==
  /\ work # <<>> /\ work[1].op \notin {"emit", "pop"} /\ ~Dooms(work[1])
  /\ work' = Tail(work) /\ UNCHANGED <<out, status, errored>> /\ Keeps(ast')

(* A move that edits the tree and writes nothing is of the one shape.          *)
LEMMA EditsAre ==
    ASSUME IsTree(ast), IsMoves(work), NEW ops,
           ops \cap {"emit", "pop", "error", "panic", "throw", "never", "visit", "follow"} = {},
           NEW m \in Next1(ops), NEW tree, Edits(tree), Keeps(ast')
    PROVE  Edited
<1>1. work # <<>> /\ work[1].op \in ops
  BY FirstMove
<1>2. QED BY <1>1 DEF Edited, Edits, Dooms

(* The actions that edit the tree are of that shape.                           *)
LEMMA TreeEdits ==
    ASSUME IsTree(ast), IsMoves(work),
           SetKids \/ MarkIt \/ AdoptModifiers \/ HangOn \/ CastParameter \/ SelfGeneric
    PROVE  Edited
<1>1. CASE SetKids
  BY <1>1, SetKeeps, EditsAre DEF SetKids
<1>2. CASE MarkIt
  BY <1>2, MarkKeeps, EditsAre DEF MarkIt
<1>3. CASE AdoptModifiers
  BY <1>3, MarkKeeps, EditsAre DEF AdoptModifiers
<1>4. CASE HangOn
  BY <1>4, HangKeeps, EditsAre DEF HangOn
<1>5. CASE CastParameter
  BY <1>5, CastKeeps, EditsAre DEF CastParameter
<1>6. CASE SelfGeneric
  BY <1>6, SelfKeeps, EditsAre DEF SelfGeneric
<1>7. QED BY <1>1, <1>2, <1>3, <1>4, <1>5, <1>6

Crashed == status' = "crash" /\ UNCHANGED <<ast, work, out, errored>>

(* So is the one that forwards main, unless it follows a null pointer.         *)
LEMMA MainEdits ==
    ASSUME IsTree(ast), IsMoves(work), ForwardMain
    PROVE  Edited \/ Crashed
<1>1. Keeps(ast')
  BY MainKeeps
<1>2. PICK m \in Next1({"main"}) : (\E tree : Edits(tree)) \/ Crashed
  BY DEF ForwardMain, Crashed
<1>3. QED BY <1>1, <1>2, EditsAre

(* An edit keeps the invariant.                                                *)
LEMMA EditedInv ==
    ASSUME EInv, Edited
    PROVE  EInv' /\ (Ends /\ (Unclosed => Unclosed') => Ends')
<1>1. /\ IsTree(ast) /\ IsMoves(work) /\ IsText(out) /\ Behind(work) /\ Keeps(ast')
      /\ work # <<>> /\ work[1].op \notin {"emit", "pop"} /\ ~Dooms(work[1])
      /\ work' = Tail(work) /\ out' = out /\ status' = status /\ errored' = errored
  BY DEF EInv, Edited
<1>2. IsMoves(Tail(work)) /\ Behind(Tail(work)) /\ Pops(Tail(work))
  BY <1>1, Rest, RestBehind DEF Comma
<1>3. MovesIn(ast', work')
  BY <1>1, <1>2, MovesStay
<1>4. IsTree(ast') /\ IsMoves(work)' /\ IsText(out)'
  BY <1>1, <1>3, MovesNext, TextNext DEF Keeps
<1>5. Behind(work') /\ Comes(work', out')
  BY <1>1, <1>2, PopsBehind
<1>6. EInv'
  BY <1>1, <1>4, <1>5 DEF EInv
<1>7. ASSUME Ends, Unclosed => Unclosed'  PROVE Ends'
  <2>1. CASE Doomed(work)
    <3>1. Doomed(work')
      BY <1>1, <2>1, RestDooms
    <3>2. QED BY <3>1 DEF Ends
  <2>2. CASE Nests(work, OpenIn(out), <<>>)
    <3>1. After(OpenIn(out), work[1]) = OpenIn(out)
      BY <1>1 DEF After
    <3>2. Nests(work', OpenIn(out), <<>>)
      BY <1>1, <2>2, <3>1, RestNests
    <3>3. QED BY <1>1, <3>2 DEF Ends
  <2>3. QED BY <1>1, <1>7, <2>1, <2>2 DEF Ends, Failed
<1>8. QED BY <1>6, <1>7

(* The tree stays.                                                               *)
LEMMA SameTree ==
    ASSUME ast' = ast
    PROVE  /\ IsTree(ast)' <=> IsTree(ast)
           /\ \A s : MovesIn(ast', s) <=> IsMoves(s)
BY DEF MovesIn, IsMoves, IsMove, Refs, Kind, Null

(* Writing a token keeps the invariant.                                        *)
LEMMA EmitInv ==
    ASSUME EInv, Emit
    PROVE  EInv' /\ (Ends /\ (Unclosed => Unclosed') => Ends')
<1>1. PICK m \in Next1({"emit"}) :
        /\ out' = Append(out, [t |-> m.text, of |-> m.of]) /\ work' = Tail(work)
        /\ ast' = ast /\ status' = status /\ errored' = errored
  BY DEF Emit
<1>2. /\ IsTree(ast) /\ IsMoves(work) /\ IsText(out) /\ Behind(work) /\ status \in Statuses
      /\ errored \in BOOLEAN
  BY DEF EInv
<1>3. IsMove(m) /\ status = "run" /\ work # <<>> /\ m = work[1] /\ m.op = "emit"
  BY <1>1, <1>2, FirstMove
<1> DEFINE e == [t |-> m.text, of |-> m.of]
<1>4. e.t = m.text /\ e.of = m.of /\ e.of \in Refs
  BY <1>3 DEF IsMove
<1> HIDE DEF e
<1>5. PICK S : out \in Seq(S)
  BY <1>2 DEF IsText
<1>6. out \in Seq(S \cup {e})
  BY <1>5, SeqMonotonic
<1>7. /\ out' \in Seq(S \cup {e}) /\ Len(out') = Len(out) + 1 /\ out'[Len(out')] = e
      /\ Len(out) \in Nat
      /\ \A i \in 1 .. Len(out) : out'[i] = out[i]
  <2>1. out' = Append(out, e) /\ e \in S \cup {e} /\ Len(out) \in Nat
    BY <1>1, <1>5 DEF e
  <2>2. QED BY <1>6, <2>1, AppendProperties
<1>8. IsText(out)'
  <2>1. ASSUME NEW i \in 1 .. Len(out')  PROVE out'[i].of \in 0 .. Len(ast)
    <3>1. CASE i = Len(out')
      BY <1>4, <1>7, <3>1 DEF Refs
    <3>2. CASE i # Len(out')
      <4>1. i \in 1 .. Len(out) /\ out'[i] = out[i]
        BY <1>7, <3>2
      <4>2. QED BY <1>2, <4>1 DEF IsText, Refs
    <3>3. QED BY <3>1, <3>2
  <2>2. QED BY <1>1, <1>7, <2>1 DEF IsText, Refs
<1>9. IsMoves(Tail(work)) /\ Behind(Tail(work))
      /\ (Tail(work) # <<>> /\ Tail(work)[1].op = "pop" => Comma(work[1]))
  BY <1>2, <1>3, Rest, RestBehind
<1>10. Comes(work', out')
  <2>1. out' # <<>> /\ Last(out') = e
    BY <1>7, EmptySeq DEF Last
  <2>2. QED BY <1>1, <1>3, <1>4, <1>9, <2>1 DEF Comes, Comma
<1>11. IsTree(ast)' /\ IsMoves(work)'
  BY <1>1, <1>2, <1>9, SameTree, MovesNext
<1>12. EInv'
  BY <1>1, <1>2, <1>3, <1>8, <1>9, <1>10, <1>11 DEF EInv, Behind
<1>13. ASSUME Ends, Unclosed => Unclosed'  PROVE Ends'
  <2>1. CASE Doomed(work)
    <3>1. ~Dooms(work[1])
      BY <1>3 DEF Dooms
    <3>2. Doomed(work')
      BY <1>1, <1>2, <1>3, <2>1, <3>1, RestDooms
    <3>3. QED BY <3>2 DEF Ends
  <2>2. CASE Nests(work, OpenIn(out), <<>>)
    <3>1. After(OpenIn(out), work[1]) = OpenIn(out')
      <4>1. OpenIn(Append(out, e)) = OpenWith(OpenIn(out), e.t)
        <5>1. e \in S \cup {e}
          OBVIOUS
        <5>2. QED BY <1>6, <5>1, OpenInFacts
      <4>2. out' = Append(out, e)
        BY <1>1 DEF e
      <4>3. QED BY <1>3, <1>4, <4>1, <4>2 DEF After
    <3>2. Nests(work', OpenIn(out'), <<>>)
      BY <1>1, <1>2, <1>3, <2>2, <3>1, RestNests
    <3>3. QED BY <3>2 DEF Ends
  <2>3. CASE Unclosed \/ Failed
    BY <1>1, <1>13, <2>3 DEF Ends, Failed
  <2>4. QED BY <1>13, <2>1, <2>2, <2>3 DEF Ends
<1>14. QED BY <1>12, <1>13

(* The moves in front change, and the tree stays.                                *)
LEMMA CallInv ==
    ASSUME EInv, status = "run", work # <<>>, work[1].op \notin {"emit", "pop"}, ~Dooms(work[1]),
           NEW x, Good(x), work' = x \o Tail(work), UNCHANGED <<ast, out, status, errored>>
    PROVE  EInv' /\ (Ends /\ (Unclosed => Unclosed') => Ends')
<1>1. /\ IsTree(ast) /\ IsMoves(work) /\ IsText(out) /\ Behind(work) /\ status \in Statuses
      /\ errored \in BOOLEAN /\ ~Comma(work[1])
      /\ ast' = ast /\ out' = out /\ status' = status /\ errored' = errored
  BY DEF EInv, Comma
<1>2. /\ IsMoves(work') /\ Pops(work')
      /\ Doomed(Tail(work)) => Doomed(work')
      /\ \A a : Nests(Tail(work), a, <<>>) /\ a \in Seq(Openers) =>
           Unclosed \/ Doomed(work') \/ Nests(work', a, <<>>)
  BY <1>1, Calls
<1>3. Behind(work') /\ Comes(work', out')
  BY <1>2, PopsBehind
<1>4. IsTree(ast)' /\ IsMoves(work)' /\ IsText(out)'
  BY <1>1, <1>2, SameTree, MovesNext DEF IsText, Refs
<1>5. EInv'
  BY <1>1, <1>3, <1>4 DEF EInv
<1>6. ASSUME Ends, Unclosed => Unclosed'  PROVE Ends'
  <2>1. CASE Doomed(work)
    <3>1. Doomed(work')
      BY <1>1, <1>2, <2>1, RestDooms
    <3>2. QED BY <3>1 DEF Ends
  <2>2. CASE Nests(work, OpenIn(out), <<>>)
    <3>1. After(OpenIn(out), work[1]) = OpenIn(out)
      BY DEF After
    <3>2. Nests(Tail(work), OpenIn(out), <<>>) /\ OpenIn(out) \in Seq(Openers)
      BY <1>1, <2>2, <3>1, RestNests
    <3>3. Unclosed \/ Doomed(work') \/ Nests(work', OpenIn(out), <<>>)
      BY <1>2, <3>2
    <3>4. QED BY <1>1, <1>6, <3>3 DEF Ends
  <2>3. CASE Unclosed \/ Failed
    BY <1>1, <1>6, <2>3 DEF Ends, Failed
  <2>4. QED BY <1>6, <2>1, <2>2, <2>3 DEF Ends
<1>7. QED BY <1>5, <1>6

(* A visit, replaced by the moves of the node, keeps the invariant.            *)
LEMMA VisitInv ==
    ASSUME EInv, VisitNode
    PROVE  EInv' /\ (Ends /\ (Unclosed => Unclosed') => Ends')
<1>1. PICK m \in Next1({"visit"}) :
        /\ m.of # Null /\ Kind(m.of) \in Expression \cup Statement \cup Declaration
        /\ work' = Moves(m.of, m.text) \o Tail(work)
        /\ UNCHANGED <<ast, out, status, errored>>
  BY DEF VisitNode
<1>2. IsTree(ast) /\ IsMoves(work)
  BY DEF EInv
<1>3. IsMove(m) /\ status = "run" /\ work # <<>> /\ m = work[1] /\ m.op = "visit"
  BY <1>1, <1>2, FirstMove
<1>4. Good(Moves(m.of, m.text))
  BY <1>1, <1>2, <1>3, GoodMoves DEF IsMove
<1>5. ~Dooms(work[1])
  BY <1>1, <1>3 DEF Dooms
<1> DEFINE x == Moves(m.of, m.text)
<1>6. Good(x) /\ work' = x \o Tail(work)
  BY <1>1, <1>4
<1> HIDE DEF x
<1>7. QED BY <1>1, <1>3, <1>5, <1>6, CallInv

(* What was put off until an edit was made keeps the invariant.                *)
LEMMA GoOnInv ==
    ASSUME EInv, GoOn
    PROVE  EInv' /\ (Ends /\ (Unclosed => Unclosed') => Ends')
<1> DEFINE Later1(m) == CASE m.op = "member"    -> Member(m.of, m.ids[1])
                          [] m.op = "operator"  -> OpHead(m.of, m.text)
                          [] m.op = "signature" -> OpRest(m.of, m.text)
                          [] OTHER              -> InterfaceBody(m.of)
<1>1. PICK m \in Next1({"member", "operator", "signature", "interface"}) :
        work' = Later1(m) \o Tail(work) /\ UNCHANGED <<ast, out, status, errored>>
  BY DEF GoOn
<1>2. IsTree(ast) /\ IsMoves(work)
  BY DEF EInv
<1>3. /\ IsMove(m) /\ status = "run" /\ work # <<>> /\ m = work[1]
      /\ m.op \in {"member", "operator", "signature", "interface"}
  BY <1>1, <1>2, FirstMove
<1>4. m.of \in Refs
  BY <1>3 DEF IsMove
<1>5. Good(Later1(m))
  <2>1. CASE m.op = "member"
    <3>1. m.ids \in Seq(Refs) /\ m.ids # <<>>
      BY <1>3, <2>1 DEF IsMove
    <3>2. m.ids[1] \in Refs
      BY <3>1, PopFacts
    <3>3. Good(Member(m.of, m.ids[1]))
      BY <1>2, <1>4, <3>2, GoodMembers
    <3>4. QED BY <2>1, <3>3
  <2>2. CASE m.op = "interface"
    <3>1. Kind(m.of) = "InterDecl"
      BY <1>3, <2>2 DEF IsMove
    <3>2. Good(InterfaceBody(m.of))
      BY <1>2, <1>4, <3>1, GoodInterfaceBody
    <3>3. QED BY <2>2, <3>2
  <2>3. CASE m.op \in {"operator", "signature"}
    <3>1. Good(OpHead(m.of, m.text)) /\ Good(OpRest(m.of, m.text))
      BY <1>2, <1>4, GoodOperators
    <3>2. QED BY <2>3, <3>1
  <2>4. QED BY <1>3, <2>1, <2>2, <2>3
<1>6. work[1].op \notin {"emit", "pop"} /\ ~Dooms(work[1])
  BY <1>3 DEF Dooms
<1> DEFINE x == Later1(m)
<1>7. Good(x) /\ work' = x \o Tail(work)
  BY <1>1, <1>5
<1> HIDE DEF x
<1>8. QED BY <1>1, <1>3, <1>6, <1>7, CallInv

(* What most moves leave of those to come.                                     *)
LEMMA RestInv ==
    ASSUME EInv, status = "run", work # <<>>, work[1].op # "emit", work' = Tail(work), ast' = ast
    PROVE  IsTree(ast)' /\ IsMoves(work)' /\ Behind(work') /\ \A text : Comes(work', text)
<1>1. IsTree(ast) /\ IsMoves(work) /\ Behind(work) /\ ~Comma(work[1])
  BY DEF EInv, Comma
<1>2. IsMoves(Tail(work)) /\ Pops(Tail(work))
  BY <1>1, Rest, RestBehind
<1>3. IsTree(ast)' /\ IsMoves(work)'
  BY <1>1, <1>2, SameTree, MovesNext
<1>4. QED BY <1>2, <1>3, PopsBehind

(* A pointer followed keeps the invariant.                                     *)
LEMMA FollowInv ==
    ASSUME EInv, FollowPointer
    PROVE  EInv' /\ (Ends /\ (Unclosed => Unclosed') => Ends')
<1>1. PICK m \in Next1({"follow"}) :
        m.of # Null /\ work' = Tail(work) /\ UNCHANGED <<ast, out, status, errored>>
  BY DEF FollowPointer
<1>2. IsTree(ast) /\ IsMoves(work)
  BY DEF EInv
<1>3. status = "run" /\ work # <<>> /\ m = work[1] /\ m.op = "follow"
  BY <1>1, <1>2, FirstMove
<1>4. work[1].op \notin {"emit", "pop"} /\ ~Dooms(work[1])
  BY <1>1, <1>3 DEF Dooms
<1>5. work' = <<>> \o Tail(work)
  <2>1. PICK S : Tail(work) \in Seq(S)
    BY <1>2, <1>3, Rest DEF IsMoves
  <2> DEFINE t == Tail(work)
  <2>2. t \in Seq(S) /\ work' = t
    BY <1>1, <2>1
  <2> HIDE DEF t
  <2>3. <<>> \o t = t
    BY <2>2
  <2>4. QED BY <2>2, <2>3 DEF t
<1>6. Good(<<>>)
  BY <1>2, GoodFacts
<1> DEFINE x == <<>>
<1>7. Good(x) /\ work' = x \o Tail(work)
  BY <1>5, <1>6
<1> HIDE DEF x
<1>8. QED BY <1>1, <1>3, <1>4, <1>7, CallInv

(* A sequence is all but its last element, and that.                           *)
LEMMA FrontAndLast ==
    ASSUME NEW S, NEW s \in Seq(S), s # <<>>
    PROVE  s = Append(Front(s), s[Len(s)]) /\ s[Len(s)] \in S
<1> DEFINE e == s[Len(s)]
           f == Front(s)
           a == Append(f, e)
<1>1. /\ f \in Seq(S) /\ Len(s) \in Nat \ {0} /\ Len(f) = Len(s) - 1
      /\ \A i \in 1 .. Len(s) - 1 : f[i] = s[i]
  BY FrontFacts
<1>2. e \in S
  BY <1>1, ElementOfSeq
<1> HIDE DEF f, e
<1>3. /\ a \in Seq(S) /\ Len(a) = Len(f) + 1 /\ a[Len(f) + 1] = e
      /\ \A i \in 1 .. Len(f) : a[i] = f[i]
  BY <1>1, <1>2, AppendProperties
<1> HIDE DEF a
<1>4. ASSUME NEW i \in 1 .. Len(s)  PROVE s[i] = a[i]
  <2>1. CASE i = Len(s)
    BY <1>1, <1>3, <2>1 DEF e
  <2>2. CASE i # Len(s)
    <3>1. i \in 1 .. Len(s) - 1 /\ i \in 1 .. Len(f)
      BY <1>1, <2>2
    <3>2. QED BY <1>1, <1>3, <3>1
  <2>3. QED BY <2>1, <2>2
<1>5. s = a
  <2>1. Len(s) = Len(a)
    BY <1>1, <1>3
  <2>2. QED BY <1>3, <1>4, <2>1, SeqEqual
<1>6. QED BY <1>2, <1>5 DEF a, e, f

(* Taking back a comma keeps the invariant.                                    *)
LEMMA TakeBackInv ==
    ASSUME EInv, TakeBack
    PROVE  EInv' /\ (Ends /\ (Unclosed => Unclosed') => Ends')
<1>1. PICK m \in Next1({"pop"}) :
        /\ IF out = <<>> THEN status' = "crash" /\ out' = out
           ELSE out' = Front(out) /\ status' = status
        /\ work' = Tail(work) /\ ast' = ast /\ errored' = errored
  BY DEF TakeBack
<1>2. /\ IsTree(ast) /\ IsMoves(work) /\ IsText(out) /\ status \in Statuses /\ errored \in BOOLEAN
      /\ Comes(work, out)
  BY DEF EInv
<1>3. status = "run" /\ work # <<>> /\ m = work[1] /\ m.op = "pop"
  BY <1>1, <1>2, FirstMove
<1>4. out # <<>> /\ Last(out).t = "," /\ out' = Front(out) /\ status' = status
  BY <1>1, <1>2, <1>3 DEF Comes
<1>5. PICK S : out \in Seq(S)
  BY <1>2 DEF IsText
<1>6. /\ out' \in Seq(S) /\ Len(out) \in Nat \ {0} /\ Len(out') = Len(out) - 1
      /\ \A i \in 1 .. Len(out) - 1 : out'[i] = out[i]
  BY <1>4, <1>5, FrontFacts
<1>7. IsText(out)'
  <2>1. \A i \in 1 .. Len(out') : i \in 1 .. Len(out) /\ out'[i] = out[i]
    BY <1>6
  <2>2. \A i \in 1 .. Len(out') : out'[i].of \in 0 .. Len(ast')
    BY <1>1, <1>2, <2>1 DEF IsText, Refs
  <2>3. QED BY <1>6, <2>2 DEF IsText, Refs
<1>8. EInv'
  <2>1. IsTree(ast)' /\ IsMoves(work)' /\ Behind(work') /\ Comes(work', out')
    BY <1>1, <1>3, RestInv
  <2>2. QED BY <1>1, <1>2, <1>3, <1>4, <1>7, <2>1 DEF EInv, Behind, Comes
<1>9. OpenIn(out') = OpenIn(out) \/ OpenIn(out) \notin Seq(Openers)
  <2> DEFINE e == out[Len(out)]
             f == Front(out)
  <2>0. e.t = ","
    BY <1>4 DEF Last
  <2>1a. f = out' /\ f \in Seq(S)
    BY <1>4, <1>6
  <2>1b. e \in S
    BY <1>5, <1>6, ElementOfSeq
  <2>1. f \in Seq(S) /\ e \in S /\ e.t = "," /\ f = out'
    BY <2>0, <2>1a, <2>1b
  <2>2. out = Append(f, e)
    BY <1>4, <1>5, FrontAndLast
  <2> HIDE DEF e, f
  <2>3. OpenIn(out) = OpenWith(OpenIn(f), e.t)
    BY <2>1, <2>2, OpenInFacts
  <2>4. OpenWith(OpenIn(f), ",") = OpenIn(f)
    BY BracketFacts DEF OpenWith
  <2>5. QED BY <2>1, <2>3, <2>4
<1>10. ASSUME Ends, Unclosed => Unclosed'  PROVE Ends'
  <2>1. CASE Doomed(work)
    <3>1. ~Dooms(work[1])
      BY <1>3 DEF Dooms
    <3>2. Doomed(work')
      BY <1>1, <1>2, <1>3, <2>1, <3>1, RestDooms
    <3>3. QED BY <3>2 DEF Ends
  <2>2. CASE Nests(work, OpenIn(out), <<>>)
    <3>1. Nests(work', After(OpenIn(out), work[1]), <<>>) /\ OpenIn(out) \in Seq(Openers)
      BY <1>1, <1>2, <1>3, <2>2, RestNests
    <3>2. After(OpenIn(out), work[1]) = OpenIn(out')
      BY <1>3, <1>9, <3>1 DEF After
    <3>3. QED BY <3>1, <3>2 DEF Ends
  <2>3. CASE Unclosed \/ Failed
    BY <1>1, <1>4, <1>10, <2>3 DEF Ends, Failed
  <2>4. QED BY <1>10, <2>1, <2>2, <2>3 DEF Ends
<1>11. QED BY <1>8, <1>10

(* Reporting an error keeps the invariant.                                     *)
LEMMA ReportInv ==
    ASSUME EInv, Report
    PROVE  EInv' /\ Ends'
<1>1. PICK m \in Next1({"error"}) :
        /\ errored' = TRUE /\ work' = Tail(work) /\ ast' = ast /\ out' = out /\ status' = status
  BY DEF Report
<1>2. IsTree(ast) /\ IsMoves(work) /\ IsText(out) /\ status \in Statuses
  BY DEF EInv
<1>3. status = "run" /\ work # <<>> /\ m = work[1] /\ m.op = "error"
  BY <1>1, <1>2, FirstMove
<1>4. IsTree(ast)' /\ IsMoves(work)' /\ Behind(work') /\ Comes(work', out')
  BY <1>1, <1>3, RestInv
<1>5. IsText(out)'
  BY <1>1, <1>2 DEF IsText, Refs
<1>6. EInv'
  BY <1>1, <1>2, <1>3, <1>4, <1>5 DEF EInv, Behind, Comes
<1>7. Ends'
  BY <1>1 DEF Ends, Failed
<1>8. QED BY <1>6, <1>7

(* Steps that leave the work, the text and the tree alone.                       *)
LEMMA StillInv ==
    ASSUME EInv, UNCHANGED <<ast, work, out>>, status' \in Statuses, errored' \in BOOLEAN,
           status' = "done" => work = <<>>
    PROVE  EInv'
<1>1. /\ IsTree(ast) /\ IsMoves(work) /\ IsText(out) /\ Behind(work) /\ Comes(work, out)
      /\ ast' = ast /\ work' = work /\ out' = out
  BY DEF EInv
<1>2. IsTree(ast)' /\ IsMoves(work)'
  BY <1>1, SameTree, MovesNext
<1>3. IsText(out)'
  BY <1>1 DEF IsText, Refs
<1>4. QED BY <1>1, <1>2, <1>3 DEF EInv, Behind, Comes

(* An end that is none of the program's keeps the invariant.                   *)
LEMMA StopInv ==
    ASSUME EInv, FollowNull \/ GiveUp \/ Crashed
    PROVE  EInv' /\ Ends'
<1>1. /\ UNCHANGED <<ast, work, out>> /\ status' \in {"panic", "thrown", "crash", "wild"}
      /\ errored' \in BOOLEAN
  <2>1. errored \in BOOLEAN
    BY DEF EInv
  <2>2. CASE FollowNull
    BY <2>1, <2>2 DEF FollowNull
  <2>3. CASE GiveUp
    BY <2>1, <2>3 DEF GiveUp
  <2>4. CASE Crashed
    BY <2>1, <2>4 DEF Crashed
  <2>5. QED BY <2>2, <2>3, <2>4
<1>2. EInv'
  BY <1>1, StillInv DEF Statuses
<1>3. Ends'
  BY <1>1 DEF Ends, Failed
<1>4. QED BY <1>2, <1>3

(* The end of the program and a stutter keep the invariant.                    *)
LEMMA QuietInv ==
    ASSUME EInv, Finish \/ UNCHANGED vars
    PROVE  EInv' /\ (Ends /\ (Unclosed => Unclosed') => Ends')
<1>1. /\ UNCHANGED <<ast, work, out, errored>>
      /\ status' = status \/ (status = "run" /\ status' = "done" /\ work = <<>>)
  BY DEF Finish, vars
<1>2. EInv'
  <2>1. status' \in Statuses /\ errored' \in BOOLEAN /\ (status' = "done" => work = <<>>)
    BY <1>1 DEF EInv, Statuses
  <2>2. QED BY <1>1, <2>1, StillInv
<1>3. ASSUME Ends, Unclosed => Unclosed'  PROVE Ends'
  <2>1. CASE Doomed(work)
    BY <1>1, <2>1 DEF Ends, Doomed
  <2>2. CASE Nests(work, OpenIn(out), <<>>)
    <3>1. Nests(work', OpenIn(out'), <<>>)
      BY <1>1, <2>2
    <3>2. QED BY <3>1 DEF Ends
  <2>3. CASE Unclosed \/ Failed
    BY <1>1, <1>3, <2>3 DEF Ends, Failed
  <2>4. QED BY <1>3, <2>1, <2>2, <2>3 DEF Ends
<1>4. QED BY <1>2, <1>3

(* Every step keeps the invariant.                                             *)
LEMMA StepInv ==
    ASSUME EInv, [Next]_vars
    PROVE  EInv' /\ (Ends /\ (Unclosed => Unclosed') => Ends')
<1>1. CASE Emit
  BY <1>1, EmitInv
<1>2. CASE VisitNode
  BY <1>2, VisitInv
<1>3. CASE GoOn
  BY <1>3, GoOnInv
<1>4. CASE FollowPointer
  BY <1>4, FollowInv
<1>5. CASE TakeBack
  BY <1>5, TakeBackInv
<1>6. CASE Report
  BY <1>6, ReportInv
<1>7. CASE FollowNull \/ GiveUp
  BY <1>7, StopInv
<1>8. CASE SetKids \/ MarkIt \/ AdoptModifiers \/ HangOn \/ CastParameter \/ SelfGeneric \/ ForwardMain
  <2>1. Edited \/ Crashed
    BY <1>8, TreeEdits, MainEdits DEF EInv
  <2>2. QED BY <2>1, EditedInv, StopInv
<1>9. CASE Finish \/ Ended \/ UNCHANGED vars
  BY <1>9, QuietInv DEF Ended
<1>10. QED BY <1>1, <1>2, <1>3, <1>4, <1>5, <1>6, <1>7, <1>8, <1>9 DEF Next

(* A program whose visit begins has the invariant.                             *)
LEMMA InitInv == Init => EInv /\ Ends
<1>1. SUFFICES ASSUME Init  PROVE EInv /\ Ends
  OBVIOUS
<1>2. IsTree(ast) /\ work = Visit(Root) /\ out = <<>> /\ status = "run" /\ errored = FALSE
  <2>1. ast \in Programs
    BY <1>1 DEF Init
  <2>2. IsTree(ast)
    BY <2>1, ProgramsAssumption
  <2>3. QED BY <1>1, <2>2 DEF Init
<1>3. Good(Visit(Root))
  BY <1>2, TreeFacts, GoodFacts
<1>4. IsMoves(work) /\ Pops(work) /\ (Unclosed \/ Doomed(work) \/ Nests(work, <<>>, <<>>))
  BY <1>2, <1>3 DEF Good, Leads
<1>5. Behind(work) /\ Comes(work, out)
  BY <1>4, PopsBehind
<1>6. IsText(out)
  <2>1. out \in Seq(Int) /\ Len(out) = 0
    BY <1>2
  <2>2. QED BY <2>1 DEF IsText
<1>7. EInv
  BY <1>2, <1>4, <1>5, <1>6 DEF EInv, Statuses
<1>8. Ends
  BY <1>2, <1>4, OpenInFacts DEF Ends
<1>9. QED BY <1>7, <1>8

(* The invariant: the moves are moves of the tree, and a comma is taken back     *)
(* only behind one.                                                              *)
THEOREM EmitterInvariance == Spec => []EInv
<1>1. Init => EInv
  BY InitInv
<1>2. EInv /\ [Next]_vars => EInv'
  BY StepInv
<1>3. QED BY <1>1, <1>2, PTL DEF Spec

(* Whatever the tree, the moves, the tokens and the children of nodes name nodes *)
(* of it, through every edit that the visits of CX-IR make.                      *)
THEOREM EmitterTypes == Spec => []TypeOK
<1>1. EInv => TypeOK
  <2>1. SUFFICES ASSUME EInv  PROVE TypeOK
    OBVIOUS
  <2>2. /\ IsTree(ast) /\ IsMoves(work) /\ IsText(out) /\ status \in Statuses /\ errored \in BOOLEAN
    BY <2>1 DEF EInv
  <2>3. \A i \in 1 .. Len(work) : work[i].of \in 0 .. Len(ast)
    BY <2>2 DEF IsMoves, IsMove, Refs
  <2>4. \A i \in 1 .. Len(out) : out[i].of \in 0 .. Len(ast)
    BY <2>2 DEF IsText, Refs
  <2>5. QED BY <2>2, <2>3, <2>4 DEF TypeOK
<1>2. QED BY <1>1, EmitterInvariance, PTL

(* tokens.pop_back() of the visit functions takes back a comma, in every         *)
(* program.                                                                      *)
THEOREM CommasOnly == Spec => TakesBackCommas
<1>1. EInv /\ [Next]_vars => [Len(out') < Len(out) => Last(out).t = ","]_vars
  <2>1. SUFFICES ASSUME EInv, [Next]_vars, Len(out') < Len(out)  PROVE Last(out).t = ","
    OBVIOUS
  <2>2. Len(out) \in Nat
    BY <2>1 DEF EInv, IsText
  <2>3. CASE TakeBack
    <3>1. IsMoves(work) /\ Comes(work, out)
      BY <2>1 DEF EInv
    <3>2. PICK m \in Next1({"pop"}) : TRUE
      BY <2>3 DEF TakeBack
    <3>3. work # <<>> /\ work[1].op = "pop"
      BY <3>1, <3>2, FirstMove
    <3>4. QED BY <3>1, <3>3 DEF Comes
  <2>4. CASE Emit
    <3>1. PICK S : out \in Seq(S)
      BY <2>1 DEF EInv, IsText
    <3>2. PICK e : out' = Append(out, e)
      BY <2>4 DEF Emit
    <3>3. out \in Seq(S \cup {e}) /\ e \in S \cup {e}
      BY <3>1, SeqMonotonic
    <3>4. Len(Append(out, e)) = Len(out) + 1
      BY <3>3, AppendProperties
    <3>5. Len(out') = Len(out) + 1
      BY <3>2, <3>4
    <3>6. Len(out') < Len(out)
      BY <2>1
    <3>7. FALSE
      BY <2>2, <3>5, <3>6
    <3>8. QED BY <3>7
  <2>5. CASE ~TakeBack /\ ~Emit
    <3>1. out' = out
      BY <2>1, <2>5 DEF Next, VisitNode, GoOn, FollowPointer, FollowNull, Report, GiveUp, SetKids,
         MarkIt,
         AdoptModifiers, HangOn, CastParameter, SelfGeneric, ForwardMain, Edits, Finish, Ended, vars
    <3>2. Len(out') < Len(out)
      BY <2>1
    <3>3. FALSE
      BY <2>2, <3>1, <3>2
    <3>4. QED BY <3>3
  <2>6. QED BY <2>3, <2>4, <2>5
<1>2. QED BY <1>1, EmitterInvariance, PTL DEF Spec, TakesBackCommas

(* Every bracket that is written is closed by one of its kind, in order, in      *)
(* every program, as long as no visit makes a module named by a path or a call   *)
(* operator of an interface, which leave one open, disappear from the tree.      *)
THEOREM BracketsAreClosed == Spec /\ [](Unclosed => []Unclosed) => []BracketsNest
<1>1. Init => Ends
  BY InitInv
<1>2. EInv /\ [Next]_vars /\ (Unclosed => Unclosed') /\ Ends => Ends'
  BY StepInv
<1>3. EInv /\ Ends => BracketsNest
  <2>1. SUFFICES ASSUME EInv, Ends, Written, ~Unclosed  PROVE OpenIn(out) = <<>>
    BY DEF BracketsNest, Unclosed
  <2>2. work = <<>> /\ ~Failed
    BY <2>1 DEF EInv, Written, Failed
  <2>3. ~Doomed(work)
    BY <2>2 DEF Doomed
  <2>4. Nests(<<>>, OpenIn(out), <<>>)
    BY <2>1, <2>2, <2>3 DEF Ends
  <2>5. QED BY <2>4, NothingNests
<1>4. QED BY <1>1, <1>2, <1>3, EmitterInvariance, PTL DEF Spec
===============================================================================
