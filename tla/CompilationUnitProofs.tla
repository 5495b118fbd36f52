------------------------ MODULE CompilationUnitProofs -------------------------
(* Theorems about CompilationUnit, for any files, any way to resolve names and    *)
(* any program.                                                                  *)
(*                                                                               *)
(* Inv is inductive.  It follows each import statement from the text of its file  *)
(* to the texts that the unit keeps: it is still among the tokens, or the files   *)
(* it stands for are waiting, being built, or kept.                              *)
EXTENDS CompilationUnit, UnitAssembly, StackTheorems, FiniteSetTheorems

(* What the preprocessor's edits do to a token list: lemmas about the operators   *)
(* of CompilationUnit that find the statement, take it out and put others there.  *)
LEMMA ImportToken ==
    ASSUME NEW tok \in Tokens, tok.t = "import"
    PROVE  tok.form \in Forms /\ tok.name \in Names
BY DEF Tokens, PlainTokens, Plain, Alias

(* An alias is a token.                                                        *)
LEMMA AliasToken ==
    ASSUME NEW f \in Files
    PROVE  Alias(f) \in Tokens /\ Alias(f).t = "alias"
BY DEF Tokens, Alias

(* So is the end of a file.                                                    *)
LEMMA EofToken == Plain("eof") \in Tokens /\ Plain("eof").t = "eof"
BY DEF Tokens, PlainTokens, Plain

(* The first import has none in front of it.                                     *)
LEMMA FirstImportFacts ==
    ASSUME NEW s \in Seq(Tokens), HasImport(s)
    PROVE  LET p == FirstImport(s)
           IN p \in 1 .. Len(s) /\ s[p].t = "import" /\ \A m \in 1 .. p - 1 : s[m].t # "import"
<1> DEFINE I == {n \in DOMAIN s : s[n].t = "import"}
<1>1. I \in SUBSET Nat /\ I # {} /\ DOMAIN s = 1 .. Len(s)
  BY DEF HasImport
<1>2. PICK p \in I : \A n \in I : p <= n
  BY <1>1, LeastNatural
<1>3. p \in DOMAIN s /\ s[p].t = "import" /\ p \in Nat
  BY <1>1
<1>4. ASSUME NEW m \in 1 .. p - 1  PROVE s[m].t # "import"
  <2>1. m \in DOMAIN s /\ ~(p <= m)
    BY <1>1, <1>3
  <2>2. QED BY <2>1, <1>2
<1>5. QED BY <1>1, <1>3, <1>4 DEF FirstImport

(* The first semicolon behind a token has none in front of it.                   *)
LEMMA FirstSemiFacts ==
    ASSUME NEW s \in Seq(Tokens), NEW p \in 1 .. Len(s), SemisAfter(s, p) # {}
    PROVE  LET q == FirstSemi(s, p)
           IN q \in p + 1 .. Len(s) /\ s[q].t = "semi"
              /\ \A m \in p + 1 .. q - 1 : s[m].t # "semi"
<1> DEFINE I == SemisAfter(s, p)
<1>1. I \in SUBSET Nat /\ I # {} /\ DOMAIN s = 1 .. Len(s)
  BY DEF SemisAfter
<1>2. PICK q \in I : \A n \in I : q <= n
  BY <1>1, LeastNatural
<1> DEFINE r == FirstSemi(s, p)
<1>3. r \in I /\ \A n \in I : r <= n
  BY <1>2 DEF FirstSemi
<1> HIDE DEF r
<1>4. r \in p + 1 .. Len(s) /\ s[r].t = "semi"
  BY <1>1, <1>3 DEF SemisAfter
<1>5. ASSUME NEW m \in p + 1 .. r - 1  PROVE s[m].t # "semi"
  <2>1. m \in DOMAIN s /\ m > p /\ ~(r <= m)
    BY <1>1, <1>4
  <2>2. QED BY <2>1, <1>3 DEF SemisAfter
<1>6. QED BY <1>4, <1>5 DEF r

(* Taking a statement out keeps what is in front, the semicolon and the rest.    *)
LEMMA RemoveFacts ==
    ASSUME NEW s \in Seq(Tokens), NEW p \in 1 .. Len(s), SemisAfter(s, p) # {}
    PROVE  LET q == FirstSemi(s, p)
               r == RemoveImport(s, p)
           IN /\ r \in Seq(Tokens) /\ Len(r) = Len(s) - (q - p)
              /\ \A n \in 1 .. p - 1 : r[n] = s[n]
              /\ \A n \in p .. Len(r) : r[n] = s[n + (q - p)]
<1> DEFINE q == FirstSemi(s, p)
           a == SubSeq(s, 1, p - 1)
           b == SubSeq(s, q, Len(s))
<1>1. q \in p + 1 .. Len(s) /\ p \in Nat /\ p >= 1 /\ Len(s) \in Nat
  BY FirstSemiFacts
<1> HIDE DEF q
<1>2. a \in Seq(Tokens) /\ Len(a) = p - 1 /\ \A n \in 1 .. p - 1 : a[n] = s[n]
  BY <1>1
<1>3. b \in Seq(Tokens) /\ Len(b) = Len(s) - q + 1
      /\ \A n \in 1 .. Len(s) - q + 1 : b[n] = s[q + n - 1]
  BY <1>1
<1> HIDE DEF a, b
<1> DEFINE r == a \o b
<1>4. /\ r \in Seq(Tokens) /\ Len(r) = Len(a) + Len(b)
      /\ \A n \in 1 .. Len(a) + Len(b) : r[n] = IF n <= Len(a) THEN a[n] ELSE b[n - Len(a)]
  BY <1>2, <1>3, ConcatProperties
<1> HIDE DEF r
<1>5. Len(r) = Len(s) - (q - p)
  BY <1>1, <1>2, <1>3, <1>4
<1>6. ASSUME NEW n \in 1 .. p - 1  PROVE r[n] = s[n]
  <2>1. n \in 1 .. Len(a) + Len(b) /\ n <= Len(a)
    BY <1>1, <1>2, <1>3
  <2>2. QED BY <2>1, <1>2, <1>4
<1>7. ASSUME NEW n \in p .. Len(r)  PROVE r[n] = s[n + (q - p)]
  <2>1. n \in 1 .. Len(a) + Len(b) /\ ~(n <= Len(a)) /\ n - Len(a) = n - p + 1
        /\ n - p + 1 \in 1 .. Len(s) - q + 1 /\ q + (n - p + 1) - 1 = n + (q - p)
    BY <1>1, <1>2, <1>3, <1>5
  <2>2. r[n] = b[n - p + 1]
    BY <2>1, <1>4
  <2>3. QED BY <2>1, <2>2, <1>3
<1>8. QED BY <1>4, <1>5, <1>6, <1>7 DEF r, a, b, q, RemoveImport

(* Tokens put in at a position push it and the rest to the right.                *)
LEMMA SpliceFacts ==
    ASSUME NEW s \in Seq(Tokens), NEW ins \in Seq(Tokens), NEW p \in 1 .. Len(s)
    PROVE  LET r == Splice(s, p, ins)
           IN /\ r \in Seq(Tokens) /\ Len(r) = Len(s) + Len(ins)
              /\ \A n \in 1 .. p - 1 : r[n] = s[n]
              /\ \A n \in 1 .. Len(ins) : r[p - 1 + n] = ins[n]
              /\ \A n \in p .. Len(s) : r[n + Len(ins)] = s[n]
<1> DEFINE a == SubSeq(s, 1, p - 1)
           b == SubSeq(s, p, Len(s))
           k == Len(ins)
<1>1. p \in Nat /\ p >= 1 /\ Len(s) \in Nat /\ p <= Len(s) /\ k \in Nat
  OBVIOUS
<1>2. a \in Seq(Tokens) /\ Len(a) = p - 1 /\ \A n \in 1 .. p - 1 : a[n] = s[n]
  BY <1>1
<1>3. b \in Seq(Tokens) /\ Len(b) = Len(s) - p + 1
      /\ \A n \in 1 .. Len(s) - p + 1 : b[n] = s[p + n - 1]
  BY <1>1
<1> HIDE DEF a, b
<1> DEFINE c == a \o ins
<1>4. /\ c \in Seq(Tokens) /\ Len(c) = p - 1 + k
      /\ \A n \in 1 .. p - 1 + k : c[n] = IF n <= p - 1 THEN a[n] ELSE ins[n - (p - 1)]
  <2>1. /\ c \in Seq(Tokens) /\ Len(c) = Len(a) + k
        /\ \A n \in 1 .. Len(a) + k : c[n] = IF n <= Len(a) THEN a[n] ELSE ins[n - Len(a)]
    BY <1>2, ConcatProperties
  <2>2. QED BY <1>2, <2>1
<1> HIDE DEF c, k
<1> DEFINE r == c \o b
<1>5. /\ r \in Seq(Tokens) /\ Len(r) = Len(c) + Len(b)
      /\ \A n \in 1 .. Len(c) + Len(b) : r[n] = IF n <= Len(c) THEN c[n] ELSE b[n - Len(c)]
  BY <1>3, <1>4, ConcatProperties
<1> HIDE DEF r
<1>6. Len(r) = Len(s) + k
  BY <1>1, <1>3, <1>4, <1>5
<1>7. ASSUME NEW n \in 1 .. p - 1  PROVE r[n] = s[n]
  <2>1. n \in 1 .. Len(c) + Len(b) /\ n <= Len(c) /\ n \in 1 .. p - 1 + k /\ n <= p - 1
    BY <1>1, <1>3, <1>4
  <2>2. QED BY <2>1, <1>2, <1>4, <1>5
<1>8. ASSUME NEW n \in 1 .. k  PROVE r[p - 1 + n] = ins[n]
  <2>1. p - 1 + n \in 1 .. Len(c) + Len(b) /\ p - 1 + n <= Len(c)
        /\ p - 1 + n \in 1 .. p - 1 + k /\ ~(p - 1 + n <= p - 1)
        /\ p - 1 + n - (p - 1) = n
    BY <1>1, <1>3, <1>4
  <2>2. QED BY <2>1, <1>4, <1>5
<1>9. ASSUME NEW n \in p .. Len(s)  PROVE r[n + k] = s[n]
  <2> DEFINE j == n + k
             i == n - p + 1
  <2>1. j \in 1 .. Len(c) + Len(b) /\ ~(j <= Len(c)) /\ j - Len(c) = i
        /\ i \in 1 .. Len(s) - p + 1 /\ p + i - 1 = n
    BY <1>1, <1>3, <1>4
  <2> HIDE DEF i, j
  <2>2. r[j] = b[i]
    BY <2>1, <1>5
  <2>3. b[i] = s[n]
    BY <2>1, <1>3
  <2>4. QED BY <2>2, <2>3 DEF j
<1>10. QED BY <1>5, <1>6, <1>7, <1>8, <1>9 DEF r, c, a, b, k, Splice

(* The aliases that take the place of a statement are nothing but aliases.  The  *)
(* function upTo of Aliases exists, being defined by recursion on the number of  *)
(* files, and has only such sequences for values.                                *)
AliasTokens == {Alias(f) : f \in Files}

(* What is put in the place of an import statement is nothing but aliases,     *)
(* for any number of files.                                                    *)
LEMMA AliasFacts ==
    ASSUME NEW form, NEW files \in Seq(Files)
    PROVE  Aliases(form, files) \in Seq(AliasTokens)
<1> DEFINE L == Len(files)
           A == AliasTokens
           At(g, n) == IF n = 0 THEN <<>>
                       ELSE IF form = "wildcard" /\ files[n] \in Trivial THEN g[n - 1]
                       ELSE <<Alias(files[n])>> \o g[n - 1]
           Fits(g, n) == g = [i \in 0 .. n |-> At(g, i)] /\ g \in [0 .. n -> Seq(A)]
           Rec(g) == g = [i \in 0 .. L |-> At(g, i)]
<1>1. L \in Nat /\ <<>> \in Seq(A) /\ \A n \in 1 .. L : Alias(files[n]) \in A
  BY DEF AliasTokens
<1>2. \A n \in 1 .. L : \A s \in Seq(A) : <<Alias(files[n])>> \o s \in Seq(A)
  BY <1>1, PushFacts
<1> HIDE DEF A, L
<1>3. ASSUME NEW n \in 1 .. L, NEW g, Fits(g, n - 1)
      PROVE  \E h : Fits(h, n)
  <2> DEFINE h == [i \in 0 .. n |-> IF i = n THEN At(g, n) ELSE g[i]]
  <2>1. n - 1 \in Nat /\ n - 1 \in 0 .. n - 1 /\ g[n - 1] \in Seq(A) /\ n # 0
    BY <1>1, <1>3
  <2>2. At(g, n) \in Seq(A)
    BY <2>1, <1>2
  <2>3. \A i \in 0 .. n : i # n => i \in 0 .. n - 1 /\ g[i] = At(g, i) /\ g[i] \in Seq(A)
    <3>1. \A i \in 0 .. n : i # n => i \in 0 .. n - 1
      BY <1>1
    <3>2. \A i \in 0 .. n - 1 : g[i] = At(g, i) /\ g[i] \in Seq(A)
      <4> HIDE DEF At
      <4>1. QED BY <1>3
    <3>3. QED BY <3>1, <3>2
  <2>4. h \in [0 .. n -> Seq(A)]
    BY <2>2, <2>3
  <2>5. ASSUME NEW i \in 0 .. n  PROVE h[i] = At(h, i)
    <3>1. CASE i = 0
      BY <3>1, <2>1, <2>3
    <3>2. CASE i # 0
      <4>1. i - 1 \in 0 .. n /\ i - 1 # n /\ i \in Nat
        BY <3>2, <1>1
      <4>2. h[i - 1] = g[i - 1]
        BY <4>1
      <4>3. At(h, i) = At(g, i)
        BY <3>2, <4>2
      <4>4. h[i] = At(g, i)
        BY <2>3
      <4>5. QED BY <4>3, <4>4
    <3>3. QED BY <3>1, <3>2
  <2>6. h = [i \in 0 .. n |-> h[i]]
    OBVIOUS
  <2> HIDE DEF h
  <2>7. h = [i \in 0 .. n |-> At(h, i)]
    <3> HIDE DEF At
    <3>1. QED BY <2>5, <2>6
  <2>8. QED BY <2>4, <2>7
<1>4. \E h : Fits(h, 0)
  <2> DEFINE h == [i \in 0 .. 0 |-> <<>>]
  <2>1. h \in [0 .. 0 -> Seq(A)] /\ h = [i \in 0 .. 0 |-> At(h, i)]
    BY <1>1
  <2>2. QED BY <2>1
<1>5. \A n \in 0 .. L : \E h : Fits(h, n)
  <2> HIDE DEF Fits
  <2> DEFINE Bad == {n \in 0 .. L : ~\E h : Fits(h, n)}
  <2>1. SUFFICES ASSUME Bad # {}  PROVE FALSE
    OBVIOUS
  <2>0. Bad \in SUBSET Nat
    BY <1>1
  <2>2. PICK m \in Bad : \A n \in Bad : m <= n
    <3> HIDE DEF Bad
    <3>1. QED BY <2>0, <2>1, LeastNatural
  <2>3. m \in 1 .. L
    BY <1>1, <1>4
  <2>4. m - 1 \in 0 .. L /\ m - 1 \notin Bad
    BY <1>1, <2>2, <2>3
  <2>5. QED BY <1>3, <2>2, <2>3, <2>4
<1>6. \E g : Rec(g)
  <2>1. PICK g : Fits(g, L)
    <3> HIDE DEF Fits
    <3>1. L \in 0 .. L
      BY <1>1
    <3>2. QED BY <1>5, <3>1
  <2>2. Rec(g)
    <3> HIDE DEF At
    <3>1. QED BY <2>1
  <2>3. QED
    <3> HIDE DEF Rec
    <3>1. QED BY <2>2
<1> DEFINE u == CHOOSE g : Rec(g)
<1>7. Aliases(form, files) = u[L]
  BY DEF Aliases, L
<1>8. Rec(u)
  <2> HIDE DEF Rec
  <2>1. QED BY <1>6
<1> HIDE DEF u
<1>9. \A n \in 0 .. L : u[n] = At(u, n)
  BY <1>8
<1>10. \A n \in 0 .. L : u[n] \in Seq(A)
  <2> DEFINE Bad == {n \in 0 .. L : u[n] \notin Seq(A)}
  <2>1. SUFFICES ASSUME Bad # {}  PROVE FALSE
    OBVIOUS
  <2>0. Bad \in SUBSET Nat
    BY <1>1
  <2>2. PICK m \in Bad : \A n \in Bad : m <= n
    <3> HIDE DEF Bad
    <3>1. QED BY <2>0, <2>1, LeastNatural
  <2>3. CASE m = 0
    BY <2>2, <2>3, <1>1, <1>9
  <2>4. CASE m # 0
    <3>1. m \in 1 .. L /\ m - 1 \in 0 .. L /\ m - 1 \notin Bad
      BY <2>2, <2>4, <1>1
    <3>2. u[m - 1] \in Seq(A)
      BY <3>1
    <3>3. u[m] = At(u, m)
      BY <2>2, <1>9
    <3>4. At(u, m) \in Seq(A)
      BY <3>1, <3>2, <1>2
    <3>5. QED BY <2>2, <3>3, <3>4
  <2>5. QED BY <2>3, <2>4
<1>11. QED BY <1>1, <1>7, <1>10 DEF A

(* A statement gives way to other tokens.  What was in front of it stays where it  *)
(* is; its semicolon and what is behind it move together.                        *)
LEMMA ReplaceStatement ==
    ASSUME NEW s \in Seq(Tokens), NEW p \in 1 .. Len(s), SemisAfter(s, p) # {},
           NEW ins \in Seq(Tokens)
    PROVE  LET q == FirstSemi(s, p)
               t == Splice(RemoveImport(s, p), p, ins)
               d == Len(ins) - (q - p)
           IN /\ t \in Seq(Tokens) /\ Len(t) = Len(s) + d /\ p + Len(ins) <= Len(t)
              /\ q \in p + 1 .. Len(s)
              /\ \A n \in 1 .. p - 1 : t[n] = s[n]
              /\ \A n \in 1 .. Len(ins) : t[p - 1 + n] = ins[n]
              /\ \A n \in q .. Len(s) : t[n + d] = s[n]
<1> DEFINE q == FirstSemi(s, p)
           r == RemoveImport(s, p)
           t == Splice(r, p, ins)
           k == Len(ins)
           d == k - (q - p)
<1>1. q \in p + 1 .. Len(s) /\ p \in Nat /\ p >= 1 /\ Len(s) \in Nat /\ k \in Nat
  BY FirstSemiFacts
<1>2. /\ r \in Seq(Tokens) /\ Len(r) = Len(s) - (q - p)
      /\ \A n \in 1 .. p - 1 : r[n] = s[n]
      /\ \A n \in p .. Len(r) : r[n] = s[n + (q - p)]
  BY RemoveFacts
<1> HIDE DEF q, r
<1>3. p \in 1 .. Len(r)
  BY <1>1, <1>2
<1>4. /\ t \in Seq(Tokens) /\ Len(t) = Len(r) + k
      /\ \A n \in 1 .. p - 1 : t[n] = r[n]
      /\ \A n \in 1 .. k : t[p - 1 + n] = ins[n]
      /\ \A n \in p .. Len(r) : t[n + k] = r[n]
  BY <1>2, <1>3, SpliceFacts
<1> HIDE DEF t, k
<1>5. Len(t) = Len(s) + d /\ p + k <= Len(t)
  BY <1>1, <1>2, <1>3, <1>4
<1>6. ASSUME NEW n \in q .. Len(s)  PROVE t[n + d] = s[n]
  <2> DEFINE i == n - (q - p)
  <2>1. i \in p .. Len(r) /\ i + (q - p) = n /\ i + k = n + d
    BY <1>1, <1>2
  <2> HIDE DEF i, d
  <2>2. t[i + k] = r[i] /\ r[i] = s[i + (q - p)]
    BY <2>1, <1>2, <1>4
  <2>3. QED BY <2>1, <2>2
<1>7. QED BY <1>1, <1>2, <1>4, <1>5, <1>6 DEF q, r, t, k, d

-----------------------------------------------------------------------------

(* The list of a unit that has been lexed ends in an <eof>, and nothing is left   *)
(* to import in front of the place where it is edited.                           *)
ListOK(u) ==
    /\ u.phase = "open" => u.toks = <<>>
    /\ u.phase # "open" =>
          /\ u.toks # <<>> /\ u.toks[Len(u.toks)].t = "eof"
          /\ u.file \in OnDisk /\ Lexable(u.file)
    /\ u.phase = "append" =>
          /\ u.at \in 1 .. Len(u.toks)
          /\ \A m \in 1 .. u.at - 1 : u.toks[m].t # "import"
    /\ u.phase = "parse" => ~HasImport(u.toks) /\ u.mode # "header"
    /\ u.phase # "append" => u.queue = <<>>

(* Its imports are those of the file, each closed by a semicolon as they are      *)
(* there, and what waits to be imported was imported there.                      *)
ImportsOK(u) ==
    /\ \A m \in DOMAIN u.toks : u.toks[m].t = "import" =>
          /\ \E k \in DOMAIN src[u.file] : src[u.file][k] = u.toks[m]
          /\ Terminated(u.file) => m < Len(u.toks) /\ u.toks[m + 1].t = "semi"
    /\ \A m \in DOMAIN u.queue : u.queue[m] \in ImportsOf(u.file)

UnitOK(u) == ListOK(u) /\ ImportsOK(u) /\ (u.mode = "header" => u.file \in Headers)

(* A unit into which a header was copied has an <eof> too many.                  *)
Spoilt(u) == \E m \in DOMAIN u.toks : m < Len(u.toks) /\ u.toks[m].t = "eof"

(* Where the files of a statement that was processed can be; kids are the files   *)
(* being built for the unit.                                                     *)
Settled(u, kids, tok) ==
    /\ tok.t = "import" /\ tok.form \in {"plain", "wildcard"} /\ tok.name \notin Reported
    /\ \A m \in DOMAIN Resolve[tok.name] :
          Resolve[tok.name][m] \in Range(u.queue) \cup Range(u.imports) \cup kids

(* What the file says that matters, and is not lost before it is dealt with.      *)
Matters(tok) == tok.t \in {"import", "bad", "badgen"}

Accounted(u, kids) ==
    u.phase # "open" /\ Terminated(u.file) /\ ~Spoilt(u) =>
        \A k \in DOMAIN src[u.file] : Matters(src[u.file][k]) =>
            \/ \E m \in DOMAIN u.toks : u.toks[m] = src[u.file][k]
            \/ Settled(u, kids, src[u.file][k])

Kids(n) == IF n = 1 THEN {} ELSE {stack[n - 1].file}

UnitsOK == \A n \in DOMAIN stack : UnitOK(stack[n])
NothingForgotten ==
    ~hasErrored => \A n \in DOMAIN stack : Accounted(stack[n], Kids(n))

(* The texts that are kept are those of files without errors.                    *)
KeptClean ==
    ~hasErrored => \A n \in DOMAIN stack : \A m \in DOMAIN stack[n].imports :
        Terminated(stack[n].imports[m]) => Clean(stack[n].imports[m])
EmittedClean ==
    result = "0" =>
        /\ ~hasErrored /\ Main \in Range(emitted) /\ Core \in Range(emitted)
        /\ \A m \in DOMAIN emitted : Terminated(emitted[m]) => Clean(emitted[m])

(* Core is imported by the first unit, before anything else.                     *)
CoreFirst ==
    Running =>
        /\ ~coreImported => Len(stack) = 1 /\ stack[1].phase = "open"
        /\ \/ ~coreImported \/ hasErrored
           \/ Core \in Range(stack[Len(stack)].imports)
           \/ Len(stack) > 1 /\ stack[Len(stack) - 1].mode = "core"

(* Only the program's own files are built.                                       *)
OwnFiles ==
    /\ \A n \in DOMAIN stack :
          /\ stack[n].file \in Reachable
          /\ \A m \in DOMAIN stack[n].imports : stack[n].imports[m] \in Reachable
    /\ \A m \in DOMAIN emitted : emitted[m] \in Reachable

Ends == 
    /\ Running => emitted = <<>>
    /\ ~Running => stack = <<>>

(* Main is at the bottom, and core is opened for itself.                         *)
RootIsMain ==
    \A n \in DOMAIN stack :
        /\ stack[n].mode = "root" => stack[n].file = Main
        /\ stack[n].mode = "core" => stack[n].file = Core

Inv ==
    /\ TypeOK /\ WellNested /\ Ends /\ RootIsMain
    /\ UnitsOK /\ CoreFirst /\ OwnFiles
    /\ NothingForgotten /\ KeptClean /\ EmittedClean

-------------------------------------------------------------------------------
(* What is said of a unit depends on the program, which stays.                   *)
LEMMA SameProgram ==
    ASSUME src' = src
    PROVE  /\ \A u : UnitOK(u)' <=> UnitOK(u)
           /\ \A u, kids : Accounted(u, kids)' <=> Accounted(u, kids)
           /\ \A f : Clean(f)' <=> Clean(f)
           /\ \A f : Terminated(f)' <=> Terminated(f)
           /\ \A f : ImportsOf(f)' = ImportsOf(f)
           /\ Reachable' = Reachable
<1>1. \A f : Terminated(f)' <=> Terminated(f)
  BY DEF Terminated, ImportTokens
<1>2. \A f : ImportsOf(f)' = ImportsOf(f)
  BY DEF ImportsOf, ImportTokens
<1>3. \A f : Clean(f)' <=> Clean(f)
  BY DEF Clean
<1>4. Reachable' = Reachable
  BY <1>2 DEF Reachable, Closed
<1>5. ASSUME NEW u  PROVE UnitOK(u)' <=> UnitOK(u)
  <2>1. ListOK(u)' <=> ListOK(u)
    BY DEF ListOK, Lexable, HasImport
  <2>2. ImportsOK(u)' <=> ImportsOK(u)
    BY <1>1, <1>2 DEF ImportsOK
  <2>3. QED BY <2>1, <2>2 DEF UnitOK
<1>6. ASSUME NEW u, NEW kids  PROVE Accounted(u, kids)' <=> Accounted(u, kids)
  BY <1>1 DEF Accounted, Settled, Spoilt
<1>7. QED BY <1>1, <1>2, <1>3, <1>4, <1>5, <1>6

(* What the files of the program import belongs to it.                           *)
LEMMA ReachableFacts ==
    ASSUME src \in [Files -> Seq(Tokens)]
    PROVE  /\ Main \in Reachable /\ Core \in Reachable /\ Reachable \subseteq Files
           /\ \A f \in Files : ImportsOf(f) \subseteq Files
           /\ \A f \in Reachable : ImportsOf(f) \subseteq Reachable
<1>1. ASSUME NEW f \in Files  PROVE ImportsOf(f) \subseteq Files
  <2>1. SUFFICES ASSUME NEW g \in ImportsOf(f)
                 PROVE  g \in Files
    OBVIOUS
  <2>2. PICK n \in ImportTokens(f) : \E m \in DOMAIN Resolve[src[f][n].name] :
                 g = Resolve[src[f][n].name][m]
    BY <2>1 DEF ImportsOf
  <2>3. src[f] \in Seq(Tokens)
    OBVIOUS
  <2>4. src[f][n] \in Tokens /\ src[f][n].t = "import"
    BY <2>3 DEF ImportTokens
  <2>5. Resolve[src[f][n].name] \in Seq(Files)
    BY <2>4, ImportToken, ResolveAssumption
  <2>6. QED BY <2>2, <2>5
<1>2. Main \in Reachable /\ Core \in Reachable
  BY FilesAssumption DEF Reachable, Closed
<1>3. ASSUME NEW f \in Reachable, NEW g \in ImportsOf(f)
      PROVE  g \in Reachable
  <2>1. f \in Files /\ g \in Files
    BY <1>1 DEF Reachable
  <2>2. \A S \in SUBSET Files : Closed(S) => f \in S /\ g \in S
    BY DEF Reachable, Closed
  <2>3. QED BY <2>1, <2>2 DEF Reachable
<1>4. QED BY <1>1, <1>2, <1>3 DEF Reachable

-------------------------------------------------------------------------------
(* The four ways a step changes the stack: the innermost unit goes on, calls      *)
(* another, returns to the one that waits for it, or everything stops.           *)
GoesOn ==
    /\ Running /\ UNCHANGED <<args, emitted, result>>
    /\ hasErrored' \in BOOLEAN /\ (hasErrored => hasErrored')
    /\ lspMode' \in BOOLEAN

SameUnit(v, u) ==
    v \in Unit /\ v.file = u.file /\ v.mode = u.mode /\ v.imports = u.imports

(* What the invariant says of the unit on top, while there is one.             *)
LEMMA StackFacts ==
    ASSUME Inv, Running
    PROVE  /\ stack \in Seq(Unit) /\ stack # <<>> /\ Len(stack) \in Nat \ {0}
           /\ DOMAIN stack = 1 .. Len(stack) /\ top = stack[1] /\ top \in Unit
           /\ rest = Tail(stack) /\ UnitOK(top)
           /\ stack[Len(stack)] \in Unit
<1>1. stack \in Seq(Unit) /\ stack # <<>>
  BY DEF Inv, TypeOK, WellNested
<1>2. Len(stack) \in Nat \ {0} /\ DOMAIN stack = 1 .. Len(stack) /\ top = stack[1]
      /\ top \in Unit
  BY <1>1, PopFacts DEF top
<1>3. 1 \in DOMAIN stack
  BY <1>2
<1>4. UnitOK(top)
  BY <1>2, <1>3 DEF Inv, UnitsOK
<1>5. QED BY <1>1, <1>2, <1>4 DEF rest

(* A step that changes the unit on top, and no other, keeps the invariant.     *)
LEMMA UnitGoesOn ==
    ASSUME Inv, GoesOn, coreImported = TRUE, coreImported' = TRUE,
           NEW STATE v, SameUnit(v, top), UnitOK(v),
           ~hasErrored' => Accounted(v, {}),
           stack' = <<v>> \o rest
    PROVE  Inv'
<1> DEFINE L == Len(stack)
<1>1. /\ stack \in Seq(Unit) /\ stack # <<>> /\ L \in Nat \ {0}
      /\ DOMAIN stack = 1 .. L /\ top = stack[1] /\ rest = Tail(stack)
  BY StackFacts DEF GoesOn
<1>2. /\ stack' \in Seq(Unit) /\ Len(stack') = L /\ stack'[1] = v /\ DOMAIN stack' = 1 .. L
      /\ \A n \in 2 .. L : stack'[n] = stack[n]
  BY <1>1, ReplaceFacts DEF SameUnit
<1>3. src' = src /\ lspFlag' = lspFlag /\ emitAst' = emitAst /\ emitted' = emitted
      /\ result' = result /\ result = "none"
  BY DEF GoesOn, args, Running
<1> HIDE DEF L
<1>4. TypeOK'
  BY <1>2, <1>3 DEF Inv, TypeOK, GoesOn
<1>5. \A n \in 1 .. L : stack'[n].file = stack[n].file /\ stack'[n].mode = stack[n].mode
                        /\ stack'[n].imports = stack[n].imports
  BY <1>1, <1>2 DEF SameUnit
<1>6. WellNested'
  <2>1. stack' # <<>>
    BY <1>1, <1>2
  <2>2. SUFFICES ASSUME NEW n \in 1 .. L
                 PROVE  /\ stack'[n].mode = "root" <=> n = L
                        /\ n > 1 => stack'[n].phase =
                             (IF stack'[n - 1].mode = "core" THEN "scan" ELSE "append")
    BY <2>1, <1>2 DEF WellNested
  <2>3. stack[n].mode = "root" <=> n = L
    BY <1>1, <1>3 DEF Inv, WellNested, Running, L
  <2>4. ASSUME n > 1
        PROVE  stack'[n].phase = (IF stack'[n - 1].mode = "core" THEN "scan" ELSE "append")
    <3>1. n \in 2 .. L /\ n - 1 \in 1 .. L
      BY <2>4, <1>1
    <3>2. stack[n].phase = (IF stack[n - 1].mode = "core" THEN "scan" ELSE "append")
      BY <2>4, <1>1, <1>3 DEF Inv, WellNested, Running
    <3>3. QED BY <3>1, <3>2, <1>2, <1>5
  <2>5. QED BY <2>3, <2>4, <1>5
<1>7. Ends' /\ EmittedClean'
  BY <1>3 DEF Inv, Ends, EmittedClean, Running
<1>8. RootIsMain'
  BY <1>1, <1>2, <1>5 DEF Inv, RootIsMain
<1>9. UnitsOK'
  <2>1. SUFFICES ASSUME NEW n \in 1 .. L  PROVE UnitOK(stack[n])'
    BY <1>2 DEF UnitsOK
  <2>2. CASE n = 1
    BY <2>2, <1>2, <1>3, SameProgram
  <2>3. CASE n \in 2 .. L
    <3>1. UnitOK(stack[n])
      BY <1>1 DEF Inv, UnitsOK
    <3>2. QED BY <2>3, <3>1, <1>2, <1>3, SameProgram
  <2>4. QED BY <2>2, <2>3, <1>1
<1>10. CoreFirst'
  <2>1. hasErrored' \/ Core \in Range(stack[L].imports) \/ (L > 1 /\ stack[L - 1].mode = "core")
    BY <1>3 DEF Inv, CoreFirst, GoesOn, Running, L
  <2>2. L \in 1 .. L /\ (L > 1 => L - 1 \in 1 .. L)
    BY <1>1
  <2>3. stack'[L].imports = stack[L].imports
        /\ (L > 1 => stack'[L - 1].mode = stack[L - 1].mode)
    BY <2>2, <1>5
  <2>4. QED BY <2>1, <2>3, <1>2 DEF CoreFirst
<1>11. OwnFiles'
  <2>1. Reachable' = Reachable
    BY <1>3, SameProgram
  <2>2. QED BY <2>1, <1>1, <1>2, <1>3, <1>5 DEF Inv, OwnFiles
<1>12. NothingForgotten'
  <2>1. SUFFICES ASSUME ~hasErrored', NEW n \in 1 .. L
                 PROVE  Accounted(stack[n], Kids(n))'
    BY <1>2 DEF NothingForgotten
  <2>2. CASE n = 1
    BY <2>1, <2>2, <1>2, <1>3, SameProgram DEF Kids
  <2>3. CASE n \in 2 .. L
    <3>1. Accounted(stack[n], Kids(n))
      BY <2>1, <1>1 DEF Inv, NothingForgotten, GoesOn
    <3>2. n # 1 /\ n - 1 \in 1 .. L
      BY <2>3, <1>1
    <3>3. stack'[n - 1].file = stack[n - 1].file
      BY <3>2, <1>5
    <3>4. Kids(n)' = Kids(n)
      BY <3>2, <3>3 DEF Kids
    <3>5. QED BY <2>3, <3>1, <3>4, <1>2, <1>3, SameProgram
  <2>4. QED BY <2>2, <2>3, <1>1
<1>13. KeptClean'
  <2>1. SUFFICES ASSUME ~hasErrored', NEW n \in 1 .. L, NEW m \in DOMAIN stack'[n].imports,
                        Terminated(stack[n].imports[m])'
                 PROVE  Clean(stack[n].imports[m])'
    BY <1>2 DEF KeptClean
  <2>2. stack'[n].imports = stack[n].imports
    BY <1>5
  <2>3. Terminated(stack[n].imports[m])
    BY <2>1, <2>2, <1>3, SameProgram
  <2>4. Clean(stack[n].imports[m])
    BY <2>1, <2>2, <2>3, <1>1 DEF Inv, KeptClean, GoesOn
  <2>5. QED BY <2>2, <2>4, <1>3, SameProgram
<1>14. QED BY <1>4, <1>6, <1>7, <1>8, <1>9, <1>10, <1>11, <1>12, <1>13 DEF Inv

(* A unit that was just made has nothing to answer for.                          *)
LEMMA NewUnitFacts ==
    ASSUME NEW f \in Files, NEW m \in Modes, m = "header" => f \in Headers
    PROVE  /\ NewUnit(f, m) \in Unit /\ UnitOK(NewUnit(f, m))
           /\ Accounted(NewUnit(f, m), {})
           /\ NewUnit(f, m).file = f /\ NewUnit(f, m).mode = m
           /\ NewUnit(f, m).phase = "open" /\ NewUnit(f, m).imports = <<>>
<1> DEFINE u == NewUnit(f, m)
<1>1. /\ u.file = f /\ u.mode = m /\ u.phase = "open" /\ u.imports = <<>>
      /\ u.toks = <<>> /\ u.queue = <<>> /\ DOMAIN u.toks = {} /\ DOMAIN u.queue = {}
  BY DEF NewUnit
<1>2. "open" \in Phases /\ <<>> \in Seq(Tokens) /\ <<>> \in Seq(Files) /\ 0 \in Nat
  BY EmptySeq DEF Phases
<1>3. u \in Unit
  BY <1>2 DEF NewUnit, Unit
<1> HIDE DEF u
<1>4. ListOK(u) /\ ImportsOK(u)
  BY <1>1 DEF ListOK, ImportsOK
<1>5. Accounted(u, {})
  BY <1>1 DEF Accounted
<1>6. QED BY <1>1, <1>3, <1>4, <1>5 DEF UnitOK, u

(* A step that puts a new unit above it does so too.                           *)
LEMMA UnitCalls ==
    ASSUME Inv, GoesOn, coreImported' = TRUE,
           NEW STATE v, SameUnit(v, top), UnitOK(v),
           NEW STATE f, f \in Reachable, NEW STATE m, m \in Modes \ {"root"},
           m = "header" => f \in Headers,
           m = "core" => f = Core,
           coreImported \/ m = "core",
           v.phase = (IF m = "core" THEN "scan" ELSE "append"),
           ~hasErrored' => Accounted(v, {f}),
           stack' = <<NewUnit(f, m)>> \o (<<v>> \o rest)
    PROVE  Inv'
<1> DEFINE L == Len(stack)
           u == NewUnit(f, m)
           below == <<v>> \o rest
<1>1. /\ stack \in Seq(Unit) /\ stack # <<>> /\ L \in Nat \ {0}
      /\ DOMAIN stack = 1 .. L /\ top = stack[1] /\ rest = Tail(stack)
  BY StackFacts DEF GoesOn
<1>2. /\ below \in Seq(Unit) /\ Len(below) = L /\ below[1] = v
      /\ \A n \in 2 .. L : below[n] = stack[n]
  BY <1>1, ReplaceFacts DEF SameUnit
<1>3. src' = src /\ lspFlag' = lspFlag /\ emitAst' = emitAst /\ emitted' = emitted
      /\ result' = result /\ result = "none"
  BY DEF GoesOn, args, Running
<1>4. f \in Files
  BY DEF Reachable
<1>5. /\ u \in Unit /\ UnitOK(u) /\ Accounted(u, {}) /\ u.file = f /\ u.mode = m
      /\ u.phase = "open" /\ u.imports = <<>>
  BY <1>4, NewUnitFacts
<1> HIDE DEF u, below
<1>6. /\ stack' \in Seq(Unit) /\ Len(stack') = L + 1 /\ DOMAIN stack' = 1 .. L + 1
      /\ stack'[1] = u /\ \A n \in 2 .. L + 1 : stack'[n] = below[n - 1]
  <2>1. stack' = <<u>> \o below
    BY DEF u, below
  <2> DEFINE above == <<u>> \o below
  <2>2. u \in Unit /\ below \in Seq(Unit) /\ Len(below) = L
    BY <1>2, <1>5
  <2> HIDE DEF L
  <2>3. /\ above \in Seq(Unit) /\ Len(above) = Len(below) + 1 /\ above[1] = u
        /\ \A n \in 2 .. Len(below) + 1 : above[n] = below[n - 1]
    BY <2>2, PushFacts
  <2> HIDE DEF above
  <2>4. stack' = above
    BY <2>1 DEF above
  <2>5. DOMAIN above = 1 .. Len(above)
    BY <2>3
  <2>6. QED BY <2>2, <2>3, <2>4, <2>5
<1> HIDE DEF L
<1>7. stack'[2] = v /\ \A n \in 3 .. L + 1 : stack'[n] = stack[n - 1]
  <2>1. 2 \in 2 .. L + 1 /\ 2 - 1 = 1
    BY <1>1
  <2>2. ASSUME NEW n \in 3 .. L + 1  PROVE stack'[n] = stack[n - 1]
    <3>1. n \in 2 .. L + 1 /\ n - 1 \in 2 .. L
      BY <1>1
    <3>2. QED BY <3>1, <1>2, <1>6
  <2>3. QED BY <2>1, <2>2, <1>2, <1>6
<1>8. \A n \in 2 .. L + 1 : /\ n - 1 \in 1 .. L
                            /\ stack'[n].file = stack[n - 1].file
                            /\ stack'[n].mode = stack[n - 1].mode
                            /\ stack'[n].imports = stack[n - 1].imports
  <2>1. ASSUME NEW n \in 2 .. L + 1
        PROVE  n - 1 \in 1 .. L /\ SameUnit(stack'[n], stack[n - 1])
    <3>1. n - 1 \in 1 .. L
      BY <1>1
    <3>2. CASE n = 2
      BY <3>2, <1>1, <1>7
    <3>3. CASE n \in 3 .. L + 1
      BY <3>1, <3>3, <1>1, <1>7 DEF SameUnit
    <3>4. QED BY <3>1, <3>2, <3>3, <1>1
  <2>2. QED BY <2>1 DEF SameUnit
<1>9. TypeOK'
  BY <1>3, <1>6 DEF Inv, TypeOK, GoesOn
<1>10. \A n \in 1 .. L : stack[n].mode = "root" <=> n = L
  BY <1>1, <1>3 DEF Inv, WellNested, Running, L
<1>11. WellNested'
  <2>1. stack' # <<>>
    BY <1>1, <1>6
  <2>2. SUFFICES ASSUME NEW n \in 1 .. L + 1
                 PROVE  /\ stack'[n].mode = "root" <=> n = L + 1
                        /\ n > 1 => stack'[n].phase =
                             (IF stack'[n - 1].mode = "core" THEN "scan" ELSE "append")
    BY <2>1, <1>6 DEF WellNested
  <2>3. CASE n = 1
    BY <2>3, <1>1, <1>5, <1>6
  <2>4. CASE n = 2
    BY <2>4, <1>1, <1>5, <1>6, <1>7, <1>10 DEF SameUnit
  <2>5. CASE n \in 3 .. L + 1
    <3>1. n - 1 \in 1 .. L /\ n - 1 > 1 /\ n - 1 \in 2 .. L + 1 /\ (n - 1 = L <=> n = L + 1)
      BY <2>5, <1>1
    <3>2. stack'[n].mode = "root" <=> n = L + 1
      BY <2>5, <3>1, <1>7, <1>10
    <3>3. stack[n - 1].phase = (IF stack[n - 1 - 1].mode = "core" THEN "scan" ELSE "append")
      BY <3>1, <1>1, <1>3 DEF Inv, WellNested, Running
    <3>4. stack'[n - 1].mode = stack[n - 1 - 1].mode
      BY <3>1, <1>8
    <3>5. QED BY <2>5, <3>2, <3>3, <3>4, <1>7
  <2>6. QED BY <2>3, <2>4, <2>5, <1>1
<1>12. Ends' /\ EmittedClean'
  BY <1>3 DEF Inv, Ends, EmittedClean, Running
<1>13. RootIsMain'
  <2>1. SUFFICES ASSUME NEW n \in 1 .. L + 1
                 PROVE  /\ stack'[n].mode = "root" => stack'[n].file = Main
                        /\ stack'[n].mode = "core" => stack'[n].file = Core
    BY <1>6 DEF RootIsMain
  <2>2. CASE n = 1
    BY <2>2, <1>5, <1>6
  <2>3. CASE n \in 2 .. L + 1
    BY <2>3, <1>1, <1>8 DEF Inv, RootIsMain
  <2>4. QED BY <2>2, <2>3, <1>1
<1>14. UnitsOK'
  <2>1. SUFFICES ASSUME NEW n \in 1 .. L + 1  PROVE UnitOK(stack[n])'
    BY <1>6 DEF UnitsOK
  <2>2. CASE n = 1
    BY <2>2, <1>3, <1>5, <1>6, SameProgram
  <2>3. CASE n = 2
    BY <2>3, <1>3, <1>7, SameProgram
  <2>4. CASE n \in 3 .. L + 1
    <3>1. n - 1 \in 1 .. L
      BY <2>4, <1>1
    <3>2. UnitOK(stack[n - 1])
      BY <3>1, <1>1 DEF Inv, UnitsOK
    <3>3. QED BY <2>4, <3>2, <1>3, <1>7, SameProgram
  <2>5. QED BY <2>2, <2>3, <2>4, <1>1
<1>15. CoreFirst'
  <2>1. L + 1 \in 2 .. L + 1 /\ L + 1 - 1 = L
    BY <1>1
  <2>2. stack'[L + 1].imports = stack[L].imports /\ Len(stack') - 1 = L
    BY <2>1, <1>1, <1>6, <1>8
  <2>3. CASE ~coreImported
    <3>1. L = 1 /\ m = "core"
      BY <2>3, <1>3 DEF Inv, CoreFirst, Running, L
    <3>2. stack'[L].mode = "core" /\ L + 1 > 1
      BY <3>1, <1>5, <1>6
    <3>3. QED BY <2>2, <3>2, <1>6 DEF CoreFirst
  <2>4. CASE coreImported
    <3>1. hasErrored' \/ Core \in Range(stack[L].imports) \/ (L > 1 /\ stack[L - 1].mode = "core")
      BY <2>4, <1>3 DEF Inv, CoreFirst, GoesOn, Running, L
    <3>2. ASSUME L > 1  PROVE stack'[L].mode = stack[L - 1].mode
      <4>1. L \in 2 .. L + 1
        BY <3>2, <1>1
      <4>2. QED BY <4>1, <1>8
    <3>3. L > 1 \/ L = 1
      BY <1>1
    <3>4. L + 1 > 1
      BY <1>1
    <3>5. QED BY <2>2, <3>1, <3>2, <3>3, <3>4, <1>6 DEF CoreFirst
  <2>5. QED BY <2>3, <2>4
<1>16. OwnFiles'
  <2>1. Reachable' = Reachable
    BY <1>3, SameProgram
  <2>2. SUFFICES ASSUME NEW n \in 1 .. L + 1
                 PROVE  /\ stack'[n].file \in Reachable
                        /\ \A k \in DOMAIN stack'[n].imports : stack'[n].imports[k] \in Reachable
    BY <2>1, <1>3, <1>6 DEF Inv, OwnFiles
  <2>3. CASE n = 1
    BY <2>3, <1>5, <1>6
  <2>4. CASE n \in 2 .. L + 1
    BY <2>4, <1>1, <1>8 DEF Inv, OwnFiles
  <2>5. QED BY <2>3, <2>4, <1>1
<1>17. NothingForgotten'
  <2>1. SUFFICES ASSUME ~hasErrored', NEW n \in 1 .. L + 1
                 PROVE  Accounted(stack[n], Kids(n))'
    BY <1>6 DEF NothingForgotten
  <2>2. CASE n = 1
    <3>1. Kids(n)' = {}
      BY <2>2 DEF Kids
    <3>2. QED BY <2>2, <3>1, <1>3, <1>5, <1>6, SameProgram
  <2>3. CASE n = 2
    <3>1. Kids(n)' = {f}
      BY <2>3, <1>5, <1>6 DEF Kids
    <3>2. QED BY <2>1, <2>3, <3>1, <1>3, <1>7, SameProgram
  <2>4. CASE n \in 3 .. L + 1
    <3>1. n - 1 \in 1 .. L /\ n - 1 # 1 /\ n # 1 /\ n - 1 \in 2 .. L + 1
      BY <2>4, <1>1
    <3>2. Accounted(stack[n - 1], Kids(n - 1))
      BY <3>1, <2>1, <1>1 DEF Inv, NothingForgotten, GoesOn
    <3>3. stack'[n - 1].file = stack[n - 1 - 1].file
      BY <3>1, <1>8
    <3>4. Kids(n)' = Kids(n - 1)
      BY <3>1, <3>3 DEF Kids
    <3>5. QED BY <2>4, <3>2, <3>4, <1>3, <1>7, SameProgram
  <2>5. QED BY <2>2, <2>3, <2>4, <1>1
<1>18. KeptClean'
  <2>1. SUFFICES ASSUME ~hasErrored', NEW n \in 1 .. L + 1, NEW k \in DOMAIN stack'[n].imports,
                        Terminated(stack[n].imports[k])'
                 PROVE  Clean(stack[n].imports[k])'
    BY <1>6 DEF KeptClean
  <2>2. CASE n = 1
    BY <2>1, <2>2, <1>5, <1>6
  <2>3. CASE n \in 2 .. L + 1
    <3>1. stack'[n].imports = stack[n - 1].imports /\ n - 1 \in DOMAIN stack
      BY <2>3, <1>1, <1>8
    <3>2. Terminated(stack[n - 1].imports[k])
      BY <2>1, <3>1, <1>3, SameProgram
    <3>3. Clean(stack[n - 1].imports[k])
      BY <2>1, <3>1, <3>2 DEF Inv, KeptClean, GoesOn
    <3>4. QED BY <3>1, <3>3, <1>3, SameProgram
  <2>4. QED BY <2>2, <2>3, <1>1
<1>19. QED BY <1>9, <1>11, <1>12, <1>13, <1>14, <1>15, <1>16, <1>17, <1>18 DEF Inv

(* So does one that takes the unit on top away and changes the one below it.   *)
LEMMA UnitReturns ==
    ASSUME Inv, GoesOn, coreImported' = coreImported, Len(stack) > 1,
           NEW STATE w, w \in Unit, UnitOK(w),
           w.file = stack[2].file, w.mode = stack[2].mode, w.phase = stack[2].phase,
           ~hasErrored' => Accounted(w, {}),
           ~hasErrored' => \A m \in DOMAIN w.imports :
                               Terminated(w.imports[m]) => Clean(w.imports[m]),
           \A m \in DOMAIN w.imports : w.imports[m] \in Reachable,
           \/ hasErrored' \/ Core \in Range(w.imports)
           \/ top.mode # "core" /\ Range(stack[2].imports) \subseteq Range(w.imports),
           stack' = <<w>> \o Tail(rest)
    PROVE  Inv'
<1> DEFINE L == Len(stack)
<1>1. /\ stack \in Seq(Unit) /\ stack # <<>> /\ L \in Nat \ {0} /\ L > 1
      /\ DOMAIN stack = 1 .. L /\ top = stack[1] /\ rest = Tail(stack)
  BY StackFacts DEF GoesOn
<1>2. src' = src /\ lspFlag' = lspFlag /\ emitAst' = emitAst /\ emitted' = emitted
      /\ result' = result /\ result = "none"
  BY DEF GoesOn, args, Running
<1>3. /\ stack' \in Seq(Unit) /\ Len(stack') = L - 1 /\ DOMAIN stack' = 1 .. L - 1
      /\ stack'[1] = w /\ \A n \in 2 .. L - 1 : stack'[n] = stack[n + 1]
  <2>1. stack' = <<w>> \o Tail(Tail(stack))
    BY <1>1
  <2>2. QED BY <2>1, <1>1, ReturnFacts
<1> HIDE DEF L
<1>0. \A n \in 1 .. L - 1 : n = 1 \/ n \in 2 .. L - 1
  <2>1. L \in Int
    BY <1>1
  <2>2. QED BY <2>1
<1>4. \A n \in 1 .. L - 1 : /\ n + 1 \in 1 .. L
                            /\ stack'[n].file = stack[n + 1].file
                            /\ stack'[n].mode = stack[n + 1].mode
                            /\ stack'[n].phase = stack[n + 1].phase
  <2>1. SUFFICES ASSUME NEW n \in 1 .. L - 1
                 PROVE  /\ n + 1 \in 1 .. L
                        /\ stack'[n].file = stack[n + 1].file
                        /\ stack'[n].mode = stack[n + 1].mode
                        /\ stack'[n].phase = stack[n + 1].phase
    OBVIOUS
  <2>2. n + 1 \in 1 .. L
    BY <1>1
  <2>3. CASE n = 1
    BY <2>2, <2>3, <1>3
  <2>4. CASE n \in 2 .. L - 1
    BY <2>2, <2>4, <1>3
  <2>5. QED BY <2>3, <2>4, <1>0
<1>5. TypeOK'
  BY <1>2, <1>3 DEF Inv, TypeOK, GoesOn
<1>6. \A n \in 1 .. L : /\ stack[n].mode = "root" <=> n = L
                        /\ n > 1 => stack[n].phase =
                             (IF stack[n - 1].mode = "core" THEN "scan" ELSE "append")
  BY <1>1, <1>2 DEF Inv, WellNested, Running, L
<1>7. WellNested'
  <2>1. stack' # <<>>
    BY <1>1, <1>3
  <2>2. SUFFICES ASSUME NEW n \in 1 .. L - 1
                 PROVE  /\ stack'[n].mode = "root" <=> n = L - 1
                        /\ n > 1 => stack'[n].phase =
                             (IF stack'[n - 1].mode = "core" THEN "scan" ELSE "append")
    BY <2>1, <1>3 DEF WellNested
  <2>3. n + 1 \in 1 .. L /\ (n + 1 = L <=> n = L - 1) /\ n + 1 > 1
    BY <1>1
  <2>4. stack'[n].mode = "root" <=> n = L - 1
    BY <2>3, <1>4, <1>6
  <2>5. ASSUME n > 1
        PROVE  stack'[n].phase = (IF stack'[n - 1].mode = "core" THEN "scan" ELSE "append")
    <3>1. n - 1 \in 1 .. L - 1 /\ n - 1 + 1 = n /\ n + 1 - 1 = n
      BY <2>5, <1>1
    <3>2. stack'[n - 1].mode = stack[n].mode
      BY <3>1, <1>4
    <3>3. stack[n + 1].phase = (IF stack[n].mode = "core" THEN "scan" ELSE "append")
      BY <2>3, <3>1, <1>6
    <3>4. QED BY <3>2, <3>3, <1>4
  <2>6. QED BY <2>4, <2>5
<1>8. Ends' /\ EmittedClean'
  BY <1>2 DEF Inv, Ends, EmittedClean, Running
<1>9. RootIsMain'
  <2>1. SUFFICES ASSUME NEW n \in 1 .. L - 1
                 PROVE  /\ stack'[n].mode = "root" => stack'[n].file = Main
                        /\ stack'[n].mode = "core" => stack'[n].file = Core
    BY <1>3 DEF RootIsMain
  <2>2. n + 1 \in DOMAIN stack
    BY <1>1, <1>4
  <2>3. QED BY <2>2, <1>4 DEF Inv, RootIsMain
<1>10. UnitsOK'
  <2>1. SUFFICES ASSUME NEW n \in 1 .. L - 1  PROVE UnitOK(stack[n])'
    BY <1>3 DEF UnitsOK
  <2>2. CASE n = 1
    BY <2>2, <1>2, <1>3, SameProgram
  <2>3. CASE n \in 2 .. L - 1
    <3>1. UnitOK(stack[n + 1])
      BY <1>1, <1>4 DEF Inv, UnitsOK
    <3>2. QED BY <2>3, <3>1, <1>2, <1>3, SameProgram
  <2>4. QED BY <2>2, <2>3, <1>0
<1>11. coreImported
  BY <1>1, <1>2 DEF Inv, CoreFirst, Running, L
<1>12. CoreFirst'
  <2>1. hasErrored' \/ Core \in Range(stack[L].imports) \/ stack[L - 1].mode = "core"
    BY <1>2, <1>11 DEF Inv, CoreFirst, GoesOn, Running, L
  <2>2. CASE L = 2
    <3>1. Core \in Range(stack'[1].imports) \/ hasErrored'
      BY <2>1, <2>2, <1>1, <1>3
    <3>2. Len(stack') = 1
      BY <2>2, <1>3
    <3>3. QED BY <3>1, <3>2, <1>11 DEF CoreFirst
  <2>3. CASE L > 2
    <3>1. L - 1 \in 2 .. L - 1 /\ L - 1 + 1 = L /\ L - 2 \in 1 .. L - 1 /\ L - 2 + 1 = L - 1
          /\ Len(stack') - 1 = L - 2 /\ L - 1 > 1
      BY <2>3, <1>1, <1>3
    <3>2. stack'[L - 1] = stack[L]
      BY <3>1, <1>3
    <3>3. stack'[L - 2].mode = stack[L - 1].mode
      BY <3>1, <1>4
    <3>4. QED BY <2>1, <3>1, <3>2, <3>3, <1>3, <1>11 DEF CoreFirst
  <2>4. QED BY <2>2, <2>3, <1>1
<1>13. OwnFiles'
  <2>1. Reachable' = Reachable
    BY <1>2, SameProgram
  <2>2. SUFFICES ASSUME NEW n \in 1 .. L - 1
                 PROVE  /\ stack'[n].file \in Reachable
                        /\ \A k \in DOMAIN stack'[n].imports : stack'[n].imports[k] \in Reachable
    BY <2>1, <1>2, <1>3 DEF Inv, OwnFiles
  <2>3. stack'[n].file \in Reachable
    BY <1>1, <1>4 DEF Inv, OwnFiles
  <2>4. CASE n = 1
    BY <2>3, <2>4, <1>3
  <2>5. CASE n \in 2 .. L - 1
    BY <2>3, <2>5, <1>1, <1>3, <1>4 DEF Inv, OwnFiles
  <2>6. QED BY <2>4, <2>5, <1>0
<1>14. NothingForgotten'
  <2>1. SUFFICES ASSUME ~hasErrored', NEW n \in 1 .. L - 1
                 PROVE  Accounted(stack[n], Kids(n))'
    BY <1>3 DEF NothingForgotten
  <2>2. CASE n = 1
    <3>1. Kids(n)' = {}
      BY <2>2 DEF Kids
    <3>2. QED BY <2>1, <2>2, <3>1, <1>2, <1>3, SameProgram
  <2>3. CASE n \in 2 .. L - 1
    <3>1. n # 1 /\ n + 1 # 1 /\ n - 1 \in 1 .. L - 1 /\ n - 1 + 1 = n /\ n + 1 - 1 = n
      BY <2>3, <1>1
    <3>2. Accounted(stack[n + 1], Kids(n + 1))
      BY <2>1, <1>1, <1>4 DEF Inv, NothingForgotten, GoesOn
    <3>3. stack'[n - 1].file = stack[n].file
      BY <3>1, <1>4
    <3>4. Kids(n)' = Kids(n + 1)
      <4>1. Kids(n)' = {stack'[n - 1].file}
        BY <3>1 DEF Kids
      <4>2. stack[n + 1 - 1] = stack[n]
        BY <3>1
      <4>3. Kids(n + 1) = {stack[n].file}
        BY <3>1, <4>2 DEF Kids
      <4>4. QED BY <4>1, <4>3, <3>3
    <3>5. QED BY <2>3, <3>2, <3>4, <1>2, <1>3, SameProgram
  <2>4. QED BY <2>2, <2>3, <1>0
<1>15. KeptClean'
  <2>1. SUFFICES ASSUME ~hasErrored', NEW n \in 1 .. L - 1, NEW k \in DOMAIN stack'[n].imports,
                        Terminated(stack[n].imports[k])'
                 PROVE  Clean(stack[n].imports[k])'
    BY <1>3 DEF KeptClean
  <2>2. CASE n = 1
    <3>1. stack'[n] = w
      BY <2>2, <1>3
    <3>2. Terminated(w.imports[k])
      BY <2>1, <3>1, <1>2, SameProgram
    <3>3. Clean(w.imports[k])
      BY <2>1, <3>1, <3>2
    <3>4. QED BY <3>1, <3>3, <1>2, SameProgram
  <2>3. CASE n \in 2 .. L - 1
    <3>1. stack'[n] = stack[n + 1] /\ n + 1 \in DOMAIN stack
      BY <2>3, <1>1, <1>3, <1>4
    <3>2. Terminated(stack[n + 1].imports[k])
      BY <2>1, <3>1, <1>2, SameProgram
    <3>3. Clean(stack[n + 1].imports[k])
      BY <2>1, <3>1, <3>2 DEF Inv, KeptClean, GoesOn
    <3>4. QED BY <3>1, <3>3, <1>2, SameProgram
  <2>4. QED BY <2>2, <2>3, <1>0
<1>16. QED BY <1>5, <1>7, <1>8, <1>9, <1>10, <1>12, <1>13, <1>14, <1>15 DEF Inv

(* So does one that ends the program.                                          *)
LEMMA EverythingStops ==
    ASSUME Inv, Running, UNCHANGED args, stack' = <<>>, result' \in Results \ {"none"},
           hasErrored' \in BOOLEAN, coreImported' \in BOOLEAN, lspMode' \in BOOLEAN,
           emitted' \in Seq(Files),
           \A m \in DOMAIN emitted' : emitted'[m] \in Reachable,
           result' = "0" =>
               /\ ~hasErrored' /\ Main \in Range(emitted') /\ Core \in Range(emitted')
               /\ \A m \in DOMAIN emitted' : Terminated(emitted'[m]) => Clean(emitted'[m])
    PROVE  Inv'
<1>1. src' = src /\ lspFlag' = lspFlag /\ emitAst' = emitAst
  BY DEF args
<1>2. stack' \in Seq(Unit) /\ DOMAIN stack' = {}
  BY EmptySeq
<1>3. TypeOK'
  BY <1>1, <1>2 DEF Inv, TypeOK
<1>4. WellNested' /\ Ends' /\ RootIsMain' /\ UnitsOK' /\ CoreFirst' /\ NothingForgotten' /\ KeptClean'
  BY <1>2 DEF WellNested, Ends, RootIsMain, UnitsOK, CoreFirst, NothingForgotten, KeptClean, Running
<1>5. OwnFiles'
  BY <1>1, <1>2, SameProgram DEF OwnFiles
<1>6. EmittedClean'
  <2>1. SUFFICES ASSUME result' = "0"
                 PROVE  /\ ~hasErrored' /\ Main \in Range(emitted') /\ Core \in Range(emitted')
                        /\ \A m \in DOMAIN emitted' :
                              Terminated(emitted[m])' => Clean(emitted[m])'
    BY DEF EmittedClean
  <2>2. ASSUME NEW m \in DOMAIN emitted', Terminated(emitted[m])'
        PROVE  Clean(emitted[m])'
    <3>1. Terminated(emitted'[m])
      BY <2>2, <1>1, SameProgram
    <3>2. Clean(emitted'[m])
      BY <2>1, <3>1
    <3>3. QED BY <3>2, <1>1, SameProgram
  <2>3. QED BY <2>1, <2>2
<1>7. QED BY <1>3, <1>4, <1>5, <1>6 DEF Inv

-------------------------------------------------------------------------------
(* The steps, one by one.  First those that end it all.                          *)
LEMMA StopKeeps ==
    ASSUME Inv, Running, UNCHANGED args, NEW STATE how,
           how \in {"1", "2", "exit", "panic", "crash"}, Stop(how),
           hasErrored' \in BOOLEAN, coreImported' \in BOOLEAN, lspMode' \in BOOLEAN
    PROVE  Inv'
<1>1. stack' = <<>> /\ result' = how /\ emitted' = emitted
  BY DEF Stop
<1>2. emitted = <<>> /\ emitted \in Seq(Files) /\ DOMAIN emitted = {}
  BY DEF Inv, Ends, TypeOK
<1>3. result' \in Results \ {"none"} /\ result' # "0"
  BY <1>1 DEF Results
<1>4. QED BY <1>1, <1>2, <1>3, EverythingStops

(* The steps that end the program in an error are of that shape.               *)
LEMMA EndingSteps ==
    ASSUME Inv,
           \/ OpenMissing \/ OpenUnlexable \/ ProcessFileImport \/ ProcessBadPath
           \/ ProcessForeign \/ ProcessUnreadable \/ ProcessUnterminated
    PROVE  Inv'
<1>1. hasErrored \in BOOLEAN /\ coreImported \in BOOLEAN /\ lspMode \in BOOLEAN
  BY DEF Inv, TypeOK
<1>2. CASE OpenMissing
  <2>1. \E how \in {"exit", "crash"} : Stop(how)
    BY <1>2 DEF OpenMissing
  <2>2. QED BY <1>1, <1>2, <2>1, StopKeeps DEF OpenMissing
<1>3. CASE OpenUnlexable
  BY <1>1, <1>3, StopKeeps DEF OpenUnlexable
<1>4. CASE ProcessFileImport
  BY <1>1, <1>4, StopKeeps DEF ProcessFileImport, globals
<1>5. CASE ProcessBadPath
  BY <1>1, <1>5, StopKeeps DEF ProcessBadPath
<1>8. CASE ProcessForeign
  BY <1>1, <1>8, StopKeeps DEF ProcessForeign
<1>6. CASE ProcessUnreadable
  <2>1. Stop("exit") \/ Stop("panic")
    BY <1>6 DEF ProcessUnreadable
  <2>2. QED BY <1>1, <1>6, <2>1, StopKeeps DEF ProcessUnreadable
<1>7. CASE ProcessUnterminated
  BY <1>1, <1>7, StopKeeps DEF ProcessUnterminated
<1>9. QED BY <1>2, <1>3, <1>4, <1>5, <1>6, <1>7, <1>8

(* An error that is recorded and nothing else.                                   *)
LEMMA ReportingSteps ==
    ASSUME Inv, ProcessMalformed \/ ProcessUnresolved
    PROVE  Inv'
<1>1. /\ Running /\ UNCHANGED <<args, stack, coreImported, lspMode, emitted, result>>
      /\ hasErrored' = TRUE /\ stack # <<>> /\ result = "none"
  BY DEF ProcessMalformed, ProcessUnresolved, Inv, WellNested, Running
<1>2. src' = src /\ stack' = stack /\ coreImported' = coreImported /\ emitted' = emitted
      /\ result' = result /\ lspFlag' = lspFlag /\ emitAst' = emitAst /\ lspMode' = lspMode
  BY <1>1 DEF args
<1>3. TypeOK' /\ WellNested' /\ Ends' /\ RootIsMain'
  BY <1>1, <1>2 DEF Inv, TypeOK, WellNested, Ends, RootIsMain, Running
<1>4. UnitsOK'
  BY <1>2, SameProgram DEF Inv, UnitsOK
<1>5. NothingForgotten' /\ KeptClean' /\ EmittedClean'
  BY <1>1, <1>2 DEF NothingForgotten, KeptClean, EmittedClean
<1>6. CoreFirst'
  BY <1>1, <1>2 DEF Inv, CoreFirst, Running
<1>7. OwnFiles'
  BY <1>2, SameProgram DEF Inv, OwnFiles
<1>8. QED BY <1>3, <1>4, <1>5, <1>6, <1>7 DEF Inv

(* A unit that has been lexed holds its file as it is.                           *)
LEMMA LexedUnit ==
    ASSUME src \in [Files -> Seq(Tokens)], NEW u \in Unit, u.phase = "open", ListOK(u),
           u.mode = "header" => u.file \in Headers,
           u.file \in OnDisk, Lexable(u.file)
    PROVE  LET v == [u EXCEPT !.toks = Lexed(u.file), !.phase = "scan"]
           IN SameUnit(v, u) /\ UnitOK(v) /\ \A kids : Accounted(v, kids)
<1> DEFINE f == u.file
           s == src[f]
           t == Lexed(f)
           v == [u EXCEPT !.toks = t, !.phase = "scan"]
<1>1. f \in Files /\ s \in Seq(Tokens) /\ Plain("eof") \in Tokens /\ Plain("eof").t = "eof"
  BY EofToken DEF Unit
<1>2. /\ t \in Seq(Tokens) /\ t # <<>> /\ Len(t) = Len(s) + 1 /\ t[Len(s) + 1] = Plain("eof")
      /\ \A n \in 1 .. Len(s) : t[n] = s[n]
  BY <1>1, AppendProperties DEF Lexed
<1>3. DOMAIN s = 1 .. Len(s) /\ DOMAIN t = 1 .. Len(s) + 1 /\ Len(s) \in Nat
  BY <1>1, <1>2
<1>4. v \in Unit /\ v.toks = t /\ v.phase = "scan" /\ v.file = f /\ v.mode = u.mode
      /\ v.imports = u.imports /\ v.queue = u.queue /\ v.at = u.at
  BY <1>2 DEF Unit, Phases
<1>5. u.queue = <<>> /\ DOMAIN v.queue = {}
  BY <1>4 DEF ListOK
<1> HIDE DEF f, s, t, v
<1>6. ListOK(v)
  BY <1>1, <1>2, <1>4, <1>5 DEF ListOK, f
<1>7. ImportsOK(v)
  <2>1. SUFFICES ASSUME NEW m \in 1 .. Len(s) + 1, t[m].t = "import"
                 PROVE  /\ \E k \in DOMAIN src[f] : src[f][k] = t[m]
                        /\ Terminated(f) => m < Len(t) /\ t[m + 1].t = "semi"
    BY <1>3, <1>4, <1>5 DEF ImportsOK
  <2>2. m \in 1 .. Len(s) /\ t[m] = s[m]
    BY <2>1, <1>1, <1>2, <1>3
  <2>3. ASSUME Terminated(f)
        PROVE  m < Len(t) /\ t[m + 1].t = "semi"
    <3>1. m < Len(s) /\ s[m + 1].t = "semi"
      BY <2>1, <2>2, <2>3, <1>3 DEF Terminated, ImportTokens, s
    <3>2. m + 1 \in 1 .. Len(s)
      BY <2>2, <3>1, <1>3
    <3>3. QED BY <3>1, <3>2, <1>2, <1>3
  <2>4. QED BY <2>2, <2>3, <1>3 DEF s
<1>8. \A kids : Accounted(v, kids)
  <2>1. \A k \in DOMAIN s : k \in DOMAIN t /\ t[k] = s[k]
    BY <1>2, <1>3
  <2>2. QED BY <2>1, <1>4 DEF Accounted, s
<1>9. QED BY <1>4, <1>6, <1>7, <1>8 DEF UnitOK, SameUnit, v, t, f

(* Only the first unit is there before core was imported.                        *)
LEMMA LexedMeansCore ==
    ASSUME Inv, Running, top.phase # "open"
    PROVE  coreImported = TRUE
BY StackFacts DEF Inv, CoreFirst, TypeOK

(* While no error is on record, no import of the unit on top is forgotten.     *)
LEMMA TopAccounted ==
    ASSUME Inv, Running, ~hasErrored
    PROVE  Accounted(top, {})
<1>1. 1 \in DOMAIN stack /\ top = stack[1] /\ Kids(1) = {}
  BY StackFacts DEF Kids
<1>2. QED BY <1>1 DEF Inv, NothingForgotten

(* The beginning of a unit keeps the invariant.                                *)
LEMMA OpenStep ==
    ASSUME Inv, Open
    PROVE  Inv'
<1> DEFINE v == [top EXCEPT !.toks = Lexed(top.file), !.phase = "scan"]
<1>1. Running /\ top.phase = "open" /\ top.file \in OnDisk /\ Lexable(top.file)
      /\ coreImported' = TRUE
      /\ UNCHANGED <<args, hasErrored, lspMode>>
      /\ IF coreImported THEN Update(v) ELSE PushOn(<<v>> \o rest, Core, "core")
  BY DEF Open
<1>2. top \in Unit /\ UnitOK(top)
  BY <1>1, StackFacts
<1>3. SameUnit(v, top) /\ UnitOK(v) /\ \A kids : Accounted(v, kids)
  BY <1>1, <1>2, LexedUnit DEF Inv, TypeOK, UnitOK
<1> HIDE DEF v
<1>4. hasErrored \in BOOLEAN /\ lspMode \in BOOLEAN /\ coreImported \in BOOLEAN
  BY DEF Inv, TypeOK
<1>5. CASE coreImported
  <2>1. stack' = <<v>> \o rest /\ UNCHANGED <<emitted, result>>
    BY <1>1, <1>5 DEF Update
  <2>2. GoesOn /\ coreImported = TRUE
    BY <2>1, <1>1, <1>4, <1>5 DEF GoesOn
  <2>3. QED BY <2>1, <2>2, <1>1, <1>3, UnitGoesOn
<1>6. CASE ~coreImported
  <2>1. \/ Stop("crash")
        \/ stack' = <<NewUnit(Core, "core")>> \o (<<v>> \o rest) /\ UNCHANGED <<emitted, result>>
    BY <1>1, <1>6 DEF PushOn
  <2>2. CASE Stop("crash")
    BY <2>2, <1>1, <1>4, StopKeeps
  <2>3. CASE stack' = <<NewUnit(Core, "core")>> \o (<<v>> \o rest) /\ UNCHANGED <<emitted, result>>
    <3>1. GoesOn
      BY <2>3, <1>1, <1>4 DEF GoesOn
    <3>2. Core \in Reachable /\ "core" \in Modes \ {"root"}
      BY ReachableFacts DEF Inv, TypeOK, Modes
    <3>3. v.phase = "scan"
      <4>1. DOMAIN top = {"file", "mode", "phase", "toks", "at", "queue", "imports"}
        BY <1>2 DEF Unit
      <4>2. QED BY <4>1 DEF v
    <3>4. QED BY <2>3, <3>1, <3>2, <3>3, <1>1, <1>3, UnitCalls
  <2>4. QED BY <2>1, <2>2, <2>3
<1>7. QED BY <1>4, <1>5, <1>6

(* A statement that was processed: its files wait in the queue.                  *)
LEMMA ProcessedUnit ==
    ASSUME src \in [Files -> Seq(Tokens)], NEW u \in Unit, UnitOK(u), Scanning(u), Named(u),
           SemisAfter(u.toks, FirstImport(u.toks)) # {}
    PROVE  LET p == FirstImport(u.toks)
               stmt == u.toks[p]
               files == Resolve[stmt.name]
               v == [u EXCEPT
                        !.toks  = Splice(RemoveImport(@, p), p, Aliases(stmt.form, files)),
                        !.at    = p,
                        !.queue = files,
                        !.phase = "append"]
           IN /\ SameUnit(v, u) /\ UnitOK(v)
              /\ Accounted(u, {}) /\ stmt.name \notin Reported => Accounted(v, {})
<1> DEFINE s == u.toks
           p == FirstImport(s)
           stmt == s[p]
           files == Resolve[stmt.name]
           ins == Aliases(stmt.form, files)
           q == FirstSemi(s, p)
           t == Splice(RemoveImport(s, p), p, ins)
           k == Len(ins)
           d == k - (q - p)
           v == [u EXCEPT !.toks = t, !.at = p, !.queue = files, !.phase = "append"]
<1>1. s \in Seq(Tokens) /\ Len(s) \in Nat /\ DOMAIN s = 1 .. Len(s) /\ HasImport(s)
      /\ u.phase = "scan" /\ ListOK(u) /\ ImportsOK(u)
  BY DEF Unit, Scanning, UnitOK
<1>2. p \in 1 .. Len(s) /\ stmt.t = "import" /\ \A m \in 1 .. p - 1 : s[m].t # "import"
  BY <1>1, FirstImportFacts
<1>3. stmt \in Tokens /\ stmt.name \in Names /\ files \in Seq(Files)
      /\ stmt.form \in {"plain", "wildcard"}
  <2>1. stmt \in Tokens
    BY <1>1, <1>2
  <2>2. stmt.name \in Names
    BY <2>1, <1>2, ImportToken
  <2>3. QED BY <2>1, <2>2, ResolveAssumption DEF Named, ImportAt
<1>4. ins \in Seq(Tokens) /\ k \in Nat /\ \A m \in 1 .. k : ins[m].t = "alias"
  <2>1. ins \in Seq(AliasTokens)
    BY <1>3, AliasFacts
  <2>2. AliasTokens \subseteq Tokens /\ \A tok \in AliasTokens : tok.t = "alias"
    BY AliasToken DEF AliasTokens
  <2> HIDE DEF ins
  <2>3. ins \in Seq(Tokens)
    BY <2>1, <2>2, SeqMonotonic
  <2>4. QED BY <2>1, <2>2, <2>3
<1>5. SemisAfter(s, p) # {}
  OBVIOUS
<1> HIDE DEF s, p, ins
<1>6. /\ t \in Seq(Tokens) /\ Len(t) = Len(s) + d /\ p + k <= Len(t)
      /\ q \in p + 1 .. Len(s)
      /\ \A n \in 1 .. p - 1 : t[n] = s[n]
      /\ \A n \in 1 .. k : t[p - 1 + n] = ins[n]
      /\ \A n \in q .. Len(s) : t[n + d] = s[n]
  BY <1>1, <1>2, <1>4, <1>5, ReplaceStatement
<1>7. \A m \in p + 1 .. q - 1 : s[m].t # "semi"
  BY <1>1, <1>2, <1>5, FirstSemiFacts
<1> HIDE DEF q, t, k, stmt
<1>8. /\ v \in Unit /\ v.toks = t /\ v.phase = "append" /\ v.file = u.file /\ v.mode = u.mode
      /\ v.imports = u.imports /\ v.queue = files /\ v.at = p
  <2>1. p \in Nat /\ t \in Seq(Tokens) /\ files \in Seq(Files) /\ "append" \in Phases
    BY <1>1, <1>2, <1>3, <1>6 DEF Phases
  <2> HIDE DEF files
  <2>2. QED BY <2>1 DEF Unit
<1>10. d \in Int /\ d = k - (q - p) /\ Len(t) \in Nat /\ p \in Int /\ q \in Int /\ k \in Int
       /\ Len(t) = Len(s) + d
  BY <1>1, <1>2, <1>4, <1>6 DEF d
<1> HIDE DEF v, d
<1>9. \A n \in 1 .. Len(t) : \/ n \in 1 .. p - 1
                             \/ t[n].t = "alias"
                             \/ n - d \in q .. Len(s) /\ t[n] = s[n - d]
  <2>1. SUFFICES ASSUME NEW n \in 1 .. Len(t), n >= p
                 PROVE  t[n].t = "alias" \/ (n - d \in q .. Len(s) /\ t[n] = s[n - d])
    BY <1>1, <1>2, <1>6
  <2>2. CASE n < p + k
    <3>1. n - p + 1 \in 1 .. k /\ p - 1 + (n - p + 1) = n
      BY <2>1, <2>2, <1>2, <1>4
    <3>2. t[n] = ins[n - p + 1]
      BY <3>1, <1>6
    <3>3. QED BY <3>1, <3>2, <1>4
  <2>3. CASE n >= p + k
    <3>1. n \in Int /\ n - d \in Int /\ n - d + d = n
      BY <2>1, <1>10
    <3>2. q <= n - d /\ n - d <= Len(s)
      BY <2>1, <2>3, <3>1, <1>1, <1>10
    <3>3. n - d \in q .. Len(s)
      BY <3>1, <3>2, <1>1, <1>10
    <3> DEFINE i == n - d
    <3>4. i \in q .. Len(s) /\ i + d = n
      BY <3>1, <3>3
    <3> HIDE DEF i
    <3>5. t[n] = s[i]
      BY <3>4, <1>6
    <3>6. QED BY <3>4, <3>5 DEF i
  <2>4. QED BY <2>1, <2>2, <2>3, <1>2, <1>4
<1>11. ListOK(v)
  <2>1. Len(s) \in q .. Len(s) /\ Len(t) # 0
    BY <1>1, <1>2, <1>4, <1>6, <1>10
  <2>2. t[Len(t)] = s[Len(s)] /\ t # <<>>
    BY <2>1, <1>6
  <2>3. p \in 1 .. Len(t)
    BY <1>2, <1>4, <1>6, <1>10
  <2>4. s[Len(s)].t = "eof" /\ u.file \in OnDisk /\ Lexable(u.file)
    BY <1>1 DEF ListOK, s
  <2>5. QED BY <2>2, <2>3, <2>4, <1>2, <1>6, <1>8 DEF ListOK
<1>12. ImportsOK(v)
  <2>1. ASSUME NEW m \in DOMAIN t, t[m].t = "import"
        PROVE  /\ \E j \in DOMAIN src[u.file] : src[u.file][j] = t[m]
               /\ Terminated(u.file) => m < Len(t) /\ t[m + 1].t = "semi"
    <3>1. m \in 1 .. Len(t) /\ m \notin 1 .. p - 1
      BY <2>1, <1>2, <1>6
    <3>2. m - d \in q .. Len(s) /\ t[m] = s[m - d]
      BY <2>1, <3>1, <1>9
    <3>3. m - d \in DOMAIN s
      BY <3>2, <1>1, <1>2, <1>6
    <3>4. /\ \E j \in DOMAIN src[u.file] : src[u.file][j] = s[m - d]
          /\ Terminated(u.file) => m - d < Len(s) /\ s[m - d + 1].t = "semi"
      BY <2>1, <3>2, <3>3, <1>1 DEF ImportsOK, s
    <3>5. ASSUME Terminated(u.file)
          PROVE  m < Len(t) /\ t[m + 1].t = "semi"
      <4> DEFINE i == m - d + 1
      <4>1. i \in q .. Len(s) /\ i + d = m + 1 /\ m < Len(t)
        <5>1. m \in Int /\ m - d \in Int /\ m - d < Len(s) /\ q <= m - d
          BY <3>1, <3>2, <3>4, <3>5, <1>1, <1>10
        <5>2. m < Len(t)
          BY <5>1, <1>1, <1>10
        <5>3. QED BY <5>1, <5>2, <1>1, <1>10
      <4>2. s[i].t = "semi"
        BY <3>4, <3>5
      <4> HIDE DEF i
      <4>3. t[i + d] = s[i]
        BY <4>1, <1>6
      <4>4. QED BY <4>1, <4>2, <4>3
    <3>6. QED BY <3>2, <3>4, <3>5
  <2>2. ASSUME NEW m \in DOMAIN files
        PROVE  files[m] \in ImportsOf(u.file)
    <3>1. PICK j \in DOMAIN src[u.file] : src[u.file][j] = stmt
      BY <1>1, <1>2 DEF ImportsOK, s, stmt
    <3>2. j \in ImportTokens(u.file) /\ files = Resolve[src[u.file][j].name]
      BY <3>1, <1>2 DEF ImportTokens, stmt
    <3>3. files[m] \in {Resolve[src[u.file][j].name][i] : i \in DOMAIN Resolve[src[u.file][j].name]}
      BY <2>2, <3>2
    <3>4. QED BY <3>2, <3>3 DEF ImportsOf
  <2>3. /\ \A m \in DOMAIN v.toks : v.toks[m].t = "import" =>
              /\ \E j \in DOMAIN src[v.file] : src[v.file][j] = v.toks[m]
              /\ Terminated(v.file) => m < Len(v.toks) /\ v.toks[m + 1].t = "semi"
        /\ \A m \in DOMAIN v.queue : v.queue[m] \in ImportsOf(v.file)
    BY <2>1, <2>2, <1>8
  <2>4. QED BY <2>3 DEF ImportsOK
<1>13. ASSUME Accounted(u, {}), stmt.name \notin Reported
       PROVE  Accounted(v, {})
  <2>1. SUFFICES ASSUME Terminated(u.file), ~Spoilt(v)
                 PROVE  \A j \in DOMAIN src[u.file] : Matters(src[u.file][j]) =>
                            \/ \E m \in DOMAIN t : t[m] = src[u.file][j]
                            \/ Settled(v, {}, src[u.file][j])
    BY <1>8 DEF Accounted
  <2>2. q = p + 1
    <3>1. p < Len(s) /\ s[p + 1].t = "semi"
      BY <2>1, <1>1, <1>2 DEF ImportsOK, s, stmt
    <3>2. QED BY <3>1, <1>1, <1>2, <1>6, <1>7
  <2>3. ASSUME NEW m \in DOMAIN s, m # p
        PROVE  \E n \in DOMAIN t : t[n] = s[m] /\ (m < Len(s) => n < Len(t))
    <3>1. CASE m < p
      <4>1. m \in 1 .. p - 1 /\ m \in 1 .. Len(t) /\ m < Len(t)
        BY <3>1, <1>1, <1>2, <1>4, <1>6, <1>10
      <4>2. QED BY <4>1, <1>6
    <3>2. CASE m > p
      <4>1. m \in q .. Len(s) /\ m + d \in 1 .. Len(t) /\ (m < Len(s) => m + d < Len(t))
        BY <2>2, <3>2, <1>1, <1>2, <1>4, <1>6, <1>10
      <4>2. QED BY <4>1, <1>6
    <3>3. QED BY <2>3, <3>1, <3>2, <1>1, <1>2
  <2>4. ~Spoilt(u)
    <3>1. SUFFICES ASSUME NEW m \in DOMAIN s, m < Len(s), s[m].t = "eof"
                   PROVE  FALSE
      BY DEF Spoilt, s
    <3>2. m # p
      BY <3>1, <1>2 DEF stmt
    <3>3. PICK n \in DOMAIN t : t[n] = s[m] /\ n < Len(t)
      BY <3>1, <3>2, <2>3
    <3>4. QED BY <2>1, <3>1, <3>3, <1>8 DEF Spoilt
  <2>5. SUFFICES ASSUME NEW j \in DOMAIN src[u.file], Matters(src[u.file][j])
                 PROVE  \/ \E m \in DOMAIN t : t[m] = src[u.file][j]
                        \/ Settled(v, {}, src[u.file][j])
    OBVIOUS
  <2> DEFINE tok == src[u.file][j]
  <2>6. \/ \E m \in DOMAIN s : s[m] = tok
        \/ Settled(u, {}, tok)
    BY <2>1, <2>4, <2>5, <1>1, <1>13 DEF Accounted, s
  <2> HIDE DEF tok
  <2>7. ASSUME NEW m \in DOMAIN s, s[m] = tok
        PROVE  (\E n \in DOMAIN t : t[n] = tok) \/ Settled(v, {}, tok)
    <3>1. CASE m = p
      <4>1. tok = stmt
        BY <2>7, <3>1 DEF stmt
      <4>2. \A n \in DOMAIN files : files[n] \in Range(files)
        BY DEF Range
      <4>3. QED BY <4>1, <4>2, <1>2, <1>3, <1>8, <1>13 DEF Settled
    <3>2. CASE m # p
      BY <2>3, <2>7, <3>2
    <3>3. QED BY <3>1, <3>2
  <2>8. ASSUME Settled(u, {}, tok)
        PROVE  Settled(v, {}, tok)
    <3>1. u.queue = <<>> /\ Range(u.queue) = {}
      BY <1>1 DEF ListOK, Range
    <3>2. QED BY <2>8, <3>1, <1>8 DEF Settled
  <2>9. QED BY <2>6, <2>7, <2>8 DEF tok
<1>14. SameUnit(v, u) /\ UnitOK(v)
  BY <1>8, <1>11, <1>12 DEF SameUnit, UnitOK
<1>15. QED BY <1>13, <1>14 DEF v, t, s, p, stmt, ins

(* One import statement, processed, keeps the invariant.                       *)
LEMMA ProcessStep ==
    ASSUME Inv, Process
    PROVE  Inv'
<1> DEFINE p == FirstImport(top.toks)
           stmt == top.toks[p]
           files == Resolve[stmt.name]
           v == [top EXCEPT
                    !.toks  = Splice(RemoveImport(@, p), p, Aliases(stmt.form, files)),
                    !.at    = p,
                    !.queue = files,
                    !.phase = "append"]
           more == ReadsFiles(top) /\ \E n \in DOMAIN files : files[n] \notin OnDisk
<1>1. /\ Running /\ Scanning(top) /\ Named(top) /\ SemisAfter(top.toks, p) # {}
      /\ Update(v) /\ hasErrored' = (hasErrored \/ stmt.name \in Reported \/ more)
      /\ UNCHANGED <<args, coreImported, lspMode>>
  BY DEF Process
<1>2. top \in Unit /\ UnitOK(top) /\ src \in [Files -> Seq(Tokens)] /\ top.phase # "open"
  BY <1>1, StackFacts DEF Inv, TypeOK, Scanning
<1>3. /\ SameUnit(v, top) /\ UnitOK(v)
      /\ Accounted(top, {}) /\ stmt.name \notin Reported => Accounted(v, {})
  BY <1>1, <1>2, ProcessedUnit
<1> HIDE DEF v, stmt, more
<1>4. hasErrored' \in BOOLEAN /\ (~hasErrored' => ~hasErrored /\ stmt.name \notin Reported)
  BY <1>1
<1>5. stack' = <<v>> \o rest /\ GoesOn
  BY <1>1, <1>4 DEF Update, GoesOn, Inv, TypeOK
<1>6. ~hasErrored' => Accounted(v, {})
  BY <1>1, <1>3, <1>4, TopAccounted
<1>7. coreImported = TRUE /\ coreImported' = TRUE
  BY <1>1, <1>2, LexedMeansCore
<1>8. QED BY <1>3, <1>5, <1>6, <1>7, UnitGoesOn

(* Another phase, and nothing else of the unit.                                  *)
LEMMA NextPhase ==
    ASSUME NEW u \in Unit, UnitOK(u), u.phase # "open", u.queue = <<>>,
           NEW ph \in {"scan", "parse"},
           ph = "parse" => ~HasImport(u.toks) /\ u.mode # "header"
    PROVE  LET v == [u EXCEPT !.phase = ph]
           IN SameUnit(v, u) /\ UnitOK(v) /\ (Accounted(u, {}) => Accounted(v, {}))
<1> DEFINE v == [u EXCEPT !.phase = ph]
<1>1. /\ v \in Unit /\ v.file = u.file /\ v.mode = u.mode /\ v.imports = u.imports
      /\ v.toks = u.toks /\ v.queue = u.queue /\ v.at = u.at /\ v.phase = ph
  BY DEF Unit, Phases
<1> HIDE DEF v
<1>2. ListOK(v)
  BY <1>1 DEF UnitOK, ListOK
<1>3. ImportsOK(v)
  BY <1>1 DEF UnitOK, ImportsOK
<1>4. Accounted(u, {}) => Accounted(v, {})
  BY <1>1 DEF Accounted, Spoilt, Settled
<1>5. QED BY <1>1, <1>2, <1>3, <1>4 DEF SameUnit, UnitOK, v

(* The end of the files to append keeps the invariant.                         *)
LEMMA EndAppendStep ==
    ASSUME Inv, EndAppend
    PROVE  Inv'
<1> DEFINE v == [top EXCEPT !.phase = "scan"]
<1>1. /\ Running /\ top.phase = "append" /\ top.queue = <<>> /\ Update(v)
      /\ UNCHANGED args /\ coreImported' = coreImported /\ hasErrored' = hasErrored
      /\ lspMode' = lspMode
  BY DEF EndAppend, globals
<1>2. top \in Unit /\ UnitOK(top)
  BY <1>1, StackFacts
<1>3. SameUnit(v, top) /\ UnitOK(v) /\ (Accounted(top, {}) => Accounted(v, {}))
  BY <1>1, <1>2, NextPhase
<1> HIDE DEF v
<1>4. stack' = <<v>> \o rest /\ GoesOn
  BY <1>1 DEF Update, GoesOn, Inv, TypeOK
<1>5. coreImported = TRUE /\ coreImported' = TRUE
  BY <1>1, LexedMeansCore
<1>6. ~hasErrored' => Accounted(v, {})
  BY <1>1, <1>3, TopAccounted
<1>7. QED BY <1>3, <1>4, <1>5, <1>6, UnitGoesOn

(* The end of preprocessing keeps the invariant.                               *)
LEMMA FinishPreprocessStep ==
    ASSUME Inv, FinishPreprocess
    PROVE  Inv'
<1> DEFINE v == [top EXCEPT !.phase = "parse"]
<1>1. /\ Running /\ top.mode # "header" /\ top.phase = "scan" /\ ~HasImport(top.toks)
      /\ Update(v)
      /\ UNCHANGED args /\ coreImported' = coreImported /\ hasErrored' = hasErrored
      /\ lspMode' = lspMode
  BY DEF FinishPreprocess, globals
<1>2. top \in Unit /\ UnitOK(top) /\ top.queue = <<>>
  BY <1>1, StackFacts DEF UnitOK, ListOK
<1>3. SameUnit(v, top) /\ UnitOK(v) /\ (Accounted(top, {}) => Accounted(v, {}))
  BY <1>1, <1>2, NextPhase
<1> HIDE DEF v
<1>4. stack' = <<v>> \o rest /\ GoesOn
  BY <1>1 DEF Update, GoesOn, Inv, TypeOK
<1>5. coreImported = TRUE /\ coreImported' = TRUE
  BY <1>1, LexedMeansCore
<1>6. ~hasErrored' => Accounted(v, {})
  BY <1>1, <1>3, TopAccounted
<1>7. QED BY <1>3, <1>4, <1>5, <1>6, UnitGoesOn

(* The next file of the queue is built in a unit of its own.                     *)
LEMMA StartAppendStep ==
    ASSUME Inv, StartAppend
    PROVE  Inv'
<1> DEFINE f == Head(top.queue)
           m == IF f \in Headers THEN "header" ELSE "module"
           v == [top EXCEPT !.queue = Tail(@)]
<1>1. /\ Running /\ top.phase = "append" /\ top.queue # <<>> /\ PushOn(<<v>> \o rest, f, m)
      /\ UNCHANGED args /\ coreImported' = coreImported /\ hasErrored' = hasErrored
      /\ lspMode' = lspMode
  BY DEF StartAppend, globals
<1>2. top \in Unit /\ UnitOK(top) /\ top.queue \in Seq(Files) /\ top.file \in Reachable
  <2>1. 1 \in DOMAIN stack /\ top = stack[1] /\ top \in Unit /\ UnitOK(top)
    BY <1>1, StackFacts
  <2>2. QED BY <2>1 DEF Inv, OwnFiles, Unit
<1>3. /\ f = top.queue[1] /\ Tail(top.queue) \in Seq(Files)
      /\ Len(top.queue) \in Nat \ {0} /\ Len(Tail(top.queue)) = Len(top.queue) - 1
      /\ \A n \in 1 .. Len(top.queue) - 1 : Tail(top.queue)[n] = top.queue[n + 1]
  BY <1>1, <1>2, PopFacts
<1>4. /\ v \in Unit /\ v.file = top.file /\ v.mode = top.mode /\ v.imports = top.imports
      /\ v.toks = top.toks /\ v.queue = Tail(top.queue) /\ v.at = top.at /\ v.phase = "append"
  BY <1>1, <1>2, <1>3 DEF Unit
<1> HIDE DEF f, v
<1>5. /\ f \in ImportsOf(top.file)
      /\ \A n \in DOMAIN v.queue : v.queue[n] \in ImportsOf(top.file)
      /\ \A n \in DOMAIN top.queue : top.queue[n] = f \/ top.queue[n] \in Range(v.queue)
  <2>1. \A n \in DOMAIN top.queue : top.queue[n] \in ImportsOf(top.file)
    BY <1>2 DEF UnitOK, ImportsOK
  <2>2. DOMAIN top.queue = 1 .. Len(top.queue) /\ DOMAIN v.queue = 1 .. Len(top.queue) - 1
    BY <1>2, <1>3, <1>4
  <2>3. ASSUME NEW n \in DOMAIN v.queue  PROVE v.queue[n] \in ImportsOf(top.file)
    <3>1. n + 1 \in DOMAIN top.queue /\ v.queue[n] = top.queue[n + 1]
      BY <2>2, <1>3, <1>4
    <3>2. QED BY <3>1, <2>1
  <2>4. ASSUME NEW n \in DOMAIN top.queue, n # 1
        PROVE  top.queue[n] \in Range(v.queue)
    <3>1. n - 1 \in DOMAIN v.queue /\ n - 1 + 1 = n
      BY <2>2, <2>4, <1>3
    <3>2. v.queue[n - 1] = top.queue[n]
      BY <3>1, <2>2, <1>3, <1>4
    <3>3. QED BY <3>1, <3>2 DEF Range
  <2>5. 1 \in DOMAIN top.queue
    BY <2>2, <1>3
  <2>6. QED BY <2>1, <2>3, <2>4, <2>5, <1>3
<1>6. f \in Reachable
  BY <1>2, <1>5, ReachableFacts DEF Inv, TypeOK
<1>7. UnitOK(v)
  <2>1. ListOK(v)
    BY <1>1, <1>2, <1>4 DEF UnitOK, ListOK
  <2>2. ImportsOK(v)
    BY <1>2, <1>4, <1>5 DEF UnitOK, ImportsOK
  <2>3. QED BY <2>1, <2>2, <1>2, <1>4 DEF UnitOK
<1>8. ~hasErrored' => Accounted(v, {f})
  <2>1. SUFFICES ASSUME ~hasErrored  PROVE Accounted(v, {f})
    BY <1>1
  <2>2. Accounted(top, {})
    BY <2>1, <1>1, TopAccounted
  <2>3. ASSUME NEW tok, Settled(top, {}, tok)  PROVE Settled(v, {f}, tok)
    <3>1. SUFFICES ASSUME NEW n \in DOMAIN Resolve[tok.name]
                   PROVE  Resolve[tok.name][n] \in Range(v.queue) \cup Range(v.imports) \cup {f}
      BY <2>3 DEF Settled
    <3>2. Resolve[tok.name][n] \in Range(top.queue) \cup Range(top.imports)
      BY <2>3 DEF Settled
    <3>3. QED BY <3>2, <1>4, <1>5 DEF Range
  <2>4. QED BY <2>2, <2>3, <1>1, <1>4 DEF Accounted, Spoilt
<1>9. SameUnit(v, top) /\ coreImported = TRUE /\ coreImported' = TRUE
  BY <1>1, <1>4, LexedMeansCore DEF SameUnit
<1>10. m \in Modes \ {"root", "core"} /\ (m = "header" => f \in Headers)
  BY DEF Modes
<1> HIDE DEF m
<1>11. hasErrored \in BOOLEAN /\ lspMode \in BOOLEAN /\ coreImported \in BOOLEAN
  BY DEF Inv, TypeOK
<1>12. \/ Stop("crash")
       \/ stack' = <<NewUnit(f, m)>> \o (<<v>> \o rest) /\ UNCHANGED <<emitted, result>>
  BY <1>1 DEF PushOn
<1>13. CASE Stop("crash")
  BY <1>1, <1>11, <1>13, StopKeeps
<1>14. CASE stack' = <<NewUnit(f, m)>> \o (<<v>> \o rest) /\ UNCHANGED <<emitted, result>>
  <2>1. GoesOn
    BY <1>1, <1>11, <1>14 DEF GoesOn
  <2>2. QED BY <2>1, <1>4, <1>6, <1>7, <1>8, <1>9, <1>10, <1>14, UnitCalls
<1>15. QED BY <1>12, <1>13, <1>14

(* Whoever waits below the innermost unit.                                       *)
LEMMA WaitingFacts ==
    ASSUME Inv, Running, top.mode # "root"
    PROVE  /\ Len(stack) > 1 /\ 2 \in DOMAIN stack /\ stack[2] \in Unit /\ UnitOK(stack[2])
           /\ Head(rest) = stack[2] /\ rest \in Seq(Unit) /\ rest # <<>>
           /\ stack[2].phase = (IF top.mode = "core" THEN "scan" ELSE "append")
           /\ \A m \in DOMAIN stack[2].imports : stack[2].imports[m] \in Reachable
           /\ ~hasErrored => /\ Accounted(stack[2], {top.file})
                             /\ \A m \in DOMAIN stack[2].imports :
                                  Terminated(stack[2].imports[m]) => Clean(stack[2].imports[m])
<1>1. /\ stack \in Seq(Unit) /\ stack # <<>> /\ Len(stack) \in Nat \ {0}
      /\ DOMAIN stack = 1 .. Len(stack) /\ top = stack[1] /\ rest = Tail(stack)
  BY StackFacts
<1>2. \A n \in DOMAIN stack :
         /\ stack[n].mode = "root" <=> n = Len(stack)
         /\ n > 1 => stack[n].phase = (IF stack[n - 1].mode = "core" THEN "scan" ELSE "append")
  BY DEF Inv, WellNested
<1>3. 1 \in DOMAIN stack /\ Len(stack) # 1
  BY <1>1, <1>2
<1>4. Len(stack) > 1 /\ 2 \in DOMAIN stack /\ 2 - 1 = 1 /\ 2 > 1
  BY <1>1, <1>3
<1>5. rest \in Seq(Unit) /\ Len(rest) = Len(stack) - 1 /\ rest[1] = stack[1 + 1]
  BY <1>1, <1>4, PopFacts
<1>6. rest # <<>> /\ Head(rest) = stack[2]
  <2>1. Len(rest) # 0 /\ Len(<<>>) = 0 /\ 1 + 1 = 2
    BY <1>1, <1>4, <1>5
  <2>2. rest # <<>>
    BY <2>1
  <2>3. Head(rest) = rest[1]
    BY <1>5, <2>2, PopFacts
  <2>4. QED BY <2>1, <2>2, <2>3, <1>5
<1>7. stack[2].phase = (IF top.mode = "core" THEN "scan" ELSE "append")
  BY <1>1, <1>2, <1>4
<1>8. Kids(2) = {top.file}
  BY <1>1 DEF Kids
<1>9. stack[2] \in Unit
  BY <1>1, <1>4
<1>10. /\ UnitOK(stack[2]) /\ \A m \in DOMAIN stack[2].imports : stack[2].imports[m] \in Reachable
  BY <1>4 DEF Inv, UnitsOK, OwnFiles
<1>11. ~hasErrored => /\ Accounted(stack[2], {top.file})
                      /\ \A m \in DOMAIN stack[2].imports :
                           Terminated(stack[2].imports[m]) => Clean(stack[2].imports[m])
  BY <1>4, <1>8 DEF Inv, NothingForgotten, KeptClean
<1>12. QED BY <1>4, <1>5, <1>6, <1>7, <1>9, <1>10, <1>11

(* A header that is put where its import was.                                    *)
LEMMA SplicedUnit ==
    ASSUME NEW u \in Unit, UnitOK(u), u.phase = "append",
           NEW ins \in Seq(Tokens), ~HasImport(ins)
    PROVE  LET w == [u EXCEPT !.toks = Splice(@, u.at, ins)]
           IN /\ SameUnit(w, u) /\ UnitOK(w) /\ w.phase = u.phase
              /\ ins # <<>> /\ ins[Len(ins)].t = "eof" => Spoilt(w)
<1> DEFINE s == u.toks
           p == u.at
           k == Len(ins)
           t == Splice(s, p, ins)
           w == [u EXCEPT !.toks = t]
<1>1. /\ s \in Seq(Tokens) /\ Len(s) \in Nat /\ DOMAIN s = 1 .. Len(s) /\ p \in 1 .. Len(s)
      /\ k \in Nat /\ DOMAIN ins = 1 .. k /\ ListOK(u) /\ ImportsOK(u) /\ p \in Int
  BY DEF Unit, UnitOK, ListOK
<1>2. /\ t \in Seq(Tokens) /\ Len(t) = Len(s) + k
      /\ \A n \in 1 .. p - 1 : t[n] = s[n]
      /\ \A n \in 1 .. k : t[p - 1 + n] = ins[n]
      /\ \A n \in p .. Len(s) : t[n + k] = s[n]
  BY <1>1, SpliceFacts
<1> HIDE DEF t
<1>3. /\ w \in Unit /\ w.toks = t /\ w.phase = "append" /\ w.file = u.file /\ w.mode = u.mode
      /\ w.imports = u.imports /\ w.queue = u.queue /\ w.at = p
  BY <1>2 DEF Unit
<1> HIDE DEF w, s, p, k
<1>4. Len(t) \in Nat /\ DOMAIN t = 1 .. Len(t)
  BY <1>2
<1>5. ListOK(w)
  <2>1. Len(s) \in p .. Len(s) /\ Len(t) # 0 /\ p \in 1 .. Len(t)
    BY <1>1, <1>2
  <2>2. t[Len(t)] = s[Len(s)] /\ t # <<>>
    BY <2>1, <1>2
  <2>3. s[Len(s)].t = "eof" /\ u.file \in OnDisk /\ Lexable(u.file)
        /\ \A m \in 1 .. p - 1 : s[m].t # "import"
    BY <1>1 DEF ListOK, s, p
  <2>4. QED BY <2>1, <2>2, <2>3, <1>2, <1>3 DEF ListOK
<1>6. ImportsOK(w)
  <2>1. ASSUME NEW m \in DOMAIN t, t[m].t = "import"
        PROVE  /\ \E j \in DOMAIN src[u.file] : src[u.file][j] = t[m]
               /\ Terminated(u.file) => m < Len(t) /\ t[m + 1].t = "semi"
    <3>1. m \notin 1 .. p - 1
      BY <2>1, <1>1, <1>2 DEF ListOK, s, p
    <3>2. ~(m < p + k)
      <4>1. SUFFICES ASSUME m < p + k  PROVE FALSE
        OBVIOUS
      <4> DEFINE i == m - p + 1
      <4>2. i \in 1 .. k /\ p - 1 + i = m
        BY <3>1, <4>1, <1>1, <1>4
      <4> HIDE DEF i
      <4>3. t[m] = ins[i]
        BY <4>2, <1>2
      <4>4. QED BY <2>1, <4>2, <4>3, <1>1 DEF HasImport
    <3> DEFINE i == m - k
    <3>3. i \in p .. Len(s) /\ i + k = m /\ i \in DOMAIN s /\ i + 1 + k = m + 1
      BY <3>2, <1>1, <1>2, <1>4
    <3> HIDE DEF i
    <3>4. t[m] = s[i]
      BY <3>3, <1>2
    <3>5. /\ \E j \in DOMAIN src[u.file] : src[u.file][j] = s[i]
          /\ Terminated(u.file) => i < Len(s) /\ s[i + 1].t = "semi"
      BY <2>1, <3>3, <3>4, <1>1 DEF ImportsOK, s
    <3>6. ASSUME Terminated(u.file)
          PROVE  m < Len(t) /\ t[m + 1].t = "semi"
      <4>1. i + 1 \in p .. Len(s) /\ m < Len(t)
        BY <3>3, <3>5, <3>6, <1>1, <1>2
      <4>2. t[i + 1 + k] = s[i + 1]
        BY <4>1, <1>2
      <4>3. QED BY <4>1, <4>2, <3>3, <3>5, <3>6
    <3>7. QED BY <3>4, <3>5, <3>6
  <2>2. \A m \in DOMAIN u.queue : u.queue[m] \in ImportsOf(u.file)
    BY <1>1 DEF ImportsOK
  <2>3. /\ \A m \in DOMAIN w.toks : w.toks[m].t = "import" =>
              /\ \E j \in DOMAIN src[w.file] : src[w.file][j] = w.toks[m]
              /\ Terminated(w.file) => m < Len(w.toks) /\ w.toks[m + 1].t = "semi"
        /\ \A m \in DOMAIN w.queue : w.queue[m] \in ImportsOf(w.file)
    BY <2>1, <2>2, <1>3
  <2>4. QED BY <2>3 DEF ImportsOK
<1>7. ASSUME ins # <<>>, ins[Len(ins)].t = "eof"
      PROVE  Spoilt(w)
  <2>1. k # 0
    BY <1>7 DEF k
  <2> DEFINE i == p - 1 + k
  <2>2. k \in 1 .. k /\ i \in 1 .. Len(t) /\ i < Len(t)
    BY <2>1, <1>1, <1>2
  <2>3. t[i] = ins[k]
    BY <2>2, <1>2
  <2> HIDE DEF i
  <2>4. QED BY <2>2, <2>3, <1>3, <1>4, <1>7 DEF Spoilt, k
<1>8. UnitOK(w)
  BY <1>3, <1>5, <1>6 DEF UnitOK
<1>9. QED BY <1>3, <1>7, <1>8 DEF SameUnit, w, t, s, p

(* A header handed to the unit that asked keeps the invariant.                 *)
LEMMA FinishHeaderStep ==
    ASSUME Inv, FinishHeader
    PROVE  Inv'
<1> DEFINE u == stack[2]
           ins == IF hasErrored THEN <<>> ELSE top.toks
           w == [u EXCEPT !.toks = Splice(@, u.at, ins)]
<1>1. /\ Running /\ top.mode = "header" /\ top.phase = "scan" /\ ~HasImport(top.toks)
      /\ UNCHANGED args /\ coreImported' = coreImported /\ hasErrored' = hasErrored
      /\ lspMode' = lspMode /\ emitted' = emitted /\ result' = result
      /\ stack' = <<[Head(rest) EXCEPT !.toks = Splice(@, Head(rest).at, ins)]>> \o Tail(rest)
  BY DEF FinishHeader, globals
<1>2. /\ Len(stack) > 1 /\ u \in Unit /\ UnitOK(u) /\ Head(rest) = u /\ u.phase = "append"
      /\ \A m \in DOMAIN u.imports : u.imports[m] \in Reachable
      /\ ~hasErrored => \A m \in DOMAIN u.imports : Terminated(u.imports[m]) => Clean(u.imports[m])
  BY <1>1, WaitingFacts
<1>3. top \in Unit /\ UnitOK(top)
  BY <1>1, StackFacts
<1>4. /\ ins \in Seq(Tokens) /\ ~HasImport(ins)
      /\ ~hasErrored => ins # <<>> /\ ins[Len(ins)].t = "eof"
  <2>1. CASE hasErrored
    BY <2>1, EmptySeq DEF HasImport
  <2>2. CASE ~hasErrored
    BY <2>2, <1>1, <1>3 DEF Unit, UnitOK, ListOK
  <2>3. QED BY <2>1, <2>2
<1>5. stack' = <<w>> \o Tail(rest)
  BY <1>1, <1>2
<1> HIDE DEF ins, u
<1>6. /\ SameUnit(w, u) /\ UnitOK(w) /\ w.phase = u.phase
      /\ ins # <<>> /\ ins[Len(ins)].t = "eof" => Spoilt(w)
  BY <1>2, <1>4, SplicedUnit
<1> HIDE DEF w
<1>7. ~hasErrored' => Accounted(w, {})
  BY <1>1, <1>4, <1>6 DEF Accounted
<1>8. GoesOn
  BY <1>1 DEF GoesOn, Inv, TypeOK
<1>9. /\ w \in Unit /\ w.file = u.file /\ w.mode = u.mode /\ w.imports = u.imports
      /\ top.mode # "core"
  BY <1>1, <1>6 DEF SameUnit
<1>10. QED BY <1>1, <1>2, <1>5, <1>6, <1>7, <1>8, <1>9, UnitReturns DEF u

(* After an error a unit is given up, and the one that waits goes on as it was.  *)
LEMMA FinishErroneousStep ==
    ASSUME Inv, FinishErroneous
    PROVE  Inv'
<1>1. /\ Running /\ hasErrored /\ UNCHANGED args /\ coreImported' = coreImported
      /\ hasErrored' = hasErrored /\ lspMode' = lspMode
      /\ IF top.mode = "root" THEN Stop("1") ELSE stack' = rest /\ UNCHANGED <<emitted, result>>
  BY DEF FinishErroneous, globals
<1>2. hasErrored \in BOOLEAN /\ lspMode \in BOOLEAN /\ coreImported \in BOOLEAN
  BY DEF Inv, TypeOK
<1>3. CASE top.mode = "root"
  BY <1>1, <1>2, <1>3, StopKeeps
<1>4. CASE top.mode # "root"
  <2>1. /\ Len(stack) > 1 /\ stack[2] \in Unit /\ UnitOK(stack[2]) /\ Head(rest) = stack[2]
        /\ rest \in Seq(Unit) /\ rest # <<>>
        /\ \A m \in DOMAIN stack[2].imports : stack[2].imports[m] \in Reachable
    BY <1>1, <1>4, WaitingFacts
  <2>2. rest = <<stack[2]>> \o Tail(rest)
    <3> DEFINE r == <<stack[2]>> \o Tail(rest)
    <3>1. /\ r \in Seq(Unit) /\ Len(r) = Len(rest) /\ r[1] = stack[2]
          /\ \A n \in 2 .. Len(rest) : r[n] = rest[n]
      BY <2>1, ReplaceFacts
    <3>2. rest[1] = stack[2] /\ Len(rest) \in Nat
      BY <2>1
    <3> HIDE DEF r
    <3>3. \A n \in 1 .. Len(rest) : r[n] = rest[n]
      BY <3>1, <3>2
    <3>4. r = rest
      BY <3>1, <3>3, <2>1, SeqEqual
    <3>5. QED BY <3>4 DEF r
  <2>3. stack' = <<stack[2]>> \o Tail(rest)
    BY <2>2, <1>1, <1>4
  <2>4. GoesOn
    BY <1>1, <1>2, <1>4 DEF GoesOn
  <2>5. QED BY <2>1, <2>3, <2>4, <1>1, UnitReturns
<1>5. QED BY <1>3, <1>4

-------------------------------------------------------------------------------
(* A unit that was parsed without an error has dealt with all its file says.      *)
LEMMA TopIsDone ==
    ASSUME Inv, Running, top.phase = "parse", ~hasErrored,
           Parses(top.toks), Generates(top), Terminated(top.file)
    PROVE  Clean(top.file) /\ ImportsOf(top.file) \subseteq Range(top.imports)
<1> DEFINE f == top.file
           s == src[f]
<1>1. top \in Unit /\ ListOK(top) /\ Accounted(top, {})
  BY StackFacts, TopAccounted DEF UnitOK
<1>2. /\ f \in OnDisk /\ Lexable(f) /\ ~HasImport(top.toks)
      /\ Range(top.queue) = {}
  BY <1>1 DEF ListOK, Range
<1>3. ~Spoilt(top)
  BY DEF Spoilt, Parses
<1>4. ASSUME NEW n \in DOMAIN s, Matters(s[n])
      PROVE  Settled(top, {}, s[n])
  <2>1. (\E m \in DOMAIN top.toks : top.toks[m] = s[n]) \/ Settled(top, {}, s[n])
    BY <1>1, <1>3, <1>4 DEF Accounted
  <2>2. ASSUME NEW m \in DOMAIN top.toks, top.toks[m] = s[n]
        PROVE  FALSE
    <3>1. s[n].t # "import" /\ s[n].t # "bad" /\ s[n].t # "badgen"
      BY <2>2, <1>2 DEF HasImport, Parses, Generates
    <3>2. QED BY <3>1, <1>4 DEF Matters
  <2>3. QED BY <2>1, <2>2
<1>5. Clean(f)
  <2>1. ASSUME NEW n \in DOMAIN s
        PROVE  /\ s[n].t \notin {"bad", "badgen", "badlex"}
               /\ s[n].t = "import" => /\ s[n].form \in {"plain", "wildcard"}
                                       /\ s[n].name \notin Reported
    BY <2>1, <1>2, <1>4 DEF Matters, Settled, Lexable
  <2>2. QED BY <2>1, <1>2 DEF Clean
<1>6. ASSUME NEW g \in ImportsOf(f)
      PROVE  g \in Range(top.imports)
  <2>1. PICK n \in ImportTokens(f) : \E m \in DOMAIN Resolve[s[n].name] :
                 g = Resolve[s[n].name][m]
    BY <1>6 DEF ImportsOf
  <2>2. n \in DOMAIN s /\ Matters(s[n])
    BY DEF ImportTokens, Matters
  <2>3. \A m \in DOMAIN Resolve[s[n].name] :
             Resolve[s[n].name][m] \in Range(top.queue) \cup Range(top.imports) \cup {}
    BY <2>2, <1>4 DEF Settled
  <2>4. QED BY <2>1, <2>3, <1>2
<1>7. QED BY <1>5, <1>6

(* A text holds the texts of the imports, and its own behind them.                *)
LEMMA CXIRFacts ==
    ASSUME NEW u \in Unit
    PROVE  /\ CXIR(u) \in Seq(Files) /\ CXIR(u) # <<>>
           /\ Range(CXIR(u)) = Range(u.imports) \cup {u.file}
<1> DEFINE a == u.imports
           c == a \o <<u.file>>
<1>1. a \in Seq(Files) /\ u.file \in Files /\ <<u.file>> \in Seq(Files)
      /\ Len(<<u.file>>) = 1 /\ <<u.file>>[1] = u.file /\ Len(a) \in Nat
  BY DEF Unit
<1> HIDE DEF a
<1>2. /\ c \in Seq(Files) /\ Len(c) = Len(a) + 1
      /\ \A n \in 1 .. Len(a) + 1 :
            c[n] = IF n <= Len(a) THEN a[n] ELSE <<u.file>>[n - Len(a)]
  BY <1>1, ConcatProperties
<1> HIDE DEF c
<1>3. /\ \A n \in 1 .. Len(a) : c[n] = a[n]
      /\ c[Len(a) + 1] = u.file
  <2>1. Len(a) + 1 \in 1 .. Len(a) + 1 /\ ~(Len(a) + 1 <= Len(a)) /\ Len(a) + 1 - Len(a) = 1
    BY <1>1
  <2>2. QED BY <2>1, <1>1, <1>2
<1>4. DOMAIN c = 1 .. Len(a) + 1 /\ DOMAIN a = 1 .. Len(a) /\ Len(c) # 0
  BY <1>1, <1>2
<1>5. ASSUME NEW x \in Range(c)  PROVE x \in Range(a) \cup {u.file}
  <2>1. PICK n \in DOMAIN c : x = c[n]
    BY DEF Range
  <2>2. n \in 1 .. Len(a) \/ n = Len(a) + 1
    BY <1>1, <1>4
  <2>3. QED BY <2>1, <2>2, <1>3, <1>4 DEF Range
<1>6. ASSUME NEW x \in Range(a)  PROVE x \in Range(c)
  <2>1. PICK n \in DOMAIN a : x = a[n]
    BY DEF Range
  <2>2. n \in DOMAIN c /\ c[n] = x
    BY <2>1, <1>1, <1>3, <1>4
  <2>3. QED BY <2>2 DEF Range
<1>7. u.file \in Range(c)
  <2>1. Len(a) + 1 \in DOMAIN c
    BY <1>1, <1>4
  <2>2. QED BY <2>1, <1>3 DEF Range
<1>8. c # <<>>
  BY <1>4, <1>7 DEF Range
<1>9. QED BY <1>2, <1>5, <1>6, <1>7, <1>8 DEF CXIR, c, a

(* The same of the texts of a unit with those of another behind them.             *)
LEMMA KeptTexts ==
    ASSUME NEW a \in Seq(Files), NEW b \in Seq(Files), b # <<>>
    PROVE  /\ a \o b \in Seq(Files) /\ a \o b # <<>>
           /\ Range(a \o b) = Range(a) \cup Range(b)
<1> DEFINE c == a \o b
<1>1. /\ c \in Seq(Files) /\ Len(c) = Len(a) + Len(b)
      /\ \A n \in 1 .. Len(a) + Len(b) : c[n] = IF n <= Len(a) THEN a[n] ELSE b[n - Len(a)]
  BY ConcatProperties
<1> HIDE DEF c
<1>2. /\ DOMAIN c = 1 .. Len(a) + Len(b) /\ DOMAIN a = 1 .. Len(a) /\ DOMAIN b = 1 .. Len(b)
      /\ Len(a) \in Nat /\ Len(b) \in Nat /\ Len(b) # 0
  BY <1>1, EmptySeq
<1>3. /\ \A n \in DOMAIN a : n \in DOMAIN c /\ c[n] = a[n]
      /\ \A n \in DOMAIN b : Len(a) + n \in DOMAIN c /\ c[Len(a) + n] = b[n]
  <2>1. ASSUME NEW n \in DOMAIN a  PROVE n \in DOMAIN c /\ c[n] = a[n]
    BY <1>1, <1>2
  <2>2. ASSUME NEW n \in DOMAIN b  PROVE Len(a) + n \in DOMAIN c /\ c[Len(a) + n] = b[n]
    <3>1. Len(a) + n \in 1 .. Len(a) + Len(b) /\ ~(Len(a) + n <= Len(a))
          /\ Len(a) + n - Len(a) = n
      BY <1>2
    <3>2. QED BY <3>1, <1>1, <1>2
  <2>3. QED BY <2>1, <2>2
<1>4. ASSUME NEW n \in DOMAIN c
      PROVE  (\E m \in DOMAIN a : c[n] = a[m]) \/ (\E m \in DOMAIN b : c[n] = b[m])
  <2>1. CASE n <= Len(a)
    BY <2>1, <1>1, <1>2
  <2>2. CASE ~(n <= Len(a))
    <3>1. n - Len(a) \in DOMAIN b
      BY <2>2, <1>2
    <3>2. QED BY <2>2, <3>1, <1>1, <1>2
  <2>3. QED BY <2>1, <2>2
<1>5. Range(c) = Range(a) \cup Range(b)
  BY <1>3, <1>4 DEF Range
<1>6. c # <<>>
  BY <1>1, <1>2
<1>7. QED BY <1>1, <1>5, <1>6 DEF c

(* What Parse finds wrong.                                                       *)
Failed == hasErrored \/ ~Parses(top.toks)
Broken == Failed \/ ~Generates(top)

(* The end of the unit of Main keeps the invariant.                            *)
LEMMA ParseRoot ==
    ASSUME Inv, Parse, top.mode = "root"
    PROVE  Inv'
<1>1. /\ Running /\ top.phase = "parse" /\ UNCHANGED args /\ coreImported' = coreImported
      /\ lspMode' \in {lspFlag, lspMode}
      /\ \/ Stop("2") /\ hasErrored' = Failed
         \/ /\ hasErrored' = Broken /\ result' = (IF Broken THEN "1" ELSE "0")
            /\ emitted' = CXIR(top) /\ stack' = <<>>
  BY DEF Parse, Failed, Broken
<1>2. /\ coreImported' \in BOOLEAN /\ lspMode' \in BOOLEAN /\ Failed \in BOOLEAN
      /\ Broken \in BOOLEAN
  BY <1>1 DEF Inv, TypeOK, Failed, Broken
<1>3. CASE Stop("2") /\ hasErrored' = Failed
  <2>1. hasErrored' \in BOOLEAN
    BY <1>2, <1>3
  <2>2. QED BY <2>1, <1>1, <1>2, <1>3, StopKeeps
<1>4. CASE /\ hasErrored' = Broken /\ result' = (IF Broken THEN "1" ELSE "0")
           /\ emitted' = CXIR(top) /\ stack' = <<>>
  <2>1. top \in Unit /\ 1 \in DOMAIN stack /\ top = stack[1]
    BY <1>1, StackFacts
  <2>2. emitted' \in Seq(Files) /\ Range(emitted') = Range(top.imports) \cup {top.file}
    BY <2>1, <1>4, CXIRFacts
  <2>3. \A m \in DOMAIN emitted' : emitted'[m] \in Range(top.imports) \cup {top.file}
    BY <2>2 DEF Range
  <2>4. Range(top.imports) \cup {top.file} \subseteq Reachable
    BY <2>1 DEF Inv, OwnFiles, Range
  <2>5. ASSUME ~Broken, NEW m \in DOMAIN emitted', Terminated(emitted'[m])
        PROVE  Clean(emitted'[m])
    <3>1. ~hasErrored /\ Parses(top.toks) /\ Generates(top)
      BY <2>5 DEF Broken, Failed
    <3>2. CASE emitted'[m] = top.file
      BY <2>5, <3>1, <3>2, <1>1, TopIsDone
    <3>3. CASE emitted'[m] \in Range(top.imports)
      BY <2>1, <2>5, <3>1, <3>3 DEF Inv, KeptClean, Range
    <3>4. QED BY <2>3, <2>5, <3>2, <3>3
  <2>6. /\ result' \in Results \ {"none"} /\ (result' = "0" => ~Broken /\ ~hasErrored')
    BY <1>2, <1>4 DEF Results
  <2>7. hasErrored' \in BOOLEAN
    BY <1>2, <1>4
  <2>9. ASSUME ~Broken
        PROVE  Main \in Range(emitted') /\ Core \in Range(emitted')
    <3>1. top.file = Main
      BY <2>1 DEF Inv, RootIsMain
    <3>2. coreImported = TRUE /\ ~hasErrored
      BY <2>9, <1>1, LexedMeansCore DEF Broken, Failed
    <3>3. Len(stack) = 1
      BY <2>1, <1>1 DEF Inv, WellNested
    <3>4. Core \in Range(top.imports)
      BY <3>2, <3>3, <2>1, <1>1 DEF Inv, CoreFirst
    <3>5. QED BY <3>1, <3>4, <2>2
  <2>8. QED BY <2>2, <2>3, <2>4, <2>5, <2>6, <2>7, <2>9, <1>1, <1>2, <1>4, EverythingStops
<1>5. QED BY <1>1, <1>3, <1>4

(* The text of a module goes to the unit that imported it.                        *)
LEMMA ParseModule ==
    ASSUME Inv, Parse, top.mode # "root"
    PROVE  Inv'
<1> DEFINE u == stack[2]
           w == [u EXCEPT !.imports = @ \o CXIR(top)]
<1>1. /\ Running /\ top.phase = "parse" /\ UNCHANGED args /\ coreImported' = coreImported
      /\ lspMode' \in {lspFlag, lspMode} /\ hasErrored' = Broken
      /\ stack' = <<[Head(rest) EXCEPT !.imports = @ \o CXIR(top)]>> \o Tail(rest)
      /\ UNCHANGED <<emitted, result>>
  BY DEF Parse, KeepModule, Failed, Broken
<1>2. /\ Len(stack) > 1 /\ u \in Unit /\ UnitOK(u) /\ Head(rest) = u
      /\ \A m \in DOMAIN u.imports : u.imports[m] \in Reachable
      /\ ~hasErrored => /\ Accounted(u, {top.file})
                        /\ \A m \in DOMAIN u.imports :
                             Terminated(u.imports[m]) => Clean(u.imports[m])
  BY <1>1, WaitingFacts
<1>3. top \in Unit /\ 1 \in DOMAIN stack /\ top = stack[1]
  BY <1>1, StackFacts
<1>4. /\ CXIR(top) \in Seq(Files) /\ CXIR(top) # <<>>
      /\ Range(CXIR(top)) = Range(top.imports) \cup {top.file}
  BY <1>3, CXIRFacts
<1>5. stack' = <<w>> \o Tail(rest)
  BY <1>1, <1>2
<1> HIDE DEF u
<1>6. /\ w \in Unit /\ w.file = u.file /\ w.mode = u.mode /\ w.phase = u.phase
      /\ w.toks = u.toks /\ w.queue = u.queue /\ w.at = u.at
      /\ w.imports # <<>>
      /\ Range(w.imports) = Range(u.imports) \cup Range(top.imports) \cup {top.file}
  <2>1. u.imports \in Seq(Files)
    BY <1>2 DEF Unit
  <2>2. /\ u.imports \o CXIR(top) \in Seq(Files) /\ u.imports \o CXIR(top) # <<>>
        /\ Range(u.imports \o CXIR(top)) = Range(u.imports) \cup Range(CXIR(top))
    BY <2>1, <1>4, KeptTexts
  <2>3. w \in Unit /\ w.imports = u.imports \o CXIR(top)
    BY <2>2, <1>2 DEF Unit
  <2>4. /\ w.file = u.file /\ w.mode = u.mode /\ w.phase = u.phase
        /\ w.toks = u.toks /\ w.queue = u.queue /\ w.at = u.at
    OBVIOUS
  <2>5. QED BY <2>2, <2>3, <2>4, <1>4
<1> HIDE DEF w
<1>7. UnitOK(w)
  BY <1>2, <1>6 DEF UnitOK, ListOK, ImportsOK
<1>8. \A m \in DOMAIN w.imports :
         w.imports[m] \in Range(u.imports) \cup Range(top.imports) \cup {top.file}
  BY <1>6 DEF Range
<1>9. \A m \in DOMAIN w.imports : w.imports[m] \in Reachable
  <2>1. Range(u.imports) \cup Range(top.imports) \cup {top.file} \subseteq Reachable
    BY <1>2, <1>3 DEF Inv, OwnFiles, Range
  <2>2. QED BY <2>1, <1>8
<1>10. ASSUME ~hasErrored'
       PROVE  /\ Accounted(w, {})
              /\ \A m \in DOMAIN w.imports : Terminated(w.imports[m]) => Clean(w.imports[m])
  <2>1. ~hasErrored /\ Parses(top.toks) /\ Generates(top)
    BY <1>1, <1>10 DEF Broken, Failed
  <2>2. ASSUME NEW tok, Settled(u, {top.file}, tok)  PROVE Settled(w, {}, tok)
    BY <2>2, <1>6 DEF Settled
  <2>3. Accounted(w, {})
    BY <2>1, <2>2, <1>2, <1>6 DEF Accounted, Spoilt
  <2>4. ASSUME NEW m \in DOMAIN w.imports, Terminated(w.imports[m])
        PROVE  Clean(w.imports[m])
    <3>1. CASE w.imports[m] \in Range(u.imports)
      BY <2>1, <2>4, <3>1, <1>2 DEF Range
    <3>2. CASE w.imports[m] \in Range(top.imports)
      BY <2>1, <2>4, <3>2, <1>3 DEF Inv, KeptClean, Range
    <3>3. CASE w.imports[m] = top.file
      BY <2>1, <2>4, <3>3, <1>1, TopIsDone
    <3>4. QED BY <2>4, <3>1, <3>2, <3>3, <1>8
  <2>5. QED BY <2>3, <2>4
<1>11. GoesOn
  BY <1>1 DEF GoesOn, Inv, TypeOK, Broken, Failed
<1>12. top.mode = "core" => top.file = Core
  BY <1>3 DEF Inv, RootIsMain
<1>13. \/ Core \in Range(w.imports)
       \/ top.mode # "core" /\ Range(u.imports) \subseteq Range(w.imports)
  BY <1>6, <1>12
<1>14. QED BY <1>1, <1>2, <1>5, <1>6, <1>7, <1>9, <1>10, <1>11, <1>13, UnitReturns DEF u

-------------------------------------------------------------------------------
(* A program that begins has the invariant.                                    *)
LEMMA InitInv == Init => Inv
<1>1. SUFFICES ASSUME Init  PROVE Inv
  OBVIOUS
<1> DEFINE u == NewUnit(Main, "root")
<1>2. /\ u \in Unit /\ UnitOK(u) /\ Accounted(u, {}) /\ u.file = Main /\ u.mode = "root"
      /\ u.phase = "open" /\ u.imports = <<>>
  BY FilesAssumption, NewUnitFacts DEF Modes
<1> HIDE DEF u
<1>3. /\ stack = <<u>> /\ Len(stack) = 1 /\ DOMAIN stack = {1} /\ stack[1] = u
      /\ stack \in Seq(Unit) /\ stack # <<>>
  BY <1>1, <1>2 DEF Init, u
<1>4. /\ src \in Programs /\ lspFlag \in BOOLEAN /\ emitAst \in BOOLEAN
      /\ coreImported = FALSE /\ hasErrored = FALSE /\ lspMode = FALSE
      /\ emitted = <<>> /\ result = "none"
  BY <1>1 DEF Init
<1>5. src \in [Files -> Seq(Tokens)] /\ emitted \in Seq(Files) /\ DOMAIN emitted = {}
  BY <1>4, ProgramsAssumption, EmptySeq
<1>6. TypeOK
  BY <1>3, <1>4, <1>5 DEF TypeOK, Results
<1>7. WellNested /\ Ends /\ RootIsMain /\ UnitsOK
  BY <1>2, <1>3, <1>4 DEF WellNested, Ends, RootIsMain, UnitsOK, Running
<1>8. CoreFirst
  BY <1>2, <1>3, <1>4 DEF CoreFirst
<1>9. OwnFiles
  BY <1>2, <1>3, <1>5, ReachableFacts DEF OwnFiles
<1>10. NothingForgotten
  BY <1>2, <1>3 DEF NothingForgotten, Kids
<1>11. KeptClean /\ EmittedClean
  BY <1>2, <1>3, <1>4 DEF KeptClean, EmittedClean
<1>12. QED BY <1>6, <1>7, <1>8, <1>9, <1>10, <1>11 DEF Inv

(* A stutter keeps it.                                                         *)
LEMMA StutterInv == ASSUME Inv, UNCHANGED vars  PROVE Inv'
<1>1. /\ src' = src /\ lspFlag' = lspFlag /\ emitAst' = emitAst /\ stack' = stack
      /\ coreImported' = coreImported /\ hasErrored' = hasErrored /\ lspMode' = lspMode
      /\ emitted' = emitted /\ result' = result
  BY DEF vars
<1>2. TypeOK' /\ WellNested' /\ Ends' /\ RootIsMain' /\ CoreFirst'
  BY <1>1 DEF Inv, TypeOK, WellNested, Ends, RootIsMain, CoreFirst, Running
<1>3. UnitsOK' /\ OwnFiles'
  BY <1>1, SameProgram DEF Inv, UnitsOK, OwnFiles
<1>4. NothingForgotten'
  <2>1. \A n : Kids(n)' = Kids(n)
    BY <1>1 DEF Kids
  <2>2. QED BY <2>1, <1>1, SameProgram DEF Inv, NothingForgotten
<1>5. KeptClean' /\ EmittedClean'
  BY <1>1, SameProgram DEF Inv, KeptClean, EmittedClean
<1>6. QED BY <1>2, <1>3, <1>4, <1>5 DEF Inv

(* Every step keeps it.                                                        *)
LEMMA NextInv == Inv /\ [Next]_vars => Inv'
<1>1. SUFFICES ASSUME Inv, [Next]_vars  PROVE Inv'
  OBVIOUS
<1>2. CASE UNCHANGED vars
  BY <1>1, <1>2, StutterInv
<1>3. CASE \/ OpenMissing \/ OpenUnlexable \/ ProcessFileImport \/ ProcessBadPath
           \/ ProcessForeign \/ ProcessUnreadable \/ ProcessUnterminated
  BY <1>1, <1>3, EndingSteps
<1>4. CASE Open
  BY <1>1, <1>4, OpenStep
<1>5. CASE ProcessMalformed \/ ProcessUnresolved
  BY <1>1, <1>5, ReportingSteps
<1>6. CASE Process
  BY <1>1, <1>6, ProcessStep
<1>7. CASE StartAppend
  BY <1>1, <1>7, StartAppendStep
<1>8. CASE EndAppend
  BY <1>1, <1>8, EndAppendStep
<1>9. CASE FinishHeader
  BY <1>1, <1>9, FinishHeaderStep
<1>10. CASE FinishErroneous
  BY <1>1, <1>10, FinishErroneousStep
<1>11. CASE FinishPreprocess
  BY <1>1, <1>11, FinishPreprocessStep
<1>12. CASE Parse
  BY <1>1, <1>12, ParseRoot, ParseModule
<1>13. CASE Done
  BY <1>1, <1>13, StutterInv DEF Done
<1>14. QED BY <1>1, <1>2, <1>3, <1>4, <1>5, <1>6, <1>7, <1>8, <1>9, <1>10, <1>11, <1>12, <1>13
             DEF Next

(* The invariant holds for any files, any Resolve, any program and any         *)
(* MaxDepth.                                                                   *)
THEOREM Invariant == Spec => []Inv
BY InitInv, NextInv, PTL DEF Spec

(* The variables always have values of their types.                              *)
THEOREM TypeCorrect == Spec => []TypeOK
<1>1. Inv => TypeOK
  BY DEF Inv
<1>2. QED BY <1>1, Invariant, PTL

(* A unit waits only for what it asked for, in the phase in which it asks.        *)
THEOREM UnitsAreNested == Spec => []WellNested
<1>1. Inv => WellNested
  BY DEF Inv
<1>2. QED BY <1>1, Invariant, PTL

(* A header is never inserted behind the end of the list.                         *)
THEOREM HeadersGoInside == Spec => []InsertsInside
<1>1. Inv => InsertsInside
  BY DEF Inv, UnitsOK, UnitOK, ListOK, InsertsInside
<1>2. QED BY <1>1, Invariant, PTL

-------------------------------------------------------------------------------
(* The stack as Assembly sees it.                                                *)
OpenOf(u) == [file |-> u.file, text |-> u.imports]
Opens(s)  == [n \in DOMAIN s |-> OpenOf(s[n])]
OpenFile  == [file : Files, text : Seq(Files)]

(* The open files of a stack of units.                                         *)
LEMMA OpensFacts ==
    ASSUME NEW s \in Seq(Unit)
    PROVE  /\ Opens(s) \in Seq(OpenFile) /\ Len(Opens(s)) = Len(s)
           /\ \A n \in 1 .. Len(s) : Opens(s)[n] = OpenOf(s[n])
<1>1. ASSUME NEW n \in 1 .. Len(s)  PROVE OpenOf(s[n]) \in OpenFile
  <2>1. s[n] \in Unit
    OBVIOUS
  <2>2. QED BY <2>1 DEF OpenOf, OpenFile, Unit
<1>2. DOMAIN s = 1 .. Len(s) /\ Len(s) \in Nat
  OBVIOUS
<1>3. Opens(s) \in [1 .. Len(s) -> OpenFile]
  BY <1>1, <1>2 DEF Opens
<1>4. QED BY <1>2, <1>3 DEF Opens

(* A unit pushed is a file opened in front.                                    *)
LEMMA PushOpens ==
    ASSUME NEW s \in Seq(Unit), NEW u \in Unit
    PROVE  Opens(<<u>> \o s) = <<OpenOf(u)>> \o Opens(s)
<1> DEFINE a == <<u>> \o s
           b == <<OpenOf(u)>> \o Opens(s)
<1>1. /\ a \in Seq(Unit) /\ Len(a) = Len(s) + 1 /\ a[1] = u
      /\ \A n \in 2 .. Len(s) + 1 : a[n] = s[n - 1]
  BY PushFacts
<1>2. OpenOf(u) \in OpenFile /\ Opens(s) \in Seq(OpenFile) /\ Len(Opens(s)) = Len(s)
  BY OpensFacts DEF OpenOf, OpenFile, Unit
<1>3. /\ b \in Seq(OpenFile) /\ Len(b) = Len(Opens(s)) + 1 /\ b[1] = OpenOf(u)
      /\ \A n \in 2 .. Len(Opens(s)) + 1 : b[n] = Opens(s)[n - 1]
  BY <1>2, PushFacts
<1> HIDE DEF a, b
<1>4. /\ Opens(a) \in Seq(OpenFile) /\ Len(Opens(a)) = Len(s) + 1
      /\ \A n \in 1 .. Len(s) + 1 : Opens(a)[n] = OpenOf(a[n])
  BY <1>1, OpensFacts
<1>5. ASSUME NEW n \in 1 .. Len(s) + 1  PROVE Opens(a)[n] = b[n]
  <2>1. CASE n = 1
    BY <2>1, <1>1, <1>3, <1>4
  <2>2. CASE n # 1
    <3>1. n \in 2 .. Len(s) + 1 /\ n - 1 \in 1 .. Len(s)
      BY <2>2
    <3>2. QED BY <3>1, <1>1, <1>2, <1>3, <1>4, OpensFacts
  <2>3. QED BY <2>1, <2>2
<1>6. Opens(a) = b
  BY <1>2, <1>3, <1>4, <1>5, SeqEqual
<1>7. QED BY <1>6 DEF a, b

(* A unit popped is the file in front closed.                                  *)
LEMMA TailOpens ==
    ASSUME NEW s \in Seq(Unit), s # <<>>
    PROVE  Opens(Tail(s)) = Tail(Opens(s))
<1>1. /\ Tail(s) \in Seq(Unit) /\ Len(s) \in Nat \ {0} /\ Len(Tail(s)) = Len(s) - 1
      /\ \A n \in 1 .. Len(s) - 1 : Tail(s)[n] = s[n + 1]
  BY PopFacts
<1>2. /\ Opens(s) \in Seq(OpenFile) /\ Len(Opens(s)) = Len(s)
      /\ \A n \in 1 .. Len(s) : Opens(s)[n] = OpenOf(s[n])
  BY OpensFacts
<1>3. Opens(s) # <<>>
  BY <1>1, <1>2
<1>4. /\ Tail(Opens(s)) \in Seq(OpenFile) /\ Len(Tail(Opens(s))) = Len(s) - 1
      /\ \A n \in 1 .. Len(s) - 1 : Tail(Opens(s))[n] = Opens(s)[n + 1]
  BY <1>2, <1>3, PopFacts
<1>5. /\ Opens(Tail(s)) \in Seq(OpenFile) /\ Len(Opens(Tail(s))) = Len(s) - 1
      /\ \A n \in 1 .. Len(s) - 1 : Opens(Tail(s))[n] = OpenOf(Tail(s)[n])
  BY <1>1, OpensFacts
<1>6. ASSUME NEW n \in 1 .. Len(s) - 1  PROVE Opens(Tail(s))[n] = Tail(Opens(s))[n]
  <2>1. n + 1 \in 1 .. Len(s)
    BY <1>1
  <2>2. QED BY <2>1, <1>1, <1>2, <1>4, <1>5
<1>7. QED BY <1>4, <1>5, <1>6, SeqEqual

(* A unit that goes on has the file and the texts that it had.                    *)
LEMMA SwapOpens ==
    ASSUME NEW s \in Seq(Unit), s # <<>>, NEW v, SameUnit(v, Head(s))
    PROVE  Opens(<<v>> \o Tail(s)) = Opens(s)
<1> DEFINE a == <<v>> \o Tail(s)
<1>1. v \in Unit /\ Head(s) = s[1] /\ OpenOf(v) = OpenOf(s[1]) /\ Len(s) \in Nat \ {0}
  BY PopFacts DEF SameUnit, OpenOf
<1>2. /\ a \in Seq(Unit) /\ Len(a) = Len(s) /\ a[1] = v
      /\ \A n \in 2 .. Len(s) : a[n] = s[n]
  BY <1>1, ReplaceFacts
<1> HIDE DEF a
<1>3. /\ Opens(s) \in Seq(OpenFile) /\ Len(Opens(s)) = Len(s)
      /\ \A n \in 1 .. Len(s) : Opens(s)[n] = OpenOf(s[n])
  BY OpensFacts
<1>4. /\ Opens(a) \in Seq(OpenFile) /\ Len(Opens(a)) = Len(s)
      /\ \A n \in 1 .. Len(s) : Opens(a)[n] = OpenOf(a[n])
  BY <1>2, OpensFacts
<1>5. \A n \in 1 .. Len(s) : Opens(a)[n] = Opens(s)[n]
  BY <1>1, <1>2, <1>3, <1>4
<1>6. Opens(a) = Opens(s)
  BY <1>3, <1>4, <1>5, SeqEqual
<1>7. QED BY <1>6 DEF a

(* The program to assemble does not change.                                    *)
LEMMA SameTask ==
    ASSUME UNCHANGED args
    PROVE  UNCHANGED Goal!program
<1>1. src' = src /\ lspFlag' = lspFlag /\ emitAst' = emitAst
  BY DEF args
<1>2. Asks' = Asks /\ Sloppy' = Sloppy
  BY <1>1, SameProgram DEF Asks, Sloppy
<1>3. QED BY <1>1, <1>2 DEF Goal!program

(* An end other than success is a failure of Assembly.                         *)
LEMMA StopFails ==
    ASSUME Running, UNCHANGED args, NEW how, Stop(how), how \in {"1", "2", "exit", "panic", "crash"},
           hasErrored' \in {hasErrored, TRUE},
           how \in {"1", "exit", "panic"} => hasErrored',
           how = "2" => hasErrored' \/ (emitAst /\ lspFlag)
    PROVE  Goal!Fail
<1>1. stack' = <<>> /\ result' = how /\ emitted' = emitted
  BY DEF Stop
<1>2. OpenFiles' = <<>>
  BY <1>1 DEF OpenFiles
<1>3. UNCHANGED Goal!program
  BY SameTask
<1>4. QED BY <1>1, <1>2, <1>3 DEF Goal!Fail, Goal!Busy, Running

(* A step that leaves the open files alone is a report or hidden.              *)
LEMMA StaysOrReports ==
    ASSUME Running, UNCHANGED <<args, emitted, result>>, OpenFiles' = OpenFiles,
           hasErrored' \in {hasErrored, TRUE}
    PROVE  Goal!Report \/ UNCHANGED Goal!vars
<1>1. UNCHANGED Goal!program
  BY SameTask
<1>2. emitted' = emitted /\ result' = result
  OBVIOUS
<1>3. CASE hasErrored' = hasErrored
  BY <1>1, <1>2, <1>3 DEF Goal!vars, Goal!program
<1>4. CASE hasErrored' = TRUE
  BY <1>1, <1>2, <1>4 DEF Goal!Report, Goal!Busy, Running
<1>5. QED BY <1>3, <1>4

(* The open files, as the unit on top and the one below see them.              *)
LEMMA OpenFacts ==
    ASSUME Inv, Running
    PROVE  /\ OpenFiles = Opens(stack) /\ Len(OpenFiles) = Len(stack)
           /\ OpenFiles \in Seq(OpenFile) /\ OpenFiles # <<>>
           /\ Head(OpenFiles) = OpenOf(top)
           /\ Len(stack) > 1 => OpenFiles[2] = OpenOf(stack[2])
           /\ rest \in Seq(Unit) /\ Opens(rest) = Tail(OpenFiles)
<1>1. /\ stack \in Seq(Unit) /\ stack # <<>> /\ Len(stack) \in Nat \ {0}
      /\ top = stack[1] /\ rest = Tail(stack)
  BY StackFacts
<1>2. OpenFiles = Opens(stack)
  BY DEF OpenFiles, Opens, OpenOf
<1>3. /\ OpenFiles \in Seq(OpenFile) /\ Len(OpenFiles) = Len(stack)
      /\ \A n \in 1 .. Len(stack) : OpenFiles[n] = OpenOf(stack[n])
  BY <1>1, <1>2, OpensFacts
<1>4. OpenFiles # <<>> /\ Head(OpenFiles) = OpenFiles[1]
  <2>1. OpenFiles # <<>>
    BY <1>1, <1>3
  <2>2. QED BY <2>1, <1>3, PopFacts
<1>5. 1 \in 1 .. Len(stack) /\ (Len(stack) > 1 => 2 \in 1 .. Len(stack))
  BY <1>1
<1>6. rest \in Seq(Unit) /\ Opens(rest) = Tail(OpenFiles)
  BY <1>1, <1>2, PopFacts, TailOpens
<1>7. QED BY <1>1, <1>2, <1>3, <1>4, <1>5, <1>6

(* The steps that end in an error are failures of Assembly.                    *)
LEMMA EndingFails ==
    ASSUME Inv,
           \/ OpenMissing \/ OpenUnlexable \/ ProcessFileImport \/ ProcessBadPath
           \/ ProcessForeign \/ ProcessUnreadable \/ ProcessUnterminated
    PROVE  Goal!Fail
<1>1. hasErrored \in BOOLEAN
  BY DEF Inv, TypeOK
<1>2. CASE OpenMissing
  <2>1. \E how \in {"exit", "crash"} : Stop(how)
    BY <1>2 DEF OpenMissing
  <2>2. QED BY <1>2, <2>1, StopFails DEF OpenMissing
<1>3. CASE OpenUnlexable
  BY <1>3, StopFails DEF OpenUnlexable
<1>4. CASE ProcessFileImport
  BY <1>4, StopFails DEF ProcessFileImport, globals
<1>5. CASE ProcessBadPath
  BY <1>5, StopFails DEF ProcessBadPath
<1>8. CASE ProcessForeign
  BY <1>8, StopFails DEF ProcessForeign
<1>6. CASE ProcessUnreadable
  <2>1. Stop("exit") \/ Stop("panic")
    BY <1>6 DEF ProcessUnreadable
  <2>2. QED BY <1>6, <2>1, StopFails DEF ProcessUnreadable
<1>7. CASE ProcessUnterminated
  <2>1. hasErrored' \in {hasErrored, TRUE}
    BY <1>1, <1>7 DEF ProcessUnterminated
  <2>2. QED BY <2>1, <1>7, StopFails DEF ProcessUnterminated
<1>9. QED BY <1>2, <1>3, <1>4, <1>5, <1>6, <1>7, <1>8

(* A unit that goes on, with its imports, is a report or hidden.               *)
LEMMA GoingOnIsHidden ==
    ASSUME Inv, Running, UNCHANGED <<args, emitted, result>>,
           hasErrored' \in {hasErrored, TRUE},
           NEW v, SameUnit(v, top), stack' = <<v>> \o rest
    PROVE  Goal!Report \/ UNCHANGED Goal!vars
<1>1. stack \in Seq(Unit) /\ stack # <<>>
  BY StackFacts
<1>2. Opens(stack') = Opens(stack)
  BY <1>1, SwapOpens DEF top, rest
<1>3. OpenFiles' = OpenFiles
  BY <1>2 DEF OpenFiles, Opens, OpenOf
<1>4. QED BY <1>3, StaysOrReports

(* A call opens a file that is asked for.                                      *)
LEMMA CallBegins ==
    ASSUME Inv, Running, UNCHANGED <<args, emitted, result>>, hasErrored' = hasErrored,
           NEW v, SameUnit(v, top), NEW f \in Files, NEW m \in Modes,
           f = Core \/ (f \in ImportsOf(top.file) /\ coreImported),
           stack' = <<NewUnit(f, m)>> \o (<<v>> \o rest)
    PROVE  Goal!Begin
<1> DEFINE u == NewUnit(f, m)
           b == <<v>> \o rest
<1>1. /\ stack \in Seq(Unit) /\ stack # <<>> /\ top = stack[1] /\ top \in Unit
      /\ rest = Tail(stack) /\ 1 \in DOMAIN stack
  BY StackFacts
<1>2. u \in Unit /\ OpenOf(u) = Goal!Opened(f)
  BY NewUnitFacts DEF OpenOf, Goal!Opened, NewUnit, Unit, Phases
<1>3. b \in Seq(Unit) /\ Opens(b) = Opens(stack)
  BY <1>1, ReplaceFacts, SwapOpens DEF SameUnit, top
<1> HIDE DEF u, b
<1>4. Opens(stack') = <<Goal!Opened(f)>> \o Opens(stack)
  <2>1. stack' = <<u>> \o b
    BY DEF u, b
  <2>2. QED BY <2>1, <1>2, <1>3, PushOpens
<1>5. OpenFiles' = <<Goal!Opened(f)>> \o OpenFiles
  BY <1>4 DEF OpenFiles, Opens, OpenOf
<1>6. Head(OpenFiles) = OpenOf(top) /\ Len(OpenFiles) = Len(stack)
  BY OpenFacts
<1>7. f \in Asks[Head(OpenFiles).file] \cup {Core}
  BY <1>1, <1>6 DEF Asks, OpenOf, Unit
<1>8. ~hasErrored /\ Len(OpenFiles) = 1 /\ Head(OpenFiles).text = <<>> => f = Core
  <2>1. SUFFICES ASSUME ~hasErrored, Len(stack) = 1, top.imports = <<>>, f # Core
                 PROVE  FALSE
    BY <1>6 DEF OpenOf
  <2>2. Core \in Range(top.imports)
    BY <2>1, <1>1 DEF Inv, CoreFirst
  <2>3. QED BY <2>1, <2>2 DEF Range
<1>9. UNCHANGED Goal!program
  BY SameTask
<1>10. QED BY <1>5, <1>7, <1>8, <1>9 DEF Goal!Begin, Goal!Busy, Running

(* The beginning of a unit opens the core library, fails or is hidden.         *)
LEMMA OpenMaps ==
    ASSUME Inv, Open
    PROVE  Goal!Next \/ UNCHANGED Goal!vars
<1> DEFINE v == [top EXCEPT !.toks = Lexed(top.file), !.phase = "scan"]
<1>1. Running /\ top.phase = "open" /\ top.file \in OnDisk /\ Lexable(top.file)
      /\ UNCHANGED args /\ hasErrored' = hasErrored
      /\ IF coreImported THEN Update(v) ELSE PushOn(<<v>> \o rest, Core, "core")
  BY DEF Open
<1>2. top \in Unit /\ UnitOK(top)
  BY <1>1, StackFacts
<1>3. SameUnit(v, top)
  BY <1>1, <1>2, LexedUnit DEF Inv, TypeOK, UnitOK
<1> HIDE DEF v
<1>4. \/ stack' = <<v>> \o rest /\ UNCHANGED <<emitted, result>>
      \/ Stop("crash")
      \/ stack' = <<NewUnit(Core, "core")>> \o (<<v>> \o rest) /\ UNCHANGED <<emitted, result>>
  BY <1>1 DEF PushOn, Update
<1>5. CASE stack' = <<v>> \o rest /\ UNCHANGED <<emitted, result>>
  BY <1>1, <1>3, <1>5, GoingOnIsHidden DEF Goal!Next
<1>6. CASE Stop("crash")
  BY <1>1, <1>6, StopFails DEF Goal!Next
<1>7. CASE stack' = <<NewUnit(Core, "core")>> \o (<<v>> \o rest) /\ UNCHANGED <<emitted, result>>
  <2>1. Goal!Begin
    BY <1>1, <1>3, <1>7, FilesAssumption, CallBegins DEF Modes
  <2>2. QED BY <2>1 DEF Goal!Next
<1>8. QED BY <1>4, <1>5, <1>6, <1>7

(* A file to append is opened, or nothing is seen.                             *)
LEMMA StartAppendMaps ==
    ASSUME Inv, StartAppend
    PROVE  Goal!Next \/ UNCHANGED Goal!vars
<1> DEFINE f == Head(top.queue)
           m == IF f \in Headers THEN "header" ELSE "module"
           v == [top EXCEPT !.queue = Tail(@)]
<1>1. /\ Running /\ top.phase = "append" /\ top.queue # <<>> /\ PushOn(<<v>> \o rest, f, m)
      /\ UNCHANGED args /\ hasErrored' = hasErrored
  BY DEF StartAppend, globals
<1>2. top \in Unit /\ UnitOK(top) /\ top.queue \in Seq(Files)
  BY <1>1, StackFacts DEF Unit
<1>3. f = top.queue[1] /\ 1 \in DOMAIN top.queue /\ f \in Files /\ Tail(top.queue) \in Seq(Files)
  BY <1>1, <1>2, PopFacts
<1>4. f \in ImportsOf(top.file)
  BY <1>2, <1>3 DEF UnitOK, ImportsOK
<1>5. SameUnit(v, top)
  BY <1>2, <1>3 DEF SameUnit, Unit
<1>6. coreImported /\ m \in Modes
  BY <1>1, LexedMeansCore DEF Modes
<1> HIDE DEF f, m, v
<1>7. \/ Stop("crash")
      \/ stack' = <<NewUnit(f, m)>> \o (<<v>> \o rest) /\ UNCHANGED <<emitted, result>>
  BY <1>1 DEF PushOn
<1>8. CASE Stop("crash")
  BY <1>1, <1>8, StopFails DEF Goal!Next
<1>9. CASE stack' = <<NewUnit(f, m)>> \o (<<v>> \o rest) /\ UNCHANGED <<emitted, result>>
  <2>1. Goal!Begin
    BY <1>1, <1>3, <1>4, <1>5, <1>6, <1>9, CallBegins
  <2>2. QED BY <2>1 DEF Goal!Next
<1>10. QED BY <1>7, <1>8, <1>9

(* Steps of preprocessing are reports or hidden.                               *)
LEMMA QuietSteps ==
    ASSUME Inv,
           \/ ProcessMalformed \/ ProcessUnresolved \/ Process
           \/ EndAppend \/ FinishPreprocess \/ Done \/ UNCHANGED vars
    PROVE  Goal!Report \/ UNCHANGED Goal!vars
<1>1. CASE ProcessMalformed \/ ProcessUnresolved
  <2>1. /\ Running /\ UNCHANGED <<args, stack, emitted, result>> /\ hasErrored' = TRUE
    BY <1>1 DEF ProcessMalformed, ProcessUnresolved
  <2>2. OpenFiles' = OpenFiles
    BY <2>1 DEF OpenFiles
  <2>3. QED BY <2>1, <2>2, StaysOrReports
<1>2. CASE Process
  <2> DEFINE p == FirstImport(top.toks)
             files == Resolve[top.toks[p].name]
             v == [top EXCEPT
                      !.toks  = Splice(RemoveImport(@, p), p, Aliases(top.toks[p].form, files)),
                      !.at    = p,
                      !.queue = files,
                      !.phase = "append"]
  <2>1. /\ Running /\ Scanning(top) /\ Named(top) /\ SemisAfter(top.toks, p) # {}
        /\ Update(v) /\ UNCHANGED args
        /\ hasErrored' = \/ hasErrored \/ top.toks[p].name \in Reported
                         \/ ReadsFiles(top) /\ \E n \in DOMAIN files : files[n] \notin OnDisk
    BY <1>2 DEF Process
  <2>2. top \in Unit /\ UnitOK(top) /\ src \in [Files -> Seq(Tokens)]
    BY <2>1, StackFacts DEF Inv, TypeOK
  <2>3. SameUnit(v, top)
    BY <2>1, <2>2, ProcessedUnit
  <2> HIDE DEF v, p, files
  <2>4. hasErrored' \in {hasErrored, TRUE}
    BY <2>1 DEF Inv, TypeOK
  <2>5. QED BY <2>1, <2>3, <2>4, GoingOnIsHidden DEF Update
<1>3. CASE EndAppend
  <2> DEFINE v == [top EXCEPT !.phase = "scan"]
  <2>1. Running /\ Update(v) /\ UNCHANGED args /\ hasErrored' = hasErrored
    BY <1>3 DEF EndAppend, globals
  <2>2. SameUnit(v, top)
    BY <2>1, StackFacts DEF SameUnit, Unit, Phases
  <2> HIDE DEF v
  <2>3. QED BY <2>1, <2>2, GoingOnIsHidden DEF Update
<1>4. CASE FinishPreprocess
  <2> DEFINE v == [top EXCEPT !.phase = "parse"]
  <2>1. Running /\ Update(v) /\ UNCHANGED args /\ hasErrored' = hasErrored
    BY <1>4 DEF FinishPreprocess, globals
  <2>2. SameUnit(v, top)
    BY <2>1, StackFacts DEF SameUnit, Unit, Phases
  <2> HIDE DEF v
  <2>3. QED BY <2>1, <2>2, GoingOnIsHidden DEF Update
<1>5. CASE Done \/ UNCHANGED vars
  <2>1. UNCHANGED <<args, stack, emitted, result>> /\ hasErrored' = hasErrored
    BY <1>5 DEF Done, vars, args
  <2>2. OpenFiles' = OpenFiles
    BY <2>1 DEF OpenFiles
  <2>3. UNCHANGED Goal!program
    BY <2>1, SameTask
  <2>4. QED BY <2>1, <2>2, <2>3 DEF Goal!vars, Goal!program
<1>6. QED BY <1>1, <1>2, <1>3, <1>4, <1>5

(* A header that was handed on is given up: its text is in the unit that       *)
(* asked.                                                                      *)
LEMMA FinishHeaderGivesUp ==
    ASSUME Inv, FinishHeader
    PROVE  Goal!GiveUp
<1> DEFINE u == stack[2]
           ins == IF hasErrored THEN <<>> ELSE top.toks
           w == [u EXCEPT !.toks = Splice(@, u.at, ins)]
<1>1. /\ Running /\ top.mode = "header" /\ ~HasImport(top.toks)
      /\ UNCHANGED args /\ hasErrored' = hasErrored /\ emitted' = emitted /\ result' = result
      /\ stack' = <<[Head(rest) EXCEPT !.toks = Splice(@, Head(rest).at, ins)]>> \o Tail(rest)
  BY DEF FinishHeader, globals
<1>2. /\ Len(stack) > 1 /\ u \in Unit /\ UnitOK(u) /\ Head(rest) = u /\ u.phase = "append"
      /\ rest \in Seq(Unit) /\ rest # <<>>
  BY <1>1, WaitingFacts
<1>3. top \in Unit /\ UnitOK(top)
  BY <1>1, StackFacts
<1>4. ins \in Seq(Tokens) /\ ~HasImport(ins)
  BY <1>1, <1>3, EmptySeq DEF Unit, HasImport
<1> HIDE DEF ins
<1>5. SameUnit(w, Head(rest))
  BY <1>2, <1>4, SplicedUnit
<1>6. stack' = <<w>> \o Tail(rest)
  BY <1>1, <1>2
<1> HIDE DEF w
<1>7. Opens(stack') = Opens(rest)
  BY <1>2, <1>5, <1>6, SwapOpens
<1>8. OpenFiles' = Tail(OpenFiles) /\ Len(OpenFiles) > 1
  <2>1. OpenFiles' = Opens(stack')
    BY DEF OpenFiles, Opens, OpenOf
  <2>2. QED BY <2>1, <1>1, <1>2, <1>7, OpenFacts
<1>9. Head(OpenFiles).file \in Headers
  <2>1. Head(OpenFiles) = OpenOf(top)
    BY <1>1, OpenFacts
  <2>2. QED BY <2>1, <1>1, <1>3 DEF UnitOK, OpenOf
<1>10. UNCHANGED Goal!program
  BY <1>1, SameTask
<1>11. QED BY <1>1, <1>8, <1>9, <1>10 DEF Goal!GiveUp, Goal!Busy, Running

(* A unit with errors is given up, or everything fails.                        *)
LEMMA FinishErroneousMaps ==
    ASSUME Inv, FinishErroneous
    PROVE  Goal!Fail \/ Goal!GiveUp
<1>1. /\ Running /\ hasErrored /\ UNCHANGED args /\ hasErrored' = hasErrored
      /\ IF top.mode = "root" THEN Stop("1") ELSE stack' = rest /\ UNCHANGED <<emitted, result>>
  BY DEF FinishErroneous, globals
<1>2. CASE top.mode = "root"
  BY <1>1, <1>2, StopFails
<1>3. CASE top.mode # "root"
  <2>1. stack' = rest /\ Len(stack) > 1
    BY <1>1, <1>3, WaitingFacts
  <2>2. OpenFiles' = Opens(stack')
    BY DEF OpenFiles, Opens, OpenOf
  <2>3. OpenFiles' = Tail(OpenFiles) /\ Len(OpenFiles) > 1
    BY <2>1, <2>2, <1>1, OpenFacts
  <2>4. UNCHANGED Goal!program
    BY <1>1, SameTask
  <2>5. QED BY <2>3, <2>4, <1>1, <1>3 DEF Goal!GiveUp, Goal!Busy, Running
<1>4. QED BY <1>2, <1>3

(* The texts of an open file are the CX-IR of its unit.                        *)
LEMMA TextsAreCXIR ==
    ASSUME NEW u \in Unit
    PROVE  Goal!Texts(OpenOf(u)) = CXIR(u)
<1> DEFINE a == Append(u.imports, u.file)
           c == u.imports \o <<u.file>>
           n == Len(u.imports)
<1>1. u.imports \in Seq(Files) /\ u.file \in Files /\ <<u.file>> \in Seq(Files)
      /\ Len(<<u.file>>) = 1 /\ <<u.file>>[1] = u.file /\ n \in Nat
  BY DEF Unit
<1>2. /\ a \in Seq(Files) /\ Len(a) = n + 1 /\ a[n + 1] = u.file
      /\ \A i \in 1 .. n : a[i] = u.imports[i]
  BY <1>1, AppendProperties
<1>3. /\ c \in Seq(Files) /\ Len(c) = n + 1
      /\ \A i \in 1 .. n + 1 : c[i] = IF i <= n THEN u.imports[i] ELSE <<u.file>>[i - n]
  BY <1>1, ConcatProperties
<1> HIDE DEF a, c, n
<1>4. ASSUME NEW i \in 1 .. n + 1  PROVE a[i] = c[i]
  <2>1. CASE i <= n
    BY <2>1, <1>1, <1>2, <1>3
  <2>2. CASE i = n + 1
    <3>1. i - n = 1 /\ ~(i <= n)
      BY <2>2, <1>1
    <3>2. QED BY <2>2, <3>1, <1>1, <1>2, <1>3
  <2>3. QED BY <2>1, <2>2, <1>1
<1>5. a = c
  BY <1>2, <1>3, <1>4, SeqEqual
<1>6. QED BY <1>5 DEF Goal!Texts, OpenOf, CXIR, a, c

(* What is kept without an error holds what the file asks for.                    *)
LEMMA TopIsComplete ==
    ASSUME Inv, Running, top.phase = "parse", ~Broken
    PROVE  Goal!Complete(Head(OpenFiles))
<1>1. Head(OpenFiles) = OpenOf(top) /\ top \in Unit
  BY OpenFacts, StackFacts
<1>2. top.file \in Files
  BY <1>1 DEF Unit
<1>3. Terminated(top.file) => ImportsOf(top.file) \subseteq Range(top.imports)
  BY TopIsDone DEF Broken, Failed
<1>4. QED BY <1>1, <1>2, <1>3 DEF Goal!Complete, OpenOf, Asks, Sloppy, Range, Goal!Range

(* The end of a unit is kept by the one that asked, given up, or ends the      *)
(* assembly.                                                                   *)
LEMMA ParseMaps ==
    ASSUME Inv, Parse
    PROVE  Goal!Next
<1>1. Running /\ top.phase = "parse" /\ UNCHANGED args /\ UNCHANGED Goal!program
  BY SameTask DEF Parse
<1>2. Broken \in BOOLEAN /\ Failed \in BOOLEAN /\ (hasErrored => Failed) /\ (Failed => Broken)
      /\ hasErrored \in BOOLEAN
  BY DEF Inv, TypeOK, Broken, Failed
<1>3. top \in Unit /\ Head(OpenFiles) = OpenOf(top)
  BY <1>1, StackFacts, OpenFacts
<1>4. CASE top.mode = "root"
  <2>1. \/ Stop("2") /\ hasErrored' = Failed /\ (Failed \/ (emitAst /\ lspFlag))
        \/ /\ hasErrored' = Broken /\ result' = (IF Broken THEN "1" ELSE "0")
           /\ emitted' = CXIR(top) /\ stack' = <<>>
    BY <1>4 DEF Parse, Failed, Broken
  <2>2. CASE Stop("2") /\ hasErrored' = Failed /\ (Failed \/ (emitAst /\ lspFlag))
    <3>1. hasErrored' \in {hasErrored, TRUE}
      BY <2>2, <1>2
    <3>2. Goal!Fail
      BY <2>2, <3>1, <1>1, StopFails
    <3>3. QED BY <3>2 DEF Goal!Next
  <2>3. CASE /\ hasErrored' = Broken /\ result' = (IF Broken THEN "1" ELSE "0")
             /\ emitted' = CXIR(top) /\ stack' = <<>>
    <3>1. hasErrored' \in {hasErrored, TRUE}
      BY <2>3, <1>2
    <3>2. Len(OpenFiles) = 1 /\ 1 \in DOMAIN stack /\ top = stack[1] /\ Len(stack) = 1
      <4>1. 1 \in DOMAIN stack /\ top = stack[1]
        BY <1>1, StackFacts
      <4>2. Len(stack) = 1
        BY <4>1, <1>1, <1>4 DEF Inv, WellNested
      <4>3. QED BY <4>1, <4>2, <1>1, OpenFacts
    <3>3. ~Broken => Head(OpenFiles).text # <<>>
      <4>1. SUFFICES ASSUME ~Broken, top.imports = <<>>  PROVE FALSE
        BY <1>3 DEF OpenOf
      <4>2. Core \in Range(top.imports)
        BY <4>1, <3>2, <1>1, <1>2, LexedMeansCore DEF Inv, CoreFirst
      <4>3. QED BY <4>1, <4>2 DEF Range
    <3>4. emitted' = Goal!Texts(Head(OpenFiles)) /\ OpenFiles' = <<>>
      BY <2>3, <1>3, TextsAreCXIR DEF OpenFiles
    <3>5. hasErrored' \/ (Goal!Complete(Head(OpenFiles)) /\ Head(OpenFiles).text # <<>>)
      BY <2>3, <3>3, <1>1, <1>2, TopIsComplete
    <3>6. result' = IF hasErrored' THEN "1" ELSE "0"
      BY <2>3
    <3>7. Goal!Succeed
      BY <3>1, <3>2, <3>4, <3>5, <3>6, <1>1 DEF Goal!Succeed, Goal!Busy, Running
    <3>8. QED BY <3>7 DEF Goal!Next
  <2>4. QED BY <2>1, <2>2, <2>3
<1>5. CASE top.mode # "root"
  <2> DEFINE u == stack[2]
             w == [u EXCEPT !.imports = @ \o CXIR(top)]
  <2>1. /\ hasErrored' = Broken /\ emitted' = emitted /\ result' = result
        /\ stack' = <<[Head(rest) EXCEPT !.imports = @ \o CXIR(top)]>> \o Tail(rest)
    BY <1>5 DEF Parse, KeepModule, Failed, Broken
  <2>2. /\ Len(stack) > 1 /\ u \in Unit /\ Head(rest) = u /\ rest \in Seq(Unit) /\ rest # <<>>
    BY <1>1, <1>5, WaitingFacts
  <2>3. /\ OpenFiles[2] = OpenOf(u) /\ Len(OpenFiles) > 1
        /\ Opens(rest) = Tail(OpenFiles)
    BY <2>2, <1>1, OpenFacts
  <2>4. stack' = <<w>> \o Tail(rest)
    BY <2>1, <2>2
  <2> HIDE DEF u
  <2>5. w \in Unit /\ OpenOf(w) = [OpenOf(u) EXCEPT !.text = @ \o CXIR(top)]
    <3>1. /\ u.imports \in Seq(Files) /\ CXIR(top) \in Seq(Files) /\ CXIR(top) # <<>>
      BY <2>2, <1>3, CXIRFacts DEF Unit
    <3>2. u.imports \o CXIR(top) \in Seq(Files)
      BY <3>1, KeptTexts
    <3>3. w \in Unit /\ w.file = u.file /\ w.imports = u.imports \o CXIR(top)
      BY <2>2, <3>2 DEF Unit
    <3> DEFINE t == u.imports \o CXIR(top)
    <3>4. w.file = u.file /\ w.imports = t
      BY <3>3
    <3>5. [OpenOf(u) EXCEPT !.text = @ \o CXIR(top)] = [OpenOf(u) EXCEPT !.text = t]
      BY DEF OpenOf
    <3> HIDE DEF w, t
    <3>6. OpenOf(w) = [OpenOf(u) EXCEPT !.text = t]
      BY <3>4 DEF OpenOf
    <3>7. QED BY <3>3, <3>5, <3>6
  <2> HIDE DEF w
  <2>6. Tail(rest) \in Seq(Unit) /\ Opens(Tail(rest)) = Tail(Opens(rest))
    BY <2>2, PopFacts, TailOpens
  <2>7. Opens(stack') = <<OpenOf(w)>> \o Tail(Tail(OpenFiles))
    BY <2>3, <2>4, <2>5, <2>6, PushOpens
  <2>8. OpenFiles' = Opens(stack')
    BY DEF OpenFiles, Opens, OpenOf
  <2>9. OpenFiles' = <<[OpenFiles[2] EXCEPT !.text = @ \o Goal!Texts(Head(OpenFiles))]>>
                         \o Tail(Tail(OpenFiles))
    BY <2>3, <2>5, <2>7, <2>8, <1>3, TextsAreCXIR
  <2>10. hasErrored' \in {hasErrored, TRUE} /\ (hasErrored' \/ Goal!Complete(Head(OpenFiles)))
    BY <2>1, <1>1, <1>2, TopIsComplete
  <2>11. Goal!Keep
    BY <2>1, <2>3, <2>9, <2>10, <1>1 DEF Goal!Keep, Goal!Busy, Running
  <2>12. QED BY <2>11 DEF Goal!Next
<1>6. QED BY <1>4, <1>5

(* Initial states are initial states of Assembly.                              *)
LEMMA InitMaps == Init => Goal!Init
<1>1. SUFFICES ASSUME Init  PROVE Goal!Init
  OBVIOUS
<1>2. src \in [Files -> Seq(Tokens)]
  BY <1>1, ProgramsAssumption DEF Init
<1>3. Asks \in [Files -> SUBSET Files] /\ Sloppy \in SUBSET Files
  BY <1>2, ReachableFacts DEF Asks, Sloppy
<1>4. OpenFiles = <<Goal!Opened(Main)>>
  <2>1. stack = <<NewUnit(Main, "root")>>
    BY <1>1 DEF Init
  <2>2. NewUnit(Main, "root").file = Main /\ NewUnit(Main, "root").imports = <<>>
    BY DEF NewUnit
  <2>3. QED BY <2>1, <2>2 DEF OpenFiles, Goal!Opened
<1>5. (emitAst /\ lspFlag) \in BOOLEAN /\ emitted = <<>> /\ hasErrored = FALSE /\ result = "none"
  BY <1>1 DEF Init
<1>6. QED BY <1>3, <1>4, <1>5 DEF Goal!Init

(* Every step is a step of Assembly or hidden.                                 *)
LEMMA NextMaps == Inv /\ [Next]_vars => [Goal!Next]_(Goal!vars)
<1>1. SUFFICES ASSUME Inv, [Next]_vars
               PROVE  Goal!Next \/ UNCHANGED Goal!vars
  OBVIOUS
<1>2. CASE \/ OpenMissing \/ OpenUnlexable \/ ProcessFileImport \/ ProcessBadPath
           \/ ProcessForeign \/ ProcessUnreadable \/ ProcessUnterminated
  BY <1>1, <1>2, EndingFails DEF Goal!Next
<1>3. CASE Open
  BY <1>1, <1>3, OpenMaps
<1>4. CASE \/ ProcessMalformed \/ ProcessUnresolved \/ Process
           \/ EndAppend \/ FinishPreprocess \/ Done \/ UNCHANGED vars
  BY <1>1, <1>4, QuietSteps DEF Goal!Next
<1>5. CASE StartAppend
  BY <1>1, <1>5, StartAppendMaps
<1>6. CASE FinishHeader
  BY <1>1, <1>6, FinishHeaderGivesUp DEF Goal!Next
<1>7. CASE FinishErroneous
  BY <1>1, <1>7, FinishErroneousMaps DEF Goal!Next
<1>8. CASE Parse
  BY <1>1, <1>8, ParseMaps
<1>9. QED BY <1>1, <1>2, <1>3, <1>4, <1>5, <1>6, <1>7, <1>8 DEF Next

(* The recursion of units, with its tokens, positions and return codes, does what  *)
(* Assembly says: the refinement, for every program.                              *)
THEOREM UnitsAssemble == Spec => AssemblesProgram
<1>1. Init => Goal!Init
  BY InitMaps
<1>2. Inv /\ [Next]_vars => [Goal!Next]_(Goal!vars)
  BY NextMaps
<1>3. QED BY <1>1, <1>2, Invariant, PTL DEF Spec, AssemblesProgram, Goal!Spec

(* What Assembly promises then holds of the CX-IR.                               *)
Order == INSTANCE AssemblyProofs WITH
           asks <- Asks, sloppy <- Sloppy, askedTree <- (emitAst /\ lspFlag),
           open <- OpenFiles, text <- emitted, errored <- hasErrored, answer <- result

(* What is proved of Assembly is what is claimed of units.                     *)
LEMMA OrderMeans == Inv /\ Order!InOrder => DependenciesFirst
<1>1. SUFFICES ASSUME Inv, Order!InOrder, result = "0"
               PROVE  DependenciesFirst
  BY DEF DependenciesFirst
<1>2. /\ Asks[Core] = {} => Head(emitted) = Core
      /\ \A n \in DOMAIN emitted : emitted[n] \notin Sloppy =>
            \A f \in Asks[emitted[n]] : \E m \in 1 .. n - 1 : emitted[m] = f
  BY <1>1 DEF Order!InOrder
<1>3. Core \in Files /\ emitted \in Seq(Files)
  BY <1>1, FilesAssumption DEF Inv, TypeOK
<1>4. Head(emitted) = Core \/ ImportsOf(Core) # {}
  BY <1>2, <1>3 DEF Asks
<1>5. ASSUME NEW n \in DOMAIN emitted, NEW f \in ImportsOf(emitted[n]), Terminated(emitted[n])
      PROVE  \E m \in 1 .. n - 1 : emitted[m] = f
  <2>1. emitted[n] \in Files
    BY <1>3
  <2>2. QED BY <2>1, <1>2, <1>5 DEF Asks, Sloppy
<1>6. QED BY <1>4, <1>5 DEF DependenciesFirst

(* Each file of the CX-IR stands behind all that it imports, core in front.       *)
THEOREM DependenciesComeFirst == Spec => []DependenciesFirst
<1>1. Order!Spec => []Order!InOrder
  BY FilesAssumption, Order!AssemblyInOrder
<1>2. Goal!Spec => Order!Spec
  <2>1. Goal!Init => Order!Init
    BY DEF Goal!Init, Order!Init, Goal!Opened, Order!Opened
  <2>2. [Goal!Next]_(Goal!vars) => [Order!Next]_(Order!vars)
    <3>1. /\ \A u : Goal!Complete(u) <=> Order!Complete(u)
          /\ \A u : Goal!Texts(u) = Order!Texts(u)
          /\ \A f : Goal!Opened(f) = Order!Opened(f)
          /\ Goal!Busy <=> Order!Busy
      BY DEF Goal!Complete, Order!Complete, Goal!Range, Order!Range, Goal!Texts, Order!Texts,
             Goal!Opened, Order!Opened, Goal!Busy, Order!Busy
    <3>2. UNCHANGED Goal!vars <=> UNCHANGED Order!vars
      BY DEF Goal!vars, Order!vars
    <3>3. UNCHANGED Goal!program <=> UNCHANGED Order!program
      BY DEF Goal!program, Order!program
    <3>4. Goal!Begin => Order!Begin
      BY <3>1, <3>3 DEF Goal!Begin, Order!Begin
    <3>5. Goal!Keep => Order!Keep
      BY <3>1, <3>3 DEF Goal!Keep, Order!Keep
    <3>6. Goal!GiveUp => Order!GiveUp
      BY <3>1, <3>3 DEF Goal!GiveUp, Order!GiveUp
    <3>7. Goal!Report => Order!Report
      BY <3>1, <3>3 DEF Goal!Report, Order!Report
    <3>8. Goal!Succeed => Order!Succeed
      BY <3>1, <3>3 DEF Goal!Succeed, Order!Succeed
    <3>9. Goal!Fail => Order!Fail
      BY <3>1, <3>3 DEF Goal!Fail, Order!Fail
    <3>10. QED BY <3>2, <3>4, <3>5, <3>6, <3>7, <3>8, <3>9 DEF Goal!Next, Order!Next
  <2>3. QED BY <2>1, <2>2, PTL DEF Goal!Spec, Order!Spec
<1>3. Inv /\ Order!InOrder => DependenciesFirst
  BY OrderMeans
<1>4. QED BY <1>1, <1>2, <1>3, Invariant, UnitsAssemble, PTL DEF AssemblesProgram

(* A file that is kept, and closed, is among the first of those that keep it.      *)
LEMMA SuccessHoldsAll ==
    ASSUME Inv, DependenciesFirst, result = "0", \A f \in Reachable : Terminated(f)
    PROVE  Range(emitted) = Reachable
<1>1. emitted \in Seq(Files) /\ src \in [Files -> Seq(Tokens)]
  BY DEF Inv, TypeOK
<1>2. Range(emitted) \subseteq Reachable
  BY DEF Inv, OwnFiles, Range
<1>3. Main \in Range(emitted) /\ Core \in Range(emitted)
  BY DEF Inv, EmittedClean
<1>4. ASSUME NEW g \in Range(emitted), NEW f \in ImportsOf(g)
      PROVE  f \in Range(emitted)
  <2>1. PICK n \in DOMAIN emitted : emitted[n] = g
    BY DEF Range
  <2>2. Terminated(g)
    BY <1>2
  <2>3. PICK m \in 1 .. n - 1 : emitted[m] = f
    BY <2>1, <2>2, <1>4 DEF DependenciesFirst
  <2>4. m \in DOMAIN emitted
    BY <2>1, <2>3, <1>1
  <2>5. QED BY <2>3, <2>4 DEF Range
<1>5. Closed(Range(emitted)) /\ Range(emitted) \in SUBSET Files
  BY <1>2, <1>3, <1>4 DEF Closed, Reachable
<1>6. QED BY <1>2, <1>5 DEF Reachable

(* Code 0: nothing to complain about in any file that was imported.              *)
THEOREM SuccessIsClean == Spec => []SuccessMeansClean
<1>1. ASSUME Inv, DependenciesFirst  PROVE SuccessMeansClean
  <2>1. SUFFICES ASSUME result = "0", \A f \in Reachable : Terminated(f)
                 PROVE  ~hasErrored /\ \A f \in Reachable : Clean(f)
    BY DEF SuccessMeansClean
  <2>2. Range(emitted) = Reachable
    BY <1>1, <2>1, SuccessHoldsAll
  <2>3. ~hasErrored /\ \A m \in DOMAIN emitted : Terminated(emitted[m]) => Clean(emitted[m])
    BY <1>1, <2>1 DEF Inv, EmittedClean
  <2>4. QED BY <2>1, <2>2, <2>3 DEF Range
<1>2. QED BY <1>1, Invariant, DependenciesComeFirst, PTL

(* Code 0: the CX-IR holds the whole program and nothing else.                    *)
THEOREM SuccessIsAll == Spec => []SuccessIsComplete
<1>1. ASSUME Inv, DependenciesFirst  PROVE SuccessIsComplete
  <2>1. SUFFICES ASSUME result = "0", \A f \in Reachable : Terminated(f)
                 PROVE  {emitted[n] : n \in DOMAIN emitted} = Reachable
    BY DEF SuccessIsComplete
  <2>2. QED BY <1>1, <2>1, SuccessHoldsAll DEF Range
<1>2. QED BY <1>1, Invariant, DependenciesComeFirst, PTL

-------------------------------------------------------------------------------
(* Declarations.  Nothing that is done to a list adds or drops one, but that a    *)
(* header is copied into it; and a header is copied to who asked for it.          *)
Codes == {"code", "bad", "badgen"}
CodeAt(s) == {n \in DOMAIN s : s[n].t \in Codes}

CodeOK(u) ==
    /\ u.phase # "open" /\ Terminated(u.file) /\ ImportsOf(u.file) \cap Headers = {}
    => CodeIn(u.toks) = CodeIn(src[u.file])
AskedBy(kid, u) == kid.mode = "header" => kid.file \in ImportsOf(u.file) \cap Headers

Keeps(units) ==
    /\ \A n \in DOMAIN units : CodeOK(units[n])
    /\ \A n \in 2 .. Len(units) : AskedBy(units[n - 1], units[n])
CodeInv == Keeps(stack)

(* A unit pushed on units whose code is kept.                                  *)
LEMMA PushKeeps ==
    ASSUME NEW s \in Seq(Unit), NEW u \in Unit, Keeps(s), CodeOK(u),
           s # <<>> => AskedBy(u, s[1])
    PROVE  Keeps(<<u>> \o s)
<1> DEFINE r == <<u>> \o s
<1>1. /\ r \in Seq(Unit) /\ Len(r) = Len(s) + 1 /\ Len(s) \in Nat /\ r[1] = u
      /\ \A n \in 2 .. Len(s) + 1 : r[n] = s[n - 1]
  BY PushFacts
<1>2. DOMAIN r = 1 .. Len(s) + 1 /\ DOMAIN s = 1 .. Len(s)
  BY <1>1
<1> HIDE DEF r
<1>3. ASSUME NEW n \in DOMAIN r  PROVE CodeOK(r[n])
  <2>1. CASE n = 1
    BY <2>1, <1>1
  <2>2. CASE n # 1
    <3>1. n \in 2 .. Len(s) + 1 /\ n - 1 \in DOMAIN s
      BY <2>2, <1>1, <1>2
    <3>2. QED BY <3>1, <1>1 DEF Keeps
  <2>3. QED BY <2>1, <2>2
<1>4. ASSUME NEW n \in 2 .. Len(r)  PROVE AskedBy(r[n - 1], r[n])
  <2>1. n \in 2 .. Len(s) + 1 /\ r[n] = s[n - 1]
    BY <1>1
  <2>2. CASE n = 2
    <3>1. s # <<>> /\ r[n - 1] = u /\ r[n] = s[1]
      BY <2>1, <2>2, <1>1, EmptySeq
    <3>2. QED BY <3>1
  <2>3. CASE n # 2
    <3>1. n - 1 \in 2 .. Len(s) /\ n - 1 \in 2 .. Len(s) + 1
      BY <2>1, <2>3, <1>1
    <3>2. r[n - 1] = s[(n - 1) - 1]
      BY <3>1, <1>1
    <3>3. QED BY <3>1, <3>2, <2>1 DEF Keeps
  <2>4. QED BY <2>2, <2>3
<1>5. QED BY <1>3, <1>4 DEF Keeps, r

(* What is left when the unit on top is taken away.                            *)
LEMMA TailKeeps ==
    ASSUME NEW s \in Seq(Unit), s # <<>>, Keeps(s)
    PROVE  /\ Keeps(Tail(s)) /\ Tail(s) \in Seq(Unit)
           /\ Tail(s) # <<>> => Tail(s)[1] = s[2] /\ s[2] \in Unit /\ AskedBy(s[1], s[2]) /\ CodeOK(s[2])
<1> DEFINE t == Tail(s)
<1>1. /\ t \in Seq(Unit) /\ Len(s) \in Nat \ {0} /\ Len(t) = Len(s) - 1
      /\ \A n \in 1 .. Len(s) - 1 : t[n] = s[n + 1]
  BY PopFacts
<1>2. DOMAIN t = 1 .. Len(s) - 1 /\ DOMAIN s = 1 .. Len(s) /\ (t # <<>> => Len(s) > 1)
  BY <1>1, EmptySeq
<1> HIDE DEF t
<1>3. ASSUME NEW n \in DOMAIN t  PROVE CodeOK(t[n])
  <2>1. n + 1 \in DOMAIN s /\ t[n] = s[n + 1]
    BY <1>1, <1>2
  <2>2. QED BY <2>1 DEF Keeps
<1>4. ASSUME NEW n \in 2 .. Len(t)  PROVE AskedBy(t[n - 1], t[n])
  <2>1. n + 1 \in 2 .. Len(s) /\ t[n] = s[n + 1] /\ t[n - 1] = s[(n + 1) - 1]
    BY <1>1, <1>2
  <2>2. QED BY <2>1 DEF Keeps
<1>5. ASSUME t # <<>>
      PROVE  t[1] = s[2] /\ s[2] \in Unit /\ AskedBy(s[1], s[2]) /\ CodeOK(s[2])
  <2>1. 1 \in 1 .. Len(s) - 1 /\ 2 \in 2 .. Len(s) /\ 2 \in DOMAIN s /\ 2 - 1 = 1 /\ 1 + 1 = 2
    BY <1>5, <1>1, <1>2
  <2>2. t[1] = s[2] /\ s[2] \in Unit
    BY <2>1, <1>1
  <2>3. AskedBy(s[2 - 1], s[2]) /\ CodeOK(s[2])
    BY <2>1 DEF Keeps
  <2>4. QED BY <2>1, <2>2, <2>3
<1>6. QED BY <1>1, <1>3, <1>4, <1>5 DEF Keeps, t

(* The first unit goes on.                                                       *)
LEMMA SwapKeeps ==
    ASSUME NEW s \in Seq(Unit), s # <<>>, Keeps(s), NEW v \in Unit,
           v.file = s[1].file, v.mode = s[1].mode, CodeOK(v)
    PROVE  Keeps(<<v>> \o Tail(s))
<1>1. /\ Keeps(Tail(s)) /\ Tail(s) \in Seq(Unit)
      /\ Tail(s) # <<>> => Tail(s)[1] = s[2] /\ AskedBy(s[1], s[2])
  BY TailKeeps
<1>2. Tail(s) # <<>> => AskedBy(v, Tail(s)[1])
  BY <1>1 DEF AskedBy
<1>3. QED BY <1>1, <1>2, PushKeeps

(* A statement is taken out with nothing but itself.                             *)
LEMMA CodeStays ==
    ASSUME NEW s \in Seq(Tokens), NEW p \in 1 .. Len(s) - 1,
           s[p].t = "import", s[p + 1].t = "semi",
           NEW ins \in Seq(AliasTokens)
    PROVE  CodeIn(Splice(RemoveImport(s, p), p, ins)) = CodeIn(s)
<1> DEFINE q == FirstSemi(s, p)
           t == Splice(RemoveImport(s, p), p, ins)
           k == Len(ins)
           d == k - (q - p)
<1>1. Len(s) \in Nat /\ p \in Nat /\ p >= 1 /\ p \in 1 .. Len(s) /\ DOMAIN s = 1 .. Len(s)
  OBVIOUS
<1>2. p + 1 \in SemisAfter(s, p)
  BY <1>1 DEF SemisAfter
<1>3. ins \in Seq(Tokens) /\ k \in Nat /\ \A n \in 1 .. k : ins[n].t = "alias"
  <2>1. AliasTokens \subseteq Tokens /\ \A x \in AliasTokens : x.t = "alias"
    BY AliasToken DEF AliasTokens
  <2>2. k \in Nat /\ DOMAIN ins = 1 .. k /\ \A n \in 1 .. k : ins[n] \in AliasTokens
    OBVIOUS
  <2>3. QED BY <2>1, <2>2
<1>4. /\ t \in Seq(Tokens) /\ Len(t) = Len(s) + d /\ p + k <= Len(t)
      /\ q \in p + 1 .. Len(s)
      /\ \A n \in 1 .. p - 1 : t[n] = s[n]
      /\ \A n \in 1 .. k : t[p - 1 + n] = ins[n]
      /\ \A n \in q .. Len(s) : t[n + d] = s[n]
  BY <1>1, <1>2, <1>3, ReplaceStatement
<1>5. q = p + 1
  <2>1. \A m \in p + 1 .. q - 1 : s[m].t # "semi"
    BY <1>1, <1>2, FirstSemiFacts
  <2>2. ~(p + 1 \in p + 1 .. q - 1)
    BY <2>1
  <2>3. QED BY <2>2, <1>1, <1>4
<1>6. d = k - 1 /\ DOMAIN t = 1 .. Len(s) + k - 1
  BY <1>1, <1>3, <1>4, <1>5
<1> HIDE DEF q, t, k, d
<1>7. /\ \A n \in 1 .. p - 1 : t[n] = s[n]
      /\ \A n \in 1 .. k : t[p - 1 + n].t = "alias"
      /\ \A n \in p + 1 .. Len(s) : t[n + k - 1] = s[n]
  <2>1. \A n \in p + 1 .. Len(s) : n + d = n + k - 1
    BY <1>1, <1>3, <1>6
  <2>2. QED BY <2>1, <1>3, <1>4, <1>5
<1> DEFINE S == CodeAt(s)
           T == CodeAt(t)
           F(n) == IF n < p THEN n ELSE n + k - 1
           f == [n \in S |-> F(n)]
<1>8. ASSUME NEW n \in S  PROVE F(n) \in T
  <2>1. n \in 1 .. Len(s) /\ s[n].t \in Codes /\ n # p
    BY <1>1 DEF CodeAt, Codes
  <2>2. CASE n < p
    <3>1. n \in 1 .. p - 1 /\ n \in DOMAIN t /\ F(n) = n
      BY <2>1, <2>2, <1>1, <1>3, <1>6
    <3>2. QED BY <3>1, <2>1, <1>7 DEF CodeAt
  <2>3. CASE ~(n < p)
    <3>1. n \in p + 1 .. Len(s) /\ n + k - 1 \in DOMAIN t /\ F(n) = n + k - 1
      BY <2>1, <2>3, <1>1, <1>3, <1>6
    <3>2. QED BY <3>1, <2>1, <1>7 DEF CodeAt
  <2>4. QED BY <2>2, <2>3
<1>9. ASSUME NEW n \in S, NEW m \in S, F(n) = F(m)  PROVE n = m
  <2>1. n \in 1 .. Len(s) /\ m \in 1 .. Len(s) /\ n # p /\ m # p
    BY <1>1 DEF CodeAt, Codes
  <2>2. QED BY <2>1, <1>1, <1>3, <1>9
<1>10. ASSUME NEW m \in T  PROVE \E n \in S : F(n) = m
  <2>1. m \in 1 .. Len(s) + k - 1 /\ t[m].t \in Codes
    BY <1>6 DEF CodeAt
  <2>2. CASE m < p
    <3>1. m \in 1 .. p - 1 /\ m \in DOMAIN s /\ F(m) = m
      BY <2>1, <2>2, <1>1
    <3>2. m \in S
      BY <3>1, <2>1, <1>7 DEF CodeAt
    <3>3. QED BY <3>1, <3>2
  <2>3. CASE m >= p /\ m <= p - 1 + k
    <3>1. m - p + 1 \in 1 .. k /\ p - 1 + (m - p + 1) = m
      BY <2>1, <2>3, <1>1, <1>3
    <3>2. t[p - 1 + (m - p + 1)].t = "alias"
      BY <3>1, <1>7
    <3>3. QED BY <3>1, <3>2, <2>1 DEF Codes
  <2>4. CASE m > p - 1 + k
    <3> DEFINE n == m - k + 1
    <3>1. n \in p + 1 .. Len(s) /\ n + k - 1 = m /\ n \in DOMAIN s /\ F(n) = m
      BY <2>1, <2>4, <1>1, <1>3
    <3> HIDE DEF n
    <3>2. n \in S
      BY <3>1, <2>1, <1>7 DEF CodeAt
    <3>3. QED BY <3>1, <3>2
  <2>5. QED BY <2>1, <2>2, <2>3, <2>4, <1>1, <1>3
<1> HIDE DEF S, T, F
<1>11. f \in Bijection(S, T)
  <2>1. f \in [S -> T]
    BY <1>8
  <2>2. \A n, m \in S : f[n] = f[m] => n = m
    BY <1>9
  <2>3. \A m \in T : \E n \in S : f[n] = m
    BY <1>10
  <2>4. QED BY <2>1, <2>2, <2>3 DEF Bijection, Injection, Surjection, IsInjective
<1>12. IsFiniteSet(S)
  <2>1. S \subseteq 1 .. Len(s) /\ IsFiniteSet(1 .. Len(s))
    BY <1>1, FS_Interval DEF S, CodeAt
  <2>2. QED BY <2>1, FS_Subset
<1>13. Cardinality(T) = Cardinality(S)
  BY <1>11, <1>12, FS_Bijection DEF ExistsBijection
<1>14. CodeIn(s) = Cardinality(S) /\ CodeIn(t) = Cardinality(T)
  BY DEF CodeIn, S, T, CodeAt, Codes
<1>15. QED BY <1>13, <1>14 DEF t

(* What is said of the declarations depends on the program, which stays.          *)
LEMMA KeepsOn ==
    ASSUME src' = src, Keeps(stack')
    PROVE  CodeInv'
<1>1. \A u : CodeOK(u)' <=> CodeOK(u)
  BY SameProgram DEF CodeOK, CodeIn
<1>2. \A kid, u : AskedBy(kid, u)' <=> AskedBy(kid, u)
  BY SameProgram DEF AskedBy
<1>3. QED BY <1>1, <1>2 DEF CodeInv, Keeps

(* With no unit left nothing is asked.                                         *)
LEMMA NothingKeeps == Keeps(<<>>)
<1>1. DOMAIN <<>> = {} /\ Len(<<>>) = 0
  OBVIOUS
<1>2. \A n : n \notin 2 .. 0
  OBVIOUS
<1>3. QED BY <1>1, <1>2 DEF Keeps

(* What is known of the unit on top.                                           *)
LEMMA TopKeeps ==
    ASSUME Inv, CodeInv, Running
    PROVE  /\ stack \in Seq(Unit) /\ stack # <<>> /\ top = stack[1] /\ top \in Unit
           /\ rest = Tail(stack) /\ UnitOK(top) /\ CodeOK(top)
<1>1. /\ stack \in Seq(Unit) /\ stack # <<>> /\ top = stack[1] /\ top \in Unit
      /\ rest = Tail(stack) /\ UnitOK(top) /\ 1 \in DOMAIN stack
  BY StackFacts
<1>2. QED BY <1>1 DEF CodeInv, Keeps

(* A file was lexed: its declarations and an <eof>.                              *)
LEMMA LexedCode ==
    ASSUME NEW s \in Seq(Tokens)
    PROVE  CodeIn(Append(s, Plain("eof"))) = CodeIn(s)
<1> DEFINE t == Append(s, Plain("eof"))
<1>1. /\ Len(s) \in Nat /\ Len(t) = Len(s) + 1 /\ t[Len(s) + 1] = Plain("eof")
      /\ \A n \in 1 .. Len(s) : t[n] = s[n]
      /\ DOMAIN t = 1 .. Len(s) + 1 /\ DOMAIN s = 1 .. Len(s)
  BY EofToken, AppendProperties
<1>2. t[Len(s) + 1].t = "eof"
  BY <1>1 DEF Plain
<1> HIDE DEF t
<1>3. CodeAt(t) = CodeAt(s)
  <2>1. ASSUME NEW n \in CodeAt(t)  PROVE n \in CodeAt(s)
    <3>1. n \in 1 .. Len(s) + 1 /\ n # Len(s) + 1 /\ t[n].t \in Codes
      BY <1>1, <1>2 DEF CodeAt, Codes
    <3>2. QED BY <3>1, <1>1 DEF CodeAt
  <2>2. ASSUME NEW n \in CodeAt(s)  PROVE n \in CodeAt(t)
    BY <1>1 DEF CodeAt
  <2>3. QED BY <2>1, <2>2
<1>4. QED BY <1>3 DEF CodeIn, CodeAt, Codes, t

(* The beginning of a unit keeps the code of all.                              *)
LEMMA OpenKeeps ==
    ASSUME Inv, CodeInv, Open
    PROVE  CodeInv'
<1> DEFINE v == [top EXCEPT !.toks = Lexed(top.file), !.phase = "scan"]
<1>1. /\ Running /\ top.phase = "open" /\ top.file \in OnDisk /\ Lexable(top.file)
      /\ src' = src
      /\ IF coreImported THEN Update(v) ELSE PushOn(<<v>> \o rest, Core, "core")
  BY DEF Open, args
<1>2. /\ stack \in Seq(Unit) /\ stack # <<>> /\ top = stack[1] /\ top \in Unit
      /\ rest = Tail(stack) /\ UnitOK(top)
  BY <1>1, TopKeeps
<1>3. src[top.file] \in Seq(Tokens) /\ v.toks = Append(src[top.file], Plain("eof"))
      /\ v.file = top.file /\ v.mode = top.mode
  BY <1>2 DEF Inv, TypeOK, Unit, Lexed
<1>4. v \in Unit
  BY <1>1, <1>2, LexedUnit DEF Inv, TypeOK, UnitOK, SameUnit
<1>5. CodeOK(v)
  BY <1>3, LexedCode DEF CodeOK
<1> HIDE DEF v
<1>6. <<v>> \o rest \in Seq(Unit) /\ Keeps(<<v>> \o rest)
  <2>1. Keeps(<<v>> \o Tail(stack))
    BY <1>2, <1>3, <1>4, <1>5, SwapKeeps DEF CodeInv
  <2>2. <<v>> \o Tail(stack) \in Seq(Unit)
    BY <1>2, <1>4, ReplaceFacts
  <2>3. QED BY <2>1, <2>2, <1>2
<1>7. Keeps(<<NewUnit(Core, "core")>> \o (<<v>> \o rest))
  <2> DEFINE u == NewUnit(Core, "core")
  <2>1. u \in Unit /\ u.phase = "open" /\ u.mode = "core"
    BY FilesAssumption, NewUnitFacts DEF Modes
  <2> HIDE DEF u
  <2>2. CodeOK(u) /\ \A w : AskedBy(u, w)
    BY <2>1 DEF CodeOK, AskedBy
  <2>3. Keeps(<<u>> \o (<<v>> \o rest))
    BY <2>1, <2>2, <1>6, PushKeeps
  <2>4. QED BY <2>3 DEF u
<1>8. stack' \in {<<v>> \o rest, <<NewUnit(Core, "core")>> \o (<<v>> \o rest), <<>>}
  BY <1>1 DEF Update, PushOn, Stop
<1>9. Keeps(stack')
  BY <1>6, <1>7, <1>8, NothingKeeps
<1>10. QED BY <1>1, <1>9, KeepsOn

(* An import statement processed keeps the code of all.                        *)
LEMMA ProcessKeeps ==
    ASSUME Inv, CodeInv, Process
    PROVE  CodeInv'
<1> DEFINE s == top.toks
           p == FirstImport(s)
           stmt == s[p]
           files == Resolve[stmt.name]
           ins == Aliases(stmt.form, files)
           v == [top EXCEPT !.toks  = Splice(RemoveImport(@, p), p, ins),
                            !.at = p, !.queue = files, !.phase = "append"]
<1>1. /\ Running /\ Scanning(top) /\ Named(top) /\ SemisAfter(s, p) # {}
      /\ Update(v) /\ src' = src
  BY DEF Process, args
<1>2. /\ stack \in Seq(Unit) /\ stack # <<>> /\ top = stack[1] /\ top \in Unit
      /\ rest = Tail(stack) /\ UnitOK(top) /\ CodeOK(top) /\ top.phase # "open"
  BY <1>1, TopKeeps DEF Scanning
<1>3. SameUnit(v, top)
  BY <1>1, <1>2, ProcessedUnit DEF Inv, TypeOK
<1>4. s \in Seq(Tokens) /\ p \in 1 .. Len(s) /\ stmt.t = "import"
  BY <1>1, <1>2, FirstImportFacts DEF Unit, Scanning
<1>5. ins \in Seq(AliasTokens)
  <2>1. stmt \in Tokens /\ stmt.form \in {"plain", "wildcard"}
    BY <1>1, <1>4 DEF Named, ImportAt
  <2>2. files \in Seq(Files)
    BY <2>1, <1>4, ImportToken, ResolveAssumption
  <2>3. QED BY <2>1, <2>2, AliasFacts
<1>6. v.toks = Splice(RemoveImport(s, p), p, ins) /\ v.file = top.file
  BY <1>2 DEF Unit
<1> HIDE DEF v, ins, p
<1>7. CodeOK(v)
  <2>1. SUFFICES ASSUME Terminated(top.file), ImportsOf(top.file) \cap Headers = {}
                 PROVE  CodeIn(v.toks) = CodeIn(src[top.file])
    BY <1>6 DEF CodeOK
  <2>2. p < Len(s) /\ s[p + 1].t = "semi"
    <3>1. p \in DOMAIN top.toks /\ top.toks[p].t = "import"
      BY <1>4
    <3>2. ImportsOK(top)
      BY <1>2 DEF UnitOK
    <3>3. QED BY <3>1, <3>2, <2>1 DEF ImportsOK
  <2>3. p \in 1 .. Len(s) - 1
    BY <2>2, <1>4
  <2>4. CodeIn(v.toks) = CodeIn(s)
    BY <2>2, <2>3, <1>4, <1>5, <1>6, CodeStays
  <2>5. QED BY <2>1, <2>4, <1>2 DEF CodeOK
<1>8. Keeps(<<v>> \o Tail(stack))
  BY <1>2, <1>3, <1>7, SwapKeeps DEF CodeInv, SameUnit
<1>9. Keeps(stack')
  BY <1>1, <1>2, <1>8 DEF Update
<1>10. QED BY <1>1, <1>9, KeepsOn

(* A change of phase keeps the code of all.                                    *)
LEMMA PhaseKeeps ==
    ASSUME Inv, CodeInv, EndAppend \/ FinishPreprocess
    PROVE  CodeInv'
<1>1. PICK ph \in Phases :
          /\ Running /\ top.phase # "open" /\ src' = src
          /\ stack' = <<[top EXCEPT !.phase = ph]>> \o rest
  BY DEF EndAppend, FinishPreprocess, Update, args, Phases
<1> DEFINE v == [top EXCEPT !.phase = ph]
<1>2. /\ stack \in Seq(Unit) /\ stack # <<>> /\ top = stack[1] /\ top \in Unit
      /\ rest = Tail(stack) /\ CodeOK(top)
  BY <1>1, TopKeeps
<1>3. v \in Unit /\ v.toks = top.toks /\ v.file = top.file /\ v.mode = top.mode
  BY <1>2 DEF Unit
<1> HIDE DEF v
<1>4. CodeOK(v)
  BY <1>1, <1>2, <1>3 DEF CodeOK
<1>5. Keeps(<<v>> \o Tail(stack))
  BY <1>2, <1>3, <1>4, SwapKeeps DEF CodeInv
<1>6. QED BY <1>1, <1>2, <1>5, KeepsOn DEF v

(* A unit called keeps the code of all.                                        *)
LEMMA StartAppendKeeps ==
    ASSUME Inv, CodeInv, StartAppend
    PROVE  CodeInv'
<1> DEFINE f == Head(top.queue)
           m == IF f \in Headers THEN "header" ELSE "module"
           v == [top EXCEPT !.queue = Tail(@)]
           u == NewUnit(f, m)
<1>1. /\ Running /\ top.phase = "append" /\ top.queue # <<>> /\ src' = src
      /\ PushOn(<<v>> \o rest, f, m)
  BY DEF StartAppend, args
<1>2. /\ stack \in Seq(Unit) /\ stack # <<>> /\ top = stack[1] /\ top \in Unit
      /\ rest = Tail(stack) /\ UnitOK(top) /\ CodeOK(top)
  BY <1>1, TopKeeps
<1>3. /\ f = top.queue[1] /\ Tail(top.queue) \in Seq(Files) /\ f \in Files
      /\ 1 \in DOMAIN top.queue
  <2>1. top.queue \in Seq(Files)
    BY <1>2 DEF Unit
  <2>2. /\ f = top.queue[1] /\ Tail(top.queue) \in Seq(Files)
        /\ Len(top.queue) \in Nat \ {0}
    BY <2>1, <1>1, PopFacts
  <2>3. 1 \in DOMAIN top.queue
    BY <2>1, <2>2
  <2>4. QED BY <2>1, <2>2, <2>3
<1>4. f \in ImportsOf(top.file)
  BY <1>2, <1>3 DEF UnitOK, ImportsOK
<1>5. v \in Unit /\ v.toks = top.toks /\ v.file = top.file /\ v.mode = top.mode
      /\ v.phase = top.phase
  BY <1>2, <1>3 DEF Unit
<1> HIDE DEF v, f
<1>6. CodeOK(v)
  BY <1>2, <1>5 DEF CodeOK
<1>7. <<v>> \o rest \in Seq(Unit) /\ Keeps(<<v>> \o rest) /\ (<<v>> \o rest)[1] = v
  <2>1. Keeps(<<v>> \o Tail(stack))
    BY <1>2, <1>5, <1>6, SwapKeeps DEF CodeInv
  <2>2. <<v>> \o Tail(stack) \in Seq(Unit) /\ (<<v>> \o Tail(stack))[1] = v
    BY <1>2, <1>5, ReplaceFacts
  <2>3. QED BY <2>1, <2>2, <1>2
<1>8. u \in Unit /\ u.phase = "open" /\ u.mode = m /\ u.file = f
      /\ (m = "header" => f \in Headers)
  BY <1>3, NewUnitFacts DEF Modes
<1> HIDE DEF u, m
<1>9. CodeOK(u) /\ AskedBy(u, v)
  BY <1>4, <1>5, <1>8 DEF CodeOK, AskedBy
<1>10. Keeps(<<u>> \o (<<v>> \o rest))
  BY <1>7, <1>8, <1>9, PushKeeps
<1>11. stack' \in {<<u>> \o (<<v>> \o rest), <<>>}
  BY <1>1 DEF PushOn, Stop, u
<1>12. Keeps(stack')
  BY <1>10, <1>11, NothingKeeps
<1>13. QED BY <1>1, <1>12, KeepsOn

(* The unit below the innermost one goes on, as one that keeps its declarations.  *)
LEMMA ReturnKeeps ==
    ASSUME Inv, CodeInv, Running, top.mode # "root", src' = src,
           NEW STATE w, w \in Unit, w.file = stack[2].file, w.mode = stack[2].mode, CodeOK(w),
           stack' = <<w>> \o Tail(rest)
    PROVE  CodeInv'
<1>1. /\ stack \in Seq(Unit) /\ stack # <<>> /\ rest = Tail(stack)
  BY TopKeeps
<1>2. rest \in Seq(Unit) /\ rest # <<>>
  BY WaitingFacts
<1>3. Keeps(rest) /\ rest[1] = stack[2]
  BY <1>1, <1>2, TailKeeps DEF CodeInv
<1>4. Keeps(<<w>> \o Tail(rest))
  BY <1>2, <1>3, SwapKeeps
<1>5. QED BY <1>4, KeepsOn

(* A header is copied to a unit whose file asks for it.                        *)
LEMMA FinishHeaderKeeps ==
    ASSUME Inv, CodeInv, FinishHeader
    PROVE  CodeInv'
<1> DEFINE u == stack[2]
           ins == IF hasErrored THEN <<>> ELSE top.toks
           w == [u EXCEPT !.toks = Splice(@, u.at, ins)]
<1>1. /\ Running /\ top.mode = "header" /\ top.phase = "scan" /\ ~HasImport(top.toks)
      /\ src' = src
      /\ stack' = <<[Head(rest) EXCEPT !.toks = Splice(@, Head(rest).at, ins)]>> \o Tail(rest)
  BY DEF FinishHeader, args
<1>2. u \in Unit /\ UnitOK(u) /\ Head(rest) = u /\ u.phase = "append" /\ rest # <<>>
  BY <1>1, WaitingFacts
<1>3. /\ stack \in Seq(Unit) /\ stack # <<>> /\ top = stack[1] /\ top \in Unit
      /\ rest = Tail(stack)
  BY <1>1, TopKeeps
<1>4. ins \in Seq(Tokens) /\ ~HasImport(ins)
  <2>1. CASE hasErrored
    BY <2>1, EmptySeq DEF HasImport
  <2>2. CASE ~hasErrored
    BY <2>2, <1>1, <1>3 DEF Unit
  <2>3. QED BY <2>1, <2>2
<1>5. AskedBy(stack[1], u)
  BY <1>2, <1>3, TailKeeps DEF CodeInv
<1> HIDE DEF ins, u
<1>6. SameUnit(w, u)
  BY <1>2, <1>4, SplicedUnit
<1>7. CodeOK(w)
  BY <1>1, <1>3, <1>5, <1>6 DEF AskedBy, CodeOK, SameUnit
<1>8. stack' = <<w>> \o Tail(rest)
  BY <1>1, <1>2
<1> HIDE DEF w
<1>9. w \in Unit /\ w.file = u.file /\ w.mode = u.mode /\ top.mode # "root"
  BY <1>1, <1>6 DEF SameUnit
<1>10. QED BY <1>1, <1>7, <1>8, <1>9, ReturnKeeps DEF u

(* A unit given up keeps the code of those below.                              *)
LEMMA FinishErroneousKeeps ==
    ASSUME Inv, CodeInv, FinishErroneous
    PROVE  CodeInv'
<1>1. Running /\ src' = src /\ stack' \in {rest, <<>>}
  BY DEF FinishErroneous, Stop, args
<1>2. stack \in Seq(Unit) /\ stack # <<>> /\ rest = Tail(stack)
  BY <1>1, TopKeeps
<1>3. Keeps(rest)
  BY <1>2, TailKeeps DEF CodeInv
<1>4. Keeps(stack')
  BY <1>1, <1>3, NothingKeeps
<1>5. QED BY <1>1, <1>4, KeepsOn

(* A unit kept does so too.                                                    *)
LEMMA ParseKeeps ==
    ASSUME Inv, CodeInv, Parse
    PROVE  CodeInv'
<1> DEFINE u == stack[2]
           w == [u EXCEPT !.imports = @ \o CXIR(top)]
<1>1. Running /\ src' = src
  BY DEF Parse, args
<1>2. CASE top.mode = "root"
  <2>1. stack' = <<>>
    BY <1>2 DEF Parse, Stop
  <2>2. QED BY <2>1, <1>1, NothingKeeps, KeepsOn
<1>3. CASE top.mode # "root"
  <2>1. stack' = <<[Head(rest) EXCEPT !.imports = @ \o CXIR(top)]>> \o Tail(rest)
    BY <1>3 DEF Parse, KeepModule
  <2>2. u \in Unit /\ Head(rest) = u /\ 2 \in DOMAIN stack
    BY <1>1, <1>3, WaitingFacts
  <2>3. top \in Unit
    BY <1>1, TopKeeps
  <2>4. u.imports \o CXIR(top) \in Seq(Files)
    <3>1. CXIR(top) \in Seq(Files) /\ u.imports \in Seq(Files)
      BY <2>2, <2>3, CXIRFacts DEF Unit
    <3>2. QED BY <3>1, ConcatProperties
  <2>5. CodeOK(u)
    BY <2>2 DEF CodeInv, Keeps
  <2>6. stack' = <<w>> \o Tail(rest)
    BY <2>1, <2>2
  <2>7. /\ w \in Unit /\ w.file = u.file /\ w.mode = u.mode /\ w.phase = u.phase
        /\ w.toks = u.toks
    BY <2>2, <2>4 DEF Unit
  <2> HIDE DEF w, u
  <2>8. CodeOK(w)
    BY <2>5, <2>7 DEF CodeOK
  <2>9. QED BY <2>6, <2>7, <2>8, <1>1, <1>3, ReturnKeeps DEF u
<1>4. QED BY <1>2, <1>3

(* Every step keeps the code of all units.                                     *)
LEMMA NextKeeps == Inv /\ CodeInv /\ [Next]_vars => CodeInv'
<1>1. SUFFICES ASSUME Inv, CodeInv, [Next]_vars  PROVE CodeInv'
  OBVIOUS
<1>2. CASE \/ UNCHANGED vars \/ Done \/ ProcessMalformed \/ ProcessUnresolved
  <2>1. src' = src /\ stack' = stack
    BY <1>2 DEF vars, Done, ProcessMalformed, ProcessUnresolved, args
  <2>2. QED BY <2>1, <1>1, KeepsOn DEF CodeInv
<1>3. CASE \/ OpenMissing \/ OpenUnlexable \/ ProcessFileImport \/ ProcessBadPath
           \/ ProcessForeign \/ ProcessUnreadable \/ ProcessUnterminated
  <2>1. src' = src /\ stack' = <<>>
    BY <1>3 DEF OpenMissing, OpenUnlexable, ProcessFileImport, ProcessBadPath,
                ProcessForeign, ProcessUnreadable, ProcessUnterminated, Stop, args
  <2>2. QED BY <2>1, NothingKeeps, KeepsOn
<1>4. CASE Open \/ Process \/ StartAppend \/ EndAppend \/ FinishPreprocess
  BY <1>1, <1>4, OpenKeeps, ProcessKeeps, StartAppendKeeps, PhaseKeeps
<1>5. CASE FinishHeader \/ FinishErroneous \/ Parse
  BY <1>1, <1>5, FinishHeaderKeeps, FinishErroneousKeeps, ParseKeeps
<1>6. QED BY <1>1, <1>2, <1>3, <1>4, <1>5 DEF Next

(* The unit of Main begins with the code of its file.                          *)
LEMMA InitKeeps == Init => CodeInv
<1>1. SUFFICES ASSUME Init  PROVE CodeInv
  OBVIOUS
<1> DEFINE u == NewUnit(Main, "root")
<1>2. u.phase = "open" /\ stack = <<u>>
  BY <1>1 DEF Init, NewUnit
<1> HIDE DEF u
<1>3. DOMAIN stack = {1} /\ Len(stack) = 1 /\ stack[1] = u
  BY <1>2
<1>4. QED BY <1>2, <1>3 DEF CodeInv, Keeps, CodeOK

(* Nothing but the import statements of a file is taken out of its list, nor      *)
(* anything but a header put in: no declaration is lost before it is parsed.      *)
THEOREM DeclarationsAreKept == Spec => []CodeKept
<1>1. Init => Inv /\ CodeInv
  BY InitInv, InitKeeps
<1>2. Inv /\ CodeInv /\ [Next]_vars => (Inv /\ CodeInv)'
  BY NextInv, NextKeeps
<1>3. Inv /\ CodeInv => CodeKept
  BY DEF CodeInv, Keeps, CodeOK, CodeKept
<1>4. QED BY <1>1, <1>2, <1>3, PTL DEF Spec
===============================================================================
