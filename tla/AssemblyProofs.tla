---------------------------- MODULE AssemblyProofs ----------------------------
(* What the assembly of texts promises, for any files: Main's text is handed on  *)
(* without an error only when every file stands after all that it asks for.      *)
EXTENDS Assembly, StackTheorems

(* A text that can be read from top to bottom, and one that core begins.         *)
Ordered(s) ==
    \A n \in DOMAIN s : s[n] \notin sloppy =>
        \A f \in asks[s[n]] : \E m \in 1 .. n - 1 : s[m] = f
CoreLeads(s) == s = <<>> \/ Head(s) = Core

OpenFile == [file : Files, text : Seq(Files)]

TypeOK ==
    /\ asks \in [Files -> SUBSET Files] /\ sloppy \in SUBSET Files
    /\ open \in Seq(OpenFile) /\ text \in Seq(Files)
    /\ errored \in BOOLEAN

(* What is kept of the open files is in order, as long as there is no error.     *)
TextsInOrder == ~errored => \A n \in DOMAIN open : Ordered(open[n].text)

(* While the text of the outermost file is empty, core is on its way; and core,   *)
(* which asks for nothing, can only have opened itself.                          *)
CoreOnItsWay ==
    ~errored =>
        \/ open = <<>> \/ open[Len(open)].text # <<>>
        \/ Len(open) = 1 \/ open[Len(open) - 1].file = Core
CoreInFront ==
    ~errored /\ asks[Core] = {} =>
        \A n \in DOMAIN open :
            n = Len(open) \/ open[n].file = Core => CoreLeads(open[n].text)

(* Every file but the outermost was opened by the one that waits below it.       *)
AskedFor ==
    \A n \in DOMAIN open :
        n > 1 => open[n - 1].file \in asks[open[n].file] \cup {Core}

AtWork == Busy => open # <<>>

Inv ==
    /\ TypeOK /\ AtWork /\ AskedFor
    /\ TextsInOrder /\ CoreOnItsWay /\ CoreInFront /\ InOrder

-------------------------------------------------------------------------------
(* Two texts in order make one.                                                  *)
LEMMA ConcatOrdered ==
    ASSUME NEW s \in Seq(Files), NEW t \in Seq(Files), Ordered(s), Ordered(t)
    PROVE  Ordered(s \o t)
<1> DEFINE u == s \o t
<1>1. /\ u \in Seq(Files) /\ Len(u) = Len(s) + Len(t)
      /\ \A n \in 1 .. Len(s) + Len(t) :
            u[n] = IF n <= Len(s) THEN s[n] ELSE t[n - Len(s)]
  BY ConcatProperties
<1> HIDE DEF u
<1>0. DOMAIN u = 1 .. Len(s) + Len(t)
  BY <1>1
<1>2. SUFFICES ASSUME NEW n \in 1 .. Len(s) + Len(t), u[n] \notin sloppy,
                      NEW f \in asks[u[n]]
               PROVE  \E m \in 1 .. n - 1 : u[m] = f
  BY <1>0 DEF Ordered, u
<1>3. CASE n <= Len(s)
  <2>1. n \in DOMAIN s /\ u[n] = s[n]
    BY <1>1, <1>2, <1>3
  <2>2. PICK m \in 1 .. n - 1 : s[m] = f
    BY <1>2, <2>1 DEF Ordered
  <2>3. m \in 1 .. Len(s) + Len(t) /\ m <= Len(s)
    BY <1>2, <1>3, <2>2
  <2>4. QED BY <1>1, <2>2, <2>3
<1>4. CASE ~(n <= Len(s))
  <2>1. n - Len(s) \in DOMAIN t /\ u[n] = t[n - Len(s)]
    BY <1>1, <1>2, <1>4
  <2>2. PICK m \in 1 .. n - Len(s) - 1 : t[m] = f
    BY <1>2, <2>1 DEF Ordered
  <2>3. m + Len(s) \in 1 .. n - 1 /\ m + Len(s) \in 1 .. Len(s) + Len(t)
        /\ ~(m + Len(s) <= Len(s)) /\ m + Len(s) - Len(s) = m
    BY <1>2, <1>4, <2>2
  <2>4. u[m + Len(s)] = f
    BY <1>1, <2>2, <2>3
  <2>5. QED BY <2>3, <2>4
<1>5. QED BY <1>3, <1>4

(* So does a file behind the text that holds what it asks for.                   *)
LEMMA AppendOrdered ==
    ASSUME NEW s \in Seq(Files), NEW f \in Files, Ordered(s),
           f \in sloppy \/ asks[f] \subseteq Range(s)
    PROVE  Ordered(Append(s, f))
<1> DEFINE u == Append(s, f)
<1>1. /\ u \in Seq(Files) /\ Len(u) = Len(s) + 1
      /\ \A n \in 1 .. Len(s) : u[n] = s[n]
      /\ u[Len(s) + 1] = f
  BY AppendProperties
<1> HIDE DEF u
<1>2. SUFFICES ASSUME NEW n \in 1 .. Len(s) + 1, u[n] \notin sloppy,
                      NEW g \in asks[u[n]]
               PROVE  \E m \in 1 .. n - 1 : u[m] = g
  BY <1>1 DEF Ordered, u
<1>3. CASE n \in 1 .. Len(s)
  <2>1. PICK m \in 1 .. n - 1 : s[m] = g
    BY <1>1, <1>2, <1>3 DEF Ordered
  <2>2. QED BY <1>1, <1>2, <1>3, <2>1
<1>4. CASE n = Len(s) + 1
  <2>1. g \in Range(s)
    BY <1>1, <1>2, <1>4
  <2>2. PICK m \in DOMAIN s : s[m] = g
    BY <2>1 DEF Range
  <2>3. m \in 1 .. n - 1 /\ u[m] = g
    BY <1>1, <1>4, <2>2
  <2>4. QED BY <2>3
<1>5. QED BY <1>2, <1>3, <1>4

-------------------------------------------------------------------------------
(* An assembly that begins has the invariant.                                  *)
LEMMA InitInv ==
    ASSUME Main \in Files, Init
    PROVE  Inv
<1>1. Opened(Main) \in OpenFile /\ Opened(Main).text = <<>>
  BY DEF Opened, OpenFile
<1>2. open \in Seq(OpenFile) /\ Len(open) = 1 /\ open[1].text = <<>>
  BY <1>1 DEF Init
<1>3. TypeOK
  <2>1. <<>> \in Seq(Files)
    BY EmptySeq
  <2>2. QED BY <1>2, <2>1 DEF TypeOK, Init
<1>4. \A n \in DOMAIN open : open[n].text = <<>>
  BY <1>2
<1>5. Ordered(<<>>) /\ CoreLeads(<<>>)
  BY DEF Ordered, CoreLeads
<1>6. TextsInOrder /\ CoreInFront
  BY <1>4, <1>5 DEF TextsInOrder, CoreInFront
<1>7. AtWork /\ CoreOnItsWay /\ InOrder
  <2>1. open # <<>> /\ answer = "none"
    BY <1>2 DEF Init
  <2>2. QED BY <1>2, <2>1 DEF AtWork, CoreOnItsWay, InOrder
<1>8. AskedFor
  BY <1>2 DEF AskedFor
<1>9. QED BY <1>3, <1>6, <1>7, <1>8 DEF Inv

(* A file that is opened has no text yet, and is core if it is the first.        *)
LEMMA BeginInv ==
    ASSUME Core \in Files, Inv, Begin
    PROVE  Inv'
<1>1. TypeOK /\ open # <<>> /\ answer = "none"
  BY DEF Inv, AtWork, Begin, Busy
<1>2. Head(open) = open[1] /\ open[1] \in OpenFile /\ Len(open) \in Nat \ {0}
  BY <1>1, PopFacts DEF TypeOK
<1>3. asks[open[1].file] \subseteq Files
  BY <1>1, <1>2 DEF TypeOK, OpenFile
<1>4. PICK f \in Files : /\ f \in asks[open[1].file] \cup {Core}
                         /\ ~errored /\ Len(open) = 1 /\ open[1].text = <<>> => f = Core
                         /\ open' = <<Opened(f)>> \o open
  BY <1>2, <1>3 DEF Begin
<1>5. Opened(f) \in OpenFile /\ Opened(f).text = <<>> /\ Opened(f).file = f
  BY DEF Opened, OpenFile
<1> DEFINE L == Len(open)
<1>6. /\ open' \in Seq(OpenFile) /\ Len(open') = L + 1 /\ open'[1] = Opened(f)
      /\ \A n \in 2 .. L + 1 : open'[n] = open[n - 1]
  BY <1>1, <1>4, <1>5, PushFacts DEF TypeOK
<1>7. UNCHANGED <<asks, sloppy, text, errored, answer>>
  BY DEF Begin, program
<1>8. TypeOK' /\ AtWork' /\ InOrder'
  BY <1>1, <1>2, <1>6, <1>7 DEF TypeOK, AtWork, InOrder
<1>9. DOMAIN open' = 1 .. L + 1 /\ DOMAIN open = 1 .. L /\ L \in Nat \ {0}
  BY <1>1, <1>2, <1>6 DEF TypeOK
<1>10. \A n \in 2 .. L + 1 : n - 1 \in DOMAIN open
  BY <1>9
<1> HIDE DEF L
<1>11. TextsInOrder'
  <2>1. SUFFICES ASSUME ~errored, NEW n \in 1 .. L + 1
                 PROVE  Ordered(open[n].text)'
    BY <1>7, <1>9 DEF TextsInOrder
  <2>2. CASE n = 1
    BY <2>2, <1>5, <1>6 DEF Ordered
  <2>3. CASE n \in 2 .. L + 1
    <3>1. Ordered(open[n - 1].text)
      BY <2>1, <2>3, <1>10 DEF Inv, TextsInOrder
    <3>2. open'[n] = open[n - 1]
      BY <2>3, <1>6
    <3>3. asks' = asks /\ sloppy' = sloppy
      BY <1>7
    <3>4. QED BY <3>1, <3>2, <3>3 DEF Ordered
  <2>4. QED BY <2>2, <2>3, <1>9
<1>12. CoreInFront'
  <2>1. SUFFICES ASSUME ~errored, asks[Core] = {}, NEW n \in 1 .. L + 1,
                        n = L + 1 \/ open'[n].file = Core
                 PROVE  CoreLeads(open'[n].text)
    BY <1>6, <1>7, <1>9 DEF CoreInFront, CoreLeads, L
  <2>2. CASE n = 1
    BY <2>2, <1>5, <1>6 DEF CoreLeads
  <2>3. CASE n \in 2 .. L + 1
    <3>1. n - 1 = L \/ open[n - 1].file = Core
      BY <2>1, <2>3, <1>6, <1>9
    <3>2. CoreLeads(open[n - 1].text)
      BY <3>1, <2>1, <2>3, <1>10 DEF Inv, CoreInFront, L
    <3>3. QED BY <3>2, <2>3, <1>6
  <2>4. QED BY <2>2, <2>3, <1>9
<1>13. CoreOnItsWay'
  <2>1. SUFFICES ASSUME ~errored, open'[L + 1].text = <<>>
                 PROVE  open'[L + 1 - 1].file = Core
    BY <1>6, <1>7 DEF CoreOnItsWay, L
  <2>2. L + 1 \in 2 .. L + 1 /\ L + 1 - 1 = L
    BY <1>9
  <2>3. open[L].text = <<>>
    BY <2>1, <2>2, <1>6, <1>9
  <2>4. CASE L = 1
    <3>1. open'[1] = Opened(f) /\ f = Core
      BY <2>1, <2>3, <2>4, <1>4, <1>6 DEF L
    <3>2. QED BY <3>1, <2>2, <2>4, <1>5
  <2>5. CASE L # 1
    <3>1. open[L - 1].file = Core
      BY <2>1, <2>3, <2>5, <1>1 DEF Inv, CoreOnItsWay, L
    <3>2. L \in 2 .. L + 1 /\ open'[L] = open[L - 1]
      BY <2>5, <1>6, <1>9
    <3>3. QED BY <3>1, <3>2, <2>2
  <2>6. QED BY <2>4, <2>5
<1>14. AskedFor'
  <2>1. SUFFICES ASSUME NEW n \in 2 .. L + 1
                 PROVE  open'[n - 1].file \in asks[open'[n].file] \cup {Core}
    BY <1>7, <1>9 DEF AskedFor
  <2>2. open'[n] = open[n - 1]
    BY <1>6
  <2>3. CASE n = 2
    BY <2>2, <2>3, <1>4, <1>5, <1>6
  <2>4. CASE n > 2
    <3>1. n - 1 \in 2 .. L + 1 /\ n - 1 \in DOMAIN open /\ n - 1 > 1
      BY <2>4, <1>9
    <3>2. open'[n - 1] = open[n - 1 - 1]
      BY <3>1, <1>6
    <3>3. open[n - 1 - 1].file \in asks[open[n - 1].file] \cup {Core}
      BY <3>1 DEF Inv, AskedFor
    <3>4. QED BY <2>2, <3>2, <3>3
  <2>5. QED BY <2>3, <2>4, <1>9
<1>15. QED BY <1>8, <1>11, <1>12, <1>13, <1>14 DEF Inv

(* What a file that was closed hands to the one that opened it.                   *)
LEMMA KeepInv ==
    ASSUME Inv, Keep
    PROVE  Inv'
<1> DEFINE L == Len(open)
           u == open[1]
           v == open[2]
           t == Texts(u)
           w == [v EXCEPT !.text = @ \o t]
<1>1. TypeOK /\ open \in Seq(OpenFile) /\ open # <<>> /\ L > 1 /\ L \in Nat
      /\ DOMAIN open = 1 .. L
  BY DEF Inv, TypeOK, Keep
<1>2. Head(open) = u /\ u \in OpenFile /\ v \in OpenFile
  BY <1>1, PopFacts
<1>3. u.text \in Seq(Files) /\ u.file \in Files /\ v.text \in Seq(Files)
  BY <1>2 DEF OpenFile
<1>4. t \in Seq(Files) /\ t # <<>>
      /\ Head(t) = (IF u.text = <<>> THEN u.file ELSE Head(u.text))
  BY <1>3, AppendProperties, HeadTailAppend DEF Texts
<1>5. open' = <<w>> \o Tail(Tail(open)) /\ (errored' \/ (~errored /\ Complete(u)))
      /\ errored' \in BOOLEAN
      /\ UNCHANGED <<asks, sloppy, text, answer>>
  BY <1>1, <1>2 DEF Keep, program, TypeOK
<1> HIDE DEF t
<1>6. v.text \o t \in Seq(Files) /\ v.text \o t # <<>>
      /\ Head(v.text \o t) = (IF v.text = <<>> THEN Head(t) ELSE Head(v.text))
  BY <1>3, <1>4
<1>7. w \in OpenFile /\ w.file = v.file /\ w.text = v.text \o t
  BY <1>2, <1>6 DEF OpenFile
<1> HIDE DEF w
<1>8. /\ open' \in Seq(OpenFile) /\ Len(open') = L - 1 /\ open'[1] = w
      /\ \A n \in 2 .. L - 1 : open'[n] = open[n + 1]
  BY <1>1, <1>5, <1>7, ReturnFacts
<1>9. TypeOK' /\ AtWork' /\ InOrder'
  <2>1. answer = "none"
    BY DEF Keep, Busy
  <2>2. QED BY <2>1, <1>1, <1>5, <1>8 DEF TypeOK, AtWork, InOrder
<1>10. DOMAIN open' = 1 .. L - 1
  BY <1>8
<1> HIDE DEF L, u, v
<1>11. AskedFor'
  <2>1. SUFFICES ASSUME NEW n \in 2 .. L - 1
                 PROVE  open'[n - 1].file \in asks[open'[n].file] \cup {Core}
    <3>1. asks' = asks
      BY <1>5
    <3>2. \A n \in 1 .. L - 1 : n > 1 => n \in 2 .. L - 1
      BY <1>1
    <3>3. QED BY <3>1, <3>2, <2>1, <1>10 DEF AskedFor
  <2>2. open'[n] = open[n + 1] /\ n + 1 \in DOMAIN open /\ n + 1 > 1 /\ n + 1 - 1 = n
    BY <1>1, <1>8
  <2>3. open[n].file \in asks[open[n + 1].file] \cup {Core}
    BY <2>2 DEF Inv, AskedFor
  <2>4. open'[n - 1].file = open[n].file
    <3>1. CASE n = 2
      BY <3>1, <1>7, <1>8 DEF v
    <3>2. CASE n > 2
      <4>1. n - 1 \in 2 .. L - 1 /\ n - 1 + 1 = n
        BY <3>2, <1>1
      <4>2. QED BY <4>1, <1>8
    <3>3. QED BY <3>1, <3>2, <1>1
  <2>5. QED BY <2>2, <2>3, <2>4
<1>12. CASE errored'
  BY <1>9, <1>11, <1>12 DEF Inv, TextsInOrder, CoreOnItsWay, CoreInFront
<1>13. ASSUME ~errored, ~errored', Complete(u)
       PROVE  TextsInOrder' /\ CoreOnItsWay' /\ CoreInFront'
  <2>1. 1 \in DOMAIN open /\ 2 \in DOMAIN open /\ L \in DOMAIN open /\ 2 - 1 = 1
    BY <1>1
  <2>2. Ordered(u.text) /\ Ordered(v.text)
    BY <1>13, <2>1 DEF Inv, TextsInOrder, u, v
  <2>3. Ordered(t)
    BY <2>2, <1>3, <1>13, AppendOrdered DEF Complete, t, Texts
  <2>4. Ordered(v.text \o t)
    BY <2>2, <2>3, <1>3, <1>4, ConcatOrdered
  <2>5. \A n \in 2 .. L - 1 : n + 1 \in DOMAIN open
    BY <1>1
  <2>6. TextsInOrder'
    <3>1. SUFFICES ASSUME NEW n \in 1 .. L - 1
                   PROVE  Ordered(open[n].text)'
      BY <1>10 DEF TextsInOrder
    <3>2. CASE n = 1
      <4>1. open'[n].text = v.text \o t
        BY <3>2, <1>7, <1>8
      <4>2. asks' = asks /\ sloppy' = sloppy
        BY <1>5
      <4>3. QED BY <4>1, <4>2, <2>4 DEF Ordered
    <3>3. CASE n \in 2 .. L - 1
      <4>1. open'[n] = open[n + 1]
        BY <3>3, <1>8
      <4>2. Ordered(open[n + 1].text)
        BY <3>3, <2>5, <1>13 DEF Inv, TextsInOrder
      <4>3. asks' = asks /\ sloppy' = sloppy
        BY <1>5
      <4>4. QED BY <4>1, <4>2, <4>3 DEF Ordered
    <3>4. QED BY <3>2, <3>3, <1>1
  <2>7. CoreOnItsWay'
    <3>1. CASE L = 2
      BY <3>1, <1>8 DEF CoreOnItsWay
    <3>2. CASE L > 2
      <4>1. open'[L - 1] = open[L] /\ L - 1 \in 2 .. L - 1 /\ L - 1 + 1 = L
        BY <3>2, <1>1, <1>8
      <4>2. open[L].text # <<>> \/ open[L - 1].file = Core
        BY <3>2, <1>1, <1>13 DEF Inv, CoreOnItsWay, L
      <4>3. open'[L - 2].file = open[L - 1].file
        <5>1. CASE L = 3
          BY <5>1, <1>7, <1>8 DEF v
        <5>2. CASE L > 3
          <6>1. L - 2 \in 2 .. L - 1 /\ L - 2 + 1 = L - 1
            BY <5>2, <1>1
          <6>2. QED BY <6>1, <1>8
        <5>3. QED BY <5>1, <5>2, <3>2, <1>1
      <4>4. L - 1 - 1 = L - 2
        BY <1>1
      <4>5. QED BY <4>1, <4>2, <4>3, <4>4, <1>8 DEF CoreOnItsWay
    <3>3. QED BY <3>1, <3>2, <1>1
  <2>8. CoreInFront'
    <3>1. SUFFICES ASSUME asks[Core] = {}, NEW n \in 1 .. L - 1,
                          n = L - 1 \/ open'[n].file = Core
                   PROVE  CoreLeads(open'[n].text)
      BY <1>5, <1>8, <1>10 DEF CoreInFront, CoreLeads
    <3>2. CASE n = 1
      <4>1. L = 2 \/ v.file = Core
        BY <3>1, <3>2, <1>1, <1>7, <1>8
      <4>2. CoreLeads(v.text)
        BY <4>1, <3>1, <2>1, <1>13 DEF Inv, CoreInFront, v, L
      <4>3. CASE v.text # <<>>
        BY <4>2, <4>3, <3>2, <1>6, <1>7, <1>8 DEF CoreLeads
      <4>4. CASE v.text = <<>>
        <5>1. u.file = Core
          <6>1. CASE L = 2
            BY <6>1, <4>4, <2>1, <1>1, <1>13 DEF Inv, CoreOnItsWay, u, v, L
          <6>2. CASE v.file = Core
            <7>1. u.file \in asks[v.file] \cup {Core}
              BY <2>1 DEF Inv, AskedFor, u, v
            <7>2. QED BY <7>1, <6>2, <3>1
          <6>3. QED BY <4>1, <6>1, <6>2
        <5>2. CoreLeads(u.text)
          BY <5>1, <3>1, <2>1, <1>13 DEF Inv, CoreInFront, u
        <5>3. Head(t) = Core
          BY <5>1, <5>2, <1>4 DEF CoreLeads
        <5>4. QED BY <5>3, <4>4, <3>2, <1>6, <1>7, <1>8 DEF CoreLeads
      <4>5. QED BY <4>3, <4>4
    <3>3. CASE n \in 2 .. L - 1
      <4>1. open'[n] = open[n + 1] /\ n + 1 \in DOMAIN open
        BY <3>3, <2>5, <1>8
      <4>2. n + 1 = L \/ open[n + 1].file = Core
        BY <4>1, <3>1, <3>3, <1>1
      <4>3. CoreLeads(open[n + 1].text)
        BY <4>1, <4>2, <3>1, <1>13 DEF Inv, CoreInFront, L
      <4>4. QED BY <4>1, <4>3
    <3>4. QED BY <3>2, <3>3, <1>1
  <2>9. QED BY <2>6, <2>7, <2>8
<1>14. QED BY <1>5, <1>9, <1>11, <1>12, <1>13 DEF Inv

(* A file that is given up leaves nothing behind.                                *)
LEMMA GiveUpInv ==
    ASSUME Inv, GiveUp
    PROVE  Inv'
<1> DEFINE L == Len(open)
<1>1. TypeOK /\ open \in Seq(OpenFile) /\ open # <<>> /\ L > 1 /\ L \in Nat
      /\ DOMAIN open = 1 .. L
  BY DEF Inv, TypeOK, GiveUp
<1>2. open' = Tail(open) /\ answer = "none"
      /\ asks' = asks /\ sloppy' = sloppy /\ text' = text /\ errored' = errored
      /\ answer' = answer
  BY DEF GiveUp, Busy, program
<1>3. /\ open' \in Seq(OpenFile) /\ Len(open') = L - 1 /\ DOMAIN open' = 1 .. L - 1
      /\ \A n \in 1 .. L - 1 : open'[n] = open[n + 1] /\ n + 1 \in DOMAIN open
  BY <1>1, <1>2, PopFacts
<1>4. TypeOK' /\ AtWork' /\ InOrder'
  <2>1. open' # <<>>
    BY <1>1, <1>3
  <2>2. QED BY <1>1, <1>2, <1>3, <2>1 DEF TypeOK, AtWork, InOrder
<1> HIDE DEF L
<1>5. AskedFor'
  <2>1. SUFFICES ASSUME NEW n \in 1 .. L - 1, n > 1
                 PROVE  open'[n - 1].file \in asks[open'[n].file] \cup {Core}
    BY <1>2, <1>3 DEF AskedFor
  <2>2. n - 1 \in 1 .. L - 1 /\ n + 1 > 1 /\ n + 1 - 1 = n - 1 + 1
    BY <2>1, <1>1
  <2>3. open[n - 1 + 1].file \in asks[open[n + 1].file] \cup {Core}
    <3>1. n + 1 \in DOMAIN open
      BY <1>3
    <3>2. open[n + 1 - 1].file \in asks[open[n + 1].file] \cup {Core}
      BY <2>2, <3>1 DEF Inv, AskedFor
    <3>3. QED BY <2>2, <3>2
  <2>4. QED BY <2>2, <2>3, <1>3
<1>6. ASSUME ~errored
      PROVE  TextsInOrder' /\ CoreOnItsWay' /\ CoreInFront'
  <2>1. TextsInOrder'
    <3>1. SUFFICES ASSUME NEW n \in 1 .. L - 1
                   PROVE  Ordered(open[n].text)'
      BY <1>3 DEF TextsInOrder
    <3>2. open'[n] = open[n + 1]
      BY <1>3
    <3>3. Ordered(open[n + 1].text)
      BY <1>3, <1>6 DEF Inv, TextsInOrder
    <3>4. asks' = asks /\ sloppy' = sloppy
      BY <1>2
    <3>5. QED BY <3>2, <3>3, <3>4 DEF Ordered
  <2>2. CoreOnItsWay'
    <3>1. CASE L = 2
      BY <3>1, <1>3 DEF CoreOnItsWay
    <3>2. CASE L > 2
      <4>1. L - 1 \in 1 .. L - 1 /\ L - 1 - 1 \in 1 .. L - 1
            /\ L - 1 + 1 = L /\ L - 1 - 1 + 1 = L - 1
        BY <3>2, <1>1
      <4>2. open[L].text # <<>> \/ open[L - 1].file = Core
        BY <3>2, <1>1, <1>6 DEF Inv, CoreOnItsWay, L
      <4>3. QED BY <4>1, <4>2, <1>3 DEF CoreOnItsWay
    <3>3. QED BY <3>1, <3>2, <1>1
  <2>3. CoreInFront'
    <3>1. SUFFICES ASSUME asks[Core] = {}, NEW n \in 1 .. L - 1,
                          n = L - 1 \/ open'[n].file = Core
                   PROVE  CoreLeads(open'[n].text)
      BY <1>2, <1>3 DEF CoreInFront, CoreLeads
    <3>2. n + 1 = L \/ open[n + 1].file = Core
      BY <3>1, <1>1, <1>3
    <3>3. CoreLeads(open[n + 1].text)
      BY <3>1, <3>2, <1>3, <1>6 DEF Inv, CoreInFront, L
    <3>4. QED BY <3>3, <1>3
  <2>4. QED BY <2>1, <2>2, <2>3
<1>7. CASE errored
  BY <1>2, <1>4, <1>5, <1>7 DEF Inv, TextsInOrder, CoreOnItsWay, CoreInFront
<1>8. QED BY <1>4, <1>5, <1>6, <1>7 DEF Inv

(* The text of Main is in order, with core in front.                             *)
LEMMA SucceedInv ==
    ASSUME Inv, Succeed
    PROVE  Inv'
<1> DEFINE u == open[1]
           t == Texts(u)
<1>1. TypeOK /\ open \in Seq(OpenFile) /\ Len(open) = 1 /\ DOMAIN open = 1 .. 1
  BY DEF Inv, TypeOK, Succeed
<1>2. Head(open) = u /\ u \in OpenFile
  <2>1. open # <<>>
    BY <1>1
  <2>2. QED BY <1>1, <2>1, PopFacts
<1>3. u.text \in Seq(Files) /\ u.file \in Files
  BY <1>2 DEF OpenFile
<1>4. t \in Seq(Files) /\ Head(t) = (IF u.text = <<>> THEN u.file ELSE Head(u.text))
  BY <1>3, AppendProperties, HeadTailAppend DEF Texts
<1>5. /\ text' = t /\ open' = <<>> /\ errored' \in BOOLEAN
      /\ asks' = asks /\ sloppy' = sloppy
      /\ answer' = "0" => ~errored' /\ ~errored /\ Complete(u) /\ u.text # <<>>
      /\ answer' # "none"
  BY <1>1, <1>2 DEF Succeed, program, TypeOK
<1>6. open' \in Seq(OpenFile) /\ DOMAIN open' = {}
  BY <1>5, EmptySeq
<1>7. TypeOK' /\ AtWork' /\ AskedFor' /\ TextsInOrder' /\ CoreOnItsWay' /\ CoreInFront'
  BY <1>1, <1>4, <1>5, <1>6
     DEF TypeOK, AtWork, AskedFor, TextsInOrder, CoreOnItsWay, CoreInFront, Busy
<1>8. InOrder'
  <2>1. SUFFICES ASSUME answer' = "0"
                 PROVE  InOrder'
    BY DEF InOrder
  <2>2. ~errored /\ Complete(u) /\ u.text # <<>>
    BY <2>1, <1>5
  <2>3. Ordered(u.text)
    BY <2>2, <1>1 DEF Inv, TextsInOrder
  <2>4. Ordered(t)
    BY <2>2, <2>3, <1>3, AppendOrdered DEF Complete, Texts
  <2>5. asks[Core] = {} => Head(t) = Core
    BY <2>2, <1>1, <1>4 DEF Inv, CoreInFront, CoreLeads
  <2>6. QED BY <2>4, <2>5, <1>5 DEF InOrder, Ordered
<1>9. QED BY <1>7, <1>8 DEF Inv

(* Reports, failures and stutters keep it.                                     *)
LEMMA OtherStepsInv ==
    ASSUME Inv, Report \/ Fail \/ UNCHANGED vars
    PROVE  Inv'
<1>1. CASE Report
  BY <1>1 DEF Report, program, Busy, Inv, TypeOK, AtWork, AskedFor, TextsInOrder,
              CoreOnItsWay, CoreInFront, InOrder
<1>2. CASE Fail
  <2>1. /\ open' = <<>> /\ answer' # "none" /\ answer' # "0" /\ errored' \in BOOLEAN
        /\ asks' = asks /\ sloppy' = sloppy /\ text' = text
    BY <1>2 DEF Fail, program, Inv, TypeOK
  <2>2. open' \in Seq(OpenFile) /\ DOMAIN open' = {}
    BY <2>1, EmptySeq
  <2>3. TypeOK
    BY DEF Inv
  <2>4. QED BY <2>1, <2>2, <2>3 DEF Inv, TypeOK, AtWork, AskedFor, TextsInOrder,
                 CoreOnItsWay, CoreInFront, InOrder, Busy
<1>3. CASE UNCHANGED vars
  BY <1>3 DEF vars, program, Inv, TypeOK, AtWork, AskedFor, TextsInOrder,
              CoreOnItsWay, CoreInFront, InOrder, Ordered, CoreLeads, Busy
<1>4. QED BY <1>1, <1>2, <1>3

(* Every step keeps it.                                                        *)
LEMMA NextInv ==
    ASSUME Core \in Files, Inv, [Next]_vars
    PROVE  Inv'
BY BeginInv, KeepInv, GiveUpInv, SucceedInv, OtherStepsInv DEF Next

(* The text that is handed on without an error can be read from top to bottom.   *)
THEOREM AssemblyInOrder ==
    ASSUME Main \in Files, Core \in Files
    PROVE  Spec => []InOrder
<1>1. Init => Inv
  BY InitInv
<1>2. Inv /\ [Next]_vars => Inv'
  BY NextInv
<1>3. Inv => InOrder
  BY DEF Inv
<1>4. QED BY <1>1, <1>2, <1>3, PTL DEF Spec
===============================================================================
