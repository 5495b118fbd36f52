---------------------------- MODULE StackTheorems -----------------------------
(* Sequences as stacks, the innermost element first, as the units of the         *)
(* compiler and the files of the assembly are kept.                              *)
EXTENDS SequenceTheorems, WellFoundedInduction, TLAPS

(* What a new element in front does.                                             *)
LEMMA PushFacts ==
    ASSUME NEW S, NEW s \in Seq(S), NEW x \in S
    PROVE  /\ <<x>> \o s \in Seq(S) /\ Len(<<x>> \o s) = Len(s) + 1
           /\ (<<x>> \o s)[1] = x
           /\ \A n \in 2 .. Len(s) + 1 : (<<x>> \o s)[n] = s[n - 1]
<1>1. <<x>> \in Seq(S) /\ Len(<<x>>) = 1 /\ <<x>>[1] = x
  OBVIOUS
<1> DEFINE o == <<x>>
<1> HIDE DEF o
<1>2. o \in Seq(S) /\ Len(o) = 1 /\ o[1] = x
  BY <1>1 DEF o
<1>3. /\ o \o s \in Seq(S) /\ Len(o \o s) = Len(o) + Len(s)
      /\ \A n \in 1 .. Len(o) + Len(s) :
            (o \o s)[n] = IF n <= Len(o) THEN o[n] ELSE s[n - Len(o)]
  BY <1>2, ConcatProperties
<1>4. Len(s) \in Nat
  OBVIOUS
<1>5. /\ Len(o \o s) = Len(s) + 1 /\ (o \o s)[1] = x
      /\ \A n \in 2 .. Len(s) + 1 : (o \o s)[n] = s[n - 1]
  BY <1>2, <1>3, <1>4
<1>6. QED BY <1>3, <1>5 DEF o

(* What is left when the first element goes.                                     *)
LEMMA PopFacts ==
    ASSUME NEW S, NEW s \in Seq(S), s # <<>>
    PROVE  /\ Head(s) = s[1] /\ Head(s) \in S
           /\ Tail(s) \in Seq(S) /\ Len(s) \in Nat \ {0} /\ Len(Tail(s)) = Len(s) - 1
           /\ \A n \in 1 .. Len(s) - 1 : Tail(s)[n] = s[n + 1]
BY HeadTailProperties, EmptySeq

(* What it does to exchange the first element.                                   *)
LEMMA ReplaceFacts ==
    ASSUME NEW S, NEW s \in Seq(S), s # <<>>, NEW x \in S
    PROVE  /\ <<x>> \o Tail(s) \in Seq(S) /\ Len(<<x>> \o Tail(s)) = Len(s)
           /\ (<<x>> \o Tail(s))[1] = x
           /\ \A n \in 2 .. Len(s) : (<<x>> \o Tail(s))[n] = s[n]
<1>1. /\ Tail(s) \in Seq(S) /\ Len(s) \in Nat \ {0} /\ Len(Tail(s)) = Len(s) - 1
      /\ \A n \in 1 .. Len(s) - 1 : Tail(s)[n] = s[n + 1]
  BY PopFacts
<1> DEFINE t == Tail(s)
<1> HIDE DEF t
<1>2. /\ <<x>> \o t \in Seq(S) /\ Len(<<x>> \o t) = Len(t) + 1
      /\ (<<x>> \o t)[1] = x
      /\ \A n \in 2 .. Len(t) + 1 : (<<x>> \o t)[n] = t[n - 1]
  BY <1>1, PushFacts DEF t
<1>3. \A n \in 2 .. Len(s) : n - 1 \in 1 .. Len(s) - 1 /\ n - 1 + 1 = n
  BY <1>1
<1>4. \A n \in 2 .. Len(s) : t[n - 1] = s[n]
  BY <1>1, <1>3 DEF t
<1>5. Len(t) + 1 = Len(s)
  BY <1>1 DEF t
<1>6. QED BY <1>2, <1>4, <1>5 DEF t

(* The first element goes and the one below it is exchanged.                     *)
LEMMA ReturnFacts ==
    ASSUME NEW S, NEW s \in Seq(S), Len(s) > 1, NEW x \in S
    PROVE  LET r == <<x>> \o Tail(Tail(s))
           IN /\ r \in Seq(S) /\ Len(r) = Len(s) - 1 /\ r[1] = x
              /\ \A n \in 2 .. Len(s) - 1 : r[n] = s[n + 1]
<1> DEFINE t == Tail(s)
           r == <<x>> \o Tail(t)
<1>1. s # <<>>
  OBVIOUS
<1>2. /\ t \in Seq(S) /\ Len(s) \in Nat \ {0} /\ Len(t) = Len(s) - 1
      /\ \A n \in 1 .. Len(s) - 1 : t[n] = s[n + 1]
  BY <1>1, PopFacts
<1> HIDE DEF t
<1>3. t # <<>>
  BY <1>2
<1>4. /\ r \in Seq(S) /\ Len(r) = Len(t) /\ r[1] = x
      /\ \A n \in 2 .. Len(t) : r[n] = t[n]
  BY <1>2, <1>3, ReplaceFacts
<1> HIDE DEF r
<1>5. \A n \in 2 .. Len(s) - 1 : r[n] = s[n + 1]
  BY <1>2, <1>4
<1>6. r \in Seq(S) /\ Len(r) = Len(s) - 1 /\ r[1] = x
  BY <1>2, <1>4
<1>7. QED BY <1>5, <1>6 DEF r, t

(* The least element of a set of numbers: what a scan from the left stops at.    *)
LEMMA LeastNatural ==
    ASSUME NEW S \in SUBSET Nat, S # {}
    PROVE  \E m \in S : \A n \in S : m <= n
<1> DEFINE R == {ss \in Nat \X Nat : ss[1] < ss[2]}
<1>1. IsWellFoundedOn(R, Nat)
  BY NatLessThanWellFounded DEF OpToRel
<1>2. PICK m \in S : \A n \in S : ~(<<n, m>> \in R)
  <2> HIDE DEF R
  <2>1. QED BY <1>1, WFMin
<1>3. ASSUME NEW n \in S  PROVE m <= n
  <2>1. m \in Nat /\ n \in Nat /\ ~(<<n, m>> \in R)
    BY <1>2
  <2>2. ~(n < m)
    BY <2>1
  <2>3. QED BY <2>1, <2>2
<1>4. QED BY <1>3
===============================================================================
