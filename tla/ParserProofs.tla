----------------------------- MODULE ParserProofs -----------------------------
(* The parser keeps its types whatever grammar it is given, as long as every  *)
(* parse function is a sequence of moves that ends in one that leaves it and  *)
(* no move steps over EOF (the assumptions of module Parser): the iterator    *)
(* stays in the list except where the model says it leaves it, and an error   *)
(* that is returned never reaches a caller that is not there.  And a grammar   *)
(* without left recursion (module LeftRecursion) recurses only where it has    *)
(* taken a token; and one whose counted loops take tokens (ExpressionBudget)   *)
(* never wants for rounds.  Where each function closes the brackets it takes    *)
(* (OpenBrackets), what is accepted is balanced; and the name of an ffi         *)
(* declaration throws only as an f-string (UncheckedCalls).                    *)
EXTENDS UncheckedCalls, StackTheorems

\* STRING, and by name those of its members the machine itself writes
Words  == STRING \cup {"entry", "None", "keyword", "plain", "path"}
Nodes  == [kind : Words, tags : SUBSET Words]
Frames == [fn : Rules, pc : Nat, by : Words, node : Nodes, tags : SUBSET Words,
           mods : Seq(Tokens), fuel : Nat, start : Nat]

\* a frame whose function is at one of its moves, entered at c or before
Placed1(f, c) ==
  /\ f \in Frames
  /\ f.pc \in 1..Len(Grammar[f.fn])
  /\ f.start \in 1..c

(* The strengthening: a function that has called another is not at its last   *)
(* move, so that it has one to go on with; and nobody waits for the first.    *)
StackOK(s, c) ==
  /\ s \in Seq(Frames) /\ s # <<>>
  /\ \A i \in 1..Len(s) : Placed1(s[i], c)
  /\ \A i \in 1..Len(s) : i < Len(s) => s[i].pc < Len(Grammar[s[i].fn])
  /\ s[1].by = "entry"
ListOK(t) == t \in Seq(Tokens \cup {EOF}) /\ t # <<>> /\ t[Len(t)] = EOF
IInv ==
  /\ ListOK(toks)
  /\ cur \in 1..Len(toks)
  /\ status \in Statuses
  /\ StackOK(stack, cur)

-------------------------------------------------------------------------------
(* What holds of the function on top and its move.                            *)
LEMMA TopFacts ==
  ASSUME IInv
  PROVE  /\ Len(stack) \in Nat \ {0} /\ Top \in Frames /\ Placed1(Top, cur)
         /\ Here \in Tokens \cup {EOF}
         /\ cur = Len(toks) => Here = EOF
         /\ Len(toks) \in Nat
<1>1. Len(toks) \in Nat /\ Here \in Tokens \cup {EOF} /\ (cur = Len(toks) => Here = EOF)
  BY DEF IInv, Here, ListOK
<1>2. Len(stack) \in Nat \ {0} /\ Placed1(Top, cur)
  <2>1. Len(stack) \in Nat \ {0}
    BY DEF IInv, StackOK
  <2>2. Len(stack) \in 1..Len(stack)
    BY <2>1
  <2>3. \A i \in 1..Len(stack) : Placed1(stack[i], cur)
    BY DEF IInv, StackOK
  <2>4. QED
    BY <2>1, <2>2, <2>3 DEF Top
<1>3. QED
  BY <1>1, <1>2 DEF Placed1

(* What the assumptions say of the move at work.                               *)
LEMMA MoveFacts ==
  ASSUME IInv
  PROVE  /\ Move \in Moves
         /\ Move.op \notin Ends => Top.pc < Len(Grammar[Top.fn])
         /\ Move.op \in {"tok", "skip", "skips", "list", "params"} => EOF \notin Move.on
         /\ Move.op \in {"call", "also", "opt", "while", "list", "params", "elses", "else", "try",
                         "unchecked", "const", "scope"} => Move.fn \in Rules
         /\ \A a \in 1..Len(Move.alts) :
              Move.alts[a].fn \in Rules \/ (Move.op = "bounded" /\ Move.alts[a].fn = Spin)
<1> DEFINE r == Top.fn
           p == Top.pc
<1>1. r \in Rules /\ p \in 1..Len(Grammar[r])
  BY TopFacts DEF Placed1, Frames
<1>2. Grammar[r] \in Seq(Moves) /\ Grammar[r] # <<>> /\ Grammar[r][Len(Grammar[r])].op \in Ends
  BY <1>1, GrammarAssumption
<1>3. Move = Grammar[r][p]
  BY DEF Move
<1>4. Move \in Moves
  BY <1>1, <1>2, <1>3
<1>5. Move.op \notin Ends => p < Len(Grammar[r])
  BY <1>1, <1>2, <1>3
<1>6. QED
  BY <1>1, <1>3, <1>4, <1>5, StepsAssumption

(* A frame that has been changed in one field or another.                     *)
LEMMA FrameFacts ==
  ASSUME NEW c \in Nat, NEW f, Placed1(f, c)
  PROVE  /\ f.pc < Len(Grammar[f.fn]) => Placed1(Done(f), c)
         /\ \A r \in Rules : Placed1(Become(f, r), c)
         /\ \A t \in Words : Placed1(Marked(f, t), c) /\ Marked(f, t).pc = f.pc
                              /\ Marked(f, t).fn = f.fn
         /\ \A n \in Nodes : Placed1([f EXCEPT !.node = n], c)
         /\ \A d \in Nat : c <= d => Placed1(f, d)
<1>1. f.pc < Len(Grammar[f.fn]) => Placed1(Done(f), c)
  BY DEF Placed1, Frames, Done
<1>2. ASSUME NEW r \in Rules PROVE Placed1(Become(f, r), c)
  <2>1. Grammar[r] \in Seq(Moves) /\ Grammar[r] # <<>>
    BY GrammarAssumption
  <2>2. 1 \in 1..Len(Grammar[r])
    BY <2>1
  <2>3. QED
    BY <2>2 DEF Placed1, Frames, Become
<1>3. ASSUME NEW t \in Words
      PROVE Placed1(Marked(f, t), c) /\ Marked(f, t).pc = f.pc /\ Marked(f, t).fn = f.fn
  BY DEF Placed1, Frames, Marked
<1>4. ASSUME NEW n \in Nodes PROVE Placed1([f EXCEPT !.node = n], c)
  BY DEF Placed1, Frames
<1>5. ASSUME NEW d \in Nat, c <= d PROVE Placed1(f, d)
  BY <1>5 DEF Placed1
<1>6. QED
  BY <1>1, <1>2, <1>3, <1>4, <1>5

(* The node there is not yet is one of the nodes.                              *)
LEMMA NoNodeIsNode == NoNode \in Nodes
<1>1. NoNode = [kind |-> "None", tags |-> {}]
  BY DEF NoNode, Node
<1>2. {} \in SUBSET Words
  OBVIOUS
<1>3. "None" \in Words
  BY DEF Words
<1>4. QED
  BY <1>1, <1>2, <1>3 DEF Nodes

-------------------------------------------------------------------------------
(* What the moves do to the stack.                                            *)
LEMMA TopReplaced ==
  ASSUME IInv, NEW c \in cur..Len(toks), NEW f, Placed1(f, c), f.by = Top.by,
         stack' = [stack EXCEPT ![Len(stack)] = f]
  PROVE  StackOK(stack', c)
<1>1. /\ Len(stack) \in Nat \ {0} /\ stack \in Seq(Frames) /\ f \in Frames
      /\ cur \in Nat /\ Len(toks) \in Nat
  BY TopFacts DEF IInv, StackOK, Placed1
<1>2. stack' \in Seq(Frames) /\ Len(stack') = Len(stack)
  BY <1>1
<1>3. \A i \in 1..Len(stack) : stack'[i] = IF i = Len(stack) THEN f ELSE stack[i]
  BY <1>1
<1>4. \A i \in 1..Len(stack) : Placed1(stack'[i], c)
  <2>1. \A i \in 1..Len(stack) : Placed1(stack[i], cur)
    BY DEF IInv, StackOK
  <2>2. ASSUME NEW i \in 1..Len(stack) PROVE Placed1(stack[i], c)
    <3>1. Placed1(stack[i], cur) /\ c \in Nat /\ cur <= c
      BY <1>1, <2>1
    <3>2. QED
      BY <1>1, <3>1, FrameFacts
  <2>3. QED
    BY <1>3, <2>2
<1>5. \A i \in 1..Len(stack) : i < Len(stack) => stack'[i].pc < Len(Grammar[stack'[i].fn])
  BY <1>1, <1>3 DEF IInv, StackOK
<1>6. stack'[1].by = "entry"
  BY <1>1, <1>3 DEF IInv, StackOK, Top
<1>7. stack' # <<>>
  BY <1>1, <1>2
<1>8. QED
  BY Zenon, <1>2, <1>4, <1>5, <1>6, <1>7 DEF StackOK

(* Going on to another move, further on in the list, keeps the invariant.      *)
LEMMA GoesKeeps ==
  ASSUME IInv, NEW c \in cur..Len(toks), NEW f, Placed1(f, c), f.by = Top.by, Goes(f, c)
  PROVE  IInv'
<1>1. /\ stack' = [stack EXCEPT ![Len(stack)] = f]
      /\ cur' = c /\ toks' = toks /\ status' = status
  BY DEF Goes
<1>2. StackOK(stack', c)
  BY <1>1, TopReplaced
<1>3. c \in 1..Len(toks)
  BY TopFacts DEF IInv
<1>4. QED
  BY <1>1, <1>2, <1>3 DEF IInv

(* An error that climbs to whoever asks for it keeps the invariant.            *)
LEMMA FailsKeeps ==
  ASSUME ListOK(toks), status \in Statuses, NEW why \in Statuses, NEW c \in 1..Len(toks),
         NEW frames, StackOK(frames, c), Fails(why, c, frames)
  PROVE  IInv'
<1>1. PICK last \in 0..Len(frames) :
        /\ last # 0 => frames[last].by \in Unasked
        /\ cur' = c /\ toks' = toks
        /\ IF last # 0 /\ frames[last].by = "try"
           THEN /\ stack' = Append(SubSeq(frames, 1, last - 2),
                                   [Done(frames[last - 1]) EXCEPT !.node = NoNode])
                /\ status' = status
           ELSE /\ stack' = frames
                /\ status' = IF last # 0 THEN "thrown" ELSE why
  BY DEF Fails
<1>2. frames \in Seq(Frames) /\ Len(frames) \in Nat \ {0} /\ frames[1].by = "entry"
  BY DEF StackOK
<1>3. CASE last # 0 /\ frames[last].by = "try"
  <2> DEFINE g == [Done(frames[last - 1]) EXCEPT !.node = NoNode]
             front == SubSeq(frames, 1, last - 2)
  <2>1. last # 1
    BY <1>2, <1>3
  <2>2. last \in 2..Len(frames) /\ last - 1 \in 1..Len(frames) /\ last - 1 < Len(frames)
        /\ last - 2 \in 0..Len(frames)
    BY <1>2, <1>3, <2>1
  <2>3. Placed1(frames[last - 1], c)
        /\ frames[last - 1].pc < Len(Grammar[frames[last - 1].fn])
    BY <2>2 DEF StackOK
  <2>4. Placed1(Done(frames[last - 1]), c)
    BY <2>3, FrameFacts
  <2>5. Placed1(g, c)
    BY <2>4, FrameFacts, NoNodeIsNode
  <2>6. g \in Frames
    BY <2>5 DEF Placed1
  <2>7. front \in Seq(Frames) /\ Len(front) = last - 2
        /\ \A i \in 1..last - 2 : front[i] = frames[i]
    BY <1>2, <2>2
  <2>8. g.by = frames[last - 1].by
    <3>1. frames[last - 1] \in Frames
      BY <2>3 DEF Placed1
    <3>2. QED
      BY <3>1 DEF Done, Frames
  <2> HIDE DEF g, front
  <2>9. stack' = Append(front, g) /\ status' = status
    BY <1>1, <1>3 DEF front, g
  <2>10. stack' \in Seq(Frames) /\ Len(stack') = last - 1
         /\ \A i \in 1..last - 1 : stack'[i] = IF i = last - 1 THEN g ELSE frames[i]
    BY <2>2, <2>6, <2>7, <2>9
  <2>11. \A i \in 1..last - 1 : Placed1(stack'[i], c)
    BY <2>2, <2>5, <2>10 DEF StackOK
  <2>12. ASSUME NEW i \in 1..last - 1, i < last - 1
         PROVE  stack'[i].pc < Len(Grammar[stack'[i].fn])
    <3>1. stack'[i] = frames[i] /\ i \in 1..Len(frames) /\ i < Len(frames)
      BY <2>2, <2>10, <2>12
    <3>2. QED
      BY <3>1 DEF StackOK
  <2>13. stack'[1].by = "entry"
    BY <1>2, <2>2, <2>8, <2>10
  <2>14. stack' # <<>>
    BY <2>2, <2>10
  <2>15. StackOK(stack', c)
    BY <2>10, <2>11, <2>12, <2>13, <2>14 DEF StackOK
  <2>16. QED
    BY <1>1, <2>9, <2>15 DEF IInv
<1>4. CASE ~(last # 0 /\ frames[last].by = "try")
  <2>1. stack' = frames /\ status' \in {"thrown", why}
    BY <1>1, <1>4
  <2>2. status' \in Statuses
    BY <2>1 DEF Statuses
  <2>3. QED
    BY <1>1, <2>1, <2>2 DEF IInv
<1>5. QED
  BY <1>3, <1>4

(* A function that is called begins at its first move.                         *)
LEMMA FrameIsPlaced ==
  ASSUME ListOK(toks), NEW r \in Rules, NEW c \in 1..Len(toks), NEW w \in Words, NEW n \in Nodes
  PROVE  Placed1(Frame(r, c, w, n), c)
<1>1. 1 \in 1..Len(Grammar[r])
  BY GrammarAssumption
<1>2. Rounds(c) \in Nat
  BY DEF Rounds, ListOK
<1>3. <<>> \in Seq(Tokens) /\ {} \in SUBSET Words /\ c \in Nat /\ c \in 1..c
  BY DEF ListOK
<1>4. QED
  BY <1>1, <1>2, <1>3 DEF Placed1, Frame, Frames

(* A call keeps the invariant.                                                 *)
LEMMA CallsKeeps ==
  ASSUME IInv, NEW c \in cur..Len(toks), NEW f, Placed1(f, c), f.by = Top.by,
         f.pc < Len(Grammar[f.fn]), NEW m, m.op \in Words, NEW r \in Rules, NEW n \in Nodes,
         Calls(f, c, m, r, n)
  PROVE  IInv'
<1> DEFINE called == Append([stack EXCEPT ![Len(stack)] = f], Frame(r, c, m.op, n))
           g      == Frame(r, c, m.op, n)
           base   == [stack EXCEPT ![Len(stack)] = f]
<1>1. /\ Len(stack) \in Nat \ {0} /\ stack \in Seq(Frames) /\ f \in Frames
      /\ cur \in Nat /\ Len(toks) \in Nat /\ c \in 1..Len(toks) /\ ListOK(toks)
  BY TopFacts DEF IInv, StackOK, Placed1
<1>2. Placed1(g, c)
  BY <1>1, FrameIsPlaced
<1>3. g \in Frames
  BY <1>2 DEF Placed1
<1>4. /\ base \in Seq(Frames) /\ Len(base) = Len(stack)
      /\ \A i \in 1..Len(stack) : base[i] = IF i = Len(stack) THEN f ELSE stack[i]
  BY <1>1
<1> HIDE DEF g, base
<1>5. called = Append(base, g)
  BY DEF base, g
<1> HIDE DEF called
<1>6. /\ called \in Seq(Frames) /\ Len(called) = Len(stack) + 1
      /\ \A i \in 1..Len(stack) : called[i] = base[i]
      /\ called[Len(stack) + 1] = g
  BY <1>1, <1>3, <1>4, <1>5
<1>7. ASSUME NEW i \in 1..Len(called) PROVE Placed1(called[i], c)
  <2>1. CASE i = Len(stack) + 1
    BY <1>2, <1>6, <2>1
  <2>2. CASE i = Len(stack)
    BY <1>1, <1>4, <1>6, <2>2
  <2>3. CASE i \in 1..Len(stack) /\ i # Len(stack)
    <3>1. called[i] = stack[i] /\ Placed1(stack[i], cur) /\ c \in Nat /\ cur <= c
      BY <1>1, <1>4, <1>6, <2>3 DEF IInv, StackOK
    <3>2. QED
      BY <1>1, <3>1, FrameFacts
  <2>4. QED
    BY <1>1, <1>6, <2>1, <2>2, <2>3
<1>8. ASSUME NEW i \in 1..Len(called), i < Len(called)
      PROVE  called[i].pc < Len(Grammar[called[i].fn])
  <2>1. CASE i = Len(stack)
    BY <1>1, <1>4, <1>6, <2>1
  <2>2. CASE i # Len(stack)
    <3>1. i \in 1..Len(stack) /\ i < Len(stack) /\ called[i] = stack[i]
      BY <1>1, <1>4, <1>6, <1>8, <2>2
    <3>2. QED
      BY <3>1 DEF IInv, StackOK
  <2>3. QED
    BY <2>1, <2>2
<1>9. called[1].by = "entry"
  BY <1>1, <1>4, <1>6 DEF IInv, StackOK, Top
<1>10. called # <<>>
  BY <1>1, <1>6
<1>11. StackOK(called, c)
  BY <1>6, <1>7, <1>8, <1>9, <1>10 DEF StackOK
<1>12. CASE c < Len(toks)
  <2>1. stack' = called /\ cur' = c /\ toks' = toks /\ status' = status
    BY <1>12 DEF Calls, called
  <2>2. QED
    BY <1>1, <1>11, <2>1 DEF IInv
<1>13. CASE ~(c < Len(toks))
  <2>1. Fails("error", c, called)
    BY <1>13 DEF Calls, called
  <2>2. "error" \in Statuses /\ status \in Statuses
    BY DEF Statuses, IInv
  <2>3. QED
    BY <1>1, <1>11, <2>1, <2>2, FailsKeeps
<1>14. QED
  BY <1>12, <1>13

(* All but the last two elements of a sequence.                                *)
LEMMA LastTwoOff ==
  ASSUME NEW S, NEW s \in Seq(S), NEW d \in Nat, d = Len(s), d >= 2
  PROVE  LET front == SubSeq(s, 1, Len(s) - 2)
         IN front \in Seq(S) /\ Len(front) = Len(s) - 1 - 1
            /\ \A i \in 1..Len(s) - 1 - 1 : front[i] = s[i]
<1> DEFINE front == SubSeq(s, 1, d - 2)
<1>1. front \in Seq(S) /\ Len(front) = d - 2 /\ \A i \in 1..d - 2 : front[i] = s[i]
  OBVIOUS
<1> HIDE DEF front
<1>2. front \in Seq(S) /\ Len(front) = d - 1 - 1 /\ \A i \in 1..d - 1 - 1 : front[i] = s[i]
  BY <1>1
<1>3. QED
  BY <1>2 DEF front

(* A function that is returned to goes on at its next move.                    *)
LEMMA ResumedIsPlaced ==
  ASSUME NEW c \in Nat, NEW f, Placed1(f, c), f.pc < Len(Grammar[f.fn]), NEW by, NEW n \in Nodes
  PROVE  Placed1(Resumed(f, by, n), c) /\ Resumed(f, by, n).by = f.by
<1>1. f \in Frames /\ f.pc + 1 \in 1..Len(Grammar[f.fn])
  BY DEF Placed1, Frames
<1>2. n.tags \in SUBSET Words
  BY DEF Nodes
<1>3. ASSUME NEW h \in {[f EXCEPT !.tags = @ \cup n.tags], [f EXCEPT !.node = n]}
      PROVE  Placed1(h, c) /\ h \in Frames /\ h.by = f.by /\ h.pc < Len(Grammar[h.fn])
  <2>1. CASE h = [f EXCEPT !.tags = @ \cup n.tags]
    BY <1>1, <1>2, <2>1 DEF Placed1, Frames
  <2>2. CASE h = [f EXCEPT !.node = n]
    BY <1>1, <2>2 DEF Placed1, Frames
  <2>3. QED
    BY <1>3, <2>1, <2>2
<1>4. ASSUME NEW h \in {[f EXCEPT !.tags = @ \cup n.tags], [f EXCEPT !.node = n]}
      PROVE  Placed1(Done(h), c) /\ Done(h).by = f.by
  <2>1. Placed1(h, c) /\ h \in Frames /\ h.by = f.by /\ h.pc < Len(Grammar[h.fn])
    BY <1>3
  <2>2. Placed1(Done(h), c)
    BY <2>1, FrameFacts
  <2>3. Done(h).by = h.by
    BY <2>1 DEF Done, Frames
  <2>4. QED
    BY <2>1, <2>2, <2>3
<1>5. Resumed(f, by, n) \in {Done([f EXCEPT !.tags = @ \cup n.tags]), [f EXCEPT !.node = n],
                             Done([f EXCEPT !.node = n])}
  BY DEF Resumed
<1>6. QED
  BY <1>3, <1>4, <1>5

(* A return keeps the invariant.                                               *)
LEMMA ReturnsKeeps ==
  ASSUME IInv, NEW n \in Nodes, Returns1(n)
  PROVE  IInv'
<1>1. /\ Len(stack) \in Nat \ {0} /\ stack \in Seq(Frames) /\ Top \in Frames
      /\ Placed1(Top, cur) /\ cur \in Nat /\ cur \in 1..Len(toks) /\ ListOK(toks)
      /\ status \in Statuses /\ Len(toks) \in Nat
  BY TopFacts DEF IInv, StackOK
<1>2. toks' = toks /\ cur' = cur
  BY DEF Returns1
<1>3. CASE Len(stack) = 1
  <2> DEFINE g == [Top EXCEPT !.node = n]
  <2>1. stack' = <<g>> /\ status' = "done"
    BY <1>3 DEF Returns1
  <2>2. Placed1(g, cur)
    BY <1>1, FrameFacts
  <2>3. g \in Frames /\ g.by = Top.by /\ Top.by = "entry"
    BY <1>1, <1>3, <2>2 DEF Placed1, Frames, Top, IInv, StackOK
  <2> HIDE DEF g
  <2>4. stack' \in Seq(Frames) /\ stack' # <<>> /\ Len(stack') = 1 /\ stack'[1] = g
    BY <2>1, <2>3
  <2>5. StackOK(stack', cur)
    BY <2>2, <2>3, <2>4 DEF StackOK
  <2>6. status' \in Statuses
    BY <2>1 DEF Statuses
  <2>7. QED
    BY <1>1, <1>2, <2>5, <2>6 DEF IInv
<1>4. CASE Len(stack) # 1
  <2> DEFINE k == Len(stack) - 1
             f == stack[k]
             g == Resumed(f, Top.by, n)
             front == SubSeq(stack, 1, Len(stack) - 2)
  <2>1. PICK d \in Nat : d = Len(stack) /\ d >= 2
    <3>1. PICK d \in Nat : d = Len(stack) /\ d # 0 /\ d # 1
      BY <1>1, <1>4
    <3>2. QED
      BY <3>1
  <2>2. k \in 1..Len(stack) /\ k < Len(stack) /\ k \in Nat
    BY <2>1
  <2>3. Placed1(f, cur) /\ f.pc < Len(Grammar[f.fn])
    BY <2>2 DEF IInv, StackOK
  <2>4. Placed1(g, cur) /\ g.by = f.by
    BY <1>1, <2>3, ResumedIsPlaced
  <2>5. g \in Frames
    BY <2>4 DEF Placed1
  <2>6. front \in Seq(Frames) /\ Len(front) = k - 1
        /\ \A i \in 1..k - 1 : front[i] = stack[i]
    BY <1>1, <2>1, LastTwoOff
  <2> HIDE DEF g, front
  <2>7. stack' = Append(front, g) /\ status' = status
    BY <1>4 DEF Returns1, front, g
  <2>8. /\ stack' \in Seq(Frames) /\ Len(stack') = k
        /\ \A i \in 1..k : stack'[i] = IF i = k THEN g ELSE stack[i]
    BY <2>2, <2>5, <2>6, <2>7
  <2>9. ASSUME NEW i \in 1..k PROVE Placed1(stack'[i], cur)
    <3>1. i \in 1..Len(stack) /\ stack'[i] = IF i = k THEN g ELSE stack[i]
      BY <2>2, <2>8
    <3>2. QED
      BY <2>4, <3>1 DEF IInv, StackOK
  <2>10. ASSUME NEW i \in 1..k, i < k PROVE stack'[i].pc < Len(Grammar[stack'[i].fn])
    <3>1. i \in 1..Len(stack) /\ i < Len(stack) /\ stack'[i] = stack[i]
      BY <2>2, <2>8, <2>10
    <3>2. QED
      BY <3>1 DEF IInv, StackOK
  <2>11. stack'[1].by = "entry"
    BY <1>1, <2>2, <2>4, <2>8 DEF IInv, StackOK
  <2>12. stack' # <<>>
    BY <2>2, <2>8
  <2>13. StackOK(stack', cur)
    BY <2>8, <2>9, <2>10, <2>11, <2>12 DEF StackOK
  <2>14. QED
    BY <1>1, <1>2, <2>7, <2>13 DEF IInv
<1>5. QED
  BY <1>3, <1>4

-------------------------------------------------------------------------------
(* The same, for the ways the actions do it.                                  *)
LEMMA TopGoes ==
  ASSUME IInv, NEW c \in cur..Len(toks)
  PROVE  /\ Goes(Top, c) => IInv'
         /\ Move.op \notin Ends /\ Goes(Done(Top), c) => IInv'
         /\ \A t \in Words : Goes(Marked(Top, t), c) => IInv'
         /\ Move.op \notin Ends => \A t \in Words : Goes(Done(Marked(Top, t)), c) => IInv'
         /\ Move.op \notin Ends => \A t \in Words : Goes(Marked(Done(Top), t), c) => IInv'
         /\ \A r \in Rules : Goes(Become(Top, r), c) => IInv'
<1>1. /\ Placed1(Top, cur) /\ Top \in Frames /\ cur \in Nat /\ c \in Nat /\ cur <= c
  BY TopFacts DEF IInv
<1>2. Placed1(Top, c)
  BY <1>1, FrameFacts
<1>3. Goes(Top, c) => IInv'
  BY <1>2, GoesKeeps
<1>4. ASSUME Move.op \notin Ends PROVE Placed1(Done(Top), c) /\ Done(Top).by = Top.by
  <2>1. Top.pc < Len(Grammar[Top.fn])
    BY <1>4, MoveFacts
  <2>2. Placed1(Done(Top), c)
    BY <1>1, <1>2, <2>1, FrameFacts
  <2>3. QED
    BY <1>1, <2>2 DEF Done, Frames
<1>5. ASSUME Move.op \notin Ends, Goes(Done(Top), c) PROVE IInv'
  BY <1>4, <1>5, GoesKeeps
<1>6. ASSUME NEW t \in Words PROVE Placed1(Marked(Top, t), c) /\ Marked(Top, t).by = Top.by
  BY <1>1, <1>2 DEF Marked, Placed1, Frames
<1>7. ASSUME NEW t \in Words, Goes(Marked(Top, t), c) PROVE IInv'
  BY <1>6, <1>7, GoesKeeps
<1>8. ASSUME Move.op \notin Ends, NEW t \in Words, Goes(Done(Marked(Top, t)), c) PROVE IInv'
  <2> DEFINE g == Marked(Top, t)
  <2>1. Placed1(g, c) /\ g \in Frames /\ g.by = Top.by
    BY <1>6 DEF Placed1
  <2>2. g.pc < Len(Grammar[g.fn])
    BY <1>1, <1>2, <1>8, MoveFacts, FrameFacts
  <2> HIDE DEF g
  <2>3. Placed1(Done(g), c)
    BY <1>1, <2>1, <2>2, FrameFacts
  <2>4. Done(g).by = Top.by
    BY <2>1 DEF Done, Frames
  <2>5. Goes(Done(g), c)
    BY <1>8 DEF g
  <2>6. QED
    BY <2>3, <2>4, <2>5, GoesKeeps
<1>9. ASSUME Move.op \notin Ends, NEW t \in Words, Goes(Marked(Done(Top), t), c) PROVE IInv'
  <2> DEFINE g == Done(Top)
  <2>1. Placed1(g, c) /\ g.by = Top.by
    BY <1>4, <1>9
  <2> HIDE DEF g
  <2>2. Placed1(Marked(g, t), c)
    BY <1>1, <2>1, FrameFacts
  <2>3. Marked(g, t).by = Top.by
    BY <2>1 DEF Marked, Placed1, Frames
  <2>4. Goes(Marked(g, t), c)
    BY <1>9 DEF g
  <2>5. QED
    BY <2>2, <2>3, <2>4, GoesKeeps
<1>10. ASSUME NEW r \in Rules, Goes(Become(Top, r), c) PROVE IInv'
  <2>1. Placed1(Become(Top, r), c)
    BY <1>1, <1>2, FrameFacts
  <2>2. Become(Top, r).by = Top.by
    BY <1>1 DEF Become, Frames
  <2>3. QED
    BY <1>10, <2>1, <2>2, GoesKeeps
<1>11. QED
  BY <1>3, <1>5, <1>7, <1>8, <1>9, <1>10

(* A call of the function at work keeps the invariant, also when it            *)
(* remembers a token.                                                          *)
LEMMA TopCalls ==
  ASSUME IInv, Move.op \notin Ends, NEW c \in cur..Len(toks), NEW r \in Rules, NEW n \in Nodes
  PROVE  /\ Calls(Top, c, Move, r, n) => IInv'
         /\ \A t \in Words : Calls(Marked(Top, t), c, Move, r, n) => IInv'
<1>1. /\ Placed1(Top, cur) /\ Top \in Frames /\ cur \in Nat /\ c \in Nat /\ cur <= c
      /\ Top.pc < Len(Grammar[Top.fn])
  BY TopFacts, MoveFacts DEF IInv
<1>2. Placed1(Top, c)
  BY <1>1, FrameFacts
<1>3. Move.op \in Words
  BY MoveFacts DEF Moves, Words
<1>4. ASSUME Calls(Top, c, Move, r, n) PROVE IInv'
  BY <1>1, <1>2, <1>3, <1>4, CallsKeeps
<1>5. ASSUME NEW t \in Words, Calls(Marked(Top, t), c, Move, r, n) PROVE IInv'
  <2> DEFINE g == Marked(Top, t)
  <2>1. Placed1(g, c) /\ g.pc < Len(Grammar[g.fn])
    BY <1>1, <1>2, FrameFacts
  <2>2. g.by = Top.by
    BY <1>1 DEF Marked, Frames
  <2> HIDE DEF g
  <2>3. Calls(g, c, Move, r, n)
    BY <1>5 DEF g
  <2>4. QED
    BY <1>3, <2>1, <2>2, <2>3, CallsKeeps
<1>6. QED
  BY <1>4, <1>5

(* The ways to refuse and to stop keep the invariant.                          *)
LEMMA EndsWell ==
  ASSUME IInv
  PROVE  /\ Refuses => IInv'
         /\ Fails("toolong", cur, stack) => IInv'
         /\ StepsOver => IInv'
         /\ \A why \in Statuses : Stops(why, cur) => IInv'
<1>1. /\ ListOK(toks) /\ cur \in 1..Len(toks) /\ status \in Statuses /\ StackOK(stack, cur)
      /\ cur \in Nat /\ Len(toks) \in Nat
  BY TopFacts DEF IInv
<1>2. "error" \in Statuses /\ "toolong" \in Statuses
  BY DEF Statuses
<1>3. ASSUME NEW why \in Statuses, Fails(why, cur, stack) PROVE IInv'
  BY <1>1, <1>3, FailsKeeps
<1>4. ASSUME StepsOver PROVE IInv'
  <2> DEFINE c == IF cur < Len(toks) THEN cur + 1 ELSE cur
  <2>1. c \in 1..Len(toks) /\ c \in Nat /\ cur <= c
    BY <1>1
  <2>2. Fails("error", c, stack)
    BY <1>4 DEF StepsOver
  <2> HIDE DEF c
  <2>3. StackOK(stack, c)
    <3>1. ASSUME NEW i \in 1..Len(stack) PROVE Placed1(stack[i], c)
      <4>1. Placed1(stack[i], cur)
        BY <1>1 DEF StackOK
      <4>2. QED
        BY <1>1, <2>1, <4>1, FrameFacts
    <3>2. QED
      BY <1>1, <3>1 DEF StackOK
  <2>4. QED
    BY <1>1, <1>2, <2>1, <2>2, <2>3, FailsKeeps
<1>5. ASSUME NEW why \in Statuses, Stops(why, cur) PROVE IInv'
  BY <1>1, <1>5 DEF Stops, IInv
<1>6. QED
  BY <1>2, <1>3, <1>4, <1>5 DEF Refuses

(* What a choice of functions chooses is one of them, or the loop that never   *)
(* ends.                                                                       *)
LEMMA ChosenFacts ==
  ASSUME IInv, NEW r \in Chosen(Move)
  PROVE  r \in Rules \/ (Move.op = "bounded" /\ r = Spin)
<1>1. PICK a \in 1..Len(Move.alts) : r = Move.alts[a].fn
  BY DEF Chosen
<1>2. QED
  BY <1>1, MoveFacts

(* The nodes a step makes are nodes.                                           *)
LEMMA NodeFacts ==
  ASSUME IInv
  PROVE  Top.node \in Nodes /\ NoNode \in Nodes /\ Move.fn \in Words
         /\ Node(Move.fn, Top.tags) \in Nodes
<1>1. Top.node \in Nodes /\ Top.tags \in SUBSET Words
  BY TopFacts DEF Frames
<1>2. Move.fn \in Words
  BY MoveFacts DEF Moves, Words
<1>3. QED
  BY <1>1, <1>2, NoNodeIsNode DEF Node, Nodes

(* The two functions that rewrite what they stand on.                         *)
LEMMA ConstTakenOut ==
  ASSUME IInv, NEW r \in Rules, NEW n \in 1..Len(Top.mods),
         Goes([Become(Top, r) EXCEPT !.mods = SubSeq(@, 1, n - 1) \o SubSeq(@, n + 1, Len(@))], cur)
  PROVE  IInv'
<1> DEFINE b == Become(Top, r)
           rest == SubSeq(b.mods, 1, n - 1) \o SubSeq(b.mods, n + 1, Len(b.mods))
           g == [b EXCEPT !.mods = rest]
<1>1. /\ Placed1(Top, cur) /\ Top \in Frames /\ Top.mods \in Seq(Tokens) /\ cur \in cur..Len(toks)
      /\ cur \in Nat
  BY TopFacts DEF Frames, IInv
<1>2. Placed1(b, cur) /\ b \in Frames /\ b.by = Top.by /\ b.mods = Top.mods
  <2>1. Placed1(b, cur)
    BY <1>1, FrameFacts
  <2>2. QED
    BY <1>1, <2>1 DEF Placed1, Become, Frames
<1> HIDE DEF b
<1>3. rest \in Seq(Tokens)
  BY <1>1, <1>2
<1> HIDE DEF rest
<1>4. Placed1(g, cur) /\ g.by = Top.by
  BY <1>2, <1>3 DEF Placed1, Frames
<1>5. Goes(g, cur)
  BY DEF g, b, rest
<1>6. QED
  BY <1>1, <1>4, <1>5, GoesKeeps

(* A list with one >> split in two ends in EOF still, and is longer.           *)
LEMMA SplitList ==
  ASSUME ListOK(toks), NEW c \in 1..Len(toks), toks[c] = ">>"
  PROVE  LET t == SubSeq(toks, 1, c - 1) \o <<">", ">">> \o SubSeq(toks, c + 1, Len(toks))
         IN /\ ListOK(t) /\ c \in 1..Len(t) /\ c + 1 <= Len(toks)
            /\ Len(t) = Len(toks) + 1 /\ t[c] = ">"
            /\ \A j \in 1..c - 1 : t[j] = toks[j]
<1> DEFINE L == Len(toks)
           a == SubSeq(toks, 1, c - 1)
           b == <<">", ">">>
           z == SubSeq(toks, c + 1, L)
           t == a \o b \o z
           T == Tokens \cup {EOF}
<1>1. toks \in Seq(T) /\ L \in Nat /\ toks[L] = EOF /\ c \in Nat /\ 1 <= c /\ c <= L
  BY DEF ListOK
<1>2. c # L
  BY <1>1 DEF EOF
<1>3. c + 1 <= L
  BY <1>1, <1>2
<1>4. a \in Seq(T) /\ Len(a) = c - 1 /\ \A j \in 1..c - 1 : a[j] = toks[j]
  BY <1>1
<1>5. ">" \in T
  BY DEF Tokens, BinaryOps
<1>6. b \in Seq(T) /\ Len(b) = 2 /\ b[1] = ">"
  BY <1>5
<1>7. z \in Seq(T) /\ Len(z) = L - c /\ z[L - c] = EOF
  BY <1>1, <1>3
<1> HIDE DEF a, b, z, T
<1>8. /\ a \o b \in Seq(T) /\ Len(a \o b) = c + 1 /\ (a \o b)[c] = ">"
      /\ \A j \in 1..c - 1 : (a \o b)[j] = toks[j]
  <2>1. /\ a \o b \in Seq(T) /\ Len(a \o b) = Len(a) + Len(b)
        /\ \A j \in 1..Len(a) + Len(b) : (a \o b)[j] = IF j <= Len(a) THEN a[j] ELSE b[j - Len(a)]
    BY <1>4, <1>6, ConcatProperties
  <2>2. Len(a) + Len(b) = c + 1 /\ c \in 1..c + 1 /\ ~(c <= Len(a)) /\ c - Len(a) = 1
    BY <1>1, <1>4, <1>6
  <2>3. \A j \in 1..c - 1 : j \in 1..c + 1 /\ j <= Len(a)
    BY <1>1, <1>4
  <2>4. QED
    BY <1>4, <1>6, <2>1, <2>2, <2>3
<1> DEFINE ab == a \o b
<1> HIDE DEF ab
<1>9. ab \in Seq(T) /\ Len(ab) = c + 1 /\ ab[c] = ">" /\ \A j \in 1..c - 1 : ab[j] = toks[j]
  BY <1>8 DEF ab
<1>10. ab \o z \in Seq(T) /\ Len(ab \o z) = L + 1
  BY <1>1, <1>7, <1>9
<1>11. (ab \o z)[c] = ">" /\ \A j \in 1..c - 1 : (ab \o z)[j] = toks[j]
  <2>1. \A j \in 1..c : j \in 1..Len(ab) + Len(z) /\ j <= Len(ab)
    BY <1>1, <1>7, <1>9
  <2>2. \A j \in 1..Len(ab) + Len(z) : j <= Len(ab) => (ab \o z)[j] = ab[j]
    BY <1>7, <1>9, ConcatProperties
  <2>3. c \in 1..c /\ \A j \in 1..c - 1 : j \in 1..c
    BY <1>1
  <2>4. QED
    BY <1>9, <2>1, <2>2, <2>3
<1>12. (ab \o z)[L + 1] = z[L - c]
  <2>1. L + 1 \in 1..Len(ab) + Len(z) /\ ~(L + 1 <= Len(ab)) /\ L + 1 - Len(ab) = L - c
    BY <1>1, <1>3, <1>7, <1>9
  <2>2. QED
    BY <1>7, <1>9, <2>1
<1>13. ab \o z # <<>>
  BY <1>1, <1>10
<1>14. ListOK(ab \o z)
  BY <1>1, <1>7, <1>10, <1>12, <1>13 DEF ListOK, T
<1>15. t = ab \o z
  BY DEF ab
<1>16. ListOK(t) /\ c \in 1..Len(t)
  BY <1>1, <1>10, <1>14, <1>15
<1>17. QED
  BY <1>3, <1>10, <1>15, <1>16, <1>11 DEF a, b, z

-------------------------------------------------------------------------------
(* One step of the parser.                                                    *)
LEMMA StepKeeps ==
  ASSUME IInv, Next
  PROVE  IInv'
<1>1. /\ cur \in Nat /\ Len(toks) \in Nat /\ cur \in 1..Len(toks) /\ cur \in cur..Len(toks)
      /\ Here \in Tokens \cup {EOF} /\ (cur = Len(toks) => Here = EOF)
  BY TopFacts DEF IInv
<1>2. Here # EOF => cur + 1 \in cur..Len(toks)
  BY <1>1
<1>3. Move.op \notin Ends /\ Proceeds => IInv'
  BY <1>1, TopGoes DEF Proceeds
<1>4. CASE TakeToken
  <2>1. Move.op = "tok" /\ IF Here \in Move.on THEN Goes(Done(Top), cur + 1) ELSE StepsOver
    BY <1>4 DEF TakeToken, AtHand
  <2>2. Move.op \notin Ends /\ EOF \notin Move.on
    BY <2>1, MoveFacts DEF Ends
  <2>3. QED
    BY <1>1, <1>2, <2>1, <2>2, TopGoes, EndsWell
<1>5. CASE LookAtToken
  <2>1. Move.op = "look" /\ IF Here \in Move.on THEN Proceeds ELSE StepsOver
    BY <1>5 DEF LookAtToken, AtHand
  <2>2. QED
    BY <1>3, <2>1, EndsWell DEF Ends
<1>6. CASE SkipToken
  <2>1. Move.op = "skip" /\ Goes(Done(Top), IF Here \in Move.on THEN cur + 1 ELSE cur)
    BY <1>6 DEF SkipToken, AtHand
  <2>2. Move.op \notin Ends /\ EOF \notin Move.on
    BY <2>1, MoveFacts DEF Ends
  <2>3. QED
    BY <1>1, <1>2, <2>1, <2>2, TopGoes
<1>7. CASE SkipTokens
  <2>1. Move.op = "skips" /\ IF Here \in Move.on THEN Goes(Top, cur + 1) ELSE Proceeds
    BY <1>7 DEF SkipTokens, AtHand
  <2>2. Move.op \notin Ends /\ EOF \notin Move.on
    BY <2>1, MoveFacts DEF Ends
  <2>3. QED
    BY <1>1, <1>2, <1>3, <2>1, <2>2, TopGoes
<1>8. CASE NoteToken
  <2>1. /\ Move.op = "note"
        /\ Goes(IF Here \in Move.on THEN Marked(Done(Top), Move.fn) ELSE Done(Top), cur)
    BY <1>8 DEF NoteToken, AtHand
  <2>2. Move.op \notin Ends /\ Move.fn \in Words
    BY <2>1, NodeFacts DEF Ends
  <2>3. QED
    BY <1>1, <2>1, <2>2, TopGoes
<1>9. CASE CallOther
  <2>1. Move.op \in {"call", "also", "try", "unchecked"} /\ Calls(Top, cur, Move, Move.fn, NoNode)
    BY <1>9 DEF CallOther, AtHand
  <2>2. Move.op \notin Ends /\ Move.fn \in Rules
    BY <2>1, MoveFacts DEF Ends
  <2>3. QED
    BY <1>1, <2>1, <2>2, TopCalls, NodeFacts
<1>10. CASE CallOptional
  <2>1. /\ Move.op = "opt"
        /\ IF Here \in Move.on THEN Calls(Top, cur, Move, Move.fn, Top.node) ELSE Proceeds
    BY <1>10 DEF CallOptional, AtHand
  <2>2. Move.op \notin Ends /\ Move.fn \in Rules
    BY <2>1, MoveFacts DEF Ends
  <2>3. QED
    BY <1>1, <1>3, <2>1, <2>2, TopCalls, NodeFacts
<1>11. CASE CallInstead
  <2>1. /\ Move.op = "else"
        /\ IF Top.node.kind = "None" THEN Calls(Top, cur, Move, Move.fn, NoNode) ELSE Proceeds
    BY <1>11 DEF CallInstead, AtHand
  <2>2. Move.op \notin Ends /\ Move.fn \in Rules
    BY <2>1, MoveFacts DEF Ends
  <2>3. QED
    BY <1>1, <1>3, <2>1, <2>2, TopCalls, NodeFacts
<1>12. CASE CallWhile
  <2>1. /\ Move.op = "while"
        /\ IF Here \in Move.on THEN Calls(Top, cur, Move, Move.fn, NoNode) ELSE Proceeds
    BY <1>12 DEF CallWhile, AtHand
  <2>2. Move.op \notin Ends /\ Move.fn \in Rules
    BY <2>1, MoveFacts DEF Ends
  <2>3. QED
    BY <1>1, <1>3, <2>1, <2>2, TopCalls, NodeFacts
<1>13. CASE CallInList
  <2>1. /\ Move.op = "list"
        /\ IF Here \notin Move.on THEN Proceeds
           ELSE IF Ahead(1) \in Move.stop THEN Goes(Done(Top), cur + 1)
           ELSE Calls(Top, cur + 1, Move, Move.fn, NoNode)
    BY <1>13 DEF CallInList, AtHand
  <2>2. Move.op \notin Ends /\ Move.fn \in Rules /\ EOF \notin Move.on
    BY <2>1, MoveFacts DEF Ends
  <2>3. QED
    BY <1>1, <1>2, <1>3, <2>1, <2>2, TopGoes, TopCalls, NodeFacts
<1>14. CASE CallInParams
  <2> DEFINE f == IF Defaulted THEN Marked(Top, "keyword") ELSE Top
  <2>1. /\ Move.op = "params"
        /\ \/ Refuses
           \/ Here \in Move.on /\ Calls(f, cur + 1, Move, Move.fn, NoNode)
           \/ Goes(Done(f), cur)
    BY <1>14 DEF CallInParams, AtHand
  <2>2. /\ Move.op \notin Ends /\ Move.fn \in Rules /\ EOF \notin Move.on
        /\ "keyword" \in Words
    BY <2>1, MoveFacts DEF Ends, Words
  <2>3. CASE Here \in Move.on /\ Calls(f, cur + 1, Move, Move.fn, NoNode)
    BY <1>1, <1>2, <2>2, <2>3, TopCalls, NodeFacts
  <2>4. CASE Goes(Done(f), cur)
    BY <1>1, <2>2, <2>4, TopGoes
  <2>5. QED
    BY <2>1, <2>3, <2>4, EndsWell
<1>15. CASE CallInElses
  <2> DEFINE f == IF "plain" \in Top.node.tags THEN Marked(Top, "plain") ELSE Top
  <2>1. /\ Move.op = "elses"
        /\ Refuses \/ Calls(f, cur, Move, Move.fn, NoNode) \/ Goes(Done(f), cur)
    BY <1>15 DEF CallInElses, AtHand
  <2>2. Move.op \notin Ends /\ Move.fn \in Rules /\ "plain" \in Words
    BY <2>1, MoveFacts DEF Ends, Words
  <2>3. CASE Calls(f, cur, Move, Move.fn, NoNode)
    BY <1>1, <2>2, <2>3, TopCalls, NodeFacts
  <2>4. CASE Goes(Done(f), cur)
    BY <1>1, <2>2, <2>4, TopGoes
  <2>5. QED
    BY <2>1, <2>3, <2>4, EndsWell
<1>16. CASE SwitchOn
  <2>1. /\ Move.op = "switch"
        /\ Refuses \/ \E r \in Chosen(Move) : Goes(Become(Top, r), cur)
    BY <1>16 DEF SwitchOn, AtHand
  <2>2. \A r \in Chosen(Move) : r \in Rules
    BY <2>1, ChosenFacts
  <2>3. QED
    BY <1>1, <2>1, <2>2, TopGoes, EndsWell
<1>17. CASE PickOne
  <2>1. /\ Move.op = "pick"
        /\ Proceeds \/ \E r \in Chosen(Move) : Goes(Become(Top, r), cur)
    BY <1>17 DEF PickOne, AtHand
  <2>2. Move.op \notin Ends /\ \A r \in Chosen(Move) : r \in Rules
    BY <2>1, ChosenFacts DEF Ends
  <2>3. QED
    BY <1>1, <1>3, <2>1, <2>2, TopGoes
<1>18. CASE RepeatOne
  <2>1. /\ Move.op = "repeat"
        /\ Proceeds \/ \E r \in Chosen(Move) : Calls(Top, cur, Move, r, Top.node)
    BY <1>18 DEF RepeatOne, AtHand
  <2>2. Move.op \notin Ends /\ \A r \in Chosen(Move) : r \in Rules
    BY <2>1, ChosenFacts DEF Ends
  <2>3. QED
    BY <1>1, <1>3, <2>1, <2>2, TopCalls, NodeFacts
<1>19. CASE CountedOne
  <2> DEFINE f == [Top EXCEPT !.fuel = @ - 1]
  <2>1. /\ Move.op = "bounded"
        /\ \/ Fails("toolong", cur, stack)
           \/ Top.fuel # 0 /\ (Goes(Done(f), cur) \/ Goes(f, cur))
           \/ Top.fuel # 0 /\ \E r \in Chosen(Move) \ {Spin} : Calls(f, cur, Move, r, Top.node)
    BY <1>19 DEF CountedOne, AtHand
  <2>2. /\ Placed1(Top, cur) /\ Top \in Frames /\ Top.pc < Len(Grammar[Top.fn])
        /\ \A r \in Chosen(Move) \ {Spin} : r \in Rules
    BY <2>1, TopFacts, MoveFacts, ChosenFacts DEF Ends
  <2>3. Move.op \in Words
    BY MoveFacts DEF Moves, Words
  <2>4. CASE Fails("toolong", cur, stack)
    BY <2>4, EndsWell
  <2>5. CASE Top.fuel # 0
    <3>1. /\ Placed1(f, cur) /\ f.by = Top.by /\ f.pc < Len(Grammar[f.fn]) /\ f \in Frames
      BY <2>2, <2>5 DEF Placed1, Frames
    <3> HIDE DEF f
    <3>2. Placed1(Done(f), cur)
      BY <1>1, <3>1, FrameFacts
    <3>3. Done(f).by = Top.by
      BY <3>1 DEF Done, Frames
    <3>4. Goes(Done(f), cur) => IInv'
      BY <1>1, <3>2, <3>3, GoesKeeps
    <3>5. Goes(f, cur) => IInv'
      BY <1>1, <3>1, GoesKeeps
    <3>6. ASSUME NEW r \in Rules, Calls(f, cur, Move, r, Top.node) PROVE IInv'
      BY <1>1, <2>3, <3>1, <3>6, CallsKeeps, NodeFacts
    <3>7. QED
      BY <2>1, <2>2, <2>4, <3>4, <3>5, <3>6
  <2>6. QED
    BY <2>1, <2>4, <2>5
<1>20. CASE ReturnNode
  <2>1. Returns1(Node(Move.fn, Top.tags))
    BY <1>20 DEF ReturnNode, AtHand
  <2>2. QED
    BY <2>1, NodeFacts, ReturnsKeeps
<1>21. CASE YieldNode
  <2>1. Returns1(Top.node)
    BY <1>21 DEF YieldNode, AtHand
  <2>2. QED
    BY <2>1, NodeFacts, ReturnsKeeps
<1>22. CASE CheckOne
  <2>1. Move.op \in Checks /\ (Proceeds \/ Refuses)
    BY <1>22 DEF CheckOne, AtHand
  <2>2. Move.op \notin Ends
    BY <2>1 DEF Checks, Ends
  <2>3. QED
    BY <1>3, <2>1, <2>2, EndsWell
<1>23. CASE FollowNode
  <2>1. Move.op = "deref" /\ (Proceeds \/ Stops("crash", cur))
    BY <1>23 DEF FollowNode, AtHand
  <2>2. Move.op \notin Ends /\ "crash" \in Statuses
    BY <2>1 DEF Ends, Statuses
  <2>3. QED
    BY <1>3, <2>1, <2>2, EndsWell
<1>24. CASE CollectModifiers
  <2> DEFINE f == [Top EXCEPT !.mods = Append(@, Here)]
  <2>1. /\ Move.op = "collect"
        /\ Proceeds \/ (Here \in Modifiers /\ Goes(f, cur + 1))
    BY <1>24 DEF CollectModifiers, AtHand
  <2>2. Move.op \notin Ends
    BY <2>1 DEF Ends
  <2>3. CASE Here \in Modifiers /\ Goes(f, cur + 1)
    <3>1. Here # EOF /\ Here \in Tokens
      BY <1>1, <2>3 DEF Modifiers, EOF
    <3>2. cur + 1 \in cur..Len(toks) /\ cur + 1 \in Nat /\ cur <= cur + 1
      BY <1>1, <1>2, <3>1
    <3>3. Top \in Frames /\ Placed1(Top, cur)
      BY TopFacts
    <3>4. Placed1(Top, cur + 1)
      BY <1>1, <3>2, <3>3, FrameFacts
    <3>5. Placed1(f, cur + 1) /\ f.by = Top.by
      <4> DEFINE more == Append(Top.mods, Here)
      <4>1. more \in Seq(Tokens)
        BY <3>1, <3>3 DEF Frames
      <4> HIDE DEF more
      <4>2. f = [Top EXCEPT !.mods = more]
        BY DEF more
      <4>3. QED
        BY <3>3, <3>4, <4>1, <4>2 DEF Placed1, Frames
    <3>6. QED
      BY <2>3, <3>2, <3>5, GoesKeeps
  <2>4. QED
    BY <1>3, <2>1, <2>2, <2>3
<1>25. CASE ConstOrNot
  <2>1. /\ Move.op = "const"
        /\ \/ Proceeds
           \/ \E n \in 1..Len(Top.mods) :
                Goes([Become(Top, Move.fn) EXCEPT
                        !.mods = SubSeq(@, 1, n - 1) \o SubSeq(@, n + 1, Len(@))], cur)
    BY <1>25 DEF ConstOrNot, AtHand
  <2>2. Move.op \notin Ends /\ Move.fn \in Rules
    BY <2>1, MoveFacts DEF Ends
  <2>3. QED
    BY <1>3, <2>1, <2>2, ConstTakenOut
<1>26. CASE ScopeStep
  <2>1. /\ Move.op = "scope"
        /\ \/ Proceeds \/ Stops("crash", cur)
           \/ Here = "::" /\ Goes(Done(Top), cur + 1)
           \/ /\ Here = "::" /\ Ahead(1) \in Names /\ Ahead(2) = "::"
              /\ Goes(Marked(Top, "path"), cur + 2)
           \/ Here = "::" /\ Calls(Top, cur + 1, Move, Move.fn, NoNode)
    BY <1>26 DEF ScopeStep, AtHand
  <2>2. Move.op \notin Ends /\ Move.fn \in Rules /\ "path" \in Words /\ "crash" \in Statuses
    BY <2>1, MoveFacts DEF Ends, Words, Statuses
  <2>3. Here = "::" => cur + 1 \in cur..Len(toks)
    BY <1>2 DEF EOF
  <2>4. Ahead(2) = "::" => cur + 2 \in cur..Len(toks)
    BY <1>1 DEF Ahead, EOF
  <2>5. QED
    BY <1>3, <2>1, <2>2, <2>3, <2>4, TopGoes, TopCalls, EndsWell, NodeFacts
<1>27. CASE ScanForFn
  <2>1. /\ Move.op = "scan"
        /\ Stops("wild", cur) \/ \E n \in cur + 1..Len(toks) : Goes(Done(Top), n)
    BY <1>27 DEF ScanForFn, AtHand
  <2>2. Move.op \notin Ends /\ "wild" \in Statuses
    BY <2>1 DEF Ends, Statuses
  <2>3. \A n \in cur + 1..Len(toks) : n \in cur..Len(toks)
    BY <1>1
  <2>4. QED
    BY <2>1, <2>2, <2>3, TopGoes, EndsWell
<1>28. CASE SplitAngles
  <2> DEFINE t == SubSeq(toks, 1, cur - 1) \o <<">", ">">> \o SubSeq(toks, cur + 1, Len(toks))
  <2>1. /\ Move.op = "split"
        /\ \/ Proceeds
           \/ /\ Here = ">>" /\ toks' = t /\ stack' = [stack EXCEPT ![Len(stack)] = Done(Top)]
              /\ cur' = cur /\ status' = status
    BY <1>28 DEF SplitAngles, AtHand
  <2>2. Move.op \notin Ends
    BY <2>1 DEF Ends
  <2>3. CASE /\ Here = ">>" /\ toks' = t /\ stack' = [stack EXCEPT ![Len(stack)] = Done(Top)]
             /\ cur' = cur /\ status' = status
    <3>1. Placed1(Done(Top), cur) /\ Done(Top).by = Top.by
      <4>1. Placed1(Top, cur) /\ Top \in Frames /\ Top.pc < Len(Grammar[Top.fn])
        BY <2>2, TopFacts, MoveFacts
      <4>2. Placed1(Done(Top), cur)
        BY <1>1, <4>1, FrameFacts
      <4>3. QED
        BY <4>1, <4>2 DEF Done, Frames
    <3>2. StackOK(stack', cur)
      BY <1>1, <2>3, <3>1, TopReplaced
    <3>3. ListOK(t) /\ cur \in 1..Len(t)
      BY <1>1, <2>3, SplitList DEF IInv, Here
    <3> HIDE DEF t
    <3>4. QED
      BY <2>3, <3>2, <3>3 DEF IInv
  <2>4. QED
    BY <1>3, <2>1, <2>2, <2>3
<1>29. CASE CloseParen
  <2>1. /\ Move.op = "close"
        /\ \/ Proceeds \/ Refuses \/ Stops("wild", cur)
           \/ Here = ")" /\ Goes(Done(Top), cur + 1)
    BY <1>29 DEF CloseParen, AtHand
  <2>2. Move.op \notin Ends /\ "wild" \in Statuses
    BY <2>1 DEF Ends, Statuses
  <2>3. Here = ")" => cur + 1 \in cur..Len(toks)
    BY <1>2 DEF EOF
  <2>4. QED
    BY <1>3, <2>1, <2>2, <2>3, TopGoes, EndsWell
<1>30. CASE ParseElements
  <2>1. Move.op = "elements" /\ (Proceeds \/ Refuses)
    BY <1>30 DEF ParseElements, AtHand
  <2>2. QED
    BY <1>3, <2>1, EndsWell DEF Ends
<1>31. CASE AskProcessor
  <2>1. Move.op = "processor" /\ (Proceeds \/ Stops("crash", cur))
    BY <1>31 DEF AskProcessor, AtHand
  <2>2. Move.op \notin Ends /\ "crash" \in Statuses
    BY <2>1 DEF Ends, Statuses
  <2>3. QED
    BY <1>3, <2>1, <2>2, EndsWell
<1>32. CASE LookBehind
  <2>1. Move.op = "braces" /\ (Proceeds \/ Refuses \/ Stops("wild", cur))
    BY <1>32 DEF LookBehind, AtHand
  <2>2. Move.op \notin Ends /\ "wild" \in Statuses
    BY <2>1 DEF Ends, Statuses
  <2>3. QED
    BY <1>3, <2>1, <2>2, EndsWell
<1>33. CASE Ended
  BY <1>33 DEF Ended, vars, IInv
<1>34. QED
  BY <1>4, <1>5, <1>6, <1>7, <1>8, <1>9, <1>10, <1>11, <1>12, <1>13, <1>14, <1>15, <1>16, <1>17,
     <1>18, <1>19, <1>20, <1>21, <1>22, <1>23, <1>24, <1>25, <1>26, <1>27, <1>28, <1>29, <1>30,
     <1>31, <1>32, <1>33 DEF Next

(* What the invariant says of the types: run parser checks it on every text   *)
(* of its instance.                                                           *)
LEMMA InvTypes == IInv => TypeOK
<1> SUFFICES ASSUME IInv PROVE TypeOK
  OBVIOUS
<1>1. /\ toks \in Seq(Tokens \cup {EOF}) /\ toks[Len(toks)] = EOF
      /\ cur \in 1..Len(toks) /\ status \in Statuses /\ stack # <<>>
  BY DEF IInv, ListOK, StackOK
<1>2. ASSUME NEW i \in 1..Len(stack)
      PROVE  /\ stack[i].fn \in Rules /\ stack[i].pc \in 1..Len(Grammar[stack[i].fn])
             /\ stack[i].start \in 1..cur /\ stack[i].fuel \in Nat
  <2>1. Placed1(stack[i], cur)
    BY DEF IInv, StackOK
  <2>2. QED
    BY <2>1 DEF Placed1, Frames
<1>3. QED
  BY <1>1, <1>2 DEF TypeOK

(* A parse that begins has the invariant.                                      *)
LEMMA InitHolds == Init => IInv
<1> SUFFICES ASSUME Init PROVE IInv
  OBVIOUS
<1>1. PICK i \in Inputs : /\ toks = Append(i.toks, EOF) /\ cur = 1
                          /\ stack = <<Frame(i.entry, 1, "entry", NoNode)>> /\ status = "run"
  BY DEF Init
<1>2. i.entry \in Rules /\ i.toks \in Seq(Tokens)
  BY InputsAssumption
<1>3. ListOK(toks) /\ 1 \in 1..Len(toks)
  <2>1. i.toks \in Seq(Tokens \cup {EOF}) /\ Len(i.toks) \in Nat /\ EOF \in Tokens \cup {EOF}
    BY <1>2
  <2>2. QED
    BY <1>1, <2>1 DEF ListOK
<1> DEFINE g == Frame(i.entry, 1, "entry", NoNode)
<1>4. "entry" \in Words
  BY DEF Words
<1>5. Placed1(g, 1)
  BY <1>2, <1>3, <1>4, FrameIsPlaced, NoNodeIsNode
<1>6. g \in Frames /\ g.by = "entry"
  BY <1>5 DEF Placed1, Frame
<1> HIDE DEF g
<1>7. stack = <<g>>
  BY <1>1 DEF g
<1>8. stack \in Seq(Frames) /\ stack # <<>> /\ Len(stack) = 1 /\ stack[1] = g
  BY <1>6, <1>7
<1>9. StackOK(stack, 1)
  BY <1>5, <1>6, <1>8 DEF StackOK
<1>10. QED
  BY <1>1, <1>3, <1>9 DEF IInv, Statuses

(* Whatever the text and whatever the parse functions, as long as each ends   *)
(* in a return and none takes EOF for a token: the cursor never leaves the    *)
(* list unnoticed, a split list still ends in EOF, an error always has a      *)
(* caller that meets it or the program's own, and every function that waits   *)
(* has a move to go on with.                                                  *)
THEOREM TypeCorrect == Spec => []TypeOK
<1>1. Init => IInv
  BY InitHolds
<1>2. IInv /\ [Next]_vars => IInv'
  <2>1. ASSUME IInv, UNCHANGED vars PROVE IInv'
    BY <2>1 DEF vars, IInv
  <2>2. QED
    BY <2>1, StepKeeps
<1>3. QED
  BY <1>1, <1>2, InvTypes, PTL DEF Spec

-------------------------------------------------------------------------------
(* Thrown results.                                                           *)

(* value() of a parse result throws for the result of a call that nobody       *)
(* asked about.                                                              *)
ThrowsUnchecked ==
  status = "thrown" => \E i \in 2..Len(stack) : stack[i].by = "unchecked"
Harmless == status' = "thrown" => ThrowsUnchecked'

(* An error that climbs, and is not thrown, is harmless.                       *)
LEMMA FailsHarmless ==
  ASSUME NEW why \in Statuses \ {"thrown"}, NEW c, NEW frames, Fails(why, c, frames),
         Len(frames) \in Nat, Len(frames) # 0 => frames[1].by = "entry",
         status # "thrown"
  PROVE  Harmless
<1>1. PICK last \in 0..Len(frames) :
        /\ last # 0 => frames[last].by \in Unasked
        /\ IF last # 0 /\ frames[last].by = "try"
           THEN status' = status
           ELSE stack' = frames /\ status' = IF last # 0 THEN "thrown" ELSE why
  BY DEF Fails
<1>2. SUFFICES ASSUME status' = "thrown"
               PROVE  \E i \in 2..Len(frames) : frames[i].by = "unchecked" /\ stack' = frames
  BY DEF Harmless, ThrowsUnchecked
<1>3. last # 0 /\ frames[last].by = "unchecked" /\ stack' = frames
  BY <1>1, <1>2 DEF Unasked
<1>4. last # 1
  BY <1>3
<1>5. last \in 2..Len(frames)
  BY <1>3, <1>4
<1>6. QED
  BY <1>3, <1>5

(* A refusal throws only through a call that nobody tests.                     *)
LEMMA RefusesHarmless ==
  ASSUME IInv, status = "run", NEW c,
         Fails("error", c, stack) \/ Fails("toolong", c, stack)
  PROVE  Harmless
<1>1. Len(stack) \in Nat /\ stack[1].by = "entry"
  BY DEF IInv, StackOK
<1>2. {"error", "toolong"} \subseteq Statuses \ {"thrown"}
  BY DEF Statuses
<1>3. QED
  BY <1>1, <1>2, FailsHarmless

(* A call does not throw.                                                      *)
LEMMA CallsHarmless ==
  ASSUME IInv, status = "run", NEW f, f.by = Top.by, NEW c, NEW m, NEW fn, NEW node,
         Calls(f, c, m, fn, node)
  PROVE  Harmless
<1> DEFINE g == Frame(fn, c, m.op, node)
           s == [stack EXCEPT ![Len(stack)] = f]
           called == Append(s, g)
<1>1. Calls(f, c, m, fn, node)
  OBVIOUS
<1>2. CASE c < Len(toks)
  BY <1>1, <1>2 DEF Calls, Harmless
<1>3. CASE ~(c < Len(toks))
  <2>1. Fails("error", c, called)
    BY <1>1, <1>3 DEF Calls
  <2>2. /\ stack \in Seq(Frames) /\ Len(stack) \in Nat \ {0} /\ stack[1].by = "entry"
    BY TopFacts DEF IInv, StackOK
  <2>3. s \in Seq(Frames \cup {f, g}) /\ Len(s) = Len(stack) /\ s[1].by = "entry"
    <3>1. s = [i \in 1..Len(stack) |-> IF i = Len(stack) THEN f ELSE stack[i]]
      BY <2>2
    <3>2. 1 \in 1..Len(stack)
      BY <2>2
    <3>3. s[1] = IF 1 = Len(stack) THEN f ELSE stack[1]
      BY Zenon, <3>1, <3>2
    <3>4. s[1].by = "entry"
      BY <3>3, <2>2 DEF Top
    <3>5. \A i \in 1..Len(stack) : s[i] \in Frames \cup {f, g}
      <4> HIDE DEF s, g
      <4>1. \A i \in 1..Len(stack) : stack[i] \in Frames
        BY <2>2
      <4>2. QED
        BY <3>1, <4>1
    <3>6. s \in Seq(Frames \cup {f, g}) /\ Len(s) = Len(stack)
      <4> DEFINE T == Frames \cup {f, g}
      <4> HIDE DEF s, g
      <4>1. \A i \in 1..Len(stack) : s[i] \in T
        BY <3>5
      <4> HIDE DEF T
      <4>2. s \in Seq(T) /\ Len(s) = Len(stack)
        BY <3>1, <4>1, <2>2
      <4>3. QED
        BY <4>2 DEF T
    <3>7. QED
      BY <3>4, <3>6
  <2> HIDE DEF s, g
  <2>4. Len(called) \in Nat /\ called[1].by = "entry"
    <3>1. s \in Seq(Frames \cup {f, g}) /\ Len(s) \in Nat \ {0}
      BY <2>2, <2>3
    <3>2. Len(called) = Len(s) + 1 /\ called[1] = s[1]
      BY <3>1
    <3>3. QED
      BY <2>3, <3>1, <3>2
  <2> HIDE DEF called
  <2>5. "error" \in Statuses \ {"thrown"}
    BY DEF Statuses
  <2>6. QED
    BY <2>1, <2>4, <2>5, FailsHarmless
<1>4. QED
  BY <1>2, <1>3

(* Neither does any other step.                                                *)
LEMMA RestHarmless ==
  ASSUME status = "run",
         \/ status' = status
         \/ \E f, c : Goes(f, c)
         \/ \E c : Stops("crash", c) \/ Stops("wild", c)
         \/ \E node : Returns1(node)
  PROVE  Harmless
BY DEF Harmless, Goes, Stops, Returns1

(* Every step throws only through a call that nobody tests.                    *)
LEMMA StepHarmless ==
  ASSUME IInv, Next, status = "run"
  PROVE  Harmless
<1>1. Top \in Frames
  BY TopFacts
<1>2. CASE TakeToken \/ LookAtToken \/ SkipToken \/ SkipTokens \/ NoteToken
  <2>1. (\E f, c : Goes(f, c)) \/ (\E c : Fails("error", c, stack))
    BY <1>2 DEF TakeToken, LookAtToken, SkipToken, SkipTokens, NoteToken, StepsOver, Proceeds
  <2>2. QED
    BY <2>1, RefusesHarmless, RestHarmless
<1>3. CASE CallOther \/ CallOptional \/ CallInstead \/ CallWhile
  <2>1. (\E f, c : Goes(f, c)) \/ (\E m, fn, node : Calls(Top, cur, m, fn, node))
    BY <1>3 DEF CallOther, CallOptional, CallInstead, CallWhile, Proceeds
  <2>2. QED
    BY <2>1, CallsHarmless, RestHarmless
<1>4. CASE CallInList
  <2>1. (\E f, c : Goes(f, c)) \/ (\E m, fn, node : Calls(Top, cur + 1, m, fn, node))
    BY <1>4 DEF CallInList, Proceeds
  <2>2. QED
    BY <2>1, CallsHarmless, RestHarmless
<1>5. \A t : Marked(Top, t).by = Top.by
  BY <1>1 DEF Marked, Frames
<1>6. CASE CallInParams
  <2> DEFINE f == IF Defaulted THEN Marked(Top, "keyword") ELSE Top
  <2>1. \/ Refuses
        \/ \E g, c : Goes(g, c)
        \/ \E m, fn, node : Calls(f, cur + 1, m, fn, node)
    BY <1>6 DEF CallInParams
  <2>2. f.by = Top.by
    BY <1>5
  <2> HIDE DEF f
  <2>3. QED
    BY <2>1, <2>2, CallsHarmless, RefusesHarmless, RestHarmless DEF Refuses
<1>7. CASE CallInElses
  <2> DEFINE f == IF "plain" \in Top.node.tags THEN Marked(Top, "plain") ELSE Top
  <2>1. \/ Refuses
        \/ \E g, c : Goes(g, c)
        \/ \E m, fn, node : Calls(f, cur, m, fn, node)
    BY <1>7 DEF CallInElses
  <2>2. f.by = Top.by
    BY <1>5
  <2> HIDE DEF f
  <2>3. QED
    BY <2>1, <2>2, CallsHarmless, RefusesHarmless, RestHarmless DEF Refuses
<1>8. CASE SwitchOn \/ PickOne \/ RepeatOne
  <2>1. \/ Refuses
        \/ \E g, c : Goes(g, c)
        \/ \E m, fn, node : Calls(Top, cur, m, fn, node)
    BY <1>8 DEF SwitchOn, PickOne, RepeatOne, Proceeds
  <2>2. QED
    BY <2>1, CallsHarmless, RefusesHarmless, RestHarmless DEF Refuses
<1>9. CASE CountedOne
  <2> DEFINE f == [Top EXCEPT !.fuel = @ - 1]
  <2>1. \/ Fails("toolong", cur, stack)
        \/ \E g, c : Goes(g, c)
        \/ \E m, fn, node : Calls(f, cur, m, fn, node)
    BY <1>9 DEF CountedOne
  <2>2. f.by = Top.by
    BY <1>1 DEF Frames
  <2> HIDE DEF f
  <2>3. QED
    BY <2>1, <2>2, CallsHarmless, RefusesHarmless, RestHarmless
<1>10. CASE ReturnNode \/ YieldNode
  <2>1. \E node : Returns1(node)
    BY <1>10 DEF ReturnNode, YieldNode
  <2>2. QED
    BY <2>1, RestHarmless
<1>11. CASE CheckOne \/ ParseElements
  <2>1. Proceeds \/ Refuses
    BY <1>11 DEF CheckOne, ParseElements
  <2>2. QED
    BY <2>1, RefusesHarmless, RestHarmless DEF Refuses, Proceeds
<1>12. CASE FollowNode \/ CollectModifiers \/ ConstOrNot \/ ScanForFn \/ AskProcessor
  <2>1. (\E g, c : Goes(g, c)) \/ (\E c : Stops("crash", c) \/ Stops("wild", c))
    BY <1>12 DEF FollowNode, CollectModifiers, ConstOrNot, ScanForFn, AskProcessor, Proceeds
  <2>2. QED
    BY <2>1, RestHarmless
<1>13. CASE ScopeStep
  <2>1. \/ \E g, c : Goes(g, c)
        \/ Stops("crash", cur)
        \/ \E m, fn, node : Calls(Top, cur + 1, m, fn, node)
    BY <1>13 DEF ScopeStep, Proceeds
  <2>2. QED
    BY <2>1, CallsHarmless, RestHarmless
<1>14. CASE SplitAngles
  <2>1. (\E g, c : Goes(g, c)) \/ status' = status
    BY <1>14 DEF SplitAngles, Proceeds
  <2>2. QED
    BY <2>1, RestHarmless
<1>15. CASE CloseParen \/ LookBehind
  <2>1. (\E g, c : Goes(g, c)) \/ Stops("wild", cur) \/ Refuses
    BY <1>15 DEF CloseParen, LookBehind, Proceeds
  <2>2. QED
    BY <2>1, RefusesHarmless, RestHarmless DEF Refuses
<1>16. CASE Ended
  BY <1>16, RestHarmless DEF Ended, vars
<1>17. QED
  BY <1>2, <1>3, <1>4, <1>6, <1>7, <1>8, <1>9, <1>10, <1>11, <1>12, <1>13, <1>14, <1>15, <1>16
     DEF Next

(* Nothing moves when the parse has ended.                                    *)
LEMMA EndedStays ==
  ASSUME Next, status # "run"
  PROVE  UNCHANGED vars
<1>1. \A ops : AtHand(ops) = {}
  BY DEF AtHand
<1>2. QED
  BY <1>1 DEF Next, TakeToken, LookAtToken, SkipToken, SkipTokens, NoteToken, CallOther,
       CallOptional, CallInstead, CallWhile, CallInList, CallInParams, CallInElses, SwitchOn,
       PickOne, RepeatOne, CountedOne, ReturnNode, YieldNode, CheckOne, FollowNode,
       CollectModifiers, ConstOrNot, ScopeStep, ScanForFn, SplitAngles, CloseParen,
       ParseElements, AskProcessor, LookBehind, Ended

(* Whatever the grammar, nothing throws but a call whose result is taken      *)
(* without a test, and that call is still on the stack.                      *)
THEOREM OnlyUncheckedThrow == Spec => []ThrowsUnchecked
<1>1. Init => IInv /\ ThrowsUnchecked
  BY InitHolds DEF Init, ThrowsUnchecked
<1>2. IInv /\ ThrowsUnchecked /\ [Next]_vars => (IInv /\ ThrowsUnchecked)'
  <2>1. SUFFICES ASSUME IInv, ThrowsUnchecked, [Next]_vars
                 PROVE  IInv' /\ ThrowsUnchecked'
    OBVIOUS
  <2>2. CASE UNCHANGED vars
    BY <2>1, <2>2 DEF vars, IInv, ThrowsUnchecked
  <2>3. CASE Next /\ status # "run"
    <3>1. UNCHANGED vars
      BY <2>3, EndedStays
    <3>2. QED
      BY <2>1, <3>1 DEF vars, IInv, ThrowsUnchecked
  <2>4. CASE Next /\ status = "run"
    <3>1. IInv'
      BY <2>1, <2>4, StepKeeps
    <3>2. ThrowsUnchecked'
      BY <2>1, <2>4, StepHarmless DEF Harmless, ThrowsUnchecked
    <3>3. QED
      BY <3>1, <3>2
  <2>5. QED
    BY <2>1, <2>2, <2>3, <2>4
<1>3. QED
  BY <1>1, <1>2, PTL DEF Spec

-------------------------------------------------------------------------------
(* Recursion.                                                                 *)

\* a function that is past a move that takes the token it was entered at, as w
\* shows it, has taken it; one that is not is where it began, or went on from there
Starts == Begun \cup {i.entry : i \in Inputs}
Begins(f, c, w) ==
  LET v == View(w, f.start) IN
    /\ v \in Views
    /\ f.start <= c
    /\ Took(f.fn, f.pc, v, Firm[v]) => f.start < c
    /\ f.start < c \/ f.fn \in Starts

\* g was called by f, which waits at the move that did
Asked(f, g, c, w) ==
  LET m == Grammar[f.fn][f.pc]
      v == View(w, g.start)
  IN /\ m.op = g.by
     /\ m.op \notin {"tok", "scan"}
     /\ m.op = "scope" => f.start < g.start
     /\ m.op = "bounded" \/ (m.op \in Sure /\ m.fn \in Firm[v]) => g.fn \in Firm[v] \/ g.start < c

\* g is above f: it began behind f, or it is one of what f leads to on the spot
Below(f, g, c) ==
  /\ f.start <= g.start
  /\ f.start = g.start =>
       \/ g.fn \in EnteredUnder[f.fn]
       \/ g.start < c /\ g.fn \in FoundUnder[f.fn]

(* The strengthening of RecursionConsumes.                                     *)
Advances(s, c, w) ==
  /\ \A i \in 1..Len(s) : Begins(s[i], Until(s, c, i), w)
  /\ \A i \in 2..Len(s) : Asked(s[i - 1], s[i], Until(s, c, i), w)
  /\ \A i, j \in 1..Len(s) : i < j => Below(s[i], s[j], Until(s, c, j))

\* f, at c, may turn into g, at d, whatever waits for it
Turns(f, c, g, d, w) ==
  /\ g.start = f.start
  /\ Begins(g, d, w)
  /\ \A h \in Frames :
       /\ Below(h, f, c) => Below(h, g, d)
       /\ Asked(h, f, c, w) => Asked(h, g, d, w)

(* What is seen at a token of a list: never a token that is none.              *)
LEMMA ViewFacts ==
  ASSUME NEW w, ListOK(w), NEW c \in 1..Len(w)
  PROVE  /\ View(w, c) \in Views
         /\ View(w, c) = Turbofish => w[c] = "::" /\ c < Len(w) /\ w[c + 1] = "<"
         /\ View(w, c) # Turbofish => View(w, c) = w[c]
<1>1. w[c] \in Tokens \cup {EOF}
  BY DEF ListOK
<1>2. Turbofish \notin Tokens \cup {EOF}
  BY DEF Turbofish, Tokens, EOF, Literals, Names, Identifiers, UnaryOps, BinaryOps, Punctuation,
         Modifiers, Keywords
<1>3. QED
  BY <1>1, <1>2 DEF View, Views

(* What a function may go on as or call before it has taken a token.          *)
LEMMA LeftFacts ==
  ASSUME NEW r \in Rules, NEW p \in Places(r), NEW v \in Views, ~Took(r, p, v, Firm[v])
  PROVE  Leaves(Grammar[r][p]) \cup Asks(Grammar[r][p]) \subseteq Left[r]
BY DEF Left

(* What it goes on as, and what it calls, begins.                              *)
LEMMA MoveLeads ==
  ASSUME NEW r \in Rules, NEW p \in Places(r)
  PROVE  /\ Leaves(Grammar[r][p]) \subseteq GoesOnAs[r]
         /\ Asks(Grammar[r][p]) \cup AsksOn(Grammar[r][p]) \subseteq Begun
<1>1. Leaves(Grammar[r][p]) \subseteq GoesOnAs[r]
  BY DEF GoesOnAs
<1>2. Asks(Grammar[r][p]) \cup AsksOn(Grammar[r][p]) \subseteq Called[r]
  BY DEF Called
<1>3. Called[r] \subseteq Begun
  BY DEF Begun
<1>4. QED
  BY <1>1, <1>2, <1>3

(* A move further, a token has been taken if one had been or the move took it. *)
LEMMA TookOneMore ==
  ASSUME NEW r, NEW p \in Nat \ {0}, NEW v, NEW firm, Took(r, p + 1, v, firm)
  PROVE  Took(r, p, v, firm) \/ Takes(Grammar[r][p], v, firm)
<1>1. PICK q \in 1..p + 1 - 1 : Takes(Grammar[r][q], v, firm)
  BY DEF Took
<1>2. q = p \/ q \in 1..p - 1
  OBVIOUS
<1>3. QED
  BY <1>1, <1>2 DEF Took

(* No function has taken a token before its first move.                       *)
LEMMA TookNone ==
  ASSUME NEW r, NEW v, NEW firm
  PROVE  ~Took(r, 1, v, firm)
BY DEF Took

(* A function that stays the same keeps its place under and over the others.  *)
LEMMA StaysOn ==
  ASSUME NEW f \in Frames, NEW g, NEW c \in Nat, NEW d \in Nat, c <= d, f.pc # 0, NEW w,
         NEW v, v = View(w, f.start),
         Begins(f, c, w), g.fn = f.fn, g.start = f.start, g.by = f.by,
         \/ g.pc = f.pc
         \/ g.pc = f.pc + 1 /\ (Takes(Grammar[f.fn][f.pc], v, Firm[v]) => f.start < d)
  PROVE  Turns(f, c, g, d, w)
<1>1. f.start \in Nat /\ f.fn \in Rules /\ f.pc \in Nat \ {0}
  BY DEF Frames
<1>2. Took(g.fn, g.pc, v, Firm[v]) => f.start < d
  <2>1. CASE g.pc = f.pc
    BY <1>1, <2>1 DEF Begins
  <2>2. CASE g.pc = f.pc + 1
    <3>1. Took(g.fn, g.pc, v, Firm[v]) =>
            Took(f.fn, f.pc, v, Firm[v]) \/ Takes(Grammar[f.fn][f.pc], v, Firm[v])
      BY <1>1, <2>2, TookOneMore
    <3>2. g.pc # f.pc
      BY <1>1, <2>2
    <3>3. QED
      BY <1>1, <3>1, <3>2 DEF Begins
  <2>3. QED
    BY <2>1, <2>2
<1>3. Begins(g, d, w)
  BY <1>1, <1>2 DEF Begins
<1>4. ASSUME NEW h \in Frames
      PROVE  /\ Below(h, f, c) => Below(h, g, d)
             /\ Asked(h, f, c, w) => Asked(h, g, d, w)
  <2>1. Below(h, f, c) => Below(h, g, d)
    <3>1. f.start < c => f.start < d
      BY <1>1
    <3>2. QED
      BY <3>1 DEF Below
  <2>2. Asked(h, f, c, w) => Asked(h, g, d, w)
    <3>1. f.start < c => f.start < d
      BY <1>1
    <3>2. QED
      BY <3>1 DEF Asked
  <2>3. QED
    BY <2>1, <2>2
<1>5. QED
  BY <1>3, <1>4 DEF Turns

(* So does one that goes on as another.                                       *)
LEMMA GoesOn ==
  ASSUME NEW f \in Frames, NEW g, NEW c \in Nat, f.pc \in Places(f.fn), NEW w, Begins(f, c, w),
         g.fn \in LeavesAt(Grammar[f.fn][f.pc], View(w, c)), g.pc = 1, g.start = f.start, g.by = f.by
  PROVE  Turns(f, c, g, c, w)
<1> DEFINE m == Grammar[f.fn][f.pc]
           v == View(w, f.start)
<1>1. LeavesAt(m, View(w, c)) \subseteq Leaves(m)
  BY Zenon DEF LeavesAt, Leaves, Likely, LikelyOn, Targets
<1>2. f.start \in Nat /\ f.fn \in Rules /\ f.start <= c /\ v \in Views
  BY DEF Frames, Begins
<1>3. f.start < c \/ ~Took(f.fn, f.pc, v, Firm[v])
  BY DEF Begins
<1>4. ~Took(f.fn, f.pc, v, Firm[v]) => g.fn \in Left[f.fn]
  BY <1>1, <1>2, LeftFacts
<1>5. g.fn \in GoesOnAs[f.fn]
  BY <1>1, <1>2, MoveLeads
<1>6. Begins(g, c, w)
  <2>1. Left[f.fn] \subseteq Begun
    BY <1>2 DEF Begun
  <2>2. QED
    BY <1>2, <1>3, <1>4, <2>1, TookNone DEF Begins, Starts
<1>7. ASSUME NEW h \in Frames, Below(h, f, c)
      PROVE  Below(h, g, c)
  <2>1. h.fn \in Rules
    BY DEF Frames
  <2>2. /\ EnteredUnder[h.fn] \subseteq FoundUnder[h.fn]
        /\ \A k \in EnteredUnder[h.fn] : Left[k] \subseteq EnteredUnder[h.fn]
        /\ \A k \in FoundUnder[h.fn] : GoesOnAs[k] \subseteq FoundUnder[h.fn]
    BY <2>1, NoLeftRecursion
  <2>3. QED
    BY <1>3, <1>4, <1>5, <1>7, <2>2 DEF Below
<1>8. ASSUME NEW h \in Frames, Asked(h, f, c, w)
      PROVE  Asked(h, g, c, w)
  <2>1. ASSUME f.fn \in Firm[v]  PROVE g.fn \in Firm[v] \/ f.start < c
    <3>1. IsFirm(f.fn, v, Firm[v])
      BY <1>2, <2>1, NoLeftRecursion
    <3>2. Took(f.fn, f.pc, v, Firm[v]) \/ LeavesAt(m, v) \subseteq Firm[v]
      BY <3>1 DEF IsFirm, Places
    <3>3. f.start = c \/ f.start < c
      BY <1>2
    <3>4. QED
      BY <1>3, <3>2, <3>3
  <2>2. QED
    BY <1>8, <2>1 DEF Asked
<1>9. QED
  BY <1>6, <1>7, <1>8 DEF Turns

(* The stack is cut back to its k-th function, and that one turns into g.      *)
LEMMA CutBack ==
  ASSUME NEW s \in Seq(Frames), NEW c, NEW d, NEW w, Advances(s, c, w), NEW k \in 1..Len(s), NEW g, NEW t,
         Len(t) = k, \A i \in 1..k : t[i] = IF i = k THEN g ELSE s[i],
         Turns(s[k], Until(s, c, k), g, d, w)
  PROVE  Advances(t, d, w)
<1>1. Len(s) \in Nat /\ k \in Nat /\ k <= Len(s) /\ \A i \in 1..Len(s) : s[i] \in Frames
  OBVIOUS
<1>2. g.start = s[k].start /\ Begins(g, d, w)
  BY DEF Turns
<1>3. \A i \in 1..k : t[i].start = s[i].start
  BY <1>2
<1>4. ASSUME NEW i \in 1..k, i # k
      PROVE  i \in 1..Len(s) /\ t[i] = s[i] /\ Until(t, d, i) = Until(s, c, i)
  <2>1. i + 1 \in 1..k /\ i # Len(s) /\ i \in 1..Len(s)
    BY <1>1, <1>4
  <2>2. Until(t, d, i) = t[i + 1].start /\ Until(s, c, i) = s[i + 1].start
    BY <1>4, <2>1 DEF Until
  <2>3. QED
    BY <1>3, <1>4, <2>1, <2>2
<1>5. Until(t, d, k) = d /\ t[k] = g /\ k \in 1..Len(s)
  BY <1>1 DEF Until
<1>6. ASSUME NEW i \in 1..k PROVE Begins(t[i], Until(t, d, i), w)
  BY <1>2, <1>4, <1>5 DEF Advances
<1>7. ASSUME NEW i \in 2..k PROVE Asked(t[i - 1], t[i], Until(t, d, i), w)
  <2>1. i \in 1..k /\ i - 1 \in 1..k /\ i - 1 # k /\ i \in 2..Len(s) /\ i - 1 \in 1..Len(s)
    BY <1>1
  <2>2. Asked(s[i - 1], s[i], Until(s, c, i), w) /\ t[i - 1] = s[i - 1] /\ s[i - 1] \in Frames
    BY <1>1, <1>4, <2>1 DEF Advances
  <2>3. QED
    BY <1>4, <1>5, <2>1, <2>2 DEF Turns
<1>8. ASSUME NEW i \in 1..k, NEW j \in 1..k, i < j
      PROVE  Below(t[i], t[j], Until(t, d, j))
  <2>1. i # k /\ i \in 1..Len(s) /\ j \in 1..Len(s)
    BY <1>1, <1>8
  <2>2. Below(s[i], s[j], Until(s, c, j)) /\ t[i] = s[i] /\ s[i] \in Frames
    BY <1>1, <1>4, <1>8, <2>1 DEF Advances
  <2>3. QED
    BY <1>4, <1>5, <2>1, <2>2 DEF Turns
<1>9. QED
  BY <1>6, <1>7, <1>8 DEF Advances

(* A function is called on top of the stack, at the token at hand.             *)
LEMMA CallsOnTop ==
  ASSUME NEW s \in Seq(Frames), s # <<>>, NEW d \in Nat, NEW w, Advances(s, d, w), NEW g, NEW t,
         NEW f, f = s[Len(s)], f.pc \in Places(f.fn), NEW m, m = Grammar[f.fn][f.pc],
         Len(t) = Len(s) + 1, \A i \in 1..Len(s) + 1 : t[i] = IF i = Len(s) + 1 THEN g ELSE s[i],
         g.start = d, g.pc = 1, g.by = m.op, m.op \notin {"tok", "scan"},
         m.op \in Sure => g.fn = m.fn, View(w, d) \in Views,
         m.op = "bounded" => g.fn \in Firm[View(w, d)],
         g.fn \in Asks(m) \/ (g.fn \in AsksOn(m) /\ f.start < d)
  PROVE  Advances(t, d, w)
<1> DEFINE n == Len(s)
<1>1. n \in Nat \ {0} /\ \A i \in 1..n : s[i] \in Frames
  OBVIOUS
<1>2. f \in Frames /\ f.fn \in Rules /\ f.start \in Nat /\ n \in 1..n
  BY <1>1 DEF Frames
<1>3. /\ f.start <= d /\ View(w, f.start) \in Views
      /\ f.start < d \/ ~Took(f.fn, f.pc, View(w, f.start), Firm[View(w, f.start)])
  <2>1. Until(s, d, n) = d
    BY DEF Until
  <2>2. QED
    BY <1>1, <1>2, <2>1 DEF Advances, Begins
<1>4. ASSUME NEW i \in 1..n
      PROVE  i \in 1..n + 1 /\ t[i] = s[i] /\ Until(t, d, i) = Until(s, d, i)
  <2>1. i \in 1..n + 1 /\ i # n + 1 /\ i + 1 \in 1..n + 1 /\ (i + 1 = n + 1 <=> i = n)
    BY <1>1
  <2>2. Until(t, d, i) = t[i + 1].start
    BY <1>1, <2>1 DEF Until
  <2>3. CASE i = n
    BY <2>1, <2>2, <2>3 DEF Until
  <2>4. CASE i # n
    BY <2>1, <2>2, <2>4 DEF Until
  <2>5. QED
    BY <2>1, <2>3, <2>4
<1>5. n + 1 \in 1..n + 1 /\ t[n + 1] = g /\ Until(t, d, n + 1) = d
  BY <1>1 DEF Until
<1>6. g.fn \in Begun
  BY <1>2, MoveLeads
<1>7. f.start < d \/ g.fn \in Left[f.fn]
  BY <1>2, <1>3, LeftFacts
<1>8. Begins(g, d, w)
  BY <1>6, TookNone DEF Begins, Starts
<1>9. ASSUME NEW i \in 1..n + 1 PROVE Begins(t[i], Until(t, d, i), w)
  <2>1. CASE i = n + 1
    BY <1>5, <1>8, <2>1
  <2>2. CASE i # n + 1
    <3>1. i \in 1..n
      BY <1>1, <2>2
    <3>2. QED
      BY <1>4, <3>1 DEF Advances
  <2>3. QED
    BY <2>1, <2>2
<1>10. ASSUME NEW i \in 2..n + 1 PROVE Asked(t[i - 1], t[i], Until(t, d, i), w)
  <2>1. i - 1 \in 1..n /\ t[i - 1] = s[i - 1]
    BY <1>1, <1>4
  <2>2. CASE i = n + 1
    <3>1. t[i - 1] = f
      BY <1>1, <2>1, <2>2
    <3>2. m.op = "scope" => f.start < d
      BY DEF Asks, Sure
    <3>3. m.op \in Sure => m.op # "bounded"
      BY DEF Sure
    <3>4. Asked(f, g, d, w)
      BY <3>2, <3>3 DEF Asked
    <3>5. QED
      BY <1>5, <2>2, <3>1, <3>4
  <2>3. CASE i # n + 1
    <3>1. i \in 1..n /\ i \in 2..n
      BY <1>1, <2>3
    <3>2. QED
      BY <1>4, <2>1, <3>1 DEF Advances
  <2>4. QED
    BY <2>2, <2>3
<1>11. ASSUME NEW i \in 1..n
       PROVE  Below(s[i], g, d)
  <2>1. s[i] \in Frames /\ s[i].start \in Nat /\ s[i].fn \in Rules
    BY <1>1 DEF Frames
  <2>2. CASE i = n
    <3>1. s[i] = f
      BY <2>2
    <3>2. Left[f.fn] \subseteq EnteredUnder[f.fn]
      BY <1>2, NoLeftRecursion
    <3>3. QED
      BY <1>2, <1>3, <1>7, <3>1, <3>2 DEF Below
  <2>3. CASE i # n
    <3>1. i < n /\ Until(s, d, n) = d
      BY <1>1, <2>3 DEF Until
    <3>2. Below(s[i], f, d)
      BY <1>2, <3>1 DEF Advances
    <3>3. s[i].start <= d
      BY <1>2, <1>3, <2>1, <3>2 DEF Below
    <3>4. ASSUME s[i].start = d PROVE g.fn \in EnteredUnder[s[i].fn]
      <4>1. f.start = d /\ s[i].start = f.start
        BY <1>2, <1>3, <2>1, <3>2, <3>4 DEF Below
      <4>2. f.fn \in EnteredUnder[s[i].fn] /\ g.fn \in Left[f.fn]
        BY <1>2, <1>7, <3>2, <4>1 DEF Below
      <4>3. QED
        BY <2>1, <4>2, NoLeftRecursion
    <3>5. QED
      BY <3>3, <3>4 DEF Below
  <2>4. QED
    BY <2>2, <2>3
<1>12. ASSUME NEW i \in 1..n + 1, NEW j \in 1..n + 1, i < j
       PROVE  Below(t[i], t[j], Until(t, d, j))
  <2>1. i \in 1..n /\ t[i] = s[i]
    BY <1>1, <1>4, <1>12
  <2>2. CASE j = n + 1
    BY <1>5, <1>11, <2>1, <2>2
  <2>3. CASE j # n + 1
    <3>1. j \in 1..n
      BY <1>1, <2>3
    <3>2. QED
      BY <1>4, <1>12, <2>1, <3>1 DEF Advances
  <2>4. QED
    BY <2>2, <2>3
<1>13. QED
  BY <1>9, <1>10, <1>12 DEF Advances

(* Where a function gave way is at the cursor or before.                      *)
LEMMA AtMost ==
  ASSUME NEW s \in Seq(Frames), NEW c \in Nat, NEW w, Advances(s, c, w), NEW k \in 1..Len(s)
  PROVE  /\ Until(s, c, k) \in Nat /\ Until(s, c, k) <= c
         /\ s[k].start \in Nat /\ s[k].start <= Until(s, c, k)
<1> DEFINE n == Len(s)
<1>1. n \in Nat \ {0} /\ n \in 1..n /\ \A i \in 1..n : s[i] \in Frames
  OBVIOUS
<1>2. \A i \in 1..n : s[i].start \in Nat
  BY <1>1 DEF Frames
<1>3. s[n].start <= c
  <2>1. Begins(s[n], Until(s, c, n), w)
    BY <1>1 DEF Advances
  <2>2. QED
    BY <2>1 DEF Begins, Until
<1>4. s[k].start <= Until(s, c, k)
  BY DEF Advances, Begins
<1>5. CASE k = n
  BY <1>2, <1>4, <1>5 DEF Until
<1>6. CASE k # n
  <2>1. k + 1 \in 1..n /\ Until(s, c, k) = s[k + 1].start
    BY <1>1, <1>6 DEF Until
  <2>2. k + 1 < n => s[k + 1].start <= s[n].start
    BY <1>1, <2>1 DEF Advances, Below
  <2>3. s[k + 1].start <= c
    <3>1. k + 1 < n \/ k + 1 = n
      BY <1>1, <1>6
    <3>2. QED
      BY <1>1, <1>2, <1>3, <2>1, <2>2, <3>1
  <2>4. QED
    BY <1>2, <1>4, <2>1, <2>3
<1>7. QED
  BY <1>5, <1>6

-------------------------------------------------------------------------------
(* What the steps do to it.                                                   *)
Onward == Advances(stack, cur, toks)

\* the moves that may be what takes a token
Takers == {"tok", "scan"} \cup Sure

\* the move at hand is passed, if the cursor stands where its function began,
\* though nothing is taken
Passed == Move.op \notin Takers /\ (Move.op = "scope" => View(toks, cur) # "::")

(* f does what the function on top does, one move on or where it is.           *)
Stays(f, c) ==
  /\ f.fn = Top.fn /\ f.start = Top.start /\ f.by = Top.by
  /\ \/ f.pc = Top.pc
     \/ f.pc = Top.pc + 1 /\ (Passed \/ cur < c)

(* What the invariants say of the function on top.                            *)
LEMMA TopBegins ==
  ASSUME IInv, Onward
  PROVE  /\ stack \in Seq(Frames) /\ Len(stack) \in Nat \ {0} /\ Len(stack) \in 1..Len(stack)
         /\ Top \in Frames /\ Top.pc \in Places(Top.fn) /\ Top.pc \in Nat \ {0}
         /\ Top.fn \in Rules /\ Top.start \in Nat /\ Top.start <= cur /\ cur \in Nat
         /\ Begins(Top, cur, toks) /\ Until(stack, cur, Len(stack)) = cur
<1>1. /\ stack \in Seq(Frames) /\ Len(stack) \in Nat \ {0} /\ Len(stack) \in 1..Len(stack)
      /\ Top \in Frames /\ Placed1(Top, cur) /\ cur \in Nat
  BY TopFacts DEF IInv, StackOK
<1>2. Until(stack, cur, Len(stack)) = cur
  BY DEF Until
<1>3. Begins(Top, cur, toks)
  BY <1>1, <1>2 DEF Onward, Advances, Top
<1>4. /\ Top.pc \in Places(Top.fn) /\ Top.pc \in Nat \ {0}
      /\ Top.fn \in Rules /\ Top.start \in Nat /\ Top.start <= cur
  BY <1>1 DEF Placed1, Frames, Places
<1>5. QED
  BY <1>1, <1>2, <1>3, <1>4

(* The function on top stays what it is.                                      *)
LEMMA StaysTurns ==
  ASSUME IInv, Onward, NEW c \in Nat, cur <= c, NEW f, Stays(f, c)
  PROVE  Turns(Top, cur, f, c, toks)
<1>1. Move = Grammar[Top.fn][Top.pc]
  BY DEF Move
<1> DEFINE v == View(toks, Top.start)
<1>2. Top.start = cur /\ Takes(Move, v, Firm[v]) => ~Passed
  BY DEF Takes, Takers, Passed
<1>3. \/ f.pc = Top.pc
      \/ f.pc = Top.pc + 1 /\ (Takes(Grammar[Top.fn][Top.pc], v, Firm[v]) => Top.start < c)
  BY <1>1, <1>2, TopBegins DEF Stays
<1> HIDE DEF v
<1>4. QED
  BY <1>3, TopBegins, StaysOn DEF Stays, v

(* The top of the stack turns into another frame.                             *)
LEMMA TopTurns ==
  ASSUME IInv, Onward, NEW c, NEW f, NEW t,
         Len(t) = Len(stack),
         \A i \in 1..Len(stack) : t[i] = IF i = Len(stack) THEN f ELSE stack[i],
         Turns(Top, cur, f, c, toks)
  PROVE  Advances(t, c, toks)
<1> DEFINE n == Len(stack)
<1>1. n \in 1..n /\ stack \in Seq(Frames) /\ Advances(stack, cur, toks)
  BY TopBegins DEF Onward
<1>2. Turns(stack[n], Until(stack, cur, n), f, c, toks)
  BY TopBegins DEF Top
<1>3. QED
  BY <1>1, <1>2, CutBack

(* A frame whose function is a move further.                                  *)
LEMMA DoneFacts ==
  ASSUME NEW f \in Frames
  PROVE  /\ Done(f).fn = f.fn /\ Done(f).pc = f.pc + 1 /\ Done(f).by = f.by
         /\ Done(f).start = f.start /\ Done(f) \in Frames
<1>1. f.pc \in Nat /\ f.pc + 1 \in Nat
  BY DEF Frames
<1>2. Done(f) \in Frames
  BY <1>1 DEF Done, Frames
<1>3. QED
  BY DEF Done, Frames

(* An error is returned through the stack.                                    *)
LEMMA FailsOn ==
  ASSUME NEW frames \in Seq(Frames), frames # <<>>, frames[1].by = "entry", NEW c \in Nat,
         Advances(frames, c, toks), NEW why, Fails(why, c, frames),
         \A i \in 1..Len(frames) : frames[i].pc # 0
  PROVE  Onward'
<1>1. PICK last \in 0..Len(frames) :
        /\ cur' = c /\ toks' = toks
        /\ IF last # 0 /\ frames[last].by = "try"
           THEN stack' = Append(SubSeq(frames, 1, last - 2),
                                [Done(frames[last - 1]) EXCEPT !.node = NoNode])
           ELSE stack' = frames
  BY DEF Fails
<1>2. CASE last # 0 /\ frames[last].by = "try"
  <2>1. stack' = Append(SubSeq(frames, 1, last - 2), [Done(frames[last - 1]) EXCEPT !.node = NoNode])
    BY <1>1, <1>2
  <2> DEFINE k == last - 1
             f == frames[k]
             g == [Done(f) EXCEPT !.node = NoNode]
             front == SubSeq(frames, 1, last - 2)
             m == Grammar[f.fn][f.pc]
  <2>2. last # 1
    BY <1>2
  <2>3. /\ last \in 2..Len(frames) /\ k \in 1..Len(frames) /\ k # Len(frames)
        /\ last - 2 \in 0..Len(frames) /\ k + 1 = last /\ k \in Nat \ {0}
        /\ last \in 1..Len(frames)
    BY <1>2, <2>2
  <2>4. f \in Frames /\ f.pc # 0 /\ f.pc \in Nat
    <3>1. f \in Frames /\ f.pc # 0
      BY <2>3
    <3> HIDE DEF f
    <3>2. QED
      BY <3>1 DEF Frames
  <2>5. Asked(f, frames[last], Until(frames, c, last), toks)
    BY <2>3 DEF Advances
  <2>6. \A v : ~Takes(m, v, Firm[v])
    BY <1>2, <2>5 DEF Asked, Takes, Sure
  <2>7. /\ Until(frames, c, k) \in Nat /\ Until(frames, c, k) <= c
        /\ Begins(f, Until(frames, c, k), toks)
    BY <2>3, AtMost DEF Advances
  <2>8. g.fn = f.fn /\ g.pc = f.pc + 1 /\ g.by = f.by /\ g.start = f.start /\ g \in Frames
    <3>1. /\ Done(f).fn = f.fn /\ Done(f).pc = f.pc + 1 /\ Done(f).by = f.by
          /\ Done(f).start = f.start /\ Done(f) \in Frames
      BY <2>4, DoneFacts
    <3> DEFINE h == Done(f)
    <3> HIDE DEF h
    <3>2. h \in Frames /\ g = [h EXCEPT !.node = NoNode]
      BY <3>1 DEF h
    <3>3. g.fn = h.fn /\ g.pc = h.pc /\ g.by = h.by /\ g.start = h.start /\ g \in Frames
      <4> HIDE DEF g
      <4>1. QED
        BY <3>2, NoNodeIsNode DEF Frames
    <3>4. QED
      BY <3>1, <3>3 DEF h
  <2>9. front \in Seq(Frames) /\ Len(front) = last - 2
        /\ \A i \in 1..last - 2 : front[i] = frames[i]
    BY <2>3
  <2> HIDE DEF g, front
  <2>10. stack' = Append(front, g)
    BY <2>1 DEF front, g
  <2> HIDE DEF f
  <2>11. Turns(f, Until(frames, c, k), g, c, toks)
    BY <2>4, <2>6, <2>7, <2>8, StaysOn
  <2>12. /\ Len(stack') = k
         /\ \A i \in 1..k : stack'[i] = IF i = k THEN g ELSE frames[i]
    BY <2>3, <2>8, <2>9, <2>10
  <2>13. Turns(frames[k], Until(frames, c, k), g, c, toks)
    BY <2>11 DEF f
  <2> HIDE DEF k
  <2>14. Advances(stack', c, toks)
    BY <2>3, <2>12, <2>13, CutBack
  <2>15. QED
    BY <1>1, <2>14 DEF Onward
<1>3. CASE ~(last # 0 /\ frames[last].by = "try")
  BY <1>1, <1>3 DEF Onward
<1>4. QED
  BY <1>2, <1>3

(* The top is replaced and the cursor moved.                                  *)
LEMMA PutsOn ==
  ASSUME IInv, Onward, NEW c, NEW f, Turns(Top, cur, f, c, toks),
         stack' = [stack EXCEPT ![Len(stack)] = f], cur' = c, toks' = toks
  PROVE  Onward'
<1>1. /\ Len(stack') = Len(stack)
      /\ \A i \in 1..Len(stack) : stack'[i] = IF i = Len(stack) THEN f ELSE stack[i]
  BY TopBegins
<1>2. Advances(stack', c, toks)
  BY Zenon, <1>1, TopTurns
<1>3. QED
  BY <1>2 DEF Onward

(* The top function refuses.                                                  *)
LEMMA RefusesOn ==
  ASSUME IInv, Onward, NEW c \in Nat, cur <= c, NEW why, Fails(why, c, stack)
  PROVE  Onward'
<1>1. Stays(Top, c)
  BY DEF Stays
<1>2. Turns(Top, cur, Top, c, toks)
  BY <1>1, StaysTurns
<1>3. \A i \in 1..Len(stack) : stack[i] = IF i = Len(stack) THEN Top ELSE stack[i]
  BY DEF Top
<1>4. Advances(stack, c, toks)
  BY <1>2, <1>3, TopTurns
<1>5. stack # <<>> /\ stack[1].by = "entry" /\ \A i \in 1..Len(stack) : stack[i].pc # 0
  BY DEF IInv, StackOK, Placed1
<1>6. QED
  BY <1>4, <1>5, TopBegins, FailsOn

(* The top function calls another.                                            *)
LEMMA CallsOn ==
  ASSUME IInv, Onward, NEW c \in cur..Len(toks), NEW f \in Frames, Stays(f, c), f.pc = Top.pc,
         Move.op \notin {"tok", "scan"}, NEW r \in Rules, Move.op \in Sure => r = Move.fn,
         Move.op = "bounded" => r \in Firm[View(toks, c)],
         r \in Asks(Move) \/ (r \in AsksOn(Move) /\ cur < c),
         NEW n \in Nodes, Calls(f, c, Move, r, n)
  PROVE  Onward'
<1> DEFINE s == [stack EXCEPT ![Len(stack)] = f]
           g == Frame(r, c, Move.op, n)
           called == Append(s, g)
<1>1. /\ ListOK(toks) /\ cur \in Nat /\ c \in Nat /\ cur <= c /\ c \in 1..Len(toks)
  BY TopFacts DEF IInv
<1>2. Move.op \in Words
  BY MoveFacts DEF Moves, Words
<1>3. g \in Frames /\ g.start = c /\ g.pc = 1 /\ g.by = Move.op /\ g.fn = r
  BY <1>1, <1>2, FrameIsPlaced DEF Placed1, Frame
<1>4. Turns(Top, cur, f, c, toks)
  BY <1>1, StaysTurns
<1>5. /\ s \in Seq(Frames) /\ Len(s) = Len(stack) /\ Len(stack) \in Nat \ {0}
      /\ \A i \in 1..Len(stack) : s[i] = IF i = Len(stack) THEN f ELSE stack[i]
  BY TopBegins
<1> HIDE DEF s, g
<1>6. Advances(s, c, toks)
  BY <1>4, <1>5, TopTurns
<1>7. /\ called \in Seq(Frames) /\ Len(called) = Len(s) + 1
      /\ \A i \in 1..Len(s) + 1 : called[i] = IF i = Len(s) + 1 THEN g ELSE s[i]
  BY <1>3, <1>5
<1>8. s[Len(s)] = f /\ s # <<>>
  BY <1>5
<1>9. f.pc \in Places(f.fn) /\ Move = Grammar[f.fn][f.pc] /\ f.start <= cur /\ f.start \in Nat
  BY TopBegins DEF Stays, Move
<1>10. g.fn \in Asks(Move) \/ (g.fn \in AsksOn(Move) /\ f.start < c)
  BY <1>1, <1>3, <1>9
<1> HIDE DEF called
<1>11. View(toks, c) \in Views
  BY <1>1, ViewFacts
<1>12. Advances(called, c, toks)
  BY <1>11, <1>1, <1>3, <1>5, <1>6, <1>7, <1>8, <1>9, <1>10, CallsOnTop
<1>13. CASE c < Len(toks)
  BY <1>12, <1>13 DEF Calls, Onward, called, s, g
<1>14. CASE ~(c < Len(toks))
  <2>1. Fails("error", c, called)
    BY <1>14 DEF Calls, called, s, g
  <2>2. stack[1].by = "entry" /\ \A i \in 1..Len(stack) : stack[i].pc # 0
    BY DEF IInv, StackOK, Placed1
  <2>3. f.by = Top.by /\ f.pc # 0
    BY TopBegins DEF Stays
  <2>4. called[1].by = "entry" /\ called # <<>>
    <3>1. 1 \in 1..Len(s) + 1 /\ 1 # Len(s) + 1 /\ 1 \in 1..Len(stack)
      BY <1>5
    <3>2. called[1] = s[1] /\ ((s[1] = f /\ Len(stack) = 1) \/ s[1] = stack[1])
      BY <1>5, <1>7, <3>1
    <3>3. QED
      BY <1>5, <1>7, <2>2, <2>3, <3>2 DEF Top
  <2>5. ASSUME NEW i \in 1..Len(called) PROVE called[i].pc # 0
    <3>1. i = Len(s) + 1 \/ i \in 1..Len(stack)
      BY <1>5, <1>7
    <3>2. called[i] \in {f, g} \/ (i \in 1..Len(stack) /\ called[i] = stack[i])
      BY <1>5, <1>7, <3>1
    <3>3. QED
      BY <1>3, <2>2, <2>3, <3>2
  <2>6. QED
    BY <1>1, <1>7, <1>12, <2>1, <2>4, <2>5, FailsOn
<1>15. QED
  BY <1>13, <1>14

(* A function that is returned to is the same, a move on or where it was.      *)
LEMMA ResumedStays ==
  ASSUME NEW f \in Frames, NEW by, NEW n \in Nodes
  PROVE  LET g == Resumed(f, by, n)
         IN /\ g.fn = f.fn /\ g.start = f.start /\ g.by = f.by
            /\ g.pc = f.pc \/ g.pc = f.pc + 1
            /\ g \in Frames
<1>1. n.tags \in SUBSET Words
  BY DEF Nodes
<1>2. ASSUME NEW h \in {[f EXCEPT !.tags = @ \cup n.tags], [f EXCEPT !.node = n]}
      PROVE  h \in Frames /\ h.fn = f.fn /\ h.start = f.start /\ h.by = f.by /\ h.pc = f.pc
  <2>1. CASE h = [f EXCEPT !.tags = @ \cup n.tags]
    BY <1>1, <2>1 DEF Frames
  <2>2. CASE h = [f EXCEPT !.node = n]
    BY <2>2 DEF Frames
  <2>3. QED
    BY <1>2, <2>1, <2>2
<1>3. Resumed(f, by, n) \in {Done([f EXCEPT !.tags = @ \cup n.tags]), [f EXCEPT !.node = n],
                             Done([f EXCEPT !.node = n])}
  BY DEF Resumed
<1>4. QED
  BY <1>2, <1>3, DoneFacts

(* The top function returns.                                                  *)
LEMMA ReturnsOn ==
  ASSUME IInv, Onward, Move.op \in {"ret", "yield"}, NEW n \in Nodes, Returns1(n)
  PROVE  Onward'
<1>1. cur' = cur /\ toks' = toks
  BY DEF Returns1
<1>2. CASE Len(stack) = 1
  <2> DEFINE g == [Top EXCEPT !.node = n]
  <2>1. stack' = <<g>>
    BY <1>2 DEF Returns1
  <2>2. g.fn = Top.fn /\ g.start = Top.start /\ g.by = Top.by /\ g.pc = Top.pc
    BY TopBegins DEF Frames
  <2> HIDE DEF g
  <2>3. Turns(Top, cur, g, cur, toks)
    BY <2>2, TopBegins, StaysTurns DEF Stays
  <2>4. Advances(stack', cur, toks)
    <3>1. Len(stack') = Len(stack)
      BY <1>2, <2>1
    <3>2. \A i \in 1..Len(stack) : stack'[i] = IF i = Len(stack) THEN g ELSE stack[i]
      BY <1>2, <2>1
    <3>3. QED
      BY <2>3, <3>1, <3>2, TopTurns
  <2>5. QED
    BY <1>1, <2>4 DEF Onward
<1>3. CASE Len(stack) # 1
  <2>1. PICK d \in Nat : d = Len(stack) /\ d >= 2
    <3>1. PICK d \in Nat : d = Len(stack) /\ d # 0 /\ d # 1
      BY <1>3, TopBegins
    <3>2. QED
      BY <3>1
  <2> DEFINE k == d - 1
             f == stack[k]
             g == Resumed(f, Top.by, n)
             front == SubSeq(stack, 1, Len(stack) - 2)
             m == Grammar[f.fn][f.pc]
             v == View(toks, f.start)
  <2>2. /\ d \in Nat /\ d >= 2 /\ k \in 1..d /\ k # d /\ k + 1 = d /\ d \in 2..d /\ d \in 1..d
        /\ k < d /\ stack \in Seq(Frames)
    BY <2>1, TopBegins
  <2>3. f \in Frames
    <3>1. k \in 1..Len(stack)
      BY <2>1, <2>2
    <3>2. QED
      BY <2>2, <3>1
  <2>4. f.pc # 0
    BY <2>1, <2>2 DEF IInv, StackOK, Placed1
  <2>5. f.start \in Nat /\ Top.start \in Nat /\ cur \in Nat
    <3> HIDE DEF f
    <3>1. QED
      BY <2>3, TopBegins DEF Frames
  <2>6. Begins(f, Top.start, toks) /\ Asked(f, Top, cur, toks) /\ Begins(Top, cur, toks)
        /\ Until(stack, cur, k) = Top.start /\ Advances(stack, cur, toks)
    <3>1. Until(stack, cur, k) = Top.start
      BY <2>1, <2>2 DEF Until, Top
    <3>2. Until(stack, cur, d) = cur
      BY <2>1 DEF Until
    <3>3. Asked(stack[d - 1], stack[d], Until(stack, cur, d), toks)
      BY <2>1, <2>2 DEF Onward, Advances
    <3>4. Begins(stack[k], Until(stack, cur, k), toks) /\ Begins(stack[d], Until(stack, cur, d), toks)
      BY <2>1, <2>2 DEF Onward, Advances
    <3>5. QED
      BY <2>1, <3>1, <3>2, <3>3, <3>4 DEF Top, Onward
  <2>7. Takes(m, v, Firm[v]) => f.start < cur
    <3>1. SUFFICES ASSUME Takes(m, v, Firm[v]), f.start >= cur PROVE FALSE
      BY <2>5
    <3>2. f.start <= Top.start /\ Top.start <= cur /\ v \in Views
      BY <2>6 DEF Begins
    <3>3. f.start = Top.start /\ Top.start = cur /\ ~(Top.start < cur)
      BY <2>5, <3>1, <3>2
    <3>4. Top.fn \in Firm[v]
      BY <2>6, <3>1, <3>3 DEF Asked, Takes
    <3>5. IsFirm(Top.fn, v, Firm[v])
      BY <3>2, <3>4, NoLeftRecursion
    <3>6. Took(Top.fn, Top.pc, v, Firm[v])
      BY <3>5, TopBegins DEF IsFirm, Places, Move
    <3>7. QED
      BY <2>6, <3>3, <3>6 DEF Begins
  <2>8. /\ g.fn = f.fn /\ g.start = f.start /\ g.by = f.by /\ (g.pc = f.pc \/ g.pc = f.pc + 1)
        /\ g \in Frames
    BY <2>3, ResumedStays
  <2>9. Top.start <= cur
    BY TopBegins
  <2> HIDE DEF f, g
  <2>10. Turns(f, Top.start, g, cur, toks)
    BY <2>3, <2>4, <2>5, <2>6, <2>7, <2>8, <2>9, StaysOn
  <2>11. front \in Seq(Frames) /\ Len(front) = k - 1 /\ \A i \in 1..k - 1 : front[i] = stack[i]
    <3>1. front \in Seq(Frames) /\ Len(front) = Len(stack) - 1 - 1
          /\ \A i \in 1..Len(stack) - 1 - 1 : front[i] = stack[i]
      BY <2>1, <2>2, LastTwoOff
    <3> HIDE DEF front
    <3>2. QED
      BY <2>1, <3>1
  <2> HIDE DEF front
  <2>12. stack' = Append(front, g)
    BY <1>3, <2>1 DEF Returns1, front, g, f
  <2>13. Len(stack') = k /\ \A i \in 1..k : stack'[i] = IF i = k THEN g ELSE stack[i]
    BY <2>2, <2>8, <2>11, <2>12
  <2>14. Turns(stack[k], Until(stack, cur, k), g, cur, toks)
    BY <2>6, <2>10 DEF f
  <2>15. k \in 1..Len(stack)
    BY <2>1, <2>2
  <2> HIDE DEF k
  <2>16. Advances(stack', cur, toks)
    BY <2>2, <2>6, <2>13, <2>14, <2>15, CutBack
  <2>17. QED
    BY <1>1, <2>16 DEF Onward
<1>4. QED
  BY <1>2, <1>3

(* The same, for the ways the actions do it.                                  *)
LEMMA TopGoesOn ==
  ASSUME IInv, Onward, NEW c \in Nat, cur <= c
  PROVE  /\ Goes(Top, c) => Onward'
         /\ \A t \in Words : Goes(Marked(Top, t), c) => Onward'
         /\ Passed \/ cur < c =>
              /\ Goes(Done(Top), c) => Onward'
              /\ \A t \in Words : Goes(Done(Marked(Top, t)), c) => Onward'
              /\ \A t \in Words : Goes(Marked(Done(Top), t), c) => Onward'
<1>1. Top \in Frames
  BY TopBegins
<1>2. ASSUME NEW f, Stays(f, c), Goes(f, c)  PROVE Onward'
  BY <1>2, StaysTurns, PutsOn DEF Goes
<1>3. Stays(Top, c)
  BY DEF Stays
<1>4. ASSUME NEW t \in Words  PROVE Stays(Marked(Top, t), c)
  BY <1>1 DEF Stays, Marked, Frames
<1>5. ASSUME Passed \/ cur < c
      PROVE  /\ Stays(Done(Top), c)
             /\ \A t \in Words : Stays(Done(Marked(Top, t)), c)
             /\ \A t \in Words : Stays(Marked(Done(Top), t), c)
  <2>1. Done(Top) \in Frames /\ Stays(Done(Top), c)
    BY <1>1, <1>5, DoneFacts DEF Stays
  <2>2. ASSUME NEW t \in Words  PROVE Stays(Marked(Done(Top), t), c)
    <3> DEFINE g == Done(Top)
    <3>1. g \in Frames /\ Stays(g, c)
      BY <2>1
    <3> HIDE DEF g
    <3>2. Stays(Marked(g, t), c)
      BY <3>1 DEF Stays, Marked, Frames
    <3>3. QED
      BY <3>2 DEF g
  <2>3. ASSUME NEW t \in Words  PROVE Stays(Done(Marked(Top, t)), c)
    <3> DEFINE g == Marked(Top, t)
    <3>1. g \in Frames /\ Stays(g, c) /\ g.pc = Top.pc
      BY <1>1, <1>4 DEF Marked, Frames
    <3> HIDE DEF g
    <3>2. Stays(Done(g), c)
      BY <1>5, <3>1, DoneFacts DEF Stays
    <3>3. QED
      BY <3>2 DEF g
  <2>4. QED
    BY <2>1, <2>2, <2>3
<1>6. QED
  BY <1>2, <1>3, <1>4, <1>5

LEMMA TopLeaves ==
  ASSUME IInv, Onward, NEW r \in LeavesAt(Move, View(toks, cur)), NEW f, f.fn = r, f.pc = 1, f.start = Top.start,
         f.by = Top.by, Goes(f, cur)
  PROVE  Onward'
<1>1. Turns(Top, cur, f, cur, toks)
  BY TopBegins, GoesOn DEF Move
<1>2. QED
  BY <1>1, PutsOn DEF Goes

LEMMA TopAsks ==
  ASSUME IInv, Onward, Move.op \notin {"tok", "scan", "bounded"}, NEW c \in cur..Len(toks), NEW r \in Rules,
         Move.op \in Sure => r = Move.fn, r \in Asks(Move) \/ (r \in AsksOn(Move) /\ cur < c),
         NEW n \in Nodes
  PROVE  /\ Calls(Top, c, Move, r, n) => Onward'
         /\ \A t \in Words : Calls(Marked(Top, t), c, Move, r, n) => Onward'
<1>1. Top \in Frames
  BY TopBegins
<1>2. ASSUME Calls(Top, c, Move, r, n)  PROVE Onward'
  <2>1. Stays(Top, c)
    BY DEF Stays
  <2>2. QED
    BY <1>1, <1>2, <2>1, CallsOn
<1>3. ASSUME NEW t \in Words, Calls(Marked(Top, t), c, Move, r, n)  PROVE Onward'
  <2> DEFINE g == Marked(Top, t)
  <2>1. g \in Frames /\ Stays(g, c) /\ g.pc = Top.pc
    BY <1>1 DEF Stays, Marked, Frames
  <2>2. Calls(g, c, Move, r, n)
    BY <1>3
  <2> HIDE DEF g
  <2>3. QED
    BY <2>1, <2>2, CallsOn
<1>4. QED
  BY <1>2, <1>3

(* What a choice falls on is likely where what is seen is ahead.               *)
LEMMA ChosenLikelyOn ==
  ASSUME IInv, NEW b, Len(b) \in Nat, \A k \in 1..Len(b) : b[k] = Ahead(k - 1)
  PROVE  Chosen(Move) \subseteq LikelyOn(Move, b)
<1> DEFINE alts == Move.alts
<1>1. Len(alts) \in Nat /\ \A k \in 1..Len(alts) : Len(alts[k].ahead) \in Nat
  <2>1. alts \in Seq(Alternatives)
    BY MoveFacts DEF Moves
  <2> HIDE DEF alts
  <2>2. \A k \in 1..Len(alts) : alts[k] \in Alternatives
    BY <2>1
  <2>3. \A a \in Alternatives : Len(a.ahead) \in Nat
    BY DEF Alternatives
  <2>4. QED
    BY <2>1, <2>2, <2>3
<1> HIDE DEF alts
<1>2. ASSUME NEW k \in 1..Len(alts), Applies(alts[k])
      PROVE  Sees(alts[k], b)
  <2>1. SUFFICES ASSUME NEW j \in 1..Len(alts[k].ahead), j <= Len(b)
                 PROVE  b[j] \in alts[k].ahead[j]
    BY DEF Sees
  <2>2. j \in 1..Len(b)
    BY <1>1, <2>1
  <2>3. Ahead(j - 1) \in alts[k].ahead[j]
    BY <1>2 DEF Applies
  <2>4. QED
    BY <2>2, <2>3
<1>3. ASSUME NEW k \in 1..Len(alts), Must(alts[k], b)
      PROVE  Applies(alts[k])
  <2>1. alts[k].kinds = {} /\ Len(alts[k].ahead) <= Len(b) /\ Sees(alts[k], b)
    BY <1>3 DEF Must
  <2>2. SUFFICES ASSUME NEW j \in 1..Len(alts[k].ahead)
                 PROVE  Ahead(j - 1) \in alts[k].ahead[j]
    BY <2>1 DEF Applies
  <2>3. j \in 1..Len(b) /\ j <= Len(b)
    BY <1>1, <2>1
  <2>4. b[j] \in alts[k].ahead[j]
    BY <2>1, <2>3 DEF Sees
  <2>5. QED
    BY <2>3, <2>4
<1>4. ASSUME NEW r \in Chosen(Move)
      PROVE  r \in LikelyOn(Move, b)
  <2>1. PICK k \in 1..Len(alts) :
          r = alts[k].fn /\ Applies(alts[k]) /\ \A l \in 1..k - 1 : ~Applies(alts[l])
    BY DEF Chosen, alts
  <2>2. \A l \in 1..k - 1 : l \in 1..Len(alts)
    BY <1>1
  <2>3. Sees(alts[k], b) /\ \A l \in 1..k - 1 : ~Must(alts[l], b)
    BY <1>2, <1>3, <2>1, <2>2
  <2>4. QED
    BY <2>1, <2>3 DEF LikelyOn, alts
<1>5. QED
  BY <1>4

(* What a choice falls on is likely where the cursor stands.                  *)
LEMMA ChosenLikely ==
  ASSUME IInv
  PROVE  Chosen(Move) \subseteq Likely(Move, View(toks, cur))
<1> DEFINE v == View(toks, cur)
           b == Behind(v)
<1>1. cur \in 1..Len(toks) /\ Len(toks) \in Nat /\ v \in Views
  BY TopFacts, ViewFacts DEF IInv
<1>2. Len(b) \in Nat /\ \A k \in 1..Len(b) : b[k] = Ahead(k - 1)
  <2>1. CASE v = Turbofish
    <3>1. toks[cur] = "::" /\ cur < Len(toks) /\ toks[cur + 1] = "<"
      BY <1>1, <2>1, ViewFacts DEF IInv
    <3>2. b = <<"::", "<">>
      BY <2>1 DEF Behind
    <3>3. Len(b) = 2 /\ b[1] = "::" /\ b[2] = "<"
      BY <3>2
    <3>4. Ahead(0) = "::" /\ Ahead(1) = "<"
      BY <1>1, <3>1 DEF Ahead
    <3> HIDE DEF b
    <3>5. \A k \in 1..2 : k = 1 \/ k = 2
      OBVIOUS
    <3>6. QED
      BY <3>3, <3>4, <3>5
  <2>2. CASE v # Turbofish
    <3>1. b = <<toks[cur]>>
      BY <2>2 DEF Behind, View
    <3>2. Len(b) = 1 /\ b[1] = toks[cur]
      BY <3>1
    <3>3. Ahead(0) = toks[cur]
      BY <1>1 DEF Ahead
    <3> HIDE DEF b
    <3>4. \A k \in 1..1 : k = 1
      OBVIOUS
    <3>5. QED
      BY <3>2, <3>3, <3>4
  <2>3. QED
    BY <2>1, <2>2
<1>3. QED
  BY <1>2, ChosenLikelyOn DEF Likely, v

(* A round takes the token it begins at, whatever function it calls.          *)
LEMMA RoundFacts ==
  ASSUME IInv, Move.op = "bounded"
  PROVE  /\ Chosen(Move) \ {Spin} \subseteq Firm[View(toks, cur)]
         /\ Loop(Top.fn, Top.pc)
<1>1. Top.fn \in Rules /\ Top.pc \in Places(Top.fn) /\ View(toks, cur) \in Views
  BY TopFacts, ViewFacts DEF IInv, Placed1, Places, Frames
<1>2. Loop(Top.fn, Top.pc)
  BY <1>1, RoundsTake DEF Move
<1>3. Likely(Move, View(toks, cur)) \ {Spin} \subseteq Firm[View(toks, cur)]
  BY Zenon, <1>1, <1>2 DEF Loop, Move
<1>4. QED
  BY <1>2, <1>3, ChosenLikely

(* What a move names it asks for, or goes on as.                              *)
LEMMA MoveAsks ==
  ASSUME IInv
  PROVE
  /\ Move.op \in {"call", "also", "unchecked", "opt", "while", "elses", "else", "try"} =>
       Move.fn \in Asks(Move)
  /\ Move.op \in {"list", "params", "scope"} => Move.fn \in AsksOn(Move)
  /\ Move.op = "repeat" => Chosen(Move) \subseteq Asks(Move)
  /\ Move.op = "bounded" => Chosen(Move) \ {Spin} \subseteq Asks(Move)
  /\ Move.op \in {"switch", "pick"} => Chosen(Move) \subseteq LeavesAt(Move, View(toks, cur))
  /\ Move.op = "const" => Move.fn \in LeavesAt(Move, View(toks, cur))
<1>1. Chosen(Move) \subseteq Targets(Move)
  BY DEF Chosen, Targets
<1>2. QED
  BY <1>1, ChosenLikely DEF Asks, AsksOn, Leaves, LeavesAt, Sure

LEMMA EndsOn ==
  ASSUME IInv, Onward
  PROVE  /\ Refuses => Onward'
         /\ Fails("toolong", cur, stack) => Onward'
         /\ StepsOver => Onward'
         /\ \A why : Stops(why, cur) => Onward'
<1>1. cur \in Nat /\ cur + 1 \in Nat /\ cur <= cur /\ cur <= cur + 1
  BY TopBegins
<1>2. ASSUME NEW why, Fails(why, cur, stack)  PROVE Onward'
  BY <1>1, <1>2, RefusesOn
<1>3. ASSUME StepsOver  PROVE Onward'
  <2> DEFINE c == IF cur < Len(toks) THEN cur + 1 ELSE cur
  <2>1. c \in Nat /\ cur <= c
    BY <1>1
  <2>2. Fails("error", c, stack)
    BY <1>3 DEF StepsOver
  <2> HIDE DEF c
  <2>3. QED
    BY <2>1, <2>2, RefusesOn
<1>4. ASSUME NEW why, Stops(why, cur)  PROVE Onward'
  BY <1>4 DEF Stops, Onward
<1>5. QED
  BY <1>2, <1>3, <1>4 DEF Refuses

(* The functions of the stack were entered before a '>>' that is split, and   *)
(* see what they saw.                                                         *)
LEMMA SplitBehind ==
  ASSUME IInv, Onward, Move.op = "split", Here = ">>",
         toks' = SubSeq(toks, 1, cur - 1) \o <<">", ">">> \o SubSeq(toks, cur + 1, Len(toks))
  PROVE  /\ Len(toks') = Len(toks) + 1 /\ toks'[cur] = ">"
         /\ \A i \in 1..Len(stack) :
              stack[i].start < cur /\ View(toks', stack[i].start) = View(toks, stack[i].start)
<1>1. ListOK(toks) /\ cur \in 1..Len(toks) /\ Len(toks) \in Nat
  BY TopFacts DEF IInv
<1>2. /\ Len(toks') = Len(toks) + 1 /\ toks'[cur] = ">"
      /\ \A j \in 1..cur - 1 : toks'[j] = toks[j]
  BY <1>1, SplitList DEF Here
<1>3. Top.start < cur
  <2>1. Halving(Top.fn, Top.pc)
    BY TopBegins, RoundsTake DEF Move
  <2>2. QED
    BY <2>1, TopBegins DEF Halving, Begins
<1>4. ASSUME NEW i \in 1..Len(stack)
      PROVE  stack[i].start < cur /\ stack[i].start \in 1..Len(toks)
  <2>1. stack[i].start \in 1..cur
    BY DEF IInv, StackOK, Placed1
  <2>2. i < Len(stack) => stack[i].start <= Top.start
    <3>1. SUFFICES ASSUME i < Len(stack) PROVE stack[i].start <= Top.start
      OBVIOUS
    <3>2. Below(stack[i], stack[Len(stack)], Until(stack, cur, Len(stack)))
      BY <3>1, TopBegins DEF Onward, Advances
    <3>3. QED
      BY <3>2 DEF Below, Top
  <2>3. stack[i].start <= Top.start
    BY <2>1, <2>2, TopBegins DEF Top
  <2>4. Top.start \in Nat /\ cur \in Nat
    BY TopBegins
  <2> DEFINE d == stack[i].start
  <2>5. d \in 1..cur /\ d <= Top.start /\ Top.start < cur /\ cur <= Len(toks)
    BY <1>1, <1>3, <2>1, <2>3
  <2> HIDE DEF d
  <2>6. d < cur /\ d \in 1..Len(toks)
    BY <1>1, <2>4, <2>5
  <2>7. QED
    BY <2>6 DEF d
<1>5. ASSUME NEW c \in 1..cur - 1  PROVE View(toks', c) = View(toks, c)
  <2>1. c \in Nat /\ c < Len(toks) /\ c < Len(toks) + 1
    BY <1>1
  <2>2. toks'[c] = toks[c] /\ c < Len(toks') /\ c < Len(toks)
    BY <1>2, <2>1
  <2>3. CASE c + 1 = cur
    <3>1. toks'[c + 1] = ">" /\ toks[c + 1] = ">>"
      BY <1>2, <2>3 DEF Here
    <3>2. QED
      BY <2>2, <3>1 DEF View
  <2>4. CASE c + 1 < cur
    <3>1. c + 1 \in 1..cur - 1
      BY <1>1, <2>4
    <3>2. toks'[c + 1] = toks[c + 1]
      BY <1>2, <3>1
    <3>3. QED
      BY <2>2, <3>2 DEF View
  <2>5. QED
    BY <1>1, <2>3, <2>4
<1>6. \A i \in 1..Len(stack) : stack[i].start \in 1..cur - 1
  BY <1>1, <1>4
<1>7. QED
  BY <1>2, <1>4, <1>5, <1>6

(* Every step keeps the strengthening.                                        *)
LEMMA StepOnward ==
  ASSUME IInv, Onward, Next
  PROVE  Onward'
<1>1. /\ cur \in Nat /\ Len(toks) \in Nat /\ cur \in 1..Len(toks) /\ cur \in cur..Len(toks)
      /\ Here \in Tokens \cup {EOF} /\ (cur = Len(toks) => Here = EOF)
      /\ cur <= cur /\ cur + 1 \in Nat /\ cur < cur + 1 /\ cur <= cur + 1
  BY TopFacts DEF IInv
<1>2. Here # EOF => cur + 1 \in cur..Len(toks)
  BY <1>1
<1>3. Passed /\ Proceeds => Onward'
  BY <1>1, TopGoesOn DEF Proceeds
<1>4. CASE TakeToken
  <2>1. Goes(Done(Top), cur + 1) \/ StepsOver
    BY <1>4 DEF TakeToken
  <2>2. QED
    BY <1>1, <2>1, TopGoesOn, EndsOn
<1>5. CASE LookAtToken
  <2>1. Move.op = "look" /\ (Proceeds \/ StepsOver)
    BY <1>5 DEF LookAtToken, AtHand
  <2>2. Passed
    BY <2>1 DEF Passed, Takers, Sure
  <2>3. QED
    BY <1>3, <2>1, <2>2, EndsOn
<1>6. CASE SkipToken
  <2>1. Move.op = "skip" /\ (Goes(Done(Top), cur + 1) \/ Goes(Done(Top), cur))
    BY <1>6 DEF SkipToken, AtHand
  <2>2. Passed
    BY <2>1 DEF Passed, Takers, Sure
  <2>3. QED
    BY <1>1, <2>1, <2>2, TopGoesOn
<1>7. CASE SkipTokens
  <2>1. Move.op = "skips" /\ (Goes(Top, cur + 1) \/ Proceeds)
    BY <1>7 DEF SkipTokens, AtHand
  <2>2. Passed
    BY <2>1 DEF Passed, Takers, Sure
  <2>3. QED
    BY <1>1, <1>3, <2>1, <2>2, TopGoesOn
<1>8. CASE NoteToken
  <2>1. Move.op = "note" /\ (Goes(Marked(Done(Top), Move.fn), cur) \/ Goes(Done(Top), cur))
    BY <1>8 DEF NoteToken, AtHand
  <2>2. Passed /\ Move.fn \in Words
    BY <2>1, NodeFacts DEF Passed, Takers, Sure
  <2>3. QED
    BY <1>1, <2>1, <2>2, TopGoesOn
<1>9. CASE CallOther
  <2>1. Move.op \in {"call", "also", "try", "unchecked"} /\ Calls(Top, cur, Move, Move.fn, NoNode)
    BY <1>9 DEF CallOther, AtHand
  <2>2. Move.op \notin {"tok", "scan", "bounded"} /\ Move.fn \in Rules /\ Move.fn \in Asks(Move)
    BY <2>1, MoveFacts, MoveAsks
  <2>3. QED
    BY <1>1, <2>1, <2>2, TopAsks, NodeFacts
<1>10. CASE CallOptional
  <2>1. Move.op = "opt" /\ (Calls(Top, cur, Move, Move.fn, Top.node) \/ Proceeds)
    BY <1>10 DEF CallOptional, AtHand
  <2>2. Passed /\ Move.fn \in Rules /\ Move.fn \in Asks(Move)
    BY <2>1, MoveFacts, MoveAsks DEF Passed, Takers, Sure
  <2>3. QED
    BY <1>1, <1>3, <2>1, <2>2, TopAsks, NodeFacts DEF Passed, Takers
<1>11. CASE CallInstead
  <2>1. Move.op = "else" /\ (Calls(Top, cur, Move, Move.fn, NoNode) \/ Proceeds)
    BY <1>11 DEF CallInstead, AtHand
  <2>2. Passed /\ Move.fn \in Rules /\ Move.fn \in Asks(Move)
    BY <2>1, MoveFacts, MoveAsks DEF Passed, Takers, Sure
  <2>3. QED
    BY <1>1, <1>3, <2>1, <2>2, TopAsks, NodeFacts DEF Passed, Takers
<1>12. CASE CallWhile
  <2>1. Move.op = "while" /\ (Calls(Top, cur, Move, Move.fn, NoNode) \/ Proceeds)
    BY <1>12 DEF CallWhile, AtHand
  <2>2. Passed /\ Move.fn \in Rules /\ Move.fn \in Asks(Move)
    BY <2>1, MoveFacts, MoveAsks DEF Passed, Takers, Sure
  <2>3. QED
    BY <1>1, <1>3, <2>1, <2>2, TopAsks, NodeFacts DEF Passed, Takers
<1>13. CASE CallInList
  <2>1. /\ Move.op = "list"
        /\ \/ Proceeds \/ Goes(Done(Top), cur + 1)
           \/ Here \in Move.on /\ Calls(Top, cur + 1, Move, Move.fn, NoNode)
    BY <1>13 DEF CallInList, AtHand
  <2>2. Passed /\ Move.fn \in Rules /\ EOF \notin Move.on /\ Move.fn \in AsksOn(Move)
    BY <2>1, MoveFacts, MoveAsks DEF Passed, Takers, Sure
  <2>3. QED
    BY <1>1, <1>2, <1>3, <2>1, <2>2, TopGoesOn, TopAsks, NodeFacts DEF Passed, Takers
<1>14. CASE CallInParams
  <2> DEFINE f == IF Defaulted THEN Marked(Top, "keyword") ELSE Top
  <2>1. /\ Move.op = "params"
        /\ \/ Refuses
           \/ Here \in Move.on /\ Calls(f, cur + 1, Move, Move.fn, NoNode)
           \/ Goes(Done(f), cur)
    BY <1>14 DEF CallInParams, AtHand
  <2>2. /\ Passed /\ Move.fn \in Rules /\ EOF \notin Move.on
        /\ Move.fn \in AsksOn(Move) /\ "keyword" \in Words
    BY <2>1, MoveFacts, MoveAsks DEF Passed, Takers, Sure, Words
  <2>3. CASE Here \in Move.on /\ Calls(f, cur + 1, Move, Move.fn, NoNode)
    BY <1>1, <1>2, <2>1, <2>2, <2>3, TopAsks, NodeFacts DEF Passed, Takers
  <2>4. CASE Goes(Done(f), cur)
    BY <1>1, <2>2, <2>4, TopGoesOn
  <2>5. QED
    BY <2>1, <2>3, <2>4, EndsOn
<1>15. CASE CallInElses
  <2> DEFINE f == IF "plain" \in Top.node.tags THEN Marked(Top, "plain") ELSE Top
  <2>1. /\ Move.op = "elses"
        /\ Refuses \/ Calls(f, cur, Move, Move.fn, NoNode) \/ Goes(Done(f), cur)
    BY <1>15 DEF CallInElses, AtHand
  <2>2. Passed /\ Move.fn \in Rules /\ "plain" \in Words /\ Move.fn \in Asks(Move)
    BY <2>1, MoveFacts, MoveAsks DEF Passed, Takers, Sure, Words
  <2>3. CASE Calls(f, cur, Move, Move.fn, NoNode)
    BY <1>1, <2>1, <2>2, <2>3, TopAsks, NodeFacts DEF Passed, Takers
  <2>4. CASE Goes(Done(f), cur)
    BY <1>1, <2>2, <2>4, TopGoesOn
  <2>5. QED
    BY <2>1, <2>3, <2>4, EndsOn
<1>16. ASSUME NEW r \in LeavesAt(Move, View(toks, cur)), Goes(Become(Top, r), cur)  PROVE Onward'
  <2> DEFINE f == Become(Top, r)
  <2>1. f.fn = r /\ f.pc = 1 /\ f.start = Top.start /\ f.by = Top.by
    BY TopBegins DEF Become, Frames
  <2>2. Goes(f, cur)
    BY <1>16
  <2> HIDE DEF f
  <2>3. QED
    BY <2>1, <2>2, TopLeaves
<1>17. CASE SwitchOn
  <2>1. /\ Move.op = "switch"
        /\ Refuses \/ \E r \in Chosen(Move) : Goes(Become(Top, r), cur)
    BY <1>17 DEF SwitchOn, AtHand
  <2>2. QED
    BY <1>16, <2>1, MoveAsks, EndsOn
<1>18. CASE PickOne
  <2>1. /\ Move.op = "pick"
        /\ Proceeds \/ \E r \in Chosen(Move) : Goes(Become(Top, r), cur)
    BY <1>18 DEF PickOne, AtHand
  <2>2. Passed
    BY <2>1 DEF Passed, Takers, Sure
  <2>3. QED
    BY <1>3, <1>16, <2>1, <2>2, MoveAsks
<1>19. CASE RepeatOne
  <2>1. /\ Move.op = "repeat"
        /\ Proceeds \/ \E r \in Chosen(Move) : Calls(Top, cur, Move, r, Top.node)
    BY <1>19 DEF RepeatOne, AtHand
  <2>2. Passed /\ \A r \in Chosen(Move) : r \in Rules /\ r \in Asks(Move)
    BY <2>1, ChosenFacts, MoveAsks DEF Passed, Takers, Sure
  <2>3. QED
    BY <1>1, <1>3, <2>1, <2>2, TopAsks, NodeFacts DEF Passed, Takers
<1>20. CASE CountedOne
  <2> DEFINE f == [Top EXCEPT !.fuel = @ - 1]
  <2>1. /\ Move.op = "bounded"
        /\ \/ Fails("toolong", cur, stack)
           \/ Top.fuel # 0 /\ (Goes(Done(f), cur) \/ Goes(f, cur))
           \/ Top.fuel # 0 /\ \E r \in Chosen(Move) \ {Spin} : Calls(f, cur, Move, r, Top.node)
    BY <1>20 DEF CountedOne, AtHand
  <2>2. Passed /\ \A r \in Chosen(Move) \ {Spin} : r \in Rules /\ r \in Asks(Move)
    BY <2>1, ChosenFacts, MoveAsks DEF Passed, Takers, Sure
  <2>3. CASE Top.fuel # 0
    <3>1. f \in Frames /\ Stays(f, cur) /\ f.pc = Top.pc
      <4>1. Top \in Frames
        BY TopBegins
      <4>2. Top.fuel - 1 \in Nat
        BY <2>3, <4>1 DEF Frames
      <4> DEFINE less == Top.fuel - 1
      <4>3. less \in Nat /\ f = [Top EXCEPT !.fuel = less]
        BY <4>2
      <4> HIDE DEF less, f
      <4>4. f \in Frames
        BY <4>1, <4>3 DEF Frames
      <4>5. QED
        BY <4>1, <4>3, <4>4 DEF Frames, Stays
    <3> HIDE DEF f
    <3>2. Stays(Done(f), cur)
      BY <2>2, <3>1, DoneFacts DEF Stays
    <3>3. Goes(Done(f), cur) \/ Goes(f, cur) => Onward'
      BY <1>1, <3>1, <3>2, StaysTurns, PutsOn DEF Goes
    <3>4. ASSUME NEW r \in Chosen(Move) \ {Spin}, Calls(f, cur, Move, r, Top.node)
          PROVE  Onward'
      <4>1. r \in Firm[View(toks, cur)]
        BY <1>1, <2>1, <3>4, RoundFacts
      <4>2. QED
        BY <1>1, <2>2, <3>1, <3>4, <4>1, CallsOn, NodeFacts DEF Passed, Takers
    <3>5. QED
      BY <2>1, <3>3, <3>4, EndsOn
  <2>4. QED
    BY <2>1, <2>3, EndsOn
<1>21. CASE ReturnNode
  <2>1. Move.op = "ret" /\ Returns1(Node(Move.fn, Top.tags))
    BY <1>21 DEF ReturnNode, AtHand
  <2>2. QED
    BY <2>1, NodeFacts, ReturnsOn
<1>22. CASE YieldNode
  <2>1. Move.op = "yield" /\ Returns1(Top.node)
    BY <1>22 DEF YieldNode, AtHand
  <2>2. QED
    BY <2>1, NodeFacts, ReturnsOn
<1>23. CASE CheckOne \/ FollowNode \/ ParseElements \/ AskProcessor \/ LookBehind
  <2>1. /\ Move.op \in Checks \cup {"deref", "elements", "processor", "braces"}
        /\ Proceeds \/ Refuses \/ \E why : Stops(why, cur)
    BY <1>23 DEF CheckOne, FollowNode, ParseElements, AskProcessor, LookBehind, AtHand
  <2>2. Passed
    BY <2>1 DEF Passed, Checks, Takers, Sure
  <2>3. QED
    BY <1>3, <2>1, <2>2, EndsOn
<1>24. CASE CollectModifiers
  <2> DEFINE f == [Top EXCEPT !.mods = Append(@, Here)]
  <2>1. Move.op = "collect" /\ (Proceeds \/ Goes(f, cur + 1))
    BY <1>24 DEF CollectModifiers, AtHand
  <2>2. Passed
    BY <2>1 DEF Passed, Takers, Sure
  <2>3. CASE Goes(f, cur + 1)
    <3>1. Stays(f, cur + 1)
      <4> DEFINE more == Append(Top.mods, Here)
      <4> HIDE DEF more
      <4>1. f = [Top EXCEPT !.mods = more]
        BY DEF more
      <4>2. QED
        BY <4>1, TopBegins DEF Stays, Frames
    <3> HIDE DEF f
    <3>2. QED
      BY <1>1, <2>3, <3>1, StaysTurns, PutsOn DEF Goes
  <2>4. QED
    BY <1>3, <2>1, <2>2, <2>3
<1>25. CASE ConstOrNot
  <2>1. /\ Move.op = "const"
        /\ \/ Proceeds
           \/ \E n \in 1..Len(Top.mods) :
                Goes([Become(Top, Move.fn) EXCEPT
                        !.mods = SubSeq(@, 1, n - 1) \o SubSeq(@, n + 1, Len(@))], cur)
    BY <1>25 DEF ConstOrNot, AtHand
  <2>2. Passed /\ Move.fn \in LeavesAt(Move, View(toks, cur))
    BY <2>1, MoveAsks DEF Passed, Takers, Sure
  <2>3. ASSUME NEW mods, Goes([Become(Top, Move.fn) EXCEPT !.mods = mods], cur)
        PROVE  Onward'
    <3> DEFINE f == [Become(Top, Move.fn) EXCEPT !.mods = mods]
    <3>1. f.fn = Move.fn /\ f.pc = 1 /\ f.start = Top.start /\ f.by = Top.by
      BY TopBegins DEF Become, Frames
    <3>2. Goes(f, cur)
      BY <2>3
    <3> HIDE DEF f
    <3>3. QED
      BY <2>2, <3>1, <3>2, TopLeaves
  <2>4. QED
    BY <1>3, <2>1, <2>2, <2>3
<1>26. CASE ScopeStep
  <2>1. /\ Move.op = "scope"
        /\ \/ Proceeds /\ (Here # "::" \/ Ahead(1) = "<")
           \/ Stops("crash", cur) \/ Goes(Done(Top), cur + 1)
           \/ Goes(Marked(Top, "path"), cur + 2)
           \/ Here = "::" /\ Calls(Top, cur + 1, Move, Move.fn, NoNode)
    BY <1>26 DEF ScopeStep, AtHand
  <2>2. /\ Move.op \notin {"tok", "scan", "bounded"} /\ Move.op \notin Sure
        /\ Move.fn \in Rules /\ Move.fn \in AsksOn(Move) /\ "path" \in Words
    BY <2>1, MoveFacts, MoveAsks DEF Sure, Words
  <2>3. Here = "::" => cur + 1 \in cur..Len(toks)
    BY <1>2 DEF EOF
  <2>4. cur + 2 \in Nat /\ cur <= cur + 2
    BY <1>1
  <2>5. CASE Here = "::" /\ Calls(Top, cur + 1, Move, Move.fn, NoNode)
    BY <1>1, <2>2, <2>3, <2>5, TopAsks, NodeFacts
  <2>6. CASE Proceeds /\ (Here # "::" \/ Ahead(1) = "<")
    <3>1. View(toks, cur) # "::"
      <4>1. CASE Here # "::"
        BY <4>1 DEF View, Here, Turbofish
      <4>2. CASE Here = "::" /\ Ahead(1) = "<"
        BY <1>1, <4>2 DEF View, Here, Ahead, Turbofish, EOF
      <4>3. QED
        BY <2>6, <4>1, <4>2
    <3>2. Passed
      BY <2>2, <3>1 DEF Passed, Takers
    <3>3. QED
      BY <1>3, <2>6, <3>2
  <2>7. QED
    BY <1>1, <2>1, <2>2, <2>4, <2>5, <2>6, TopGoesOn, EndsOn
<1>27. CASE ScanForFn
  <2>1. Stops("wild", cur) \/ \E n \in cur + 1..Len(toks) : Goes(Done(Top), n)
    BY <1>27 DEF ScanForFn
  <2>2. \A n \in cur + 1..Len(toks) : n \in Nat /\ cur < n /\ cur <= n
    BY <1>1
  <2>3. QED
    BY <2>1, <2>2, TopGoesOn, EndsOn
<1>28. CASE SplitAngles
  <2>1. /\ Move.op = "split"
        /\ \/ Proceeds
           \/ /\ Here = ">>" /\ cur' = cur
              /\ toks' = SubSeq(toks, 1, cur - 1) \o <<">", ">">> \o SubSeq(toks, cur + 1, Len(toks))
              /\ stack' = [stack EXCEPT ![Len(stack)] = Done(Top)]
    BY <1>28 DEF SplitAngles, AtHand
  <2>2. Passed
    BY <2>1 DEF Passed, Takers, Sure
  <2>3. CASE ~Proceeds
    <3>1. Stays(Done(Top), cur)
      BY <2>2, TopBegins, DoneFacts DEF Stays
    <3>2. Turns(Top, cur, Done(Top), cur, toks)
      BY <1>1, <3>1, StaysTurns
    <3>3. \A i \in 1..Len(stack) : stack'[i] = IF i = Len(stack) THEN Done(Top) ELSE stack[i]
      BY <2>1, <2>3, TopBegins
    <3>4. Len(stack') = Len(stack)
      BY <2>1, <2>3, TopBegins
    <3>5. Advances(stack', cur, toks)
      BY <3>2, <3>3, <3>4, TopTurns
    <3>6. ASSUME NEW i \in 1..Len(stack')
          PROVE  View(toks', stack'[i].start) = View(toks, stack'[i].start)
      <4>1. i \in 1..Len(stack) /\ stack'[i] = IF i = Len(stack) THEN Done(Top) ELSE stack[i]
        BY <3>3, <3>4
      <4>2. Done(Top).start = Top.start
        BY DoneFacts, TopBegins
      <4>3. stack'[i].start = stack[i].start
        BY <4>1, <4>2 DEF Top
      <4>4. QED
        BY <2>1, <2>3, <4>1, <4>3, SplitBehind
    <3>7. Advances(stack', cur, toks')
      BY <3>4, <3>5, <3>6 DEF Advances, Begins, Asked
    <3>8. QED
      BY <2>1, <2>3, <3>7 DEF Onward
  <2>4. QED
    BY <1>3, <2>1, <2>2, <2>3
<1>29. CASE CloseParen
  <2>1. /\ Move.op = "close"
        /\ Proceeds \/ Refuses \/ Stops("wild", cur) \/ Goes(Done(Top), cur + 1)
    BY <1>29 DEF CloseParen, AtHand
  <2>2. Passed
    BY <2>1 DEF Passed, Takers, Sure
  <2>3. QED
    BY <1>1, <1>3, <2>1, <2>2, TopGoesOn, EndsOn
<1>30. CASE Ended
  BY <1>30 DEF Ended, vars, Onward
<1>31. QED
  BY <1>4, <1>5, <1>6, <1>7, <1>8, <1>9, <1>10, <1>11, <1>12, <1>13, <1>14, <1>15, <1>17,
     <1>18, <1>19, <1>20, <1>21, <1>22, <1>23, <1>24, <1>25, <1>26, <1>27, <1>28, <1>29, <1>30
     DEF Next

(* The first function begins a parse.                                         *)
LEMMA InitOnward == Init => Onward
<1>1. SUFFICES ASSUME Init PROVE Onward
  OBVIOUS
<1>2. PICK i \in Inputs : cur = 1 /\ stack = <<Frame(i.entry, 1, "entry", NoNode)>>
  BY <1>1 DEF Init
<1> DEFINE f == Frame(i.entry, 1, "entry", NoNode)
<1>3. f.fn = i.entry /\ f.pc = 1 /\ f.start = 1
  BY DEF Frame
<1> HIDE DEF f
<1>4. Len(stack) = 1 /\ stack[1] = f /\ Until(stack, cur, 1) = 1
  BY <1>2 DEF Until, f
<1>5. Begins(f, 1, toks)
  <2>1. toks # <<>> /\ View(toks, 1) \in Views
    <3>1. ListOK(toks) /\ cur \in 1..Len(toks)
      BY <1>1, InitHolds DEF IInv
    <3>2. QED
      BY <1>2, <3>1, ViewFacts
  <2>2. QED
    BY <1>3, <2>1, TookNone DEF Begins, Starts
<1>6. QED
  BY <1>4, <1>5 DEF Onward, Advances

(* Together with the types, the strengthening says what RecursionConsumes does. *)
LEMMA OnwardConsumes ==
  ASSUME IInv, Onward
  PROVE  RecursionConsumes
<1>1. /\ stack \in Seq(Frames) /\ Len(stack) \in Nat /\ cur \in Nat
      /\ \A k \in 1..Len(stack) : stack[k] \in Frames
  BY TopBegins
<1>2. SUFFICES ASSUME NEW i \in 1..Len(stack), NEW j \in 1..Len(stack), i < j,
                      stack[i].fn = stack[j].fn, ~(stack[i].start < stack[j].start)
               PROVE  FALSE
  BY DEF RecursionConsumes
<1> DEFINE f == stack[i]
           g == stack[j]
<1>3. f.start \in Nat /\ g.start \in Nat /\ f.fn \in Rules
  <2> f \in Frames /\ g \in Frames
    BY <1>1
  <2> HIDE DEF f, g
  <2> QED
    BY DEF Frames
<1>4. Below(f, g, Until(stack, cur, j))
  BY <1>2 DEF Onward, Advances
<1>5. f.start = g.start
  BY <1>2, <1>3, <1>4 DEF Below
<1>6. i + 1 \in 1..Len(stack) /\ Until(stack, cur, i) = stack[i + 1].start
  BY <1>1, <1>2 DEF Until
<1>7. stack[i + 1].start \in Nat /\ stack[i + 1].start <= g.start
  <2>1. i + 1 = j \/ i + 1 < j
    BY <1>1, <1>2
  <2>2. i + 1 < j => Below(stack[i + 1], g, Until(stack, cur, j))
    BY <1>6 DEF Onward, Advances
  <2>3. stack[i + 1].start \in Nat
    BY <1>1, <1>6 DEF Frames
  <2>4. QED
    BY <1>3, <2>1, <2>2, <2>3 DEF Below
<1>8. Begins(f, stack[i + 1].start, toks)
  BY <1>6 DEF Onward, Advances
<1>9. f.fn \in Starts
  BY <1>3, <1>5, <1>7, <1>8 DEF Begins
<1>10. f.fn \in FoundUnder[f.fn]
  BY <1>2, <1>3, <1>4, <1>5, NoLeftRecursion DEF Below
<1>11. QED
  BY <1>9, <1>10, NoLeftRecursion DEF Starts

(* With a grammar that has no left recursion, whatever the text: a parse      *)
(* function that is called again before it returned has taken a token since,  *)
(* so it is on the call stack at most once for each token of the text.        *)
THEOREM RecursionTakesTokens == Spec => []RecursionConsumes
<1>1. Init => IInv /\ Onward
  BY InitHolds, InitOnward
<1>2. IInv /\ Onward /\ [Next]_vars => (IInv /\ Onward)'
  <2>1. ASSUME IInv, Onward, UNCHANGED vars PROVE IInv' /\ Onward'
    BY <2>1 DEF vars, IInv, Onward
  <2>2. QED
    BY <2>1, StepKeeps, StepOnward
<1>3. QED
  BY <1>1, <1>2, OnwardConsumes, PTL DEF Spec

-------------------------------------------------------------------------------
(* The rounds of an expression.                                               *)

\* f is the function on top, as a move leaves it
Same(f) == f.start = Top.start /\ f.fuel = Top.fuel /\ f.by = Top.by

(* What a step that is neither a round nor the split of a '>>' comes to.      *)
Shapes ==
  \/ \E f : Same(f) /\ Goes(f, cur') /\ cur' >= cur
  \/ \E f \in Frames, r \in Rules, n \in Nodes :
       Same(f) /\ Calls(f, cur', Move, r, n) /\ cur' >= cur
  \/ Fails("error", cur', stack) /\ cur' >= cur
  \/ Move.op \in {"ret", "yield"} /\ \E n \in Nodes : Returns1(n)
  \/ toks' = toks /\ status' \notin {"run", "toolong"}

(* The ways the actions write them.                                           *)
LEMMA ShapeFacts ==
  ASSUME IInv
  PROVE  /\ \A c \in Nat : c >= cur =>
              /\ Goes(Top, c) \/ Goes(Done(Top), c) => Shapes
              /\ \A t \in Words : Goes(Marked(Top, t), c) => Shapes
              /\ \A t \in Words : Goes(Done(Marked(Top, t)), c) => Shapes
              /\ \A t \in Words : Goes(Marked(Done(Top), t), c) => Shapes
              /\ \A r \in Rules : Goes(Become(Top, r), c) => Shapes
              /\ \A r \in Rules, n \in Nodes : Calls(Top, c, Move, r, n) => Shapes
              /\ \A t \in Words, r \in Rules, n \in Nodes : Calls(Marked(Top, t), c, Move, r, n) => Shapes
         /\ Proceeds \/ Refuses \/ StepsOver => Shapes
         /\ \A why : Stops(why, cur) /\ why \notin {"run", "toolong"} => Shapes
<1>1. Top \in Frames /\ cur \in Nat /\ Len(toks) \in Nat
  BY TopFacts DEF IInv
<1>2. ASSUME NEW c \in Nat, c >= cur, NEW f, Same(f), Goes(f, c)  PROVE Shapes
  BY <1>2 DEF Shapes, Goes
<1>3. ASSUME NEW c \in Nat, c >= cur, NEW f \in Frames, Same(f), NEW r \in Rules, NEW n \in Nodes,
             Calls(f, c, Move, r, n)
      PROVE  Shapes
  <2>1. cur' = c
    BY <1>3 DEF Calls, Fails
  <2>2. QED
    BY <1>3, <2>1 DEF Shapes
<1>4. Same(Top) /\ Same(Done(Top)) /\ \A r : Same(Become(Top, r))
  BY <1>1 DEF Same, Done, Become, Frames
<1>5. \A t : Same(Marked(Top, t)) /\ Same(Done(Marked(Top, t))) /\ Same(Marked(Done(Top), t))
  BY <1>1 DEF Same, Done, Marked, Frames
<1>6. \A t \in Words : Marked(Top, t) \in Frames
  BY <1>1 DEF Marked, Frames
<1>7. ASSUME NEW c \in Nat, c >= cur, Fails("error", c, stack)  PROVE Shapes
  BY <1>7 DEF Shapes, Fails
<1>8. Refuses \/ StepsOver => Shapes
  <2>1. cur >= cur /\ cur + 1 \in Nat /\ cur + 1 >= cur
    BY <1>1
  <2>2. QED
    BY <1>1, <1>7, <2>1 DEF Refuses, StepsOver
<1>9. Proceeds => Shapes
  BY <1>1, <1>2, <1>4 DEF Proceeds
<1>10. \A why : Stops(why, cur) /\ why \notin {"run", "toolong"} => Shapes
  BY DEF Stops, Shapes
<1>11. QED
  BY <1>1, <1>2, <1>3, <1>4, <1>5, <1>6, <1>8, <1>9, <1>10

LEMMA StepShape ==
  ASSUME IInv, Next, status = "run", Move.op # "bounded", Move.op = "split" => Here # ">>"
  PROVE  Shapes
<1>1. /\ cur \in Nat /\ Len(toks) \in Nat /\ cur >= cur /\ cur + 1 \in Nat /\ cur + 1 >= cur
      /\ cur + 2 \in Nat /\ cur + 2 >= cur /\ Top \in Frames
  BY TopFacts DEF IInv
<1>2. CASE TakeToken \/ LookAtToken \/ SkipToken \/ SkipTokens
  <2>1. \/ Goes(Top, cur + 1) \/ Goes(Done(Top), cur) \/ Goes(Done(Top), cur + 1)
        \/ Proceeds \/ StepsOver
    BY <1>2 DEF TakeToken, LookAtToken, SkipToken, SkipTokens
  <2>2. QED
    BY <1>1, <2>1, ShapeFacts
<1>3. CASE NoteToken
  <2>1. Goes(Marked(Done(Top), Move.fn), cur) \/ Goes(Done(Top), cur)
    BY <1>3 DEF NoteToken, AtHand
  <2>2. QED
    BY <1>1, <2>1, NodeFacts, ShapeFacts
<1>4. CASE CallOther \/ CallOptional \/ CallInstead \/ CallWhile \/ CallInList
  <2>1. /\ Move.op \in {"call", "also", "try", "unchecked", "opt", "else", "while", "list"}
        /\ \/ Proceeds \/ Goes(Done(Top), cur + 1)
           \/ \E c \in {cur, cur + 1}, n \in {NoNode, Top.node} : Calls(Top, c, Move, Move.fn, n)
    BY <1>4 DEF CallOther, CallOptional, CallInstead, CallWhile, CallInList, AtHand
  <2>2. Move.fn \in Rules /\ NoNode \in Nodes /\ Top.node \in Nodes
    BY <2>1, MoveFacts, NodeFacts
  <2>3. QED
    BY <1>1, <2>1, <2>2, ShapeFacts
<1>5. CASE CallInParams \/ CallInElses
  <2>1. /\ Move.op \in {"params", "elses"}
        /\ \/ Refuses
           \/ \E c \in {cur, cur + 1} :
                \/ Calls(Top, c, Move, Move.fn, NoNode)
                \/ \E t \in {"keyword", "plain"} : Calls(Marked(Top, t), c, Move, Move.fn, NoNode)
           \/ Goes(Done(Top), cur) \/ \E t \in {"keyword", "plain"} : Goes(Done(Marked(Top, t)), cur)
    BY <1>5 DEF CallInParams, CallInElses, AtHand
  <2>2. Move.fn \in Rules /\ NoNode \in Nodes /\ {"keyword", "plain"} \subseteq Words
    BY <2>1, MoveFacts, NodeFacts DEF Words
  <2>3. QED
    BY <1>1, <2>1, <2>2, ShapeFacts
<1>6. CASE SwitchOn \/ PickOne \/ RepeatOne
  <2>1. /\ Move.op # "bounded"
        /\ \/ Refuses \/ Proceeds
           \/ \E r \in Chosen(Move) : Goes(Become(Top, r), cur) \/ Calls(Top, cur, Move, r, Top.node)
    BY <1>6 DEF SwitchOn, PickOne, RepeatOne, AtHand
  <2>2. \A r \in Chosen(Move) : r \in Rules
    BY <2>1, ChosenFacts
  <2>3. Top.node \in Nodes
    BY NodeFacts
  <2>4. QED
    BY <1>1, <2>1, <2>2, <2>3, ShapeFacts
<1>7. CASE CountedOne
  BY <1>7 DEF CountedOne, AtHand
<1>8. CASE ReturnNode
  <2>1. Move.op = "ret" /\ Returns1(Node(Move.fn, Top.tags))
    BY <1>8 DEF ReturnNode, AtHand
  <2>2. QED
    BY <2>1, NodeFacts DEF Shapes
<1>9. CASE YieldNode
  <2>1. Move.op = "yield" /\ Returns1(Top.node)
    BY <1>9 DEF YieldNode, AtHand
  <2>2. QED
    BY <2>1, NodeFacts DEF Shapes
<1>10. CASE CheckOne \/ FollowNode \/ ParseElements \/ AskProcessor \/ LookBehind
  <2>1. Proceeds \/ Refuses \/ Stops("crash", cur) \/ Stops("wild", cur)
    BY <1>10 DEF CheckOne, FollowNode, ParseElements, AskProcessor, LookBehind
  <2>2. QED
    BY <2>1, ShapeFacts
<1>11. CASE CollectModifiers
  <2> DEFINE f == [Top EXCEPT !.mods = Append(@, Here)]
  <2>1. Proceeds \/ Goes(f, cur + 1)
    BY <1>11 DEF CollectModifiers
  <2>2. Same(f)
    <3> DEFINE more == Append(Top.mods, Here)
    <3> HIDE DEF more
    <3>1. f = [Top EXCEPT !.mods = more]
      BY DEF more
    <3>2. QED
      BY <1>1, <3>1 DEF Same, Frames
  <2> HIDE DEF f
  <2>3. Goes(f, cur + 1) => Shapes
    BY <1>1, <2>2 DEF Shapes, Goes
  <2>4. QED
    BY <2>1, <2>3, ShapeFacts
<1>12. CASE ConstOrNot
  <2>1. \/ Proceeds
        \/ \E n \in 1..Len(Top.mods) :
             Goes([Become(Top, Move.fn) EXCEPT
                     !.mods = SubSeq(@, 1, n - 1) \o SubSeq(@, n + 1, Len(@))], cur)
    BY <1>12 DEF ConstOrNot, AtHand
  <2>2. ASSUME NEW mods, Goes([Become(Top, Move.fn) EXCEPT !.mods = mods], cur)
        PROVE  Shapes
    <3> DEFINE f == [Become(Top, Move.fn) EXCEPT !.mods = mods]
    <3>1. Same(f)
      BY <1>1 DEF Same, Become, Frames
    <3>2. Goes(f, cur)
      BY <2>2
    <3> HIDE DEF f
    <3>3. QED
      BY <1>1, <3>1, <3>2 DEF Shapes, Goes
  <2>3. QED
    BY <2>1, <2>2, ShapeFacts
<1>13. CASE ScopeStep
  <2>1. /\ Move.op = "scope"
        /\ \/ Proceeds \/ Stops("crash", cur) \/ Goes(Done(Top), cur + 1)
           \/ Goes(Marked(Top, "path"), cur + 2) \/ Calls(Top, cur + 1, Move, Move.fn, NoNode)
    BY <1>13 DEF ScopeStep, AtHand
  <2>2. Move.fn \in Rules /\ NoNode \in Nodes /\ "path" \in Words
    BY <2>1, MoveFacts, NodeFacts DEF Words
  <2>3. QED
    BY <1>1, <2>1, <2>2, ShapeFacts
<1>14. CASE ScanForFn
  <2>1. Stops("wild", cur) \/ \E n \in cur + 1..Len(toks) : Goes(Done(Top), n)
    BY <1>14 DEF ScanForFn
  <2>2. \A n \in cur + 1..Len(toks) : n \in Nat /\ n >= cur
    BY <1>1
  <2>3. QED
    BY <2>1, <2>2, ShapeFacts
<1>15. CASE SplitAngles
  <2>1. Proceeds
    BY <1>15 DEF SplitAngles, AtHand
  <2>2. QED
    BY <2>1, ShapeFacts
<1>16. CASE CloseParen
  <2>1. Proceeds \/ Refuses \/ Stops("wild", cur) \/ Goes(Done(Top), cur + 1)
    BY <1>16 DEF CloseParen
  <2>2. QED
    BY <1>1, <2>1, ShapeFacts
<1>17. ~Ended
  BY DEF Ended
<1>18. QED
  BY <1>2, <1>3, <1>4, <1>5, <1>6, <1>7, <1>8, <1>9, <1>10, <1>11, <1>12, <1>13, <1>14, <1>15,
     <1>16, <1>17 DEF Next

\* g is entered like f, and has as many rounds
Alike(f, g) == g.start = f.start /\ g.fuel = f.fuel /\ g.by = f.by

(* What is enough stays enough as the cursor moves on.                        *)
LEMMA EnoughOn ==
  ASSUME NEW f \in Frames, NEW g, Alike(f, g), NEW c \in Nat, NEW d \in Nat, NEW n \in Nat,
         f.start <= c, c <= d, d <= n, NEW r \in {0, 1}, NEW q \in {0, 1}, NEW h \in {0, 1},
         c = d => q = r, c < d => q = 0, Enough(f, c, n, r, 0)
  PROVE  Enough(g, d, n, q, h)
<1> DEFINE a == f.start
           k == f.fuel
<1>1. a \in Nat /\ k \in Nat
  BY DEF Frames
<1>2. g.start = a /\ g.fuel = k
  BY DEF Alike
<1>3. /\ a < n
      /\ a = c => k + r + 0 >= 2 * (n - c) /\ (r = 1 => c + 1 < n)
      /\ a < c => k + r + 0 >= n - c + 2
  BY DEF Enough
<1>4. a <= c
  OBVIOUS
<1> HIDE DEF a, k
<1>5. (a = d) => (k + q + h >= 2 * (n - d) /\ (q = 1 => d + 1 < n))
  <2>1. SUFFICES ASSUME a = d PROVE k + q + h >= 2 * (n - d) /\ (q = 1 => d + 1 < n)
    OBVIOUS
  <2>2. c = d /\ q = r
    BY <1>1, <1>4, <2>1
  <2>3. QED
    BY <1>1, <1>3, <2>1, <2>2
<1>6. a < d => k + q + h >= n - d + 2
  <2>1. SUFFICES ASSUME a < d PROVE k + q + h >= n - d + 2
    OBVIOUS
  <2>2. CASE c = d
    BY <1>1, <1>3, <2>1, <2>2
  <2>3. CASE c < d /\ a = c
    <3>1. CASE r = 1
      BY <1>1, <1>3, <2>3, <3>1
    <3>2. CASE r = 0
      BY <1>1, <1>3, <2>3, <3>2
    <3>3. QED
      BY <3>1, <3>2
  <2>4. CASE c < d /\ a < c
    BY <1>1, <1>3, <2>4
  <2>5. QED
    BY <1>1, <1>4, <2>2, <2>3, <2>4
<1>7. QED
  BY <1>2, <1>3, <1>5, <1>6 DEF Enough

\* every function has enough, whether a '>>' is half taken or not
Plenty(s, c, n) == \A i \in 1..Len(s) : \A h \in {0, 1} : Enough(s[i], c, n, Round(s, c, i), h)

\* t is the stack s, cut back to its k-th function, which is now g
Cut(s, k, g, t) ==
  /\ Len(t) = k /\ Alike(s[k], g)
  /\ \A i \in 1..k : t[i] = IF i = k THEN g ELSE s[i]

\* the k functions have enough, and the last of them is in no round
Fed(s, k, c, n) ==
  /\ Round(s, c, k) = 0
  /\ \A i \in 1..k : s[i].start <= c /\ Enough(s[i], c, n, Round(s, c, i), 0)

(* They keep it when the stack is cut back to them.                           *)
LEMMA CutPlenty ==
  ASSUME NEW s \in Seq(Frames), NEW k \in 1..Len(s), NEW g, NEW t, Cut(s, k, g, t),
         NEW c \in Nat, NEW d \in Nat, NEW n \in Nat, c <= d, d <= n, Fed(s, k, c, n)
  PROVE  Plenty(t, d, n)
<1>1. /\ Len(t) = k /\ Alike(s[k], g) /\ Round(s, c, k) = 0
      /\ \A i \in 1..k : t[i] = IF i = k THEN g ELSE s[i]
      /\ \A i \in 1..k : s[i].start <= c /\ Enough(s[i], c, n, Round(s, c, i), 0)
  BY DEF Cut, Fed
<1>2. Len(s) \in Nat /\ k \in Nat /\ k <= Len(s) /\ \A i \in 1..Len(s) : s[i] \in Frames
  OBVIOUS
<1>3. ASSUME NEW i \in 1..k
      PROVE  /\ Alike(s[i], t[i]) /\ s[i] \in Frames /\ s[i].start \in Nat
             /\ Round(s, c, i) \in {0, 1} /\ Round(t, d, i) \in {0, 1}
             /\ c = d => Round(t, d, i) = Round(s, c, i)
             /\ c < d => Round(t, d, i) = 0
  <2>1. Alike(s[i], t[i]) /\ s[i] \in Frames
    BY <1>1, <1>2 DEF Alike
  <2>2. Round(s, c, i) \in {0, 1} /\ Round(t, d, i) \in {0, 1}
    BY DEF Round
  <2>3. s[i].start \in Nat
    BY <2>1 DEF Frames
  <2>4. CASE i = k
    BY <1>1, <2>1, <2>2, <2>3, <2>4 DEF Round
  <2>5. CASE i # k
    <3>1. i + 1 \in 1..k /\ i < Len(s) /\ i < Len(t) /\ i + 1 \in 1..Len(s)
      BY <1>1, <1>2, <2>5
    <3>2. t[i + 1].by = s[i + 1].by /\ t[i + 1].start = s[i + 1].start
      BY <1>1, <3>1 DEF Alike
    <3>3. s[i + 1].start <= c /\ s[i + 1] \in Frames
      BY <1>1, <1>2, <3>1
    <3>4. s[i + 1].start \in Nat
      BY <3>3 DEF Frames
    <3>5. c < d => s[i + 1].start # d
      BY <3>3, <3>4
    <3>6. QED
      BY <2>1, <2>2, <2>3, <3>1, <3>2, <3>5 DEF Round
  <2>6. QED
    BY <2>4, <2>5
<1>4. ASSUME NEW i \in 1..k, NEW h \in {0, 1}  PROVE Enough(t[i], d, n, Round(t, d, i), h)
  <2> DEFINE f == s[i]
             g1 == t[i]
             r == Round(s, c, i)
             q == Round(t, d, i)
  <2>1. /\ f \in Frames /\ Alike(f, g1) /\ f.start <= c /\ r \in {0, 1} /\ q \in {0, 1}
        /\ c = d => q = r
        /\ c < d => q = 0
        /\ Enough(f, c, n, r, 0)
    BY <1>1, <1>3
  <2> HIDE DEF f, g1, r, q
  <2>2. Enough(g1, d, n, q, h)
    BY <2>1, EnoughOn
  <2>3. QED
    BY <2>2 DEF g1, q
<1>5. QED
  BY <1>1, <1>4 DEF Plenty

(* What the invariants say where no '>>' is half taken.                       *)
LEMMA BudgetFacts ==
  ASSUME IInv, Onward, Budget, status = "run"
  PROVE  /\ stack \in Seq(Frames) /\ Len(stack) \in 1..Len(stack) /\ Len(stack) \in Nat \ {0}
         /\ cur \in Nat /\ Len(toks) \in Nat /\ cur <= Len(toks) /\ Half \in {0, 1}
         /\ \A i \in 1..Len(stack) : stack[i].start \in Nat /\ stack[i].start <= cur
         /\ Round(stack, cur, Len(stack)) = 0
         /\ \A i \in 1..Len(stack) :
              i # Len(stack) \/ ~Exempt => Enough(stack[i], cur, Len(toks), Round(stack, cur, i), Half)
<1>1. /\ stack \in Seq(Frames) /\ Len(stack) \in 1..Len(stack) /\ Len(stack) \in Nat \ {0}
      /\ cur \in Nat /\ Len(toks) \in Nat /\ cur <= Len(toks) /\ Half \in {0, 1}
  BY TopBegins, TopFacts DEF IInv, Half
<1>2. ASSUME NEW i \in 1..Len(stack)  PROVE stack[i].start \in Nat /\ stack[i].start <= cur
  <2>1. stack[i].start \in 1..cur
    BY DEF IInv, StackOK, Placed1
  <2>2. QED
    BY <1>1, <2>1
<1>3. Round(stack, cur, Len(stack)) = 0
  BY <1>1 DEF Round
<1>4. QED
  BY <1>1, <1>2, <1>3 DEF Budget

\* all but the last have enough
Waiting(s, c, n) ==
  /\ \A i \in 1..Len(s) : s[i].start <= c
  /\ \A i \in 1..Len(s) - 1 : Enough(s[i], c, n, Round(s, c, i), 0)

(* An error leaves enough to the function that goes on without the answer.    *)
LEMMA FailsPlenty ==
  ASSUME NEW frames \in Seq(Frames), frames # <<>>, frames[1].by = "entry", NEW c \in Nat,
         NEW d \in Nat, NEW n \in Nat, c <= d, d <= n, NEW why \in {"error", "toolong"},
         Fails(why, d, frames), Waiting(frames, c, n)
  PROVE  /\ cur' = d /\ toks' = toks
         /\ status' = "run" /\ status = "run" => Plenty(stack', d, n)
         /\ status' = "toolong" /\ status = "run" => why = "toolong"
<1>1. PICK last \in 0..Len(frames) :
        /\ cur' = d /\ toks' = toks
        /\ IF last # 0 /\ frames[last].by = "try"
           THEN /\ stack' = Append(SubSeq(frames, 1, last - 2),
                                   [Done(frames[last - 1]) EXCEPT !.node = NoNode])
                /\ status' = status
           ELSE status' = IF last # 0 THEN "thrown" ELSE why
  BY DEF Fails
<1>2. CASE last # 0 /\ frames[last].by = "try"
  <2>1. stack' = Append(SubSeq(frames, 1, last - 2), [Done(frames[last - 1]) EXCEPT !.node = NoNode])
    BY <1>1, <1>2
  <2> DEFINE k == last - 1
             f == frames[k]
             g == [Done(f) EXCEPT !.node = NoNode]
             front == SubSeq(frames, 1, last - 2)
  <2>2. last # 1
    BY <1>2
  <2>3. /\ last \in 2..Len(frames) /\ k \in 1..Len(frames) /\ k # Len(frames)
        /\ last - 2 \in 0..Len(frames) /\ k + 1 = last /\ k \in Nat \ {0} /\ k <= Len(frames) - 1
        /\ last \in 1..Len(frames) /\ Len(frames) \in Nat
    BY <1>2, <2>2
  <2>4. f \in Frames
    BY <2>3
  <2>5. Alike(f, g)
    <3> DEFINE h == Done(f)
    <3>1. h \in Frames /\ h.start = f.start /\ h.by = f.by /\ h.fuel = f.fuel
      <4> HIDE DEF f
      <4>1. QED
        BY <2>4, DoneFacts DEF Done, Frames
    <3> HIDE DEF h
    <3>2. g = [h EXCEPT !.node = NoNode]
      BY DEF h
    <3> HIDE DEF f, g
    <3>3. QED
      BY <3>1, <3>2 DEF Alike, Frames
  <2>6. front \in Seq(Frames) /\ Len(front) = last - 2
        /\ \A i \in 1..last - 2 : front[i] = frames[i]
    <3>1. PICK l \in 0..Len(frames) : l = last - 2
      BY <2>3
    <3>2. /\ SubSeq(frames, 1, l) \in Seq(Frames) /\ Len(SubSeq(frames, 1, l)) = l
          /\ \A i \in 1..l : SubSeq(frames, 1, l)[i] = frames[i]
      OBVIOUS
    <3>3. front = SubSeq(frames, 1, l)
      BY <3>1
    <3> HIDE DEF front
    <3>4. QED
      BY <3>1, <3>2, <3>3
  <2> HIDE DEF g, front
  <2>7. stack' = Append(front, g)
    BY <2>1 DEF front, g
  <2>8. /\ Len(stack') = k
        /\ \A i \in 1..k : stack'[i] = IF i = k THEN g ELSE frames[i]
    <3>1. PICK l \in Nat : l = last - 2 /\ k = l + 1
      BY <2>3
    <3> HIDE DEF k
    <3>2. Len(stack') = l + 1 /\ \A i \in 1..l + 1 : stack'[i] = IF i = l + 1 THEN g ELSE frames[i]
      BY <2>6, <2>7, <3>1
    <3>3. QED
      BY <3>1, <3>2
  <2>9. Round(frames, c, k) = 0
    BY <1>2, <2>3 DEF Round
  <2>10. \A i \in 1..k : i \in 1..Len(frames) /\ i \in 1..Len(frames) - 1
    BY <2>3
  <2>11. Alike(frames[k], g) /\ k \in 1..Len(frames)
    BY <2>3, <2>5
  <2> HIDE DEF k, f
  <2>12. Cut(frames, k, g, stack') /\ Fed(frames, k, c, n)
    BY <2>8, <2>9, <2>10, <2>11 DEF Cut, Fed, Waiting
  <2>13. Plenty(stack', d, n)
    BY <2>11, <2>12, CutPlenty
  <2>14. QED
    BY <1>1, <1>2, <2>13
<1>3. CASE ~(last # 0 /\ frames[last].by = "try")
  BY <1>1, <1>3
<1>4. QED
  BY <1>2, <1>3

(* The function on top gives way to one like it.                              *)
LEMMA GoesPlenty ==
  ASSUME IInv, Onward, Budget, status = "run", Half = 0, ~Exempt, NEW f, Same(f),
         NEW d \in Nat, cur <= d, d <= Len(toks), NEW t, Len(t) = Len(stack),
         \A i \in 1..Len(stack) : t[i] = IF i = Len(stack) THEN f ELSE stack[i]
  PROVE  Plenty(t, d, Len(toks))
<1>1. Cut(stack, Len(stack), f, t)
  BY DEF Cut, Alike, Same, Top
<1>2. Fed(stack, Len(stack), cur, Len(toks))
  BY BudgetFacts DEF Fed
<1>3. QED
  BY <1>1, <1>2, BudgetFacts, CutPlenty

(* The function on top returns.                                               *)
LEMMA ReturnsPlenty ==
  ASSUME IInv, Onward, Budget, status = "run", Half = 0, Move.op \in {"ret", "yield"},
         NEW n \in Nodes, Returns1(n)
  PROVE  /\ toks' = toks /\ cur' = cur /\ status' \in {"run", "done"}
         /\ status' = "run" => Plenty(stack', cur, Len(toks))
<1>1. toks' = toks /\ cur' = cur
  BY DEF Returns1
<1>2. CASE Len(stack) = 1
  BY <1>1, <1>2 DEF Returns1
<1>3. CASE Len(stack) # 1
  <2>1. PICK d \in Nat : d = Len(stack) /\ d >= 2
    <3>1. PICK d \in Nat : d = Len(stack) /\ d # 0 /\ d # 1
      BY <1>3, TopBegins
    <3>2. QED
      BY <3>1
  <2> DEFINE k == d - 1
             f == stack[k]
             g == Resumed(f, Top.by, n)
             front == SubSeq(stack, 1, Len(stack) - 2)
  <2>2. /\ d \in Nat /\ d >= 2 /\ k \in 1..d /\ k # d /\ k + 1 = d /\ d \in 2..d /\ d \in 1..d
        /\ k < d /\ stack \in Seq(Frames)
    BY <2>1, TopBegins
  <2>3. f \in Frames
    <3>1. k \in 1..Len(stack)
      BY <2>1, <2>2
    <3>2. QED
      BY <2>2, <3>1
  <2>4. Alike(f, g)
    <3>1. n.tags \in SUBSET Words
      BY DEF Nodes
    <3> HIDE DEF f
    <3>2. ASSUME NEW x \in {[f EXCEPT !.tags = @ \cup n.tags], [f EXCEPT !.node = n]}
          PROVE  Alike(f, x) /\ Alike(f, Done(x))
      <4>1. CASE x = [f EXCEPT !.tags = @ \cup n.tags]
        BY <2>3, <4>1 DEF Alike, Done, Frames
      <4>2. CASE x = [f EXCEPT !.node = n]
        BY <2>3, <4>2 DEF Alike, Done, Frames
      <4>3. QED
        BY <3>2, <4>1, <4>2
    <3>3. QED
      BY <3>2 DEF Resumed
  <2>5. Round(stack, cur, k) = 0
    <3>1. Asked(stack[d - 1], stack[d], Until(stack, cur, d), toks) /\ Until(stack, cur, d) = cur
      BY <2>1, <2>2 DEF Onward, Advances, Until
    <3>2. Asked(f, Top, cur, toks)
      BY <2>1, <3>1 DEF Top
    <3>3. SUFFICES ASSUME Top.by = "bounded", Top.start = cur  PROVE FALSE
      BY <2>1, <2>2 DEF Round, Top
    <3> DEFINE v == View(toks, Top.start)
    <3>4. ~(Top.start < cur) /\ v \in Views /\ (Took(Top.fn, Top.pc, v, Firm[v]) => Top.start < cur)
      BY <3>3, TopBegins DEF Begins
    <3>5. Top.fn \in Firm[v]
      BY <3>2, <3>3, <3>4 DEF Asked
    <3>6. IsFirm(Top.fn, v, Firm[v])
      BY <3>4, <3>5, NoLeftRecursion
    <3>7. Took(Top.fn, Top.pc, v, Firm[v])
      BY <3>6, TopBegins DEF IsFirm, Places, Move
    <3>8. QED
      BY <3>4, <3>7
  <2>6. front \in Seq(Frames) /\ Len(front) = k - 1 /\ \A i \in 1..k - 1 : front[i] = stack[i]
    <3>1. front \in Seq(Frames) /\ Len(front) = Len(stack) - 1 - 1
          /\ \A i \in 1..Len(stack) - 1 - 1 : front[i] = stack[i]
      BY <2>1, <2>2, LastTwoOff
    <3> HIDE DEF front
    <3>2. QED
      BY <2>1, <3>1
  <2> HIDE DEF front
  <2>7. stack' = Append(front, g) /\ status' = status
    BY <1>3, <2>1 DEF Returns1, front, g, f
  <2> HIDE DEF g
  <2>8. Len(stack') = k /\ \A i \in 1..k : stack'[i] = IF i = k THEN g ELSE stack[i]
    BY <2>2, <2>6, <2>7
  <2>9. k \in 1..Len(stack) /\ Alike(stack[k], g) /\ \A i \in 1..k : i \in 1..Len(stack) /\ i # Len(stack)
    BY <2>1, <2>2, <2>4
  <2> HIDE DEF k, f
  <2>10. \A i \in 1..k : Enough(stack[i], cur, Len(toks), Round(stack, cur, i), 0)
    BY <2>9, BudgetFacts
  <2>11. Cut(stack, k, g, stack') /\ Fed(stack, k, cur, Len(toks))
    BY <2>5, <2>8, <2>9, <2>10, BudgetFacts DEF Cut, Fed
  <2>12. Plenty(stack', cur, Len(toks))
    BY <2>9, <2>11, BudgetFacts, CutPlenty
  <2>13. QED
    BY <1>1, <2>7, <2>12
<1>4. QED
  BY <1>2, <1>3

(* The action that is left where the move at hand is the token's, a choice, a *)
(* round, a split, an f-string's or a return.                                 *)
LEMMA ActionAtHand ==
  ASSUME Next, status = "run"
  PROVE  /\ Move.op = "tok" => TakeToken
         /\ Move.op = "bounded" => CountedOne
         /\ Move.op = "split" => SplitAngles
         /\ Move.op = "pick" => PickOne
         /\ Move.op = "elements" => ParseElements
         /\ Move.op \in {"ret", "yield"} => ReturnNode \/ YieldNode
BY DEF Next, AtHand, Checks, TakeToken, LookAtToken, SkipToken, SkipTokens, NoteToken,
       CallOther, CallOptional, CallInstead, CallWhile, CallInList, CallInParams,
       CallInElses, SwitchOn, PickOne, RepeatOne, CountedOne, ReturnNode, YieldNode,
       CheckOne, FollowNode, CollectModifiers, ConstOrNot, ScopeStep, ScanForFn,
       SplitAngles, CloseParen, ParseElements, AskProcessor, LookBehind, Ended

\* every function has enough at c, and the last in the round it begins there
Ready(s, c, k, round) ==
  \A i \in 1..Len(s) :
    s[i].start <= c /\ Enough(s[i], c, k, IF i = Len(s) THEN round ELSE Round(s, c, i), 0)

\* what Calls does once it has pushed the frame
CallsOut(c, called) ==
  IF c < Len(toks) THEN stack' = called /\ cur' = c /\ UNCHANGED <<toks, status>>
  ELSE Fails("error", c, called)

(* A function that is called has two rounds for each token that is left.      *)
LEMMA CalledPlenty ==
  ASSUME IInv, NEW s \in Seq(Frames), s # <<>>, s[1].by = "entry", NEW c \in Nat, c >= 1,
         c <= Len(toks), NEW op \in Words, NEW r \in Rules, NEW node \in Nodes, NEW round \in {0, 1},
         round = IF op = "bounded" THEN 1 ELSE 0, Ready(s, c, Len(toks), round),
         NEW called, called = Append(s, Frame(r, c, op, node)), CallsOut(c, called), status = "run"
  PROVE  /\ cur' = c /\ toks' = toks /\ status' # "toolong"
         /\ status' = "run" => Plenty(stack', c, Len(toks))
<1> DEFINE g == Frame(r, c, op, node)
<1>1. PICK k \in Nat : k = Len(toks)
  BY TopFacts DEF IInv
<1>2. ListOK(toks) /\ k \in Nat /\ c \in 1..k /\ c \in 1..Len(toks)
  BY <1>1, TopFacts DEF IInv
<1>3. g \in Frames /\ g.start = c /\ g.by = op /\ g.fuel = 2 * (k - c)
  <2>1. g \in Frames
    BY <1>2, FrameIsPlaced DEF Placed1
  <2>2. g.start = c /\ g.by = op /\ g.fuel = 2 * (k - c)
    BY <1>1 DEF Frame, Rounds
  <2>3. QED
    BY <2>1, <2>2
<1> HIDE DEF g
<1>4. /\ called \in Seq(Frames) /\ Len(called) = Len(s) + 1 /\ Len(s) \in Nat \ {0}
      /\ \A i \in 1..Len(s) : called[i] = s[i]
      /\ called[Len(s) + 1] = g
  BY <1>3 DEF g
<1>5. ASSUME NEW i \in 1..Len(s)  PROVE Enough(called[i], c, k, Round(called, c, i), 0)
  <2>1. CASE i = Len(s)
    <3>1. Round(called, c, i) = round
      BY <1>3, <1>4, <2>1 DEF Round
    <3>2. QED
      BY <1>1, <1>4, <2>1, <3>1 DEF Ready
  <2>2. CASE i # Len(s)
    <3>1. i + 1 \in 1..Len(s) /\ i < Len(s) /\ i < Len(called)
      BY <1>4, <2>2
    <3>2. Round(called, c, i) = Round(s, c, i)
      BY <1>4, <3>1 DEF Round
    <3>3. QED
      BY <1>1, <1>4, <2>2, <3>2 DEF Ready
  <2>3. QED
    BY <2>1, <2>2
<1>6. \A i \in 1..Len(called) : called[i].start <= c /\ called[i] \in Frames
  <2>1. \A i \in 1..Len(called) : i \in 1..Len(s) \/ i = Len(s) + 1
    BY <1>4
  <2>2. QED
    BY <1>3, <1>4, <2>1 DEF Ready
<1>7. CASE c < k
  <2>1. stack' = called /\ cur' = c /\ toks' = toks /\ status' = status
    BY <1>1, <1>7 DEF CallsOut
  <2>2. ASSUME NEW h \in {0, 1}, NEW i \in 1..Len(called)
        PROVE  Enough(called[i], c, k, Round(called, c, i), h)
    <3>1. CASE i = Len(s) + 1
      <4>1. Round(called, c, i) = 0
        BY <1>4, <3>1 DEF Round
      <4>2. Enough(g, c, k, 0, h)
        BY <1>2, <1>3, <1>7 DEF Enough
      <4>3. QED
        BY <1>4, <3>1, <4>1, <4>2
    <3>2. CASE i \in 1..Len(s)
      <4> DEFINE f == called[i]
                 q == Round(called, c, i)
      <4>1. f \in Frames /\ f.start <= c /\ q \in {0, 1} /\ Enough(f, c, k, q, 0) /\ Alike(f, f)
        BY <1>5, <1>6, <3>2 DEF Round, Alike
      <4> HIDE DEF f, q
      <4>2. f.start \in Nat /\ f.fuel \in Nat
        BY <4>1 DEF Frames
      <4>3. Enough(f, c, k, q, h)
        BY <1>2, <4>1, <4>2 DEF Enough
      <4>4. QED
        BY <4>3 DEF f, q
    <3>3. QED
      BY <1>4, <3>1, <3>2
  <2>3. QED
    BY <1>1, <2>1, <2>2 DEF Plenty
<1>8. CASE ~(c < k)
  <2>1. c \in Nat /\ c <= c /\ c <= k
    BY <1>2
  <2>2. Fails("error", c, called)
    BY <1>1, <1>8 DEF CallsOut
  <2>3. called # <<>> /\ called[1].by = "entry" /\ Len(called) - 1 = Len(s)
    BY <1>4
  <2>4. Waiting(called, c, k)
    BY <1>5, <1>6, <2>3 DEF Waiting
  <2>5. /\ cur' = c /\ toks' = toks
        /\ status' = "run" => Plenty(stack', c, k)
        /\ status' # "toolong"
    <3>1. "error" \in {"error", "toolong"} /\ called \in Seq(Frames)
      BY <1>4
    <3>2. QED
      BY <1>2, <2>1, <2>2, <2>3, <2>4, <3>1, FailsPlenty
  <2>6. QED
    BY <1>1, <2>5
<1>9. QED
  BY <1>7, <1>8

(* What the invariant says of the functions that wait.                        *)
LEMMA StackWaits ==
  ASSUME IInv, Onward, Budget, status = "run", Half = 0
  PROVE  Waiting(stack, cur, Len(toks))
<1>1. \A i \in 1..Len(stack) - 1 : i \in 1..Len(stack) /\ i # Len(stack)
  BY BudgetFacts
<1>2. QED
  BY <1>1, BudgetFacts DEF Waiting

(* Where every function has enough, the invariant holds.                      *)
LEMMA PlentyEnds ==
  ASSUME status' = "toolong" => Here' = "{" /\ Ahead(1)' = "}",
         status' = "run" => Plenty(stack', cur', Len(toks'))
  PROVE  (Budget /\ BudgetOnlyForBraces)'
<1>1. Half' \in {0, 1}
  BY Zenon DEF Half
<1>2. Budget'
  BY <1>1 DEF Budget, Plenty
<1>3. QED
  BY Zenon, <1>2 DEF BudgetOnlyForBraces

(* The steps that are neither a round nor about a '>>'.                       *)
LEMMA ShapePlenty ==
  ASSUME IInv, IInv', Onward, Budget, status = "run", Half = 0, ~Exempt, Move.op # "bounded", Shapes
  PROVE  (Budget /\ BudgetOnlyForBraces)'
<1>1. /\ cur \in Nat /\ Len(toks) \in Nat /\ cur >= 1 /\ stack \in Seq(Frames) /\ stack # <<>>
      /\ stack[1].by = "entry" /\ Len(stack) \in Nat \ {0} /\ Len(stack) \in 1..Len(stack)
  BY TopFacts, TopBegins DEF IInv, StackOK
<1>2. toks' = toks => cur' \in Nat /\ cur' <= Len(toks) /\ cur' >= 1
  BY <1>1 DEF IInv
<1>3. ASSUME NEW f, Same(f), Goes(f, cur'), cur' >= cur  PROVE (Budget /\ BudgetOnlyForBraces)'
  <2>1. toks' = toks /\ status' = status /\ stack' = [stack EXCEPT ![Len(stack)] = f]
    BY <1>3 DEF Goes
  <2>2. Len(stack') = Len(stack)
        /\ \A i \in 1..Len(stack) : stack'[i] = IF i = Len(stack) THEN f ELSE stack[i]
    BY <1>1, <2>1
  <2>3. Plenty(stack', cur', Len(toks))
    BY Zenon, <1>2, <1>3, <2>1, <2>2, GoesPlenty
  <2>4. QED
    BY <2>1, <2>3, PlentyEnds
<1>4. ASSUME NEW f \in Frames, NEW r \in Rules, NEW n \in Nodes, Same(f), Calls(f, cur', Move, r, n),
             cur' >= cur
      PROVE  (Budget /\ BudgetOnlyForBraces)'
  <2> DEFINE s == [stack EXCEPT ![Len(stack)] = f]
             called == Append(s, Frame(r, cur', Move.op, n))
  <2>1. toks' = toks
    BY <1>4 DEF Calls, Fails
  <2>2. s \in Seq(Frames) /\ s # <<>> /\ Len(s) = Len(stack)
        /\ \A i \in 1..Len(stack) : s[i] = IF i = Len(stack) THEN f ELSE stack[i]
    BY <1>1
  <2>3. CallsOut(cur', called)
    BY <1>4 DEF Calls, CallsOut
  <2> HIDE DEF s, called
  <2>4. Plenty(s, cur', Len(toks))
    BY <1>2, <1>4, <2>1, <2>2, GoesPlenty
  <2>5. Round(s, cur', Len(s)) = 0
    BY <1>1, <2>2 DEF Round
  <2>6. s[1].by = "entry"
    <3>1. s[1] = f \/ s[1] = stack[1]
      BY <1>1, <2>2
    <3>2. s[1] = f => Len(stack) = 1 \/ s[1] = stack[1]
      BY <1>1, <2>2
    <3>3. QED
      BY <1>1, <1>4, <3>1, <3>2 DEF Same, Top
  <2>7. ASSUME NEW i \in 1..Len(s)  PROVE s[i].start <= cur'
    <3>1. s[i].start = stack[i].start
      BY <1>4, <2>2 DEF Same, Top
    <3>2. QED
      BY <1>1, <1>2, <1>4, <2>1, <2>2, <3>1, BudgetFacts
  <2>8. Ready(s, cur', Len(toks), 0)
    BY <2>4, <2>5, <2>7 DEF Plenty, Ready
  <2>9. Move.op \in Words
    BY MoveFacts DEF Moves, Words
  <2>10. called = Append(s, Frame(r, cur', Move.op, n))
    BY DEF called
  <2>11. PICK c \in Nat : c = cur' /\ c >= 1 /\ c <= Len(toks)
    BY <1>2, <2>1
  <2>12. status' # "toolong" /\ (status' = "run" => Plenty(stack', c, Len(toks)))
    <3>1. CallsOut(c, called) /\ Ready(s, c, Len(toks), 0) /\ called = Append(s, Frame(r, c, Move.op, n))
      BY <2>3, <2>8, <2>10, <2>11
    <3>2. QED
      BY <2>2, <2>6, <2>9, <2>11, <3>1, CalledPlenty
  <2>13. QED
    BY Zenon, <2>1, <2>11, <2>12, PlentyEnds
<1>5. ASSUME Fails("error", cur', stack), cur' >= cur  PROVE (Budget /\ BudgetOnlyForBraces)'
  <2>1. toks' = toks
    BY <1>5 DEF Fails
  <2>2. PICK d \in Nat : d = cur' /\ cur <= d /\ d <= Len(toks)
    BY <1>1, <1>2, <1>5, <2>1
  <2>3. Waiting(stack, cur, Len(toks))
    BY BudgetFacts, StackWaits
  <2>4. status' # "toolong" /\ (status' = "run" => Plenty(stack', d, Len(toks)))
    <3>1. "error" \in {"error", "toolong"} /\ Fails("error", d, stack)
      BY <1>5, <2>2
    <3>2. QED
      BY <1>1, <2>2, <2>3, <3>1, FailsPlenty
  <2>5. QED
    BY Zenon, <2>1, <2>2, <2>4, PlentyEnds
<1>6. ASSUME status' \notin {"run", "toolong"}  PROVE (Budget /\ BudgetOnlyForBraces)'
  BY Zenon, <1>6, PlentyEnds
<1>7. Move.op \notin {"ret", "yield"}
  BY DEF Exempt
<1>8. QED
  BY <1>3, <1>4, <1>5, <1>6, <1>7 DEF Shapes

(* A '>>' that is half taken is not where a loop is, nor another '>>'.        *)
LEMMA HalfFacts ==
  ASSUME IInv, Onward, Half # 0
  PROVE  /\ Move.op = "tok" /\ Here \in Move.on
         /\ \A i \in 1..Len(stack) : stack[i].start < cur
<1>1. /\ Top.pc > 1 /\ Grammar[Top.fn][Top.pc - 1].op = "split" /\ Here = ">"
      /\ Top.pc - 1 \in Places(Top.fn) /\ Top.fn \in Rules
  <2>1. Top.pc > 1 /\ Grammar[Top.fn][Top.pc - 1].op = "split" /\ Here = ">"
    BY DEF Half
  <2>2. Top.pc \in Places(Top.fn) /\ Top.pc \in Nat /\ Top.fn \in Rules
    BY TopBegins
  <2>3. QED
    BY <2>1, <2>2 DEF Places
<1>2. Halving(Top.fn, Top.pc - 1)
  BY <1>1, RoundsTake
<1>3. Grammar[Top.fn][Top.pc].op = "tok" /\ ">" \in Grammar[Top.fn][Top.pc].on
  <2>1. Top.pc - 1 + 1 = Top.pc
    BY TopBegins
  <2>2. QED
    BY <1>2, <2>1 DEF Halving
<1>4. Top.start < cur
  <2> DEFINE v == View(toks, Top.start)
  <2>1. v \in Views /\ (Took(Top.fn, Top.pc, v, Firm[v]) => Top.start < cur)
    BY TopBegins DEF Begins
  <2> HIDE DEF v
  <2>2. Took(Top.fn, Top.pc - 1, v, Firm[v])
    BY <1>2, <2>1 DEF Halving
  <2>3. \A q \in 1..Top.pc - 1 - 1 : q \in 1..Top.pc - 1
    BY TopBegins
  <2>4. Took(Top.fn, Top.pc, v, Firm[v])
    BY <2>2, <2>3 DEF Took
  <2>5. QED
    BY <2>1, <2>4
<1>5. ASSUME NEW i \in 1..Len(stack)  PROVE stack[i].start < cur
  <2>1. CASE i = Len(stack)
    BY <1>4, <2>1 DEF Top
  <2>2. CASE i # Len(stack)
    <3>1. i < Len(stack) /\ Len(stack) \in 1..Len(stack)
      BY <2>2, TopBegins
    <3>2. Below(stack[i], stack[Len(stack)], Until(stack, cur, Len(stack)))
      BY <3>1 DEF Onward, Advances
    <3>3. stack[i].start <= Top.start
      BY <3>2 DEF Below, Top
    <3>4. stack[i].start \in Nat /\ Top.start \in Nat /\ cur \in Nat
      <4>1. stack[i] \in Frames
        BY TopBegins
      <4>2. QED
        BY <4>1, TopBegins DEF Frames
    <3>5. QED
      BY <1>4, <3>3, <3>4
  <2>3. QED
    BY <2>1, <2>2
<1>6. QED
  BY <1>1, <1>3, <1>5 DEF Move

(* Rounds that no function is in count nothing.                               *)
LEMMA NoRound ==
  ASSUME NEW s \in Seq(Frames), NEW c, \A i \in 1..Len(s) : s[i].start # c
  PROVE  \A i \in 1..Len(s) : Round(s, c, i) = 0
<1>1. \A i \in 1..Len(s) : i < Len(s) => i + 1 \in 1..Len(s)
  OBVIOUS
<1>2. \A i \in 1..Len(s) : i < Len(s) => s[i + 1].start # c
  BY <1>1
<1>3. QED
  BY <1>2 DEF Round

(* The first half of a '>>' is taken.                                         *)
LEMMA HalfPlenty ==
  ASSUME IInv, IInv', Onward, Budget, status = "run", Half # 0, Next
  PROVE  (Budget /\ BudgetOnlyForBraces)'
<1>1. Move.op = "tok" /\ Here \in Move.on /\ \A i \in 1..Len(stack) : stack[i].start < cur
  BY HalfFacts
<1>2. Goes(Done(Top), cur + 1)
  BY <1>1, ActionAtHand DEF TakeToken, AtHand
<1>3. /\ stack \in Seq(Frames) /\ Len(stack) \in Nat \ {0} /\ Top \in Frames /\ cur \in Nat
      /\ Half = 1 /\ ~Exempt
  BY <1>1, TopBegins DEF Half, Exempt
<1>4. PICK n \in Nat : n = Len(toks)
  BY BudgetFacts
<1>5. /\ toks' = toks /\ status' = "run" /\ cur' = cur + 1 /\ Len(stack') = Len(stack)
      /\ stack' \in Seq(Frames)
      /\ \A i \in 1..Len(stack) : stack'[i] = IF i = Len(stack) THEN Done(Top) ELSE stack[i]
  BY <1>2, <1>3, DoneFacts DEF Goes
<1>6. ASSUME NEW i \in 1..Len(stack)
      PROVE  stack'[i].start = stack[i].start /\ stack'[i].fuel = stack[i].fuel
             /\ stack'[i].start < cur /\ stack[i].start \in Nat /\ stack[i].fuel \in Nat
             /\ stack[i].start < n /\ stack[i].fuel + 1 >= n - cur + 2
  <2>1. Done(Top).start = Top.start /\ Done(Top).fuel = Top.fuel
    BY <1>3 DEF Done, Frames
  <2>2. stack'[i].start = stack[i].start /\ stack'[i].fuel = stack[i].fuel
    BY <1>5, <2>1 DEF Top
  <2>3. stack[i].start \in Nat /\ stack[i].fuel \in Nat
    <3>1. stack[i] \in Frames
      BY <1>3
    <3>2. QED
      BY <3>1 DEF Frames
  <2>4. Enough(stack[i], cur, n, 0, 1)
    <3>1. \A j \in 1..Len(stack) : stack[j].start # cur
      <4>1. \A j \in 1..Len(stack) : stack[j].start \in Nat
        BY BudgetFacts
      <4>2. QED
        BY <1>1, <1>3, <4>1
    <3>2. Round(stack, cur, i) = 0
      BY <1>3, <3>1, NoRound
    <3>3. Enough(stack[i], cur, Len(toks), Round(stack, cur, i), Half)
      BY <1>3, BudgetFacts
    <3>4. QED
      BY <1>3, <1>4, <3>2, <3>3
  <2>5. stack[i].start < n /\ stack[i].fuel + 0 + 1 >= n - cur + 2
    BY <1>1, <2>4 DEF Enough
  <2>6. QED
    BY <1>1, <1>3, <2>2, <2>3, <2>5
<1>7. \A i \in 1..Len(stack) : Round(stack', cur + 1, i) = 0
  <2>1. \A i \in 1..Len(stack') : stack'[i].start # cur + 1
    <3>1. SUFFICES ASSUME NEW i \in 1..Len(stack)  PROVE stack'[i].start # cur + 1
      BY <1>5
    <3>2. stack'[i].start \in Nat /\ stack'[i].start < cur
      BY <1>6
    <3>3. QED
      BY <1>3, <3>2
  <2>2. QED
    BY <1>5, <2>1, NoRound
<1>8. Plenty(stack', cur + 1, n)
  <2>1. SUFFICES ASSUME NEW i \in 1..Len(stack), NEW h \in {0, 1}
                 PROVE  Enough(stack'[i], cur + 1, n, 0, h)
    BY <1>5, <1>7 DEF Plenty
  <2>2. PICK a \in Nat, k \in Nat : stack'[i].start = a /\ stack'[i].fuel = k
    BY <1>6
  <2>3. a < cur /\ a < n /\ k + 1 >= n - cur + 2
    BY <1>6, <2>2
  <2>4. a < n /\ a # cur + 1 /\ k + 0 + h >= n - (cur + 1) + 2
    BY <1>3, <2>3
  <2>5. QED
    BY <2>2, <2>4 DEF Enough
<1>9. QED
  BY <1>4, <1>5, <1>8, PlentyEnds

(* A '>>' becomes two tokens.                                                 *)
LEMMA SplitPlenty ==
  ASSUME IInv, IInv', Onward, Budget, status = "run", Half = 0, SplitAngles, Here = ">>"
  PROVE  (Budget /\ BudgetOnlyForBraces)'
<1>1. /\ Move.op = "split" /\ cur' = cur /\ status' = "run"
      /\ toks' = SubSeq(toks, 1, cur - 1) \o <<">", ">">> \o SubSeq(toks, cur + 1, Len(toks))
      /\ stack' = [stack EXCEPT ![Len(stack)] = Done(Top)]
  BY DEF SplitAngles, AtHand
<1>2. /\ Len(toks') = Len(toks) + 1 /\ toks'[cur] = ">"
      /\ \A i \in 1..Len(stack) : stack[i].start < cur
  BY <1>1, SplitBehind
<1>3. /\ stack \in Seq(Frames) /\ Len(stack) \in Nat \ {0} /\ Top \in Frames /\ cur \in Nat
      /\ ~Exempt /\ Top.pc \in Nat \ {0}
  BY <1>1, TopBegins DEF Exempt
<1>4. PICK n \in Nat : n = Len(toks)
  BY BudgetFacts
<1>5. /\ Len(stack') = Len(stack) /\ stack' \in Seq(Frames)
      /\ \A i \in 1..Len(stack) : stack'[i] = IF i = Len(stack) THEN Done(Top) ELSE stack[i]
  BY <1>1, <1>3, DoneFacts
<1>6. ASSUME NEW i \in 1..Len(stack)
      PROVE  stack'[i].start = stack[i].start /\ stack'[i].fuel = stack[i].fuel
             /\ stack'[i].start < cur /\ stack[i].start \in Nat /\ stack[i].fuel \in Nat
             /\ stack[i].start < n /\ stack[i].fuel >= n - cur + 2
  <2>1. Done(Top).start = Top.start /\ Done(Top).fuel = Top.fuel
    BY <1>3 DEF Done, Frames
  <2>2. stack'[i].start = stack[i].start /\ stack'[i].fuel = stack[i].fuel
    BY <1>5, <2>1 DEF Top
  <2>3. stack[i].start \in Nat /\ stack[i].fuel \in Nat
    <3>1. stack[i] \in Frames
      BY <1>3
    <3>2. QED
      BY <3>1 DEF Frames
  <2>4. Enough(stack[i], cur, n, 0, 0)
    <3>1. \A j \in 1..Len(stack) : stack[j].start # cur
      <4>1. \A j \in 1..Len(stack) : stack[j].start \in Nat
        BY BudgetFacts
      <4>2. QED
        BY <1>2, <1>3, <4>1
    <3>2. Round(stack, cur, i) = 0
      BY <1>3, <3>1, NoRound
    <3>3. Enough(stack[i], cur, Len(toks), Round(stack, cur, i), Half)
      BY <1>3, BudgetFacts
    <3>4. QED
      BY <1>4, <3>2, <3>3
  <2>5. stack[i].start < n /\ stack[i].fuel + 0 + 0 >= n - cur + 2
    BY <1>2, <2>4 DEF Enough
  <2>6. QED
    BY <1>2, <1>3, <2>2, <2>3, <2>5
<1>7. \A i \in 1..Len(stack) : Round(stack', cur, i) = 0
  <2>1. \A i \in 1..Len(stack') : stack'[i].start # cur
    <3>1. SUFFICES ASSUME NEW i \in 1..Len(stack)  PROVE stack'[i].start # cur
      BY <1>5
    <3>2. stack'[i].start \in Nat /\ stack'[i].start < cur
      BY <1>6
    <3>3. QED
      BY <1>3, <3>2
  <2>2. QED
    BY <1>5, <2>1, NoRound
<1>8. Half' = 1
  <2>1. Top' = Done(Top)
    BY <1>3, <1>5 DEF Top
  <2>2. Done(Top).pc = Top.pc + 1 /\ Done(Top).fn = Top.fn
    BY <1>3, DoneFacts
  <2>3. Top.pc + 1 > 1 /\ Top.pc + 1 - 1 = Top.pc
    BY <1>3
  <2>4. Here' = ">"
    BY <1>1, <1>2, Zenon DEF Here
  <2>5. Grammar[Top.fn][Top.pc].op = "split"
    BY <1>1 DEF Move
  <2>6. Top'.pc > 1 /\ Top'.pc - 1 = Top.pc /\ Top'.fn = Top.fn
    <3>1. Top'.pc = Top.pc + 1 /\ Top'.fn = Top.fn
      BY <2>1, <2>2
    <3>2. QED
      BY <1>3, <3>1
  <2>7. Grammar[Top'.fn][Top'.pc - 1].op = "split"
    BY <2>5, <2>6
  <2>8. QED
    BY <2>4, <2>6, <2>7 DEF Half
<1>9. ASSUME NEW i \in 1..Len(stack)
      PROVE  Enough(stack'[i], cur, n + 1, 0, 1)
  <2>1. PICK a \in Nat, k \in Nat : stack'[i].start = a /\ stack'[i].fuel = k
    BY <1>6
  <2>2. a < cur /\ a < n /\ k >= n - cur + 2
    BY <1>6, <2>1
  <2>3. a < n + 1 /\ a # cur /\ k + 0 + 1 >= n + 1 - cur + 2
    BY <1>3, <2>2
  <2>4. QED
    BY <1>3, <2>1, <2>3 DEF Enough
<1>10. Budget'
  BY <1>1, <1>2, <1>4, <1>5, <1>7, <1>8, <1>9 DEF Budget
<1>11. QED
  BY <1>1, <1>10 DEF BudgetOnlyForBraces

(* A round is idle at {} only.                                                *)
LEMMA SpinBraces ==
  ASSUME IInv, Move.op = "bounded", Spin \in Chosen(Move)
  PROVE  Here = "{" /\ Ahead(1) = "}"
<1>1. PICK k \in 1..Len(Move.alts) : Move.alts[k].fn = Spin /\ Applies(Move.alts[k])
  BY DEF Chosen
<1> DEFINE ahead == Move.alts[k].ahead
<1>2. ahead = <<{"{"}, {"}"}>>
  BY Zenon, <1>1, RoundFacts DEF Loop, Move
<1>3. \A j \in 1..Len(ahead) : Ahead(j - 1) \in ahead[j]
  BY <1>1 DEF Applies
<1> HIDE DEF ahead
<1>4. Len(ahead) = 2 /\ ahead[1] = {"{"} /\ ahead[2] = {"}"}
  BY Zenon, <1>2
<1>5. 1 \in 1..2 /\ 2 \in 1..2 /\ 1 - 1 = 0 /\ 2 - 1 = 1
  OBVIOUS
<1>6. Ahead(0) = "{" /\ Ahead(1) = "}"
  <2>1. Ahead(0) \in ahead[1]
    BY Zenon, <1>4, <1>3, <1>5
  <2>2. Ahead(1) \in ahead[2]
    BY Zenon, <1>4, <1>3, <1>5
  <2>3. QED
    BY Zenon, <1>4, <2>1, <2>2
<1>7. Ahead(0) = Here
  BY TopFacts DEF Ahead, Here, IInv
<1>8. QED
  BY Zenon, <1>6, <1>7

(* The next round there is idle, too.                                         *)
LEMMA SpinStays ==
  ASSUME IInv, Spin \in Chosen(Move), toks' = toks, cur' = cur, Top'.node = Top.node,
         Top'.fn = Top.fn, Top'.pc = Top.pc
  PROVE  Move' = Move /\ Spin \in Chosen(Move)'
<1>1. Move' = Move
  BY DEF Move
<1>2. PICK k \in 1..Len(Move.alts) :
        Move.alts[k].fn = Spin /\ Applies(Move.alts[k]) /\ \A l \in 1..k - 1 : ~Applies(Move.alts[l])
  BY DEF Chosen
<1>3. \A l \in 1..Len(Move.alts) : Applies(Move.alts[l])' <=> Applies(Move.alts[l])
  BY <1>1 DEF Applies, Ahead
<1>4. \A l \in 1..k - 1 : l \in 1..Len(Move.alts)
  BY MoveFacts DEF Moves
<1>5. QED
  BY <1>1, <1>2, <1>3, <1>4 DEF Chosen

(* A function on top that is exempt leaves the others what they have.         *)
LEMMA ExemptEnds ==
  ASSUME IInv, Onward, Budget, status = "run", Half = 0, NEW g, g.start = Top.start, g.by = Top.by,
         Goes(g, cur), Exempt'
  PROVE  (Budget /\ BudgetOnlyForBraces)'
<1>1. /\ stack \in Seq(Frames) /\ Len(stack) \in Nat \ {0} /\ Half' \in {0, 1}
      /\ stack' = [stack EXCEPT ![Len(stack)] = g]
      /\ cur' = cur /\ toks' = toks /\ status' = status
  BY TopBegins DEF Half, Goes
<1>2. PICK n \in Nat : n = Len(toks)
  BY BudgetFacts
<1>3. /\ Len(stack') = Len(stack)
      /\ \A i \in 1..Len(stack) : stack'[i] = IF i = Len(stack) THEN g ELSE stack[i]
  BY <1>1
<1>4. ASSUME NEW i \in 1..Len(stack), i # Len(stack)
      PROVE  Enough(stack'[i], cur, n, Round(stack', cur, i), Half')
  <2> DEFINE f == stack[i]
             q == Round(stack, cur, i)
             h == Half'
  <2>1. f \in Frames /\ Enough(f, cur, n, q, 0) /\ q \in {0, 1} /\ f.start <= cur /\ h \in {0, 1}
    BY <1>1, <1>2, <1>4, BudgetFacts DEF Round
  <2>2. Round(stack', cur, i) = q /\ stack'[i] = f
    <3>1. i + 1 \in 1..Len(stack)
      BY <1>1, <1>4
    <3>2. stack'[i + 1].by = stack[i + 1].by /\ stack'[i + 1].start = stack[i + 1].start
      BY <1>3, <3>1 DEF Top
    <3>3. QED
      BY <1>3, <1>4, <3>2 DEF Round
  <2> HIDE DEF f, q, h
  <2>3. f.start \in Nat /\ f.fuel \in Nat /\ cur \in Nat
    BY <2>1, TopBegins DEF Frames
  <2>4. Enough(f, cur, n, q, h)
    BY <2>1, <2>3 DEF Enough
  <2>5. QED
    BY <2>2, <2>4 DEF h
<1>5. Budget'
  BY Zenon, <1>1, <1>2, <1>3, <1>4 DEF Budget
<1>6. QED
  BY <1>1, <1>5 DEF BudgetOnlyForBraces

(* A round has enough, or is one of those that meet a {}.                     *)
LEMMA RoundPlenty ==
  ASSUME IInv, IInv', Onward, Budget, status = "run", Half = 0, CountedOne
  PROVE  (Budget /\ BudgetOnlyForBraces)'
<1> DEFINE f == [Top EXCEPT !.fuel = @ - 1]
           v == View(toks, cur)
<1>1. /\ Move.op = "bounded"
      /\ \/ (Top.fuel = 0 \/ (Top.fuel = 1 /\ Chosen(Move) = {})) /\ Fails("toolong", cur, stack)
         \/ Top.fuel # 0 /\ Chosen(Move) = {} /\ Goes(Done(f), cur)
         \/ Top.fuel # 0 /\ Spin \in Chosen(Move) /\ Goes(f, cur)
         \/ /\ Top.fuel # 0 /\ Spin \notin Chosen(Move)
            /\ \E r \in Chosen(Move) : Calls(f, cur, Move, r, Top.node)
  BY DEF CountedOne, AtHand
<1>2. Loop(Top.fn, Top.pc) /\ ListOK(toks) /\ cur \in 1..Len(toks)
  BY <1>1, RoundFacts DEF IInv
<1>3. /\ stack \in Seq(Frames) /\ Len(stack) \in Nat \ {0} /\ Len(stack) \in 1..Len(stack)
      /\ stack # <<>> /\ stack[1].by = "entry" /\ Top \in Frames /\ cur \in Nat
      /\ Top.fuel \in Nat /\ Top.start \in Nat /\ Top.start <= cur /\ Top.pc \in Nat \ {0}
  BY TopFacts, TopBegins DEF IInv, StackOK, Frames
<1>4. PICK n \in Nat : n = Len(toks)
  BY BudgetFacts
<1>5. Exempt <=> Spin \in Chosen(Move)
  BY <1>1 DEF Exempt
<1>6. Spin \notin Chosen(Move) =>
        /\ Enough(Top, cur, n, 0, 0)
        /\ Top.fuel >= 2 /\ Top.start < n
        /\ Top.start = cur => Top.fuel >= 2 * (n - cur)
        /\ Top.start < cur => Top.fuel >= n - cur + 2
  <2>1. SUFFICES ASSUME Spin \notin Chosen(Move)
                 PROVE  /\ Enough(Top, cur, n, 0, 0)
                        /\ Top.fuel >= 2 /\ Top.start < n
                        /\ Top.start = cur => Top.fuel >= 2 * (n - cur)
                        /\ Top.start < cur => Top.fuel >= n - cur + 2
    OBVIOUS
  <2>2. Enough(Top, cur, n, 0, 0)
    BY <1>3, <1>4, <1>5, <2>1, BudgetFacts DEF Top
  <2>3. PICK a \in Nat, k \in Nat : Top.start = a /\ Top.fuel = k
    BY <1>3
  <2>4. a < n /\ (a = cur => k + 0 + 0 >= 2 * (n - cur)) /\ (a < cur => k + 0 + 0 >= n - cur + 2)
    BY <2>2, <2>3 DEF Enough
  <2>5. a <= cur /\ cur <= n
    BY <1>2, <1>3, <1>4, <2>3
  <2>6. k >= 2 /\ (a = cur => k >= 2 * (n - cur)) /\ (a < cur => k >= n - cur + 2)
    BY <1>3, <2>4, <2>5
  <2>7. QED
    BY <2>2, <2>3, <2>4, <2>6
<1>7. f.start = Top.start /\ f.by = Top.by /\ f.fuel = Top.fuel - 1 /\ f.fn = Top.fn
      /\ f.pc = Top.pc /\ f.node = Top.node /\ f.tags = Top.tags
  BY <1>3 DEF Frames
<1>8. Done(f).start = Top.start /\ Done(f).by = Top.by /\ Done(f).fn = Top.fn
      /\ Done(f).pc = Top.pc + 1
  <2> DEFINE less == Top.fuel - 1
             g == [Top EXCEPT !.fuel = less]
  <2> HIDE DEF less
  <2>1. g.pc = Top.pc /\ Done(g).start = g.start /\ Done(g).by = g.by /\ Done(g).fn = g.fn
        /\ Done(g).pc = g.pc + 1
    BY <1>3 DEF Done, Frames
  <2>2. g = f
    BY DEF less
  <2>3. QED
    BY <1>7, <2>1, <2>2
<1>9. Len(stack) \in 1..Len(stack) /\ \A s : s = [stack EXCEPT ![Len(stack)] = f] =>
        /\ Len(s) = Len(stack)
        /\ \A i \in 1..Len(stack) : s[i] = IF i = Len(stack) THEN f ELSE stack[i]
  BY <1>3
<1>10. CASE (Top.fuel = 0 \/ (Top.fuel = 1 /\ Chosen(Move) = {})) /\ Fails("toolong", cur, stack)
  <2>1. Spin \in Chosen(Move)
    BY <1>3, <1>6, <1>10
  <2>2. Here = "{" /\ Ahead(1) = "}"
    BY Zenon, <1>1, <2>1, SpinBraces
  <2>3. PICK d \in Nat : d = cur /\ cur <= d /\ d <= n
    BY <1>2, <1>3, <1>4
  <2>4. "toolong" \in {"error", "toolong"} /\ Fails("toolong", d, stack)
    BY <1>10, <2>3
  <2>5. Waiting(stack, cur, n)
    BY <1>4, StackWaits
  <2>6. /\ cur' = d /\ toks' = toks
        /\ status' = "run" => Plenty(stack', d, n)
    BY <1>3, <2>3, <2>4, <2>5, FailsPlenty
  <2>7. Here' = "{" /\ Ahead(1)' = "}"
    BY Zenon, <2>2, <2>3, <2>6 DEF Here, Ahead
  <2>8. QED
    BY Zenon, <1>4, <2>3, <2>6, <2>7, PlentyEnds
<1>11. CASE Top.fuel # 0 /\ Chosen(Move) = {} /\ Goes(Done(f), cur)
  <2>1. Top' = Done(f)
    BY <1>3, <1>11 DEF Goes, Top
  <2>2. Top'.pc = Top.pc + 1 /\ Top'.fn = Top.fn
    BY <1>8, <2>1
  <2>3. Move' = Grammar[Top.fn][Top.pc + 1]
    BY <2>2 DEF Move
  <2>4. Exempt'
    BY Zenon, <1>2, <2>3 DEF Exempt, Loop
  <2> DEFINE g == Done(f)
  <2>5. g.start = Top.start /\ g.by = Top.by /\ Goes(g, cur)
    BY <1>8, <1>11
  <2> HIDE DEF g
  <2>6. QED
    BY <2>4, <2>5, ExemptEnds
<1>12. CASE Top.fuel # 0 /\ Spin \in Chosen(Move) /\ Goes(f, cur)
  <2>1. Top' = f /\ toks' = toks /\ cur' = cur
    BY <1>3, <1>12 DEF Goes, Top
  <2>2. Exempt'
    BY <1>1, <1>7, <1>12, <2>1, SpinStays DEF Exempt
  <2> DEFINE g == f
  <2>3. g.start = Top.start /\ g.by = Top.by /\ Goes(g, cur)
    BY <1>7, <1>12
  <2> HIDE DEF g
  <2>4. QED
    BY <2>2, <2>3, ExemptEnds
<1>13. ASSUME Spin \notin Chosen(Move), NEW r \in Chosen(Move), Calls(f, cur, Move, r, Top.node)
       PROVE  (Budget /\ BudgetOnlyForBraces)'
  <2> DEFINE s == [stack EXCEPT ![Len(stack)] = f]
             called == Append(s, Frame(r, cur, Move.op, Top.node))
  <2>1. r \in Rules /\ r # Spin /\ r \in Likely(Move, v)
    BY <1>1, <1>13, ChosenFacts, ChosenLikely
  <2>2. f \in Frames
    <3> DEFINE less == Top.fuel - 1
    <3>1. less \in Nat
      BY <1>3, <1>6, <1>13
    <3> HIDE DEF less
    <3>2. [Top EXCEPT !.fuel = less] \in Frames
      BY <1>3, <3>1 DEF Frames
    <3>3. QED
      BY <3>2 DEF less
  <2>3. Top.start = cur => cur + 1 < n
    <3>1. SUFFICES ASSUME Top.start = cur PROVE cur + 1 < n
      OBVIOUS
    <3>2. v \in Views /\ ~Took(Top.fn, Top.pc, v, Firm[v])
      BY <1>3, <3>1, TopBegins DEF Begins
    <3>3. Took(Top.fn, Top.pc, v, Firm[v]) \/ v = Turbofish \/ Likely(Move, v) \ {Spin} = {}
      BY Zenon, <1>2, <3>2 DEF Loop, Move
    <3>4. v = Turbofish
      BY <2>1, <3>2, <3>3
    <3>5. cur < Len(toks) /\ toks[cur + 1] = "<" /\ toks[Len(toks)] = EOF
      BY <1>2, <3>4, ViewFacts DEF ListOK
    <3>6. cur + 1 # Len(toks)
      BY <3>5 DEF EOF
    <3>7. QED
      BY <1>3, <1>4, <3>5, <3>6
  <2>4. Enough(f, cur, n, 1, 0)
    <3>1. PICK a \in Nat, k \in Nat : Top.start = a /\ Top.fuel = k
      BY <1>3
    <3>2. f.start = a /\ f.fuel = k - 1
      BY <1>7, <3>1
    <3>3. a < n /\ (a = cur => k >= 2 * (n - cur)) /\ (a < cur => k >= n - cur + 2)
      BY <1>6, <1>13, <3>1
    <3>4. /\ a < n
          /\ a = cur => k - 1 + 1 + 0 >= 2 * (n - cur) /\ (1 = 1 => cur + 1 < n)
          /\ a < cur => k - 1 + 1 + 0 >= n - cur + 2
      BY <1>3, <2>3, <3>1, <3>3
    <3> HIDE DEF f
    <3>5. QED
      BY <3>2, <3>4 DEF Enough
  <2>5. /\ s \in Seq(Frames) /\ s # <<>> /\ Len(s) = Len(stack)
        /\ \A i \in 1..Len(stack) : s[i] = IF i = Len(stack) THEN f ELSE stack[i]
    BY <1>3, <2>2
  <2>6. CallsOut(cur, called)
    BY <1>13 DEF Calls, CallsOut
  <2>7. called = Append(s, Frame(r, cur, Move.op, Top.node))
    OBVIOUS
  <2> HIDE DEF s, called, f
  <2>8. s[1].by = "entry"
    <3>1. s[1] = stack[1] \/ (s[1] = f /\ stack[1] = Top)
      BY <1>3, <2>5 DEF Top
    <3>2. QED
      BY <1>3, <1>7, <3>1
  <2>9. ASSUME NEW i \in 1..Len(s)
        PROVE  s[i].start <= cur
               /\ Enough(s[i], cur, n, IF i = Len(s) THEN 1 ELSE Round(s, cur, i), 0)
    <3>1. CASE i = Len(s)
      BY <1>3, <1>7, <2>4, <2>5, <3>1
    <3>2. CASE i # Len(s)
      <4>1. i + 1 \in 1..Len(stack) /\ i \in 1..Len(stack)
        BY <1>3, <2>5, <3>2
      <4>2. s[i + 1].by = stack[i + 1].by /\ s[i + 1].start = stack[i + 1].start
        BY <1>7, <2>5, <4>1 DEF Top
      <4>3. Round(s, cur, i) = Round(stack, cur, i) /\ s[i] = stack[i]
        BY <2>5, <3>2, <4>1, <4>2 DEF Round
      <4>4. Enough(stack[i], cur, n, Round(stack, cur, i), 0) /\ stack[i].start <= cur
        BY <1>4, <2>5, <3>2, <4>1, BudgetFacts
      <4>5. QED
        BY <3>2, <4>3, <4>4
    <3>3. QED
      BY <3>1, <3>2
  <2>10. Ready(s, cur, n, 1)
    BY <2>9 DEF Ready
  <2>11. PICK c \in Nat : c = cur /\ c >= 1 /\ c <= Len(toks)
    BY <1>2, <1>3, <1>4
  <2>12. Top.node \in Nodes /\ Move.op \in Words
    BY NodeFacts, MoveFacts DEF Moves, Words
  <2>13. CallsOut(c, called) /\ Ready(s, c, Len(toks), 1)
         /\ called = Append(s, Frame(r, c, Move.op, Top.node))
    BY <1>4, <2>6, <2>7, <2>10, <2>11
  <2>14. 1 \in {0, 1} /\ 1 = IF Move.op = "bounded" THEN 1 ELSE 0
    BY <1>1
  <2>15. cur' = c /\ toks' = toks /\ status' # "toolong"
         /\ (status' = "run" => Plenty(stack', c, Len(toks)))
    BY <2>1, <2>5, <2>8, <2>11, <2>12, <2>13, <2>14, CalledPlenty
  <2>16. QED
    BY Zenon, <2>15, PlentyEnds
<1>14. QED
  BY <1>1, <1>10, <1>11, <1>12, <1>13

(* Every step keeps the budget, and none ends for the lack of one but at {}.  *)
LEMMA StepBudget ==
  ASSUME IInv, IInv', Onward, Budget, BudgetOnlyForBraces, Next
  PROVE  (Budget /\ BudgetOnlyForBraces)'
<1>1. CASE status # "run"
  <2>1. UNCHANGED vars
    BY <1>1, EndedStays
  <2>2. QED
    BY Zenon, <1>1, <2>1 DEF vars, Budget, BudgetOnlyForBraces, Here, Ahead
<1>2. CASE status = "run" /\ Half # 0
  BY <1>2, HalfPlenty
<1>3. CASE status = "run" /\ Half = 0 /\ Move.op = "bounded"
  <2>1. CountedOne
    BY <1>3, ActionAtHand
  <2>2. QED
    BY <1>3, <2>1, RoundPlenty
<1>4. CASE status = "run" /\ Half = 0 /\ Move.op = "split" /\ Here = ">>"
  <2>1. SplitAngles
    BY <1>4, ActionAtHand
  <2>2. QED
    BY <1>4, <2>1, SplitPlenty
<1>5. CASE status = "run" /\ Half = 0 /\ Move.op \in {"ret", "yield"}
  <2>1. PICK n \in Nodes : Returns1(n)
    <3>1. ReturnNode \/ YieldNode
      BY <1>5, ActionAtHand
    <3>2. Returns1(Node(Move.fn, Top.tags)) \/ Returns1(Top.node)
      BY <3>1 DEF ReturnNode, YieldNode, AtHand
    <3>3. QED
      BY <3>2, NodeFacts
  <2>2. toks' = toks /\ cur' = cur /\ status' \in {"run", "done"}
        /\ (status' = "run" => Plenty(stack', cur, Len(toks)))
    BY <1>5, <2>1, ReturnsPlenty
  <2>3. QED
    BY Zenon, <2>2, PlentyEnds
<1>6. CASE /\ status = "run" /\ Half = 0 /\ Move.op \notin {"bounded", "ret", "yield"}
           /\ ~(Move.op = "split" /\ Here = ">>")
  <2>1. ~Exempt
    BY <1>6 DEF Exempt
  <2>2. Shapes
    BY <1>6, StepShape
  <2>3. QED
    BY <1>6, <2>1, <2>2, ShapePlenty
<1>7. QED
  BY <1>1, <1>2, <1>3, <1>4, <1>5, <1>6

(* A parse begins with two rounds for each token.                             *)
LEMMA InitBudget == Init => Budget /\ BudgetOnlyForBraces
<1>1. SUFFICES ASSUME Init PROVE Budget /\ BudgetOnlyForBraces
  OBVIOUS
<1>2. PICK i \in Inputs :
        /\ toks = Append(i.toks, EOF) /\ cur = 1 /\ status = "run"
        /\ stack = <<Frame(i.entry, 1, "entry", NoNode)>>
  BY <1>1 DEF Init
<1> DEFINE f == Frame(i.entry, 1, "entry", NoNode)
<1>3. f.pc = 1 /\ f.start = 1 /\ f.fuel = 2 * (Len(toks) - 1)
  BY DEF Frame, Rounds
<1> HIDE DEF f
<1>4. stack = <<f>>
  BY <1>2 DEF f
<1>5. Len(stack) = 1 /\ stack[1] = f /\ Top = f
  BY <1>4 DEF Top
<1>6. PICK n \in Nat : n = Len(toks) /\ n >= 2
  <2>1. i.toks \in Seq(Tokens) /\ i.toks # <<>>
    BY InputsAssumption
  <2> DEFINE t == i.toks
  <2>2. Len(t) \in Nat /\ Len(t) # 0 /\ Len(Append(t, EOF)) = Len(t) + 1
    <3> HIDE DEF t
    <3>1. t \in Seq(Tokens) /\ t # <<>>
      BY <2>1 DEF t
    <3>2. t \in Seq(Tokens \cup {EOF})
      BY <3>1
    <3>3. QED
      BY <3>1, <3>2
  <2> HIDE DEF t
  <2>3. Len(toks) = Len(t) + 1
    BY <1>2, <2>2 DEF t
  <2>4. QED
    BY <2>2, <2>3
<1>7. Half = 0
  BY <1>3, <1>5 DEF Half
<1>8. Round(stack, 1, 1) = 0
  BY <1>5 DEF Round
<1>9. Enough(f, 1, n, 0, 0)
  <2>1. f.start = 1 /\ f.fuel = 2 * (n - 1)
    BY <1>3, <1>6
  <2>2. QED
    BY <1>6, <2>1 DEF Enough
<1>10. Budget
  BY <1>2, <1>5, <1>6, <1>7, <1>8, <1>9 DEF Budget
<1>11. QED
  BY <1>2, <1>10 DEF BudgetOnlyForBraces

(* With a grammar whose loops are like Helix's, whatever the text: the bound  *)
(* on the rounds of Expression::parse, twice the tokens left, is met nowhere  *)
(* but at a {} that no round takes.                                           *)
THEOREM RoundsAreEnough == Spec => []BudgetOnlyForBraces
<1>1. Init => IInv /\ Onward /\ Budget /\ BudgetOnlyForBraces
  BY InitHolds, InitOnward, InitBudget
<1>2. IInv /\ Onward /\ Budget /\ BudgetOnlyForBraces /\ [Next]_vars
        => (IInv /\ Onward /\ Budget /\ BudgetOnlyForBraces)'
  <2>1. ASSUME IInv, Onward, Budget, BudgetOnlyForBraces, UNCHANGED vars
        PROVE  IInv' /\ Onward' /\ Budget' /\ BudgetOnlyForBraces'
    <3>1. IInv' /\ Onward'
      BY <2>1 DEF vars, IInv, Onward
    <3>2. Top' = Top /\ Here' = Here
      BY <2>1 DEF vars, Top, Here
    <3>3. BudgetOnlyForBraces'
      BY Zenon, <2>1 DEF vars, BudgetOnlyForBraces, Here, Ahead
    <3>4. Half' = Half
      BY <3>2 DEF Half
    <3>5. Move' = Move
      BY <3>2 DEF Move
    <3>6. Chosen(Move)' = Chosen(Move)
      BY <2>1, <3>2, <3>5 DEF vars, Chosen, Applies, Ahead
    <3>7. Exempt' = Exempt
      BY <3>5, <3>6 DEF Exempt
    <3>8. Budget'
      BY <2>1, <3>4, <3>7 DEF vars, Budget
    <3>9. QED
      BY <3>1, <3>3, <3>8
  <2>2. QED
    BY <2>1, StepKeeps, StepOnward, StepBudget
<1>3. QED
  BY <1>1, <1>2, PTL DEF Spec

-------------------------------------------------------------------------------
(* What is open in a stretch of a text.                                       *)

\* f is what a run over the tokens from a to b - 1 has open in front of each
Runs(f, w, a, b) == f = [n \in a..b |-> IF n = a THEN <<>> ELSE Turn(f[n - 1], w[n - 1])]

(* A run goes on by a token,                                                  *)
LEMMA RunGrows ==
  ASSUME NEW w, NEW a \in Nat, NEW b \in Nat, a <= b, NEW f, Runs(f, w, a, b)
  PROVE  \E g : Runs(g, w, a, b + 1)
<1> DEFINE last == Turn(f[b], w[b])
           g == [n \in a..b + 1 |-> IF n = b + 1 THEN last ELSE f[n]]
           h == [n \in a..b + 1 |-> IF n = a THEN <<>> ELSE Turn(g[n - 1], w[n - 1])]
<1>1. \A n \in a..b : f[n] = IF n = a THEN <<>> ELSE Turn(f[n - 1], w[n - 1])
  BY DEF Runs
<1>2. ASSUME NEW n \in a..b + 1  PROVE g[n] = IF n = a THEN <<>> ELSE Turn(g[n - 1], w[n - 1])
  <2>1. CASE n = b + 1
    <3>1. b \in a..b + 1 /\ n - 1 = b /\ n # a /\ b # b + 1
      BY <2>1
    <3>2. g[b] = f[b] /\ g[n] = last
      BY <2>1, <3>1
    <3> HIDE DEF g
    <3>3. QED
      BY <3>1, <3>2
  <2>2. CASE n # b + 1
    <3>1. n \in a..b /\ (n # a => n - 1 \in a..b + 1 /\ n - 1 # b + 1)
      BY <2>2
    <3>2. g[n] = f[n] /\ (n # a => g[n - 1] = f[n - 1])
      BY <2>2, <3>1
    <3> HIDE DEF g
    <3>3. QED
      BY <1>1, <3>1, <3>2
  <2>3. QED
    BY <2>1, <2>2
<1> HIDE DEF last
<1>3. g = h
  <2>1. \A n \in a..b + 1 : g[n] = h[n]
    <3>1. \A n \in a..b + 1 : h[n] = IF n = a THEN <<>> ELSE Turn(g[n - 1], w[n - 1])
      <4> HIDE DEF g
      <4>1. QED
        OBVIOUS
    <3> HIDE DEF g, h
    <3>2. QED
      BY <1>2, <3>1
  <2>2. QED
    BY <2>1
<1> HIDE DEF g
<1>4. QED
  BY <1>3 DEF Runs

(* so that there is one over any stretch of a text,                           *)
LEMMA RunExists ==
  ASSUME NEW w, NEW a \in Nat, NEW b \in Nat, a <= b
  PROVE  \E f : Runs(f, w, a, b)
<1> DEFINE Ends1 == {n \in Nat : a <= n /\ ~\E f : Runs(f, w, a, n)}
<1>1. SUFFICES ASSUME Ends1 # {}  PROVE FALSE
  OBVIOUS
<1>2. PICK m \in Ends1 : \A n \in Ends1 : m <= n
  BY <1>1, LeastNatural
<1>3. CASE m = a
  <2> DEFINE f == [n \in {a} |-> <<>>]
  <2>1. a..a = {a}
    OBVIOUS
  <2>2. Runs(f, w, a, a)
    BY <2>1 DEF Runs
  <2>3. QED
    BY <1>2, <1>3, <2>2
<1>4. CASE m # a
  <2>1. m - 1 \in Nat /\ a <= m - 1 /\ m - 1 + 1 = m /\ m - 1 \notin Ends1
    BY <1>2, <1>4
  <2>2. PICK f : Runs(f, w, a, m - 1)
    BY <2>1
  <2>3. QED
    BY <1>2, <2>1, <2>2, RunGrows
<1>5. QED
  BY <1>3, <1>4

(* and OpenIn is what a run has at the end of it.                             *)
LEMMA OpenInRun ==
  ASSUME NEW w, NEW a \in Nat, NEW b \in Nat, a <= b
  PROVE  \E f : Runs(f, w, a, b) /\ OpenIn(w, a, b) = f[b]
<1> DEFINE f == CHOOSE f : Runs(f, w, a, b)
<1>1. Runs(f, w, a, b)
  BY RunExists
<1>2. OpenIn(w, a, b) = f[b]
  BY DEF OpenIn, Runs
<1>3. QED
  BY <1>1, <1>2

\* two texts do from a to n - 1
Agree(w, v, a, n) == \A k \in a..n - 1 : w[k] = v[k]

(* Two runs over the same tokens have the same open at each.                  *)
LEMMA RunsAgree ==
  ASSUME NEW w, NEW v, NEW a \in Nat, NEW n \in Nat, a <= n, NEW c \in Nat, n <= c,
         NEW f, NEW g, Runs(f, w, a, n), Runs(g, v, a, c), Agree(w, v, a, n)
  PROVE  f[n] = g[n]
<1> DEFINE Differ == {k \in Nat : k \in a..n /\ f[k] # g[k]}
<1>1. /\ \A k \in a..n : f[k] = IF k = a THEN <<>> ELSE Turn(f[k - 1], w[k - 1])
      /\ \A k \in a..c : g[k] = IF k = a THEN <<>> ELSE Turn(g[k - 1], v[k - 1])
  BY DEF Runs
<1>2. SUFFICES ASSUME Differ # {}  PROVE FALSE
  <2>1. n \in Nat /\ n \in a..n
    OBVIOUS
  <2>2. QED
    BY <2>1
<1>3. PICK m \in Differ : \A k \in Differ : m <= k
  BY <1>2, LeastNatural
<1>4. m \in a..c /\ m \in a..n /\ f[m] # g[m]
  BY <1>3
<1>5. m # a
  BY <1>1, <1>4
<1>6. m - 1 \in Nat /\ m - 1 \in a..n - 1 /\ m - 1 \in a..n /\ m - 1 \notin Differ
  BY <1>3, <1>4, <1>5
<1>7. w[m - 1] = v[m - 1]
  BY <1>6 DEF Agree
<1>8. QED
  BY <1>1, <1>4, <1>5, <1>6, <1>7

(* How what is open goes on from token to token, and that it is read from the *)
(* tokens in between alone.                                                   *)
LEMMA OpenInSteps ==
  ASSUME NEW w, NEW a \in Nat, NEW b \in Nat, a <= b
  PROVE  /\ OpenIn(w, a, a) = <<>>
         /\ OpenIn(w, a, b + 1) = Turn(OpenIn(w, a, b), w[b])
<1>1. PICK f : Runs(f, w, a, a) /\ OpenIn(w, a, a) = f[a]
  BY OpenInRun
<1>2. OpenIn(w, a, a) = <<>>
  <2>1. a \in a..a
    OBVIOUS
  <2>2. QED
    BY <1>1, <2>1 DEF Runs
<1>3. PICK g : Runs(g, w, a, b) /\ OpenIn(w, a, b) = g[b]
  BY OpenInRun
<1>4. a <= b + 1 /\ b + 1 \in Nat /\ b + 1 \in a..b + 1 /\ b + 1 # a /\ b \in a..b /\ b <= b + 1
  OBVIOUS
<1>5. PICK h : Runs(h, w, a, b + 1) /\ OpenIn(w, a, b + 1) = h[b + 1]
  BY <1>4, OpenInRun
<1>6. h[b + 1] = Turn(h[b], w[b])
  <2>1. b + 1 - 1 = b
    OBVIOUS
  <2>2. h[b + 1] = IF b + 1 = a THEN <<>> ELSE Turn(h[b + 1 - 1], w[b + 1 - 1])
    BY <1>4, <1>5 DEF Runs
  <2>3. QED
    BY <1>4, <2>1, <2>2
<1>7. g[b] = h[b]
  <2>1. b + 1 \in Nat /\ b <= b + 1 /\ Agree(w, w, a, b)
    BY <1>4 DEF Agree
  <2>2. QED
    BY <1>3, <1>4, <1>5, <2>1, RunsAgree
<1>8. QED
  BY <1>2, <1>3, <1>5, <1>6, <1>7

(* What is open depends on the tokens of the stretch alone.                   *)
LEMMA OpenInAgree ==
  ASSUME NEW w, NEW v, NEW a \in Nat, NEW b \in Nat, a <= b, \A k \in a..b - 1 : w[k] = v[k]
  PROVE  OpenIn(w, a, b) = OpenIn(v, a, b)
<1>1. PICK f : Runs(f, w, a, b) /\ OpenIn(w, a, b) = f[b]
  BY OpenInRun
<1>2. PICK g : Runs(g, v, a, b) /\ OpenIn(v, a, b) = g[b]
  BY OpenInRun
<1>3. Agree(w, v, a, b)
  BY DEF Agree
<1>4. QED
  BY <1>1, <1>2, <1>3, RunsAgree

(* Brackets that were open before stay so, below those opened since.          *)
LEMMA TurnBelow ==
  ASSUME NEW x \in Seq(Openers), NEW y \in Seq(Openers), NEW t, Turn(y, t) # Crossed
  PROVE  Turn(y, t) \in Seq(Openers) /\ Turn(x \o y, t) = x \o Turn(y, t)
<1> DEFINE z == x \o y
<1>1. z \in Seq(Openers) /\ Len(z) = Len(x) + Len(y) /\ Len(x) \in Nat /\ Len(y) \in Nat
      /\ \A i \in 1..Len(x) + Len(y) : z[i] = IF i <= Len(x) THEN x[i] ELSE y[i - Len(x)]
  BY ConcatProperties
<1> HIDE DEF z
<1>2. \A s \in Seq(Openers) : s # Crossed
  <2>1. SUFFICES ASSUME NEW s \in Seq(Openers), s = Crossed  PROVE FALSE
    OBVIOUS
  <2>2. Len(s) = 1 /\ s[1] = "?"
    BY <2>1 DEF Crossed
  <2>3. "?" \in Openers
    <3>1. 1 \in 1..Len(s) /\ \A i \in 1..Len(s) : s[i] \in Openers
      <4>1. \A i \in 1..Len(s) : s[i] \in Openers
        OBVIOUS
      <4>2. 1 \in 1..Len(s)
        BY <2>2
      <4>3. QED
        BY <4>1, <4>2
    <3>2. QED
      BY <2>2, <3>1
  <2>4. QED
    BY Zenon, <2>3 DEF Openers
<1>3. y # Crossed /\ z # Crossed
  BY <1>1, <1>2
<1>4. CASE t \in Openers
  <2>1. Turn(y, t) = Append(y, t) /\ Turn(z, t) = Append(z, t)
    BY <1>3, <1>4 DEF Turn
  <2>2. Append(z, t) = x \o Append(y, t)
    <3> DEFINE u == Append(y, t)
               v == x \o u
               q == Append(z, t)
    <3>1. u \in Seq(Openers) /\ Len(u) = Len(y) + 1 /\ u[Len(y) + 1] = t
          /\ \A i \in 1..Len(y) : u[i] = y[i]
      BY <1>4
    <3> HIDE DEF u
    <3>2. v \in Seq(Openers) /\ Len(v) = Len(x) + Len(u)
          /\ \A i \in 1..Len(x) + Len(u) : v[i] = IF i <= Len(x) THEN x[i] ELSE u[i - Len(x)]
      BY <3>1, ConcatProperties
    <3> HIDE DEF v
    <3>3. q \in Seq(Openers) /\ Len(q) = Len(z) + 1 /\ q[Len(z) + 1] = t
          /\ \A i \in 1..Len(z) : q[i] = z[i]
      BY <1>1, <1>4
    <3> HIDE DEF q
    <3>4. Len(v) = Len(q)
      BY <1>1, <3>1, <3>2, <3>3
    <3>5. ASSUME NEW i \in 1..Len(v)  PROVE v[i] = q[i]
      <4>1. CASE i = Len(x) + Len(y) + 1
        BY <1>1, <3>1, <3>2, <3>3, <4>1
      <4>2. CASE i # Len(x) + Len(y) + 1
        <5>1. i \in 1..Len(x) + Len(y) /\ i \in 1..Len(z) /\ i \in 1..Len(x) + Len(u)
          BY <1>1, <3>1, <3>2, <4>2
        <5>2. i > Len(x) => i - Len(x) \in 1..Len(y)
          BY <1>1, <5>1
        <5>3. q[i] = z[i] /\ z[i] = (IF i <= Len(x) THEN x[i] ELSE y[i - Len(x)])
          BY <1>1, <3>3, <5>1
        <5>4. v[i] = IF i <= Len(x) THEN x[i] ELSE u[i - Len(x)]
          BY <3>2, <5>1
        <5>5. i > Len(x) => u[i - Len(x)] = y[i - Len(x)]
          BY <3>1, <5>2
        <5>6. i <= Len(x) \/ i > Len(x)
          BY <1>1, <5>1
        <5>7. QED
          BY <5>3, <5>4, <5>5, <5>6
      <4>3. QED
        BY <4>1, <4>2
    <3>6. v = q
      BY <3>2, <3>3, <3>4, <3>5, SeqEqual
    <3>7. QED
      BY <3>6 DEF v, u, q
  <2>3. QED
    BY <1>4, <2>1, <2>2 DEF z
<1>5. CASE t \notin Openers /\ t \notin DOMAIN Opening
  BY <1>3, <1>5 DEF Turn, z
<1>6. CASE t \notin Openers /\ t \in DOMAIN Opening
  <2>1. y # <<>> /\ y[Len(y)] = Opening[t] /\ Turn(y, t) = SubSeq(y, 1, Len(y) - 1)
    BY <1>3, <1>6 DEF Turn
  <2>2. PICK n \in Nat : Len(y) = n + 1
    <3>1. Len(y) \in Nat \ {0}
      BY <1>1, <2>1
    <3>2. QED
      BY <3>1
  <2>3. z[Len(z)] = y[Len(y)] /\ z # <<>>
    <3>1. Len(z) \in 1..Len(x) + Len(y) /\ ~(Len(z) <= Len(x)) /\ Len(z) - Len(x) = Len(y)
      BY <1>1, <2>2
    <3>2. QED
      BY <1>1, <3>1
  <2>4. Turn(z, t) = SubSeq(z, 1, Len(z) - 1)
    BY <1>3, <1>6, <2>1, <2>3 DEF Turn
  <2>5. SubSeq(z, 1, Len(z) - 1) = x \o SubSeq(y, 1, Len(y) - 1)
        /\ SubSeq(y, 1, Len(y) - 1) \in Seq(Openers)
    <3> DEFINE k == Len(x)
               u == SubSeq(y, 1, n)
               v == x \o u
               q == SubSeq(z, 1, k + n)
    <3>1. u \in Seq(Openers) /\ Len(u) = n /\ \A i \in 1..n : u[i] = y[i]
      BY <2>2
    <3> HIDE DEF u
    <3>2. v \in Seq(Openers) /\ Len(v) = k + n
          /\ \A i \in 1..k + n : v[i] = IF i <= k THEN x[i] ELSE u[i - k]
      BY <3>1, ConcatProperties
    <3> HIDE DEF v
    <3>3. q \in Seq(Openers) /\ Len(q) = k + n /\ \A i \in 1..k + n : q[i] = z[i]
      <4>1. k + n \in 0..Len(z)
        BY <1>1, <2>2
      <4>2. QED
        BY <1>1, <4>1
    <3> HIDE DEF q
    <3>4. ASSUME NEW i \in 1..k + n  PROVE v[i] = q[i]
      <4>1. i \in 1..k + Len(y) /\ (i > k => i - k \in 1..n)
        BY <1>1, <2>2
      <4>2. i \in 1..k + n
        OBVIOUS
      <4>3. q[i] = z[i] /\ z[i] = (IF i <= k THEN x[i] ELSE y[i - k])
        BY <1>1, <3>3, <4>1, <4>2
      <4>4. v[i] = IF i <= k THEN x[i] ELSE u[i - k]
        BY <3>2, <4>2
      <4>5. i > k => u[i - k] = y[i - k]
        BY <3>1, <4>1
      <4>6. i <= k \/ i > k
        BY <1>1
      <4>7. QED
        BY <4>3, <4>4, <4>5, <4>6
    <3>5. v = q
      BY <3>2, <3>3, <3>4, SeqEqual
    <3>6. Len(z) - 1 = k + n /\ Len(y) - 1 = n
      BY <1>1, <2>2
    <3>7. QED
      BY <3>1, <3>5, <3>6 DEF v, u, q
  <2>6. QED
    BY <2>1, <2>4, <2>5 DEF z
<1>7. QED
  BY <1>4, <1>5, <1>6

(* What a balanced stretch follows stays open behind it.                      *)
LEMMA OpenInJoins ==
  ASSUME NEW w, NEW a \in Nat, NEW b \in Nat, NEW c \in Nat, a <= b, b <= c,
         OpenIn(w, a, b) \in Seq(Openers), OpenIn(w, b, c) = <<>>
  PROVE  OpenIn(w, a, c) = OpenIn(w, a, b)
<1> DEFINE x == OpenIn(w, a, b)
           Joined(n) == OpenIn(w, b, n) \in Seq(Openers) /\ OpenIn(w, a, n) = x \o OpenIn(w, b, n)
           Apart == {n \in Nat : n \in b..c /\ OpenIn(w, b, n) # Crossed /\ ~Joined(n)}
<1>1. x \o <<>> = x /\ <<>> \in Seq(Openers) /\ <<>> # Crossed
  BY EmptySeq, ConcatEmptySeq DEF Crossed
<1>2. Apart = {}
  <2>1. SUFFICES ASSUME Apart # {}  PROVE FALSE
    OBVIOUS
  <2>2. PICK m \in Apart : \A n \in Apart : m <= n
    BY <2>1, LeastNatural
  <2>3. m \in b..c /\ m \in Nat /\ OpenIn(w, b, m) # Crossed /\ ~Joined(m)
    BY <2>2
  <2>4. m # b
    <3>1. OpenIn(w, b, b) = <<>>
      BY OpenInSteps
    <3>2. Joined(b)
      BY <1>1, <3>1
    <3>3. QED
      BY <2>3, <3>2
  <2>5. PICK k \in Nat : m = k + 1 /\ k \in b..c /\ b <= k /\ a <= k
    <3>1. m - 1 \in Nat /\ m = m - 1 + 1 /\ m - 1 \in b..c /\ b <= m - 1 /\ a <= m - 1
      BY <2>3, <2>4
    <3>2. QED
      BY <3>1
  <2>6. OpenIn(w, b, m) = Turn(OpenIn(w, b, k), w[k]) /\ OpenIn(w, a, m) = Turn(OpenIn(w, a, k), w[k])
    BY <2>5, OpenInSteps
  <2>7. OpenIn(w, b, k) # Crossed
    BY <2>3, <2>6 DEF Turn
  <2>8. Joined(k)
    <3>1. k \notin Apart
      BY <2>2, <2>5
    <3>2. QED
      BY <2>5, <2>7, <3>1
  <2> HIDE DEF x
  <2>9. Joined(m)
    <3> DEFINE y == OpenIn(w, b, k)
    <3>1. x \in Seq(Openers) /\ y \in Seq(Openers) /\ Turn(y, w[k]) # Crossed
      BY <2>3, <2>6, <2>8 DEF x
    <3> HIDE DEF y
    <3>2. Turn(y, w[k]) \in Seq(Openers) /\ Turn(x \o y, w[k]) = x \o Turn(y, w[k])
      BY <3>1, TurnBelow
    <3>3. QED
      BY <2>6, <2>8, <3>2 DEF y
  <2>10. QED
    BY <2>3, <2>9
<1>3. c \in b..c
  OBVIOUS
<1>4. Joined(c)
  BY <1>1, <1>2, <1>3
<1>5. QED
  BY <1>1, <1>4

-------------------------------------------------------------------------------
(* The forms of the steps, as far as the brackets go.                         *)

\* f is the function on top, but r and at its move p
As(f, r, p) == f.fn = r /\ f.pc = p /\ f.start = Top.start /\ f.by = Top.by
Paren(f)    == "paren" \in f.tags

(* What a move that is passed, the cursor going to c, has found.              *)
Found(c) ==
  LET m == Move IN
    /\ m.op \notin Sure \cup {"try", "switch", "ret", "yield"}
    /\ m.op \in {"tok", "look"} => Here \in m.on
    /\ m.op \in {"refuse", "skips", "opt", "while", "elses", "params"} => Here \notin m.on
    /\ m.op \in {"repeat", "pick", "bounded"} => Chosen(m) = {}
    /\ m.op = "else" => Top.node.kind # "None"
    /\ m.op = "braces" => cur > 2 /\ toks[cur - 2] \in Names
    /\ m.op = "tok" => c = cur + 1
    /\ m.op \in {"skip", "list"} => c = IF Here \in m.on THEN cur + 1 ELSE cur
    /\ m.op = "scope" => c = cur \/ (c = cur + 1 /\ Here = "::")
    /\ m.op = "close" => IF Paren(Top) THEN c = cur + 1 /\ Here = ")" ELSE c = cur
    /\ m.op = "scan" => c \in cur + 1..Len(toks) /\ toks[c] = "fn"
    /\ m.op \notin {"tok", "skip", "list", "scope", "close", "scan"} => c = cur

(* The function on top passes a move, stays at one, gives way to another, or  *)
(* calls one.                                                                 *)
Passes(f, c) ==
  /\ As(f, Top.fn, Top.pc + 1)
  /\ Paren(f) <=> Paren(Top) \/ (NotesIt(Move) /\ Here \in Move.on)
  /\ Found(c)
  /\ Goes(f, c)
Remains(f, c) ==
  /\ As(f, Top.fn, Top.pc)
  /\ Paren(f) <=> Paren(Top)
  /\ \/ Move.op = "skips" /\ Here \in Move.on /\ c = cur + 1
     \/ Move.op = "bounded" /\ c = cur
     \/ Move.op = "collect" /\ Here \in Modifiers /\ c = cur + 1
     \/ Move.op = "scope" /\ Here = "::" /\ Ahead(1) \in Names /\ c = cur + 2
  /\ Goes(f, c)
GivesWay(f, r) ==
  /\ As(f, r, 1)
  /\ Paren(f) <=> Paren(Top)
  /\ r \in Leaves(Move) /\ (Move.op \in {"switch", "pick"} => r \in Chosen(Move))
  /\ Goes(f, cur)
Asking(r, c) ==
  \/ Move.op \in Sure \cup {"try"} /\ r = Move.fn /\ c = cur
  \/ Move.op \in {"opt", "while", "elses"} /\ r = Move.fn /\ Here \in Move.on /\ c = cur
  \/ Move.op = "else" /\ r = Move.fn /\ Top.node.kind = "None" /\ c = cur
  \/ Move.op \in {"list", "params"} /\ r = Move.fn /\ Here \in Move.on /\ c = cur + 1
  \/ Move.op = "scope" /\ r = Move.fn /\ Here = "::" /\ c = cur + 1
  \/ Move.op \in {"repeat", "bounded"} /\ r \in Chosen(Move) /\ c = cur
     /\ (Move.op = "bounded" => r # Spin)
Puts(f, r, n, c) ==
  /\ f \in Frames /\ r \in Rules /\ n \in Nodes
  /\ As(f, Top.fn, Top.pc)
  /\ Paren(f) <=> Paren(Top)
  /\ Asking(r, c)
  /\ Calls(f, c, Move, r, n)
Splits ==
  /\ Move.op = "split" /\ Here = ">>"
  /\ toks' = SubSeq(toks, 1, cur - 1) \o <<">", ">">> \o SubSeq(toks, cur + 1, Len(toks))
  /\ stack' = [stack EXCEPT ![Len(stack)] = Done(Top)]
  /\ UNCHANGED <<cur, status>>

(* What a step comes to.                                                      *)
Forms ==
  \/ \E f : Passes(f, cur')
  \/ \E f : Remains(f, cur')
  \/ \E f, r : GivesWay(f, r)
  \/ \E f, r, n : Puts(f, r, n, cur')
  \/ \E why \in {"error", "toolong"} : Fails(why, cur', stack)
  \/ Returns2(Move) /\ \E n \in Nodes : Returns1(n)
  \/ Splits
  \/ toks' = toks /\ status' \notin {"run", "done", "thrown"}

(* What the frames are like that the actions make of the function on top.     *)
LEMMA LikeTop ==
  ASSUME IInv
  PROVE  /\ As(Top, Top.fn, Top.pc) /\ As(Done(Top), Top.fn, Top.pc + 1)
         /\ Paren(Done(Top)) <=> Paren(Top)
         /\ \A r : As(Become(Top, r), r, 1) /\ (Paren(Become(Top, r)) <=> Paren(Top))
         /\ \A t \in Words :
              /\ Marked(Top, t) \in Frames /\ As(Marked(Top, t), Top.fn, Top.pc)
              /\ Paren(Marked(Top, t)) <=> Paren(Top) \/ t = "paren"
              /\ As(Done(Marked(Top, t)), Top.fn, Top.pc + 1)
              /\ Paren(Done(Marked(Top, t))) <=> Paren(Top) \/ t = "paren"
              /\ As(Marked(Done(Top), t), Top.fn, Top.pc + 1)
              /\ Paren(Marked(Done(Top), t)) <=> Paren(Top) \/ t = "paren"
<1>1. Top \in Frames
  BY TopFacts
<1>2. As(Top, Top.fn, Top.pc)
  BY DEF As
<1>3. As(Done(Top), Top.fn, Top.pc + 1) /\ (Paren(Done(Top)) <=> Paren(Top))
  BY <1>1 DEF As, Paren, Done, Frames
<1>4. ASSUME NEW r  PROVE As(Become(Top, r), r, 1) /\ (Paren(Become(Top, r)) <=> Paren(Top))
  BY <1>1 DEF As, Paren, Become, Frames
<1>5. ASSUME NEW t \in Words
      PROVE  /\ Marked(Top, t) \in Frames /\ As(Marked(Top, t), Top.fn, Top.pc)
             /\ Paren(Marked(Top, t)) <=> Paren(Top) \/ t = "paren"
  BY <1>1 DEF As, Paren, Marked, Frames
<1>6. ASSUME NEW t \in Words
      PROVE  /\ As(Done(Marked(Top, t)), Top.fn, Top.pc + 1)
             /\ Paren(Done(Marked(Top, t))) <=> Paren(Top) \/ t = "paren"
  BY <1>1 DEF As, Paren, Done, Marked, Frames
<1>7. ASSUME NEW t \in Words
      PROVE  /\ As(Marked(Done(Top), t), Top.fn, Top.pc + 1)
             /\ Paren(Marked(Done(Top), t)) <=> Paren(Top) \/ t = "paren"
  BY <1>1 DEF As, Paren, Done, Marked, Frames
<1>8. QED
  BY <1>2, <1>3, <1>4, <1>5, <1>6, <1>7

\* the ways the actions write them
LEMMA PassForms ==
  ASSUME IInv, NEW c, Found(c), ~NotesIt(Move) \/ Here \notin Move.on
  PROVE  /\ Goes(Done(Top), c) => Forms
         /\ \A t \in Words \ {"paren"} : Goes(Done(Marked(Top, t)), c) => Forms
<1>1. ASSUME NEW f, As(f, Top.fn, Top.pc + 1), Paren(f) <=> Paren(Top), Goes(f, c)  PROVE Forms
  BY <1>1 DEF Forms, Passes, Goes
<1>2. QED
  BY <1>1, LikeTop

(* The ways the actions write a call,                                         *)
LEMMA CallForms ==
  ASSUME IInv, NEW c, NEW r \in Rules, NEW n \in Nodes, Asking(r, c)
  PROVE  /\ Calls(Top, c, Move, r, n) => Forms
         /\ \A t \in Words \ {"paren"} : Calls(Marked(Top, t), c, Move, r, n) => Forms
<1>1. ASSUME NEW f \in Frames, As(f, Top.fn, Top.pc), Paren(f) <=> Paren(Top), Calls(f, c, Move, r, n)
      PROVE  Forms
  <2>1. cur' = c
    BY <1>1 DEF Calls, Fails
  <2>2. QED
    BY <1>1, <2>1 DEF Forms, Puts
<1>2. Top \in Frames
  BY TopFacts
<1>3. QED
  BY <1>1, <1>2, LikeTop

(* the end of a parse that is not a return,                                   *)
LEMMA FailForms ==
  Refuses \/ StepsOver \/ Fails("toolong", cur, stack) \/ (\E why : Stops(why, cur) /\ why \notin {"run", "done", "thrown"}) => Forms
<1>1. ASSUME NEW c, NEW why \in {"error", "toolong"}, Fails(why, c, stack)  PROVE Forms
  BY <1>1 DEF Forms, Fails
<1>2. ASSUME NEW why, Stops(why, cur), why \notin {"run", "done", "thrown"}  PROVE Forms
  BY <1>2 DEF Forms, Stops
<1>3. QED
  BY <1>1, <1>2 DEF Refuses, StepsOver

(* a function that gives way to another,                                      *)
LEMMA WayForms ==
  ASSUME IInv, NEW r \in Leaves(Move), Move.op \in {"switch", "pick"} => r \in Chosen(Move),
         NEW f, As(f, r, 1), Paren(f) <=> Paren(Top), Goes(f, cur)
  PROVE  Forms
BY DEF Forms, GivesWay

(* and one that stays at its move.                                            *)
LEMMA StayForms ==
  ASSUME IInv, NEW f, As(f, Top.fn, Top.pc), Paren(f) <=> Paren(Top), NEW c, Goes(f, c),
         \/ Move.op = "skips" /\ Here \in Move.on /\ c = cur + 1
         \/ Move.op = "bounded" /\ c = cur
         \/ Move.op = "collect" /\ Here \in Modifiers /\ c = cur + 1
         \/ Move.op = "scope" /\ Here = "::" /\ Ahead(1) \in Names /\ c = cur + 2
  PROVE  Forms
<1>1. cur' = c
  BY DEF Goes
<1>2. Remains(f, cur')
  BY <1>1 DEF Remains
<1>3. QED
  BY <1>2 DEF Forms

(* Every step of a running parse has one of the forms: one step here for      *)
(* each action of Next.                                                       *)
LEMMA StepForms ==
  ASSUME IInv, Next, status = "run"
  PROVE  Forms
<1>1. /\ cur \in Nat /\ Len(toks) \in Nat /\ Top \in Frames /\ NoNode \in Nodes /\ Top.node \in Nodes
      /\ {"keyword", "plain", "path"} \subseteq Words \ {"paren"}
  BY TopFacts, NodeFacts DEF IInv, Words
<1>2. CASE TakeToken \/ LookAtToken \/ SkipToken
  <2>1. /\ Move.op \in {"tok", "look", "skip"}
        /\ \/ StepsOver
           \/ \E c : Goes(Done(Top), c) /\ Found(c)
    <3>1. CASE TakeToken
      BY <3>1 DEF TakeToken, AtHand, Found, Sure
    <3>2. CASE LookAtToken
      BY <3>2 DEF LookAtToken, AtHand, Found, Sure, Proceeds
    <3>3. CASE SkipToken
      BY <3>3 DEF SkipToken, AtHand, Found, Sure
    <3>4. QED
      BY <1>2, <3>1, <3>2, <3>3
  <2>2. ~NotesIt(Move)
    BY <2>1 DEF NotesIt
  <2>3. QED
    BY <2>1, <2>2, FailForms, PassForms
<1>3. CASE SkipTokens
  <2>1. Move.op = "skips"
    BY <1>3 DEF SkipTokens, AtHand
  <2>2. CASE Here \in Move.on
    <3>1. Goes(Top, cur + 1)
      BY <1>3, <2>2 DEF SkipTokens, AtHand
    <3>2. QED
      BY <2>1, <2>2, <3>1, LikeTop, StayForms
  <2>3. CASE Here \notin Move.on
    <3>1. Goes(Done(Top), cur)
      BY <1>3, <2>3 DEF SkipTokens, AtHand, Proceeds
    <3>2. Found(cur)
      BY <2>1, <2>3 DEF Found, Sure
    <3>3. QED
      BY <2>3, <3>1, <3>2, PassForms
  <2>4. QED
    BY <2>2, <2>3
<1>4. CASE NoteToken
  <2>1. Move.op = "note" /\ Goes(IF Here \in Move.on THEN Marked(Done(Top), Move.fn) ELSE Done(Top), cur)
    BY <1>4 DEF NoteToken, AtHand
  <2>2. Found(cur)
    BY <2>1 DEF Found, Sure
  <2>3. Move.fn \in Words
    BY NodeFacts
  <2>4. CASE Here \in Move.on
    <3>1. Goes(Marked(Done(Top), Move.fn), cur)
      BY <2>1, <2>4
    <3>2. As(Marked(Done(Top), Move.fn), Top.fn, Top.pc + 1)
          /\ (Paren(Marked(Done(Top), Move.fn)) <=> Paren(Top) \/ NotesIt(Move))
      BY <2>1, <2>3, LikeTop DEF NotesIt
    <3>3. Passes(Marked(Done(Top), Move.fn), cur')
      BY <2>2, <2>4, <3>1, <3>2 DEF Passes, Goes
    <3>4. QED
      BY <3>3 DEF Forms
  <2>5. CASE Here \notin Move.on
    BY <2>1, <2>2, <2>5, PassForms
  <2>6. QED
    BY <2>4, <2>5
<1>5. CASE CallOther \/ CallOptional \/ CallInstead \/ CallWhile \/ CallInList
  <2>1. Move.op \in {"call", "also", "try", "unchecked", "opt", "else", "while", "list"}
    BY <1>5 DEF CallOther, CallOptional, CallInstead, CallWhile, CallInList, AtHand
  <2>2. \/ \E c : Goes(Done(Top), c) /\ Found(c)
        \/ \E c : /\ Asking(Move.fn, c)
                  /\ Calls(Top, c, Move, Move.fn, NoNode) \/ Calls(Top, c, Move, Move.fn, Top.node)
    <3>1. CASE CallOther
      BY <2>1, <3>1 DEF CallOther, AtHand, Asking, Found, Sure, Proceeds
    <3>2. CASE CallOptional
      BY <2>1, <3>2 DEF CallOptional, AtHand, Asking, Found, Sure, Proceeds
    <3>3. CASE CallInstead
      BY <2>1, <3>3 DEF CallInstead, AtHand, Asking, Found, Sure, Proceeds
    <3>4. CASE CallWhile
      BY <2>1, <3>4 DEF CallWhile, AtHand, Asking, Found, Sure, Proceeds
    <3>5. CASE CallInList
      BY <2>1, <3>5 DEF CallInList, AtHand, Asking, Found, Sure, Proceeds
    <3>6. QED
      BY <1>5, <3>1, <3>2, <3>3, <3>4, <3>5
  <2>3. Move.fn \in Rules /\ ~NotesIt(Move)
    BY <2>1, MoveFacts DEF NotesIt
  <2>4. QED
    BY <1>1, <2>2, <2>3, PassForms, CallForms
<1>6. CASE CallInParams \/ CallInElses
  <2>1. Move.op \in {"params", "elses"}
    BY <1>6 DEF CallInParams, CallInElses, AtHand
  <2>2. \/ Refuses
        \/ /\ Found(cur)
           /\ Goes(Done(Top), cur) \/ \E t \in {"keyword", "plain"} : Goes(Done(Marked(Top, t)), cur)
        \/ \E c : /\ Asking(Move.fn, c)
                  /\ \/ Calls(Top, c, Move, Move.fn, NoNode)
                     \/ \E t \in {"keyword", "plain"} : Calls(Marked(Top, t), c, Move, Move.fn, NoNode)
    <3>1. CASE CallInParams
      BY <3>1 DEF CallInParams, AtHand, Asking, Found, Sure
    <3>2. CASE CallInElses
      BY <3>2 DEF CallInElses, AtHand, Asking, Found, Sure
    <3>3. QED
      BY <1>6, <3>1, <3>2
  <2>3. Move.fn \in Rules /\ ~NotesIt(Move)
    BY <2>1, MoveFacts DEF NotesIt
  <2>4. QED
    BY <1>1, <2>2, <2>3, PassForms, CallForms, FailForms
<1>7. CASE SwitchOn \/ PickOne \/ RepeatOne
  <2>1. Move.op \in {"switch", "pick", "repeat"}
    BY <1>7 DEF SwitchOn, PickOne, RepeatOne, AtHand
  <2>2. \/ Refuses
        \/ Goes(Done(Top), cur) /\ Found(cur)
        \/ Move.op \in {"switch", "pick"} /\ \E r \in Chosen(Move) : Goes(Become(Top, r), cur)
        \/ \E r \in Chosen(Move) : Asking(r, cur) /\ Calls(Top, cur, Move, r, Top.node)
    <3>1. CASE SwitchOn
      BY <3>1 DEF SwitchOn, AtHand
    <3>2. CASE PickOne
      BY <3>2 DEF PickOne, AtHand, Found, Sure, Proceeds
    <3>3. CASE RepeatOne
      BY <3>3 DEF RepeatOne, AtHand, Asking, Found, Sure, Proceeds
    <3>4. QED
      BY <1>7, <3>1, <3>2, <3>3
  <2>3. ~NotesIt(Move) /\ \A r \in Chosen(Move) : r \in Rules
    BY <2>1, ChosenFacts DEF NotesIt
  <2>4. CASE Move.op \in {"switch", "pick"} /\ \E r \in Chosen(Move) : Goes(Become(Top, r), cur)
    <3>1. PICK r \in Chosen(Move) : Goes(Become(Top, r), cur)
      BY <2>4
    <3>2. r \in Leaves(Move)
      BY <2>4, <3>1 DEF Leaves, Targets, Chosen
    <3>3. QED
      BY <3>1, <3>2, LikeTop, WayForms
  <2>5. QED
    BY <1>1, <2>2, <2>3, <2>4, PassForms, CallForms, FailForms
<1>8. CASE CountedOne
  <2> DEFINE f == [Top EXCEPT !.fuel = @ - 1]
  <2>1. Move.op = "bounded"
    BY <1>8 DEF CountedOne, AtHand
  <2>2. \/ Fails("toolong", cur, stack)
        \/ Chosen(Move) = {} /\ Goes(Done(f), cur)
        \/ Spin \in Chosen(Move) /\ Goes(f, cur)
        \/ Top.fuel # 0 /\ Spin \notin Chosen(Move) /\ \E r \in Chosen(Move) : Calls(f, cur, Move, r, Top.node)
    BY <1>8 DEF CountedOne, AtHand
  <2>3. /\ As(f, Top.fn, Top.pc) /\ (Paren(f) <=> Paren(Top))
        /\ As(Done(f), Top.fn, Top.pc + 1) /\ (Paren(Done(f)) <=> Paren(Top))
        /\ Top.fuel # 0 => f \in Frames
    BY <1>1 DEF As, Paren, Done, Frames
  <2> HIDE DEF f
  <2>4. CASE Chosen(Move) = {} /\ Goes(Done(f), cur)
    <3>1. Found(cur) /\ ~NotesIt(Move)
      BY <2>1, <2>4 DEF Found, Sure, NotesIt
    <3>2. Passes(Done(f), cur')
      BY <2>3, <2>4, <3>1 DEF Passes, Goes
    <3>3. QED
      BY <3>2 DEF Forms
  <2>5. CASE Spin \in Chosen(Move) /\ Goes(f, cur)
    BY <2>1, <2>3, <2>5, StayForms
  <2>6. CASE Top.fuel # 0 /\ Spin \notin Chosen(Move) /\ \E r \in Chosen(Move) : Calls(f, cur, Move, r, Top.node)
    <3>1. PICK r \in Chosen(Move) : Calls(f, cur, Move, r, Top.node)
      BY <2>6
    <3>2. r \in Rules /\ Asking(r, cur)
      BY <2>1, <2>6, <3>1, ChosenFacts DEF Asking
    <3>3. cur' = cur
      BY <3>1 DEF Calls, Fails
    <3>4. Puts(f, r, Top.node, cur')
      BY <1>1, <2>3, <2>6, <3>1, <3>2, <3>3 DEF Puts
    <3>5. QED
      BY <3>4 DEF Forms
  <2>7. QED
    BY <2>2, <2>4, <2>5, <2>6, FailForms
<1>9. CASE ReturnNode \/ YieldNode
  <2>1. /\ Returns2(Move)
        /\ Returns1(Node(Move.fn, Top.tags)) \/ Returns1(Top.node)
    BY <1>9 DEF ReturnNode, YieldNode, AtHand, Returns2
  <2>2. QED
    BY <2>1, NodeFacts DEF Forms
<1>10. CASE CheckOne \/ FollowNode \/ ParseElements \/ AskProcessor \/ LookBehind \/ SplitAngles
  <2>1. /\ Move.op \in Checks \cup {"deref", "elements", "processor", "braces", "split"}
        /\ \/ Refuses \/ Splits
           \/ Stops("crash", cur) \/ Stops("wild", cur)
           \/ Goes(Done(Top), cur) /\ Found(cur)
    <3>1. CASE CheckOne
      BY <3>1 DEF CheckOne, AtHand, Checks, Found, Sure, Proceeds, Holds
    <3>2. CASE FollowNode \/ ParseElements \/ AskProcessor
      BY <3>2 DEF FollowNode, ParseElements, AskProcessor, AtHand, Found, Sure, Proceeds
    <3>3. CASE LookBehind
      BY <1>1, <3>3 DEF LookBehind, AtHand, Found, Sure, Proceeds
    <3>4. CASE SplitAngles
      BY <3>4 DEF SplitAngles, Splits, AtHand, Found, Sure, Proceeds
    <3>5. QED
      BY <1>10, <3>1, <3>2, <3>3, <3>4
  <2>2. ~NotesIt(Move)
    BY <2>1 DEF NotesIt, Checks
  <2>3. QED
    BY <2>1, <2>2, FailForms, PassForms DEF Forms
<1>11. CASE CollectModifiers
  <2> DEFINE f == [Top EXCEPT !.mods = Append(@, Here)]
  <2>1. Move.op = "collect" /\ ((Here \in Modifiers /\ Goes(f, cur + 1)) \/ Goes(Done(Top), cur))
    BY <1>11 DEF CollectModifiers, AtHand, Proceeds
  <2>2. As(f, Top.fn, Top.pc) /\ (Paren(f) <=> Paren(Top))
    <3> DEFINE more == Append(Top.mods, Here)
    <3> HIDE DEF more
    <3>1. f = [Top EXCEPT !.mods = more]
      BY DEF more
    <3>2. QED
      BY <1>1, <3>1 DEF As, Paren, Frames
  <2> HIDE DEF f
  <2>3. Found(cur) /\ ~NotesIt(Move)
    BY <2>1 DEF Found, Sure, NotesIt
  <2>4. QED
    BY <2>1, <2>2, <2>3, StayForms, PassForms
<1>12. CASE ConstOrNot
  <2>1. /\ Move.op = "const"
        /\ \/ Goes(Done(Top), cur)
           \/ \E n \in 1..Len(Top.mods) :
                Goes([Become(Top, Move.fn) EXCEPT
                        !.mods = SubSeq(@, 1, n - 1) \o SubSeq(@, n + 1, Len(@))], cur)
    BY <1>12 DEF ConstOrNot, AtHand, Proceeds
  <2>2. ASSUME NEW mods, Goes([Become(Top, Move.fn) EXCEPT !.mods = mods], cur)
        PROVE  Forms
    <3> DEFINE f == [Become(Top, Move.fn) EXCEPT !.mods = mods]
    <3>1. As(f, Move.fn, 1) /\ (Paren(f) <=> Paren(Top))
      BY <1>1 DEF As, Paren, Become, Frames
    <3>2. Goes(f, cur)
      BY <2>2
    <3> HIDE DEF f
    <3>3. Move.fn \in Leaves(Move) /\ Move.op \notin {"switch", "pick"}
      BY <2>1 DEF Leaves
    <3>4. QED
      BY <3>1, <3>2, <3>3, WayForms
  <2>3. Found(cur) /\ ~NotesIt(Move)
    BY <2>1 DEF Found, Sure, NotesIt
  <2>4. QED
    BY <2>1, <2>2, <2>3, PassForms
<1>13. CASE ScopeStep
  <2>1. Move.op = "scope"
    BY <1>13 DEF ScopeStep, AtHand
  <2>2. \/ Stops("crash", cur)
        \/ \E c : Goes(Done(Top), c) /\ Found(c)
        \/ Here = "::" /\ Ahead(1) \in Names /\ Goes(Marked(Top, "path"), cur + 2)
        \/ Asking(Move.fn, cur + 1) /\ Calls(Top, cur + 1, Move, Move.fn, NoNode)
    BY <1>13 DEF ScopeStep, AtHand, Found, Asking, Sure, Proceeds
  <2>3. Move.fn \in Rules /\ ~NotesIt(Move)
    BY <2>1, MoveFacts DEF NotesIt
  <2>4. Here = "::" /\ Ahead(1) \in Names /\ Goes(Marked(Top, "path"), cur + 2) => Forms
    <3> DEFINE f == Marked(Top, "path")
    <3>1. As(f, Top.fn, Top.pc) /\ (Paren(f) <=> Paren(Top))
      BY <1>1, LikeTop
    <3> HIDE DEF f
    <3>2. Here = "::" /\ Ahead(1) \in Names /\ Goes(f, cur + 2) => Forms
      BY <2>1, <3>1, StayForms
    <3>3. QED
      BY <3>2 DEF f
  <2>5. QED
    BY <1>1, <2>2, <2>3, <2>4, PassForms, CallForms, FailForms
<1>14. CASE ScanForFn
  <2>1. Move.op = "scan" /\ (Stops("wild", cur) \/ \E n \in cur + 1..Len(toks) : toks[n] = "fn" /\ Goes(Done(Top), n))
    BY <1>14 DEF ScanForFn, AtHand
  <2>2. ASSUME NEW n \in cur + 1..Len(toks), toks[n] = "fn"  PROVE Found(n)
    BY <2>1, <2>2 DEF Found, Sure
  <2>3. ~NotesIt(Move)
    BY <2>1 DEF NotesIt
  <2>4. QED
    BY <2>1, <2>2, <2>3, PassForms, FailForms
<1>15. CASE CloseParen
  <2>1. Move.op = "close" /\ (Refuses \/ Stops("wild", cur) \/ \E c : Goes(Done(Top), c) /\ Found(c))
    BY <1>15 DEF CloseParen, AtHand, Found, Sure, Proceeds, Paren
  <2>2. ~NotesIt(Move)
    BY <2>1 DEF NotesIt
  <2>3. QED
    BY <2>1, <2>2, PassForms, FailForms
<1>16. ~Ended
  BY DEF Ended
<1>17. QED
  BY <1>2, <1>3, <1>4, <1>5, <1>6, <1>7, <1>8, <1>9, <1>10, <1>11, <1>12, <1>13, <1>14, <1>15,
     <1>16 DEF Next

\* g is f past its call of a function that failed
Missed(f, g) ==
  /\ Alike(f, g) /\ g.fn = f.fn /\ g.pc = f.pc + 1
  /\ g.node.kind = "None"

(* An error ends the parse, or leaves the stack to a function that goes on    *)
(* without the answer.                                                        *)
LEMMA FailsCuts ==
  ASSUME NEW frames \in Seq(Frames), frames # <<>>, frames[1].by = "entry", NEW why, why # "run",
         NEW d, Fails(why, d, frames), status = "run"
  PROVE  /\ cur' = d /\ toks' = toks /\ status' \in {"run", "thrown", why}
         /\ status' = "run" =>
              \E k \in 1..Len(frames) : \E g :
                k < Len(frames) /\ frames[k + 1].by = "try" /\ Cut(frames, k, g, stack') /\ Missed(frames[k], g)
<1>1. PICK last \in 0..Len(frames) :
        /\ cur' = d /\ toks' = toks
        /\ IF last # 0 /\ frames[last].by = "try"
           THEN /\ stack' = Append(SubSeq(frames, 1, last - 2),
                                   [Done(frames[last - 1]) EXCEPT !.node = NoNode])
                /\ status' = status
           ELSE status' = IF last # 0 THEN "thrown" ELSE why
  BY DEF Fails
<1>2. CASE last # 0 /\ frames[last].by = "try"
  <2>1. stack' = Append(SubSeq(frames, 1, last - 2), [Done(frames[last - 1]) EXCEPT !.node = NoNode])
    BY <1>1, <1>2
  <2> DEFINE k == last - 1
             f == frames[k]
             g == [Done(f) EXCEPT !.node = NoNode]
             front == SubSeq(frames, 1, last - 2)
  <2>2. last # 1
    BY <1>2
  <2>3. /\ last \in 2..Len(frames) /\ k \in 1..Len(frames) /\ k < Len(frames)
        /\ last - 2 \in 0..Len(frames) /\ k + 1 = last /\ k \in Nat \ {0} /\ Len(frames) \in Nat
    BY <1>2, <2>2
  <2>4. f \in Frames
    BY <2>3
  <2>5. Missed(f, g)
    <3> DEFINE h == Done(f)
    <3>1. h \in Frames /\ h.start = f.start /\ h.by = f.by /\ h.fuel = f.fuel
          /\ h.fn = f.fn /\ h.pc = f.pc + 1
      <4> HIDE DEF f
      <4>1. QED
        BY <2>4, DoneFacts DEF Done, Frames
    <3> HIDE DEF h
    <3>2. g = [h EXCEPT !.node = NoNode]
      BY DEF h
    <3>3. NoNode.kind = "None"
      BY DEF NoNode, Node
    <3> HIDE DEF f, g
    <3>4. QED
      BY <3>1, <3>2, <3>3 DEF Missed, Alike, Frames
  <2>6. front \in Seq(Frames) /\ Len(front) = last - 2
        /\ \A i \in 1..last - 2 : front[i] = frames[i]
    <3>1. PICK l \in 0..Len(frames) : l = last - 2
      BY <2>3
    <3>2. /\ SubSeq(frames, 1, l) \in Seq(Frames) /\ Len(SubSeq(frames, 1, l)) = l
          /\ \A i \in 1..l : SubSeq(frames, 1, l)[i] = frames[i]
      OBVIOUS
    <3>3. front = SubSeq(frames, 1, l)
      BY <3>1
    <3> HIDE DEF front
    <3>4. QED
      BY <3>1, <3>2, <3>3
  <2> HIDE DEF g, front
  <2>7. stack' = Append(front, g)
    BY <2>1 DEF front, g
  <2>8. /\ Len(stack') = k
        /\ \A i \in 1..k : stack'[i] = IF i = k THEN g ELSE frames[i]
    <3>1. PICK l \in Nat : l = last - 2 /\ k = l + 1
      BY <2>3
    <3> HIDE DEF k
    <3>2. Len(stack') = l + 1 /\ \A i \in 1..l + 1 : stack'[i] = IF i = l + 1 THEN g ELSE frames[i]
      BY <2>6, <2>7, <3>1
    <3>3. QED
      BY <3>1, <3>2
  <2>9. frames[k + 1].by = "try"
    BY <1>2, <2>3
  <2> HIDE DEF k
  <2>10. Cut(frames, k, g, stack') /\ Missed(frames[k], g)
    BY <2>5, <2>8 DEF Cut, Missed, f
  <2>11. status' = "run"
    BY <1>1, <1>2
  <2>12. QED
    BY <1>1, <2>3, <2>9, <2>10, <2>11
<1>3. CASE ~(last # 0 /\ frames[last].by = "try")
  BY <1>1, <1>3
<1>4. QED
  BY <1>2, <1>3

(* A function returns to one that goes on with what it wanted, or tests again. *)
Resumes(f, by, g) ==
  /\ g.start = f.start /\ g.by = f.by /\ g.fn = f.fn
  /\ g.pc = IF by \in Loops THEN f.pc ELSE f.pc + 1
  /\ Paren(f) => Paren(g)
  /\ by # "also" => (Paren(g) => Paren(f))

(* A return ends the parse, or hands its node to the function below, which    *)
(* goes on where its move says.                                               *)
LEMMA ReturnsCuts ==
  ASSUME IInv, NEW n \in Nodes, Returns1(n), status = "run"
  PROVE  /\ cur' = cur /\ toks' = toks
         /\ Len(stack) = 1 => status' = "done" /\ Len(stack') = 1 /\ stack'[1].fn = Top.fn
         /\ Len(stack) # 1 =>
              /\ status' = "run"
              /\ \E k \in 1..Len(stack) : \E g :
                   k + 1 = Len(stack) /\ Cut(stack, k, g, stack') /\ Resumes(stack[k], Top.by, g)
<1>1. toks' = toks /\ cur' = cur /\ stack \in Seq(Frames) /\ Len(stack) \in Nat \ {0} /\ Top \in Frames
  BY TopFacts DEF Returns1, IInv, StackOK
<1>2. CASE Len(stack) = 1
  <2>1. status' = "done" /\ stack' = <<[Top EXCEPT !.node = n]>>
    BY <1>2 DEF Returns1
  <2>2. [Top EXCEPT !.node = n].fn = Top.fn
    BY <1>1 DEF Frames
  <2>3. QED
    BY <1>1, <1>2, <2>1, <2>2
<1>3. CASE Len(stack) # 1
  <2>1. PICK d \in Nat : d = Len(stack) /\ d >= 2
    <3>1. PICK d \in Nat : d = Len(stack) /\ d # 0 /\ d # 1
      BY <1>1, <1>3
    <3>2. QED
      BY <3>1
  <2> DEFINE k == d - 1
             f == stack[k]
             g == Resumed(f, Top.by, n)
             front == SubSeq(stack, 1, Len(stack) - 2)
  <2>2. d \in Nat /\ d >= 2 /\ k \in 1..d /\ k # d /\ k + 1 = d
    BY <2>1
  <2>3. f \in Frames
    <3>1. k \in 1..Len(stack)
      BY <2>1, <2>2
    <3>2. QED
      BY <1>1, <3>1
  <2>4. Alike(f, g) /\ Resumes(f, Top.by, g)
    <3>1. n.tags \in SUBSET Words /\ "also" \notin Loops
      BY DEF Nodes, Loops
    <3> HIDE DEF f
    <3> DEFINE x == [f EXCEPT !.tags = @ \cup n.tags]
               y == [f EXCEPT !.node = n]
    <3>2. /\ Alike(f, x) /\ Alike(f, Done(x)) /\ Done(x).pc = f.pc + 1 /\ Done(x).fn = f.fn
          /\ Done(x).tags = f.tags \cup n.tags
      BY <2>3, <3>1 DEF Alike, Done, Frames
    <3>3. /\ Alike(f, y) /\ Alike(f, Done(y)) /\ Done(y).pc = f.pc + 1 /\ Done(y).fn = f.fn
          /\ Done(y).tags = f.tags /\ y.pc = f.pc /\ y.fn = f.fn /\ y.tags = f.tags
      BY <2>3 DEF Alike, Done, Frames
    <3>4. CASE Top.by = "also"
      <4>1. g = Done(x)
        BY <3>4 DEF Resumed
      <4> HIDE DEF x, g
      <4>2. QED
        BY <3>1, <3>2, <3>4, <4>1 DEF Resumes, Alike, Paren
    <3>5. CASE Top.by # "also" /\ Top.by \in Loops
      <4>1. g = y
        BY <3>5 DEF Resumed
      <4> HIDE DEF y, g
      <4>2. QED
        BY <3>3, <3>5, <4>1 DEF Resumes, Alike, Paren
    <3>6. CASE Top.by # "also" /\ Top.by \notin Loops
      <4>1. g = Done(y)
        BY <3>6 DEF Resumed
      <4> HIDE DEF y, g
      <4>2. QED
        BY <3>3, <3>6, <4>1 DEF Resumes, Alike, Paren
    <3>7. QED
      BY <3>4, <3>5, <3>6
  <2>5. front \in Seq(Frames) /\ Len(front) = k - 1 /\ \A i \in 1..k - 1 : front[i] = stack[i]
    <3>1. front \in Seq(Frames) /\ Len(front) = Len(stack) - 1 - 1
          /\ \A i \in 1..Len(stack) - 1 - 1 : front[i] = stack[i]
      BY <1>1, <2>1, LastTwoOff
    <3> HIDE DEF front
    <3>2. QED
      BY <2>1, <3>1
  <2> HIDE DEF front
  <2>6. stack' = Append(front, g) /\ status' = status
    BY <1>3, <2>1 DEF Returns1, front, g, f
  <2> HIDE DEF g
  <2>7. Len(stack') = k /\ \A i \in 1..k : stack'[i] = IF i = k THEN g ELSE stack[i]
    BY <2>2, <2>5, <2>6
  <2>8. k \in 1..Len(stack) /\ k + 1 = Len(stack)
    BY <2>1, <2>2
  <2> HIDE DEF k
  <2>9. Cut(stack, k, g, stack') /\ Resumes(stack[k], Top.by, g)
    BY <2>4, <2>7 DEF Cut, f
  <2>10. QED
    BY <1>1, <1>3, <2>6, <2>8, <2>9
<1>4. QED
  BY <1>2, <1>3

-------------------------------------------------------------------------------
(* Who is above whom, and what each has been shown.                           *)

\* t is the stack s up to its k-th function, which is now g
Upto(s, k, g, t) == Len(t) = k /\ \A i \in 1..k : t[i] = IF i = k THEN g ELSE s[i]

(* What the grammar is like at each move, and in front of it.                 *)
LEMMA PlaceFacts ==
  ASSUME NEW r \in Rules, NEW p \in Places(r)
  PROVE  /\ p \in Nat \ {0} /\ Len(Grammar[r]) \in Nat \ {0} /\ p <= Len(Grammar[r])
         /\ Settles(r, p) /\ Stuck(r, p) /\ Unmet(r, p) /\ (r = "Program" => ReadsAll(p))
         /\ Grammar[r][p].op \notin Ends => p + 1 \in Places(r)
         /\ p > 1 => p - 1 \in Places(r) /\ Before(r, p) = Grammar[r][p - 1]
         /\ p + 1 \in Places(r) => Before(r, p + 1) = Grammar[r][p]
         /\ p = 1 => Before(r, p) = Plain("entry")
<1>1. Grammar[r] \in Seq(Moves) /\ Grammar[r] # <<>> /\ Grammar[r][Len(Grammar[r])].op \in Ends
  BY GrammarAssumption
<1>2. Len(Grammar[r]) \in Nat \ {0}
  BY <1>1
<1>3. p \in 1..Len(Grammar[r])
  BY DEF Places
<1>4. p + 1 > 1 /\ p + 1 - 1 = p
  BY <1>3
<1>5. QED
  BY <1>1, <1>2, <1>3, <1>4, BracketsMatch DEF Places, Before

(* What a move calls is a function that some frame begins as.                 *)
LEMMA AsksFacts ==
  ASSUME NEW r \in Rules, NEW p \in Places(r), NEW g \in Asks(Grammar[r][p]) \cup AsksOn(Grammar[r][p])
  PROVE  /\ g \in Rules /\ g \in Entered
         /\ Grammar[r][p].op \notin {"tok", "look", "skip", "skips", "note", "ret", "yield", "scan", "braces", "switch", "close"}
<1> DEFINE m == Grammar[r][p]
<1>1. p \in 1..Len(Grammar[r])
  BY DEF Places
<1>2. /\ m.op \in {"call", "also", "opt", "while", "list", "params", "elses", "else", "try",
                   "unchecked", "const", "scope"} => m.fn \in Rules
      /\ \A a \in 1..Len(m.alts) : m.alts[a].fn \in Rules \/ (m.op = "bounded" /\ m.alts[a].fn = Spin)
  BY <1>1, StepsAssumption
<1> HIDE DEF m
<1>3. g \in Asks(m) \cup AsksOn(m)
  BY DEF m
<1>4. m.op \in Sure \cup {"opt", "while", "elses", "else", "try", "repeat", "bounded", "list", "params", "scope"}
  BY <1>3 DEF Asks, AsksOn
<1>5. g \in Rules
  <2>1. CASE m.op \in Sure \cup {"opt", "while", "elses", "else", "try", "list", "params", "scope"}
    <3>1. g = m.fn
      BY <1>3, <2>1 DEF Asks, AsksOn, Sure
    <3>2. QED
      BY <1>2, <2>1, <3>1 DEF Sure
  <2>2. CASE m.op \in {"repeat", "bounded"}
    <3>1. g \in Targets(m) /\ (m.op = "bounded" => g # Spin)
      BY <1>3, <2>2 DEF Asks, AsksOn, Sure
    <3>2. QED
      BY <1>2, <2>2, <3>1 DEF Targets
  <2>3. QED
    BY <1>4, <2>1, <2>2
<1>6. g \in Called[r]
  BY <1>3 DEF Called, m
<1>7. g \in Entered
  BY <1>6 DEF Entered
<1>8. QED
  BY <1>4, <1>5, <1>7 DEF m, Sure

(* Who may be above a move stays so when it goes on as another; and some      *)
(* moves have nobody above them.                                              *)
LEMMA AnswersOn ==
  ASSUME NEW r \in Rules, NEW p \in Places(r), NEW f \in Answers(Grammar[r][p])
  PROVE  /\ f \in Rules => GoesOnAs[f] \subseteq Answers(Grammar[r][p])
         /\ Grammar[r][p].op \notin {"tok", "look", "skip", "skips", "note", "ret", "yield", "scan", "braces", "switch", "close"}
<1>1. PICK g \in Asks(Grammar[r][p]) \cup AsksOn(Grammar[r][p]) : f \in Becomes[g]
  BY DEF Answers
<1>2. g \in Rules
  BY <1>1, AsksFacts
<1>3. GoesOnAs[f] \subseteq Becomes[g]
  BY <1>1, <1>2, BracketsMatch
<1>4. QED
  BY <1>1, <1>3, AsksFacts DEF Answers

\* every function on the stack is at one of its moves
Seated(s) ==
  /\ s \in Seq(Frames)
  /\ \A i \in 1..Len(s) : s[i].fn \in Rules /\ s[i].pc \in Places(s[i].fn)

(* The functions on the stack are at their moves, the one on top at Move.     *)
LEMMA StackSeated ==
  ASSUME IInv
  PROVE  /\ Seated(stack) /\ Len(stack) \in Nat \ {0} /\ Len(stack) \in 1..Len(stack)
         /\ Top = stack[Len(stack)] /\ Top.fn \in Rules /\ Top.pc \in Places(Top.fn)
         /\ Move = Grammar[Top.fn][Top.pc] /\ cur \in 1..Len(toks) /\ Len(toks) \in Nat
         /\ stack[1].by = "entry"
<1>1. stack \in Seq(Frames) /\ Len(stack) \in Nat \ {0} /\ stack[1].by = "entry"
      /\ cur \in 1..Len(toks) /\ Len(toks) \in Nat
  BY TopFacts DEF IInv, StackOK
<1>2. ASSUME NEW i \in 1..Len(stack)  PROVE stack[i].fn \in Rules /\ stack[i].pc \in Places(stack[i].fn)
  BY DEF IInv, StackOK, Placed1, Places, Frames
<1>3. Len(stack) \in 1..Len(stack)
  BY <1>1
<1>4. QED
  BY <1>1, <1>2, <1>3 DEF Seated, Top, Move

(* Everybody is still above one that asked for it when the stack is cut, or   *)
(* the function on top goes on,                                               *)
LEMMA UptoAnswered ==
  ASSUME NEW s, Seated(s), s[1].start = 1, Answered(s), NEW k \in 1..Len(s), NEW g, NEW t,
         Upto(s, k, g, t), g.start = s[k].start, g.by = s[k].by,
         g.fn = s[k].fn \/ g.fn \in GoesOnAs[s[k].fn]
  PROVE  t[1].start = 1 /\ Answered(t)
<1>1. Len(s) \in Nat /\ k \in Nat \ {0} /\ k <= Len(s) /\ Len(t) = k
      /\ \A i \in 1..k : t[i] = IF i = k THEN g ELSE s[i]
  BY DEF Seated, Upto
<1>2. t[1].start = 1
  <2>1. 1 \in 1..k
    BY <1>1
  <2>2. t[1] = IF 1 = k THEN g ELSE s[1]
    BY <1>1, <2>1
  <2>3. QED
    BY <2>2
<1>3. ASSUME NEW i \in 2..Len(t)
      PROVE  LET m == Grammar[t[i - 1].fn][t[i - 1].pc] IN t[i].by = m.op /\ t[i].fn \in Answers(m)
  <2>1. i \in 2..Len(s) /\ i \in 1..k /\ i - 1 \in 1..k /\ i - 1 # k /\ i - 1 \in 1..Len(s) /\ i \in 1..Len(s)
    BY <1>1
  <2> DEFINE h == s[i - 1]
             m == Grammar[h.fn][h.pc]
  <2>2. s[i].by = m.op /\ s[i].fn \in Answers(m)
    BY <2>1 DEF Answered
  <2>3. t[i - 1] = h
    BY <1>1, <2>1
  <2>4. h.fn \in Rules /\ h.pc \in Places(h.fn) /\ s[i].fn \in Rules
    BY <2>1 DEF Seated
  <2> HIDE DEF h
  <2>5. GoesOnAs[s[i].fn] \subseteq Answers(m)
    BY <2>2, <2>4, AnswersOn
  <2>6. t[i] = IF i = k THEN g ELSE s[i]
    BY <1>1, <2>1
  <2>7. t[i].by = s[i].by /\ t[i].fn \in Answers(m)
    BY <2>2, <2>5, <2>6
  <2>8. QED
    BY <2>2, <2>3, <2>7
<1>4. QED
  BY <1>2, <1>3 DEF Answered

(* and when another is called.                                                *)
LEMMA PushAnswered ==
  ASSUME NEW s, Seated(s), s # <<>>, s[1].start = 1, Answered(s), NEW g, NEW t,
         Len(t) = Len(s) + 1, \A i \in 1..Len(t) : t[i] = IF i = Len(t) THEN g ELSE s[i],
         LET m == Grammar[s[Len(s)].fn][s[Len(s)].pc]
         IN  g.by = m.op /\ g.fn \in Asks(m) \cup AsksOn(m)
  PROVE  t[1].start = 1 /\ Answered(t)
<1> DEFINE f == s[Len(s)]
           m == Grammar[f.fn][f.pc]
<1>1. Len(s) \in Nat \ {0}
  BY DEF Seated
<1>2. g.by = m.op /\ g.fn \in Asks(m) \cup AsksOn(m)
  OBVIOUS
<1>3. f.fn \in Rules /\ f.pc \in Places(f.fn)
  <2>1. Len(s) \in 1..Len(s)
    BY <1>1
  <2>2. QED
    BY <2>1 DEF Seated
<1> HIDE DEF f
<1>4. g.fn \in Rules
  BY <1>2, <1>3, AsksFacts
<1>5. g.fn \in Answers(m)
  BY <1>2, <1>4, BracketsMatch DEF Answers
<1>6. t[1].start = 1
  <2>1. 1 \in 1..Len(t) /\ 1 # Len(t)
    BY <1>1
  <2>2. QED
    BY <2>1
<1>7. ASSUME NEW i \in 2..Len(t)
      PROVE  LET q == Grammar[t[i - 1].fn][t[i - 1].pc] IN t[i].by = q.op /\ t[i].fn \in Answers(q)
  <2>1. i - 1 \in 1..Len(t) /\ i - 1 # Len(t) /\ i \in 1..Len(t)
    BY <1>1
  <2>2. t[i - 1] = s[i - 1]
    BY <2>1
  <2>3. CASE i = Len(t)
    <3>1. i - 1 = Len(s)
      BY <1>1, <2>3
    <3>2. t[i] = g /\ t[i - 1] = f
      BY Zenon, <2>1, <2>2, <2>3, <3>1 DEF f
    <3>3. QED
      BY <1>2, <1>5, <3>2
  <2>4. CASE i # Len(t)
    <3>1. i \in 2..Len(s) /\ t[i] = s[i]
      BY <1>1, <2>1, <2>4
    <3>2. QED
      BY <2>2, <3>1 DEF Answered
  <2>5. QED
    BY <2>3, <2>4
<1>8. QED
  BY <1>6, <1>7 DEF Answered

(* The move that stands for none is no move of a grammar.                     *)
LEMMA EntryIsNone == Plain("entry").op = "entry"
BY DEF Plain

(* Every function has a first move.                                           *)
LEMMA FirstPlaces ==
  ASSUME NEW r \in Rules
  PROVE  1 \in Places(r) /\ (Len(Grammar[r]) > 1 => 2 \in Places(r))
<1>1. Len(Grammar[r]) \in Nat \ {0}
  BY GrammarAssumption
<1>2. QED
  BY <1>1 DEF Places

(* A function that stays at a move, or is past one, that shows it nothing.    *)
LEMMA ToldStill ==
  ASSUME NEW f, f.fn \in Rules, f.pc \in Places(f.fn), NEW c, NEW w,
         Grammar[f.fn][f.pc].op \notin {"tok", "ret", "yield", "scan", "braces"}
  PROVE  Told(f, c, w)
<1> DEFINE r == f.fn
           p == f.pc
<1>1. r \in Rules /\ p \in Places(r) /\ Grammar[r][p].op \notin {"tok", "ret", "yield", "scan", "braces"}
  OBVIOUS
<1>2. ASSUME p = 1, Len(Grammar[r]) > 1, Grammar[r][2].op = "braces"  PROVE FALSE
  <2>1. 2 \in Places(r)
    BY <1>1, <1>2, FirstPlaces
  <2>2. Unmet(r, 2) /\ Before(r, 2) = Grammar[r][1]
    <3>1. Before(r, 2) = Grammar[r][1]
      BY DEF Before
    <3>2. QED
      BY <1>1, <2>1, <3>1, BracketsMatch
  <2>3. Before(r, 2).op = "tok"
    BY Zenon, <1>2, <2>2 DEF Unmet
  <2>4. QED
    BY <1>1, <1>2, <2>2, <2>3
<1>3. QED
  BY Zenon, <1>1, <1>2 DEF Told, Returns2

(* A function behind a move that tells it nothing relies on nothing;          *)
LEMMA ToldAfter ==
  ASSUME NEW f, f.fn \in Rules, f.pc \in Places(f.fn), f.pc > 1, NEW c, NEW w,
         Before(f.fn, f.pc).op \notin {"tok", "look", "while", "bounded"}
  PROVE  Told(f, c, w)
<1> DEFINE r == f.fn
           p == f.pc
<1>1. r \in Rules /\ p \in Places(r) /\ p > 1 /\ Before(r, p).op \notin {"tok", "look", "while", "bounded"}
  OBVIOUS
<1>2. Unmet(r, p) /\ p # 1
  BY <1>1, PlaceFacts
<1>3. Grammar[r][p].op \notin {"scan", "braces"}
  BY Zenon, <1>1, <1>2 DEF Unmet
<1>4. QED
  BY Zenon, <1>1, <1>2, <1>3 DEF Told

(* One that is entered.                                                       *)
LEMMA ToldEntered ==
  ASSUME NEW f, f.fn \in Rules, f.fn \in Entered, f.pc = 1, NEW c, NEW w
  PROVE  Told(f, c, w)
<1> DEFINE r == f.fn
<1>1. r \in Rules /\ r \in Entered
  OBVIOUS
<1>2. 1 \in Places(r)
  BY <1>1, FirstPlaces
<1>3. Unmet(r, 1) /\ Before(r, 1) = Plain("entry")
  BY <1>1, <1>2, PlaceFacts
<1>4. Before(r, 1).op = "entry"
  BY <1>3, EntryIsNone
<1>5. Grammar[r][1].op \notin {"scan", "braces"}
  BY <1>3, <1>4 DEF Unmet
<1>6. ASSUME Len(Grammar[r]) > 1, Grammar[r][2].op = "braces"  PROVE FALSE
  <2>1. 2 \in Places(r)
    BY <1>1, <1>6, FirstPlaces
  <2>2. Unmet(r, 2)
    BY <1>1, <2>1, PlaceFacts
  <2>3. QED
    BY Zenon, <1>1, <1>6, <2>2 DEF Unmet
<1>7. QED
  BY Zenon, <1>4, <1>5, <1>6 DEF Told

(* What a choice has seen.                                                    *)
LEMMA NotCovered ==
  ASSUME IInv, Chosen(Move) = {}
  PROVE  /\ Here \notin Covers(Move)
         /\ \A a \in 1..Len(Move.alts) : ~Applies(Move.alts[a])
<1> DEFINE alts == Move.alts
           Fit == {a \in Nat : a \in 1..Len(alts) /\ Applies(alts[a])}
<1>1. Len(alts) \in Nat
  <2>1. alts \in Seq(Alternatives)
    BY MoveFacts DEF Moves
  <2>2. QED
    BY <2>1
<1>2. Fit = {}
  <2>1. SUFFICES ASSUME Fit # {}  PROVE FALSE
    OBVIOUS
  <2>2. PICK a \in Fit : \A b \in Fit : a <= b
    BY <2>1, LeastNatural
  <2>3. a \in 1..Len(alts) /\ Applies(alts[a])
    BY <2>2
  <2>4. ASSUME NEW l \in 1..a - 1  PROVE ~Applies(alts[l])
    <3>1. l \in Nat /\ l \in 1..Len(alts) /\ ~(a <= l)
      BY <1>1, <2>3
    <3>2. QED
      BY <2>2, <3>1
  <2>5. alts[a].fn \in Chosen(Move)
    BY <2>3, <2>4 DEF Chosen
  <2>6. QED
    BY <2>5
<1>3. ASSUME NEW a \in 1..Len(alts)  PROVE ~Applies(alts[a])
  BY <1>1, <1>2
<1>4. ASSUME Here \in Covers(Move)  PROVE FALSE
  <2>1. PICK a \in 1..Len(alts) : alts[a].kinds = {} /\ Len(alts[a].ahead) = 1 /\ Here \in alts[a].ahead[1]
    BY <1>4 DEF Covers
  <2>2. Ahead(0) = Here
    BY TopFacts DEF IInv, Ahead, Here
  <2>3. \A k \in 1..1 : k = 1 /\ k - 1 = 0
    OBVIOUS
  <2>4. Applies(alts[a])
    BY <2>1, <2>2, <2>3 DEF Applies
  <2>5. QED
    BY <1>3, <2>4
<1>5. QED
  BY <1>3, <1>4

(* one that has passed a move has been told what the move shows;              *)
LEMMA ToldPassed ==
  ASSUME IInv, Told(Top, cur, toks), Top.pc + 1 \in Places(Top.fn), NEW c, Found(c), NEW f, As(f, Top.fn, Top.pc + 1)
  PROVE  Told(f, c, toks)
<1> DEFINE r == Top.fn
           p == Top.pc
           m == Grammar[r][p + 1]
<1>1. r \in Rules /\ p \in Places(r) /\ p + 1 \in Places(r) /\ Move = Grammar[r][p] /\ p \in Nat \ {0}
  BY StackSeated, PlaceFacts
<1>2. f.fn = r /\ f.pc = p + 1 /\ Before(r, p + 1) = Move /\ Unmet(r, p + 1)
  BY <1>1, PlaceFacts DEF As
<1> HIDE DEF r, p
<1>3. Move.op = "while" => Here \notin Move.on /\ c = cur
  BY DEF Found
<1>4. Move.op = "bounded" => Here \notin Covers(Move) /\ c = cur
  BY NotCovered DEF Found
<1>5. m.op = "scan" => toks[c] = "op"
  <2>1. SUFFICES ASSUME m.op = "scan"  PROVE toks[c] = "op"
    OBVIOUS
  <2>2. Move.op = "look" /\ Move.on = {"op"}
    BY <1>2, <2>1 DEF Unmet
  <2>3. QED
    BY <2>2 DEF Found, Here
<1>6. m.op = "braces" => c > 1 /\ toks[c - 1] = "{" /\ toks[c] = "}"
  <2>1. SUFFICES ASSUME m.op = "braces"  PROVE c > 1 /\ toks[c - 1] = "{" /\ toks[c] = "}"
    BY Zenon
  <2>2. p + 1 = 2 /\ Move.op = "tok"
    BY Zenon, <1>2, <2>1 DEF Unmet
  <2>3. p = 1 /\ Len(Grammar[r]) > 1 /\ Grammar[r][2].op = "braces"
    BY <1>1, <2>1, <2>2, PlaceFacts
  <2>4. BracesAt(toks, cur)
    BY Zenon, <2>3 DEF Told, r, p
  <2>5. c = cur + 1 /\ cur \in 1..Len(toks)
    BY <2>2, StackSeated DEF Found
  <2>6. c - 1 = cur /\ c > 1
    BY <2>5
  <2>7. QED
    BY Zenon, <2>4, <2>5, <2>6 DEF BracesAt
<1>7. p + 1 # 1
  BY <1>1
<1>8. QED
  BY Zenon, <1>2, <1>3, <1>4, <1>5, <1>6, <1>7 DEF Told, Here

(* and so has one that another gives way to.                                  *)
LEMMA ToldChosen ==
  ASSUME IInv, NEW r \in Leaves(Move), Move.op \in {"switch", "pick"} => r \in Chosen(Move), NEW f, As(f, r, 1)
  PROVE  r \in Rules /\ r \in GoesOnAs[Top.fn] /\ Told(f, cur, toks)
<1>1. r \in Rules
  <2>1. Move.op \in {"switch", "pick", "const"}
    BY DEF Leaves
  <2>2. CASE Move.op \in {"switch", "pick"}
    BY <2>2, ChosenFacts
  <2>3. CASE Move.op = "const"
    BY <2>3, MoveFacts DEF Leaves
  <2>4. QED
    BY <2>1, <2>2, <2>3
<1>2. Top.fn \in Rules /\ Top.pc \in Places(Top.fn) /\ Move = Grammar[Top.fn][Top.pc] /\ cur \in 1..Len(toks)
      /\ Len(toks) \in Nat
  BY StackSeated
<1>3. r \in GoesOnAs[Top.fn]
  BY <1>2 DEF GoesOnAs
<1>4. 1 \in Places(r)
  BY <1>1, FirstPlaces
<1>5. Unmet(r, 1) /\ Before(r, 1) = Plain("entry")
  BY <1>1, <1>4, PlaceFacts
<1>6. Before(r, 1).op = "entry"
  BY <1>5, EntryIsNone
<1>7. Grammar[r][1].op \notin {"scan", "braces"}
  BY <1>5, <1>6 DEF Unmet
<1>8. ASSUME Len(Grammar[r]) > 1, Grammar[r][2].op = "braces"  PROVE BracesAt(toks, cur)
  <2>1. 2 \in Places(r)
    BY <1>1, <1>8, FirstPlaces
  <2>2. Unmet(r, 2)
    BY <1>1, <2>1, PlaceFacts
  <2>3. /\ Move.op \in {"switch", "pick"}
        /\ \A n \in 1..Len(Move.alts) : Move.alts[n].fn = r => Move.alts[n].ahead = <<{"{"}, {"}"}>>
    BY Zenon, <1>2, <1>8, <2>2 DEF Unmet
  <2>4. PICK n \in 1..Len(Move.alts) : Move.alts[n].fn = r /\ Applies(Move.alts[n])
    BY Zenon, <2>3 DEF Chosen
  <2>5. Ahead(0) = "{" /\ Ahead(1) = "}"
    <3> DEFINE b == Move.alts[n].ahead
    <3>1. b = <<{"{"}, {"}"}>> /\ \A k \in 1..Len(b) : Ahead(k - 1) \in b[k]
      BY Zenon, <2>3, <2>4 DEF Applies
    <3> HIDE DEF b
    <3>2. Len(b) = 2 /\ b[1] = {"{"} /\ b[2] = {"}"}
      BY Zenon, <3>1
    <3>3. 1 \in 1..2 /\ 2 \in 1..2 /\ 1 - 1 = 0 /\ 2 - 1 = 1
      OBVIOUS
    <3>4. Ahead(0) \in b[1] /\ Ahead(1) \in b[2]
      BY Zenon, <3>1, <3>2, <3>3
    <3>5. QED
      BY Zenon, <3>2, <3>4
  <2>6. cur + 0 <= Len(toks) /\ cur + 0 = cur
    BY <1>2
  <2>7. toks[cur] = "{"
    BY Zenon, <2>5, <2>6 DEF Ahead
  <2>8. cur + 1 <= Len(toks) /\ toks[cur + 1] = "}"
    BY Zenon, <2>5 DEF Ahead, EOF
  <2>9. cur < Len(toks)
    <3>1. cur \in Nat /\ Len(toks) \in Nat
      BY <1>2
    <3>2. cur + 1 <= Len(toks)
      BY Zenon, <2>8
    <3>3. QED
      BY <3>1, <3>2
  <2>10. QED
    BY Zenon, <2>7, <2>8, <2>9 DEF BracesAt
<1>9. QED
  BY Zenon, <1>1, <1>3, <1>6, <1>7, <1>8 DEF Told, As

-------------------------------------------------------------------------------
(* What a step leaves of the stack.                                           *)

\* the stack is what it was up to its k-th function, which is now g
Onto(k, g) == k \in 1..Len(stack) /\ Upto(stack, k, g, stack')
\* the k-th function goes on as g without the answer it tried for
Strands(k, g) ==
  /\ Onto(k, g) /\ toks' = toks
  /\ Grammar[stack[k].fn][stack[k].pc].op = "try"
  /\ g.start = stack[k].start /\ g.by = stack[k].by /\ g.fn = stack[k].fn
  /\ g.pc = stack[k].pc + 1 /\ g.node.kind = "None"
\* the last but one goes on as g with it
Hands(k, g) ==
  /\ Onto(k, g) /\ k + 1 = Len(stack) /\ UNCHANGED <<toks, cur>>
  /\ Returns2(Move) /\ Resumes(stack[k], Top.by, g)
\* the function on top, as f, has called g
Pushes(f, g) ==
  /\ As(f, Top.fn, Top.pc) /\ (Paren(f) <=> Paren(Top))
  /\ Asking(g.fn, cur') /\ g.fn \in Rules
  /\ g.pc = 1 /\ g.by = Move.op /\ g.start = cur' /\ ~Paren(g)
  /\ toks' = toks /\ Len(stack') = Len(stack) + 1
  /\ \A i \in 1..Len(stack) + 1 :
       stack'[i] = IF i = Len(stack) + 1 THEN g ELSE IF i = Len(stack) THEN f ELSE stack[i]

(* What becomes of the stack in a step after which the parse still runs.      *)
Lands ==
  \/ \E f : Passes(f, cur') /\ Onto(Len(stack), f)
  \/ \E f : Remains(f, cur') /\ Onto(Len(stack), f)
  \/ \E f, r : GivesWay(f, r) /\ Onto(Len(stack), f)
  \/ \E f, g : Pushes(f, g)
  \/ \E k, g : Strands(k, g)
  \/ \E k, g : Hands(k, g)
  \/ Splits /\ Onto(Len(stack), Done(Top))

(* The forms of a step, seen from the stack it leaves: the function on top    *)
(* goes on,                                                                   *)
LEMMA TopLands ==
  ASSUME IInv, NEW f, stack' = [stack EXCEPT ![Len(stack)] = f]
  PROVE  Onto(Len(stack), f)
<1>1. stack \in Seq(Frames) /\ Len(stack) \in Nat \ {0} /\ Len(stack) \in 1..Len(stack)
  BY StackSeated DEF Seated
<1>2. Len(stack') = Len(stack) /\ \A i \in 1..Len(stack) : stack'[i] = IF i = Len(stack) THEN f ELSE stack[i]
  BY <1>1
<1>3. QED
  BY <1>1, <1>2 DEF Onto, Upto

(* a call has failed and somebody has tried it,                               *)
LEMMA FailLands ==
  ASSUME IInv, Answered(stack), NEW why \in {"error", "toolong"}, NEW c, Fails(why, c, stack), status = "run", status' = "run"
  PROVE  \E k, g : Strands(k, g)
<1>1. stack \in Seq(Frames) /\ stack # <<>> /\ stack[1].by = "entry" /\ Len(stack) \in Nat
  BY StackSeated DEF Seated
<1>2. /\ toks' = toks
      /\ \E k \in 1..Len(stack) : \E g :
           k < Len(stack) /\ stack[k + 1].by = "try" /\ Cut(stack, k, g, stack') /\ Missed(stack[k], g)
  BY <1>1, FailsCuts
<1>3. PICK k, g :
        /\ k \in 1..Len(stack) /\ k < Len(stack) /\ stack[k + 1].by = "try"
        /\ Cut(stack, k, g, stack') /\ Missed(stack[k], g)
  BY <1>2
<1>4. k + 1 \in 2..Len(stack) /\ k + 1 - 1 = k
  BY <1>1, <1>3
<1>5. stack[k + 1].by = Grammar[stack[k].fn][stack[k].pc].op
  <2> DEFINE i == k + 1
  <2>1. i \in 2..Len(stack) /\ i - 1 = k
    BY <1>1, <1>3, <1>4
  <2> HIDE DEF i
  <2>2. stack[i].by = Grammar[stack[i - 1].fn][stack[i - 1].pc].op
    BY <2>1 DEF Answered
  <2>3. QED
    BY <2>1, <2>2 DEF i
<1>6. Strands(k, g)
  BY <1>2, <1>3, <1>5 DEF Strands, Onto, Upto, Cut, Missed, Alike
<1>7. QED
  BY <1>6

(* or another is called.                                                      *)
LEMMA PutLands ==
  ASSUME IInv, Answered(stack), status = "run", status' = "run", NEW f, NEW r, NEW n, Puts(f, r, n, cur')
  PROVE  (\E g : Pushes(f, g)) \/ (\E k, g : Strands(k, g))
<1> DEFINE s == [stack EXCEPT ![Len(stack)] = f]
           c == cur'
           g == Frame(r, c, Move.op, n)
           called == Append(s, g)
<1>1. /\ stack \in Seq(Frames) /\ Len(stack) \in Nat \ {0} /\ Len(stack) \in 1..Len(stack)
      /\ stack[1].by = "entry" /\ cur \in 1..Len(toks) /\ Len(toks) \in Nat /\ ListOK(toks)
      /\ Top = stack[Len(stack)] /\ Top.fn \in Rules
  BY StackSeated DEF Seated, IInv
<1>2. f \in Frames /\ r \in Rules /\ n \in Nodes /\ As(f, Top.fn, Top.pc) /\ (Paren(f) <=> Paren(Top))
      /\ Asking(r, c) /\ Calls(f, c, Move, r, n)
  BY DEF Puts
<1>3. Move.op \in Words
  BY MoveFacts DEF Moves, Words
<1>4. c \in Nat /\ c \in 1..Len(toks)
  <2>1. c = cur \/ (c = cur + 1 /\ Here # EOF)
    <3>1. Move.op \in {"list", "params"} => EOF \notin Move.on
      BY MoveFacts
    <3>2. "::" # EOF
      BY DEF EOF
    <3>3. QED
      BY <1>2, <3>1, <3>2 DEF Asking
  <2>2. cur = Len(toks) => Here = EOF
    BY TopFacts
  <2>3. QED
    BY <1>1, <2>1, <2>2
<1>5. g \in Frames /\ g.start = c /\ g.pc = 1 /\ g.by = Move.op /\ g.fn = r /\ ~Paren(g)
  BY <1>1, <1>2, <1>3, <1>4, FrameIsPlaced DEF Placed1, Frame, Paren
<1>6. /\ s \in Seq(Frames) /\ Len(s) = Len(stack)
      /\ \A i \in 1..Len(stack) : s[i] = IF i = Len(stack) THEN f ELSE stack[i]
  BY <1>1, <1>2
<1> HIDE DEF s, g, c
<1>7. /\ called \in Seq(Frames) /\ Len(called) = Len(stack) + 1
      /\ \A i \in 1..Len(stack) + 1 : called[i] = IF i = Len(stack) + 1 THEN g ELSE s[i]
  BY <1>1, <1>5, <1>6
<1>8. \A i \in 1..Len(stack) + 1 :
        called[i] = IF i = Len(stack) + 1 THEN g ELSE IF i = Len(stack) THEN f ELSE stack[i]
  <2>1. \A i \in 1..Len(stack) + 1 : i # Len(stack) + 1 => i \in 1..Len(stack)
    BY <1>1
  <2>2. QED
    BY <1>6, <1>7, <2>1
<1> HIDE DEF called
<1>9. CASE c < Len(toks)
  <2>1. stack' = called /\ toks' = toks
    BY <1>2, <1>9 DEF Calls, called, s, g
  <2>2. Pushes(f, g)
    BY <1>2, <1>5, <1>7, <1>8, <2>1 DEF Pushes, c
  <2>3. QED
    BY <2>2
<1>10. CASE ~(c < Len(toks))
  <2>1. Fails("error", c, called)
    BY <1>2, <1>10 DEF Calls, called, s, g
  <2>2. called # <<>> /\ called[1].by = "entry"
    <3>1. 1 \in 1..Len(stack) + 1 /\ 1 # Len(stack) + 1
      BY <1>1
    <3>2. called[1] = IF 1 = Len(stack) THEN f ELSE stack[1]
      BY <1>8, <3>1
    <3>3. QED
      BY <1>1, <1>2, <1>7, <3>2 DEF As
  <2>3. /\ toks' = toks
        /\ \E k \in 1..Len(called) : \E h :
             k < Len(called) /\ called[k + 1].by = "try" /\ Cut(called, k, h, stack') /\ Missed(called[k], h)
    BY <1>7, <2>1, <2>2, FailsCuts
  <2>4. PICK k, h :
          /\ k \in 1..Len(called) /\ k < Len(called) /\ called[k + 1].by = "try"
          /\ Cut(called, k, h, stack') /\ Missed(called[k], h)
    BY <2>3
  <2>5. k \in 1..Len(stack) /\ k \in 1..Len(stack) + 1 /\ k # Len(stack) + 1 /\ k \in Nat
    BY <1>1, <1>7, <2>4
  <2>6. called[k] = IF k = Len(stack) THEN f ELSE stack[k]
    BY <1>8, <2>5
  <2>7. /\ Grammar[stack[k].fn][stack[k].pc].op = "try"
        /\ called[k].start = stack[k].start /\ called[k].by = stack[k].by
        /\ called[k].fn = stack[k].fn /\ called[k].pc = stack[k].pc
    <3>1. CASE k = Len(stack)
      <4>1. k + 1 \in 1..Len(stack) + 1 /\ k + 1 = Len(stack) + 1
        BY <1>1, <3>1
      <4>2. called[k + 1] = g
        BY <1>8, <4>1
      <4>3. QED
        BY <1>1, <1>2, <1>5, <2>4, <2>6, <3>1, <4>2 DEF As, Move
    <3>2. CASE k # Len(stack)
      <4> DEFINE i == k + 1
      <4>1. i \in 2..Len(stack) /\ i - 1 = k /\ i \in 1..Len(stack) + 1 /\ i # Len(stack) + 1
        BY <1>1, <2>5, <3>2
      <4>2. called[i].by = "try"
        BY <2>4
      <4> HIDE DEF i
      <4>3. called[i] = IF i = Len(stack) THEN f ELSE stack[i]
        BY <1>8, <4>1
      <4>4. called[i].by = stack[i].by
        BY <1>1, <1>2, <4>3 DEF As
      <4>5. stack[i].by = Grammar[stack[i - 1].fn][stack[i - 1].pc].op
        BY <4>1 DEF Answered
      <4>6. QED
        BY <2>6, <3>2, <4>1, <4>2, <4>4, <4>5
    <3>3. QED
      BY <3>1, <3>2
  <2>8. Upto(stack, k, h, stack')
    <3>1. Len(stack') = k /\ \A i \in 1..k : stack'[i] = IF i = k THEN h ELSE called[i]
      BY <2>4 DEF Cut
    <3>2. \A i \in 1..k : i # k => called[i] = stack[i]
      <4>1. ASSUME NEW i \in 1..k, i # k  PROVE i \in 1..Len(stack) + 1 /\ i # Len(stack) + 1 /\ i # Len(stack)
        BY <1>1, <2>5, <4>1
      <4>2. QED
        BY <1>8, <4>1
    <3>3. QED
      BY <3>1, <3>2 DEF Upto
  <2>9. Strands(k, h)
    BY <2>3, <2>4, <2>5, <2>7, <2>8 DEF Strands, Onto, Missed, Alike
  <2>10. QED
    BY <2>9
<1>11. QED
  BY <1>9, <1>10

(* Every step after which the parse still runs is one of these.               *)
LEMMA StepLands ==
  ASSUME IInv, Answered(stack), Next, status = "run", status' = "run"
  PROVE  Lands
<1>1. Forms
  BY StepForms
<1>2. ASSUME NEW f, Passes(f, cur')  PROVE Lands
  <2>1. stack' = [stack EXCEPT ![Len(stack)] = f]
    BY <1>2 DEF Passes, Goes
  <2>2. QED
    BY <1>2, <2>1, TopLands DEF Lands
<1>3. ASSUME NEW f, Remains(f, cur')  PROVE Lands
  <2>1. stack' = [stack EXCEPT ![Len(stack)] = f]
    BY <1>3 DEF Remains, Goes
  <2>2. QED
    BY <1>3, <2>1, TopLands DEF Lands
<1>4. ASSUME NEW f, NEW r, GivesWay(f, r)  PROVE Lands
  <2>1. stack' = [stack EXCEPT ![Len(stack)] = f]
    BY <1>4 DEF GivesWay, Goes
  <2>2. QED
    BY <1>4, <2>1, TopLands DEF Lands
<1>5. ASSUME NEW f, NEW r, NEW n, Puts(f, r, n, cur')  PROVE Lands
  BY <1>5, PutLands DEF Lands
<1>6. ASSUME NEW why \in {"error", "toolong"}, Fails(why, cur', stack)  PROVE Lands
  BY <1>6, FailLands DEF Lands
<1>7. ASSUME Returns2(Move), NEW n \in Nodes, Returns1(n)  PROVE Lands
  <2>1. /\ cur' = cur /\ toks' = toks
        /\ Len(stack) = 1 => status' = "done"
        /\ Len(stack) # 1 =>
             \E k \in 1..Len(stack) : \E g :
               k + 1 = Len(stack) /\ Cut(stack, k, g, stack') /\ Resumes(stack[k], Top.by, g)
    BY <1>7, ReturnsCuts
  <2>2. Len(stack) # 1
    BY <2>1
  <2>3. PICK k, g :
          k \in 1..Len(stack) /\ k + 1 = Len(stack) /\ Cut(stack, k, g, stack') /\ Resumes(stack[k], Top.by, g)
    BY <2>1, <2>2
  <2>4. Hands(k, g)
    BY <1>7, <2>1, <2>3 DEF Hands, Onto, Upto, Cut
  <2>5. QED
    BY <2>4 DEF Lands
<1>8. CASE Splits
  BY <1>8, TopLands DEF Lands, Splits
<1>9. QED
  BY <1>1, <1>2, <1>3, <1>4, <1>5, <1>6, <1>7, <1>8 DEF Forms

(* The list behind a split '>>' is the list behind it before,                 *)
LEMMA SplitRest ==
  ASSUME ListOK(toks), NEW c \in 1..Len(toks), c + 1 <= Len(toks)
  PROVE  LET t == SubSeq(toks, 1, c - 1) \o <<">", ">">> \o SubSeq(toks, c + 1, Len(toks))
         IN  /\ Len(t) = Len(toks) + 1 /\ t[c + 1] = ">"
             /\ \A j \in c + 1..Len(toks) : t[j + 1] = toks[j]
<1> DEFINE L == Len(toks)
           a == SubSeq(toks, 1, c - 1)
           b == <<">", ">">>
           z == SubSeq(toks, c + 1, L)
           t == a \o b \o z
           T == Tokens \cup {EOF}
<1>1. toks \in Seq(T) /\ L \in Nat /\ c \in Nat /\ 1 <= c /\ c + 1 <= L
  BY DEF ListOK
<1>2. a \in Seq(T) /\ Len(a) = c - 1
  BY <1>1
<1>3. ">" \in T
  BY DEF Tokens, BinaryOps
<1>4. b \in Seq(T) /\ Len(b) = 2 /\ b[2] = ">"
  BY <1>3
<1>5. z \in Seq(T) /\ Len(z) = L - c /\ \A j \in 1..L - c : z[j] = toks[c + j]
  <2>1. /\ z \in Seq(T) /\ Len(z) = L - (c + 1) + 1
        /\ \A j \in 1..L - (c + 1) + 1 : z[j] = toks[c + 1 + j - 1]
    BY <1>1
  <2>2. L - (c + 1) + 1 = L - c /\ \A j \in 1..L - c : c + 1 + j - 1 = c + j
    BY <1>1
  <2> HIDE DEF z, L
  <2>3. QED
    BY <2>1, <2>2
<1> HIDE DEF a, b, z, T
<1>6. /\ a \o b \in Seq(T) /\ Len(a \o b) = c + 1 /\ (a \o b)[c + 1] = ">"
  <2>1. /\ a \o b \in Seq(T) /\ Len(a \o b) = Len(a) + Len(b)
        /\ \A j \in 1..Len(a) + Len(b) : (a \o b)[j] = IF j <= Len(a) THEN a[j] ELSE b[j - Len(a)]
    BY <1>2, <1>4, ConcatProperties
  <2>2. Len(a) + Len(b) = c + 1 /\ c + 1 \in 1..c + 1 /\ ~(c + 1 <= Len(a)) /\ c + 1 - Len(a) = 2
    BY <1>1, <1>2, <1>4
  <2>3. QED
    BY <1>4, <2>1, <2>2
<1> DEFINE ab == a \o b
<1> HIDE DEF ab
<1>7. ab \in Seq(T) /\ Len(ab) = c + 1 /\ ab[c + 1] = ">"
  BY <1>6 DEF ab
<1>8. /\ Len(ab \o z) = L + 1
      /\ \A j \in 1..L + 1 : (ab \o z)[j] = IF j <= c + 1 THEN ab[j] ELSE z[j - (c + 1)]
  <2>1. /\ Len(ab \o z) = Len(ab) + Len(z)
        /\ \A j \in 1..Len(ab) + Len(z) : (ab \o z)[j] = IF j <= Len(ab) THEN ab[j] ELSE z[j - Len(ab)]
    BY <1>5, <1>7, ConcatProperties
  <2>2. Len(ab) + Len(z) = L + 1
    BY <1>1, <1>5, <1>7
  <2>3. QED
    BY <1>7, <2>1, <2>2
<1>9. (ab \o z)[c + 1] = ">"
  <2>1. c + 1 \in 1..L + 1
    BY <1>1
  <2>2. QED
    BY <1>7, <1>8, <2>1
<1>10. ASSUME NEW j \in c + 1..L  PROVE (ab \o z)[j + 1] = toks[j]
  <2>1. j + 1 \in 1..L + 1 /\ ~(j + 1 <= c + 1) /\ j + 1 - (c + 1) = j - c /\ j - c \in 1..L - c /\ c + (j - c) = j
    BY <1>1
  <2>2. (ab \o z)[j + 1] = z[j - c]
    BY <1>8, <2>1
  <2>3. z[j - c] = toks[c + (j - c)]
    BY <1>5, <2>1
  <2>4. QED
    BY <2>1, <2>2, <2>3
<1>11. t = ab \o z
  BY DEF ab
<1>12. QED
  BY <1>8, <1>9, <1>10, <1>11 DEF a, b, z

(* and so is all that is in front: one token has become two.                  *)
LEMMA SplitWhole ==
  ASSUME IInv, Splits
  PROVE  /\ cur \in Nat /\ Len(toks) \in Nat /\ cur + 1 <= Len(toks) /\ Len(toks') = Len(toks) + 1
         /\ \A j \in 1..cur - 1 : toks'[j] = toks[j]
         /\ toks'[cur] = ">" /\ toks'[cur + 1] = ">"
         /\ \A j \in cur + 1..Len(toks) : toks'[j + 1] = toks[j]
<1>1. cur \in 1..Len(toks) /\ Len(toks) \in Nat /\ ListOK(toks) /\ toks[cur] = ">>"
      /\ toks' = SubSeq(toks, 1, cur - 1) \o <<">", ">">> \o SubSeq(toks, cur + 1, Len(toks))
  BY TopFacts DEF IInv, Splits, Here
<1>2. /\ Len(toks') = Len(toks) + 1 /\ toks'[cur] = ">" /\ cur + 1 <= Len(toks)
      /\ \A j \in 1..cur - 1 : toks'[j] = toks[j]
  BY <1>1, SplitList
<1>3. toks'[cur + 1] = ">" /\ \A j \in cur + 1..Len(toks) : toks'[j + 1] = toks[j]
  BY <1>1, <1>2, SplitRest
<1>4. QED
  BY <1>1, <1>2, <1>3

(* No other step changes the list.                                            *)
LEMMA StepWords ==
  ASSUME IInv, Next, status = "run"
  PROVE  toks' = toks \/ Splits
<1>1. Forms
  BY StepForms
<1>2. (\E f : Passes(f, cur') \/ Remains(f, cur') \/ \E r : GivesWay(f, r)) => toks' = toks
  BY DEF Passes, Remains, GivesWay, Goes
<1>3. ASSUME NEW why, NEW c, NEW s, Fails(why, c, s)  PROVE toks' = toks
  BY <1>3 DEF Fails
<1>4. ASSUME NEW f, NEW r, NEW n, NEW c, Calls(f, c, Move, r, n)  PROVE toks' = toks
  BY <1>3, <1>4 DEF Calls
<1>5. ASSUME NEW n, Returns1(n)  PROVE toks' = toks
  BY <1>5 DEF Returns1
<1>6. QED
  BY <1>1, <1>2, <1>3, <1>4, <1>5 DEF Forms, Puts

(* EOF stays where it is, at the end alone.                                   *)
LEMMA EndStays ==
  ASSUME IInv, OneEnd(toks), Next, status = "run"
  PROVE  OneEnd(toks')
<1>1. CASE toks' = toks
  BY <1>1
<1>2. CASE Splits
  <2>1. ASSUME NEW n \in 1..Len(toks') - 1  PROVE toks'[n] # EOF
    <3>1. /\ cur \in Nat /\ Len(toks) \in Nat /\ cur + 1 <= Len(toks) /\ Len(toks') = Len(toks) + 1
          /\ \A j \in 1..cur - 1 : toks'[j] = toks[j]
          /\ toks'[cur] = ">" /\ toks'[cur + 1] = ">"
          /\ \A j \in cur + 1..Len(toks) : toks'[j + 1] = toks[j]
      BY <1>2, SplitWhole
    <3>2. n \in 1..Len(toks) /\ \A j \in 1..Len(toks) - 1 : toks[j] # EOF
      BY <3>1 DEF OneEnd
    <3>3. CASE n < cur
      <4>1. n \in 1..cur - 1 /\ n \in 1..Len(toks) - 1
        BY <3>1, <3>2, <3>3
      <4>2. QED
        BY <3>1, <3>2, <4>1
    <3>4. CASE n \in {cur, cur + 1}
      BY <3>1, <3>4 DEF EOF
    <3>5. CASE n > cur + 1
      <4>1. n - 1 \in cur + 1..Len(toks) /\ n - 1 \in 1..Len(toks) - 1 /\ n - 1 + 1 = n
        BY <3>1, <3>2, <3>5
      <4>2. toks'[n - 1 + 1] = toks[n - 1]
        BY <3>1, <4>1
      <4>3. QED
        BY <3>2, <4>1, <4>2
    <3>6. QED
      BY <3>1, <3>2, <3>3, <3>4, <3>5
  <2>2. QED
    BY <2>1 DEF OneEnd
<1>3. QED
  BY <1>1, <1>2, StepWords

\* the function on top, where the stack is cut, and the move it is at
LEMMA LandsOn ==
  ASSUME IInv, IInv', NEW k, NEW g, Onto(k, g)
  PROVE  /\ Top' = g /\ g.fn \in Rules /\ g.pc \in Places(g.fn) /\ g \in Frames
         /\ Len(stack') = k /\ stack'[k] = g /\ Seated(stack')
<1>1. k \in Nat \ {0} /\ Len(stack') = k /\ stack'[k] = g
  BY StackSeated DEF Onto, Upto
<1>2. Top' = g
  BY <1>1 DEF Top
<1>3. stack' \in Seq(Frames) /\ k \in 1..Len(stack') /\ \A i \in 1..Len(stack') : Placed1(stack'[i], cur')
  BY <1>1 DEF IInv, StackOK
<1>4. ASSUME NEW i \in 1..Len(stack')  PROVE stack'[i].fn \in Rules /\ stack'[i].pc \in Places(stack'[i].fn) /\ stack'[i] \in Frames
  BY <1>3 DEF Placed1, Places, Frames
<1>5. QED
  BY <1>1, <1>2, <1>3, <1>4 DEF Seated

(* Who is called is one of those the move asks for.                           *)
LEMMA AskingAsks ==
  ASSUME IInv, NEW r, NEW c, Asking(r, c)
  PROVE  r \in Asks(Move) \cup AsksOn(Move)
BY MoveAsks DEF Asking, Sure

(* The stack after a call.                                                    *)
LEMMA PushLands ==
  ASSUME IInv, NEW f, NEW g, Pushes(f, g)
  PROVE  /\ Top' = g /\ Len(stack') = Len(stack) + 1 /\ stack'[Len(stack) + 1] = g
         /\ stack'[Len(stack)] = f /\ \A i \in 1..Len(stack) - 1 : stack'[i] = stack[i]
<1>1. Len(stack) \in Nat \ {0}
  BY StackSeated
<1>2. Len(stack) + 1 \in 1..Len(stack) + 1 /\ Len(stack) \in 1..Len(stack) + 1 /\ Len(stack) # Len(stack) + 1
      /\ \A i \in 1..Len(stack) - 1 : i \in 1..Len(stack) + 1 /\ i # Len(stack) /\ i # Len(stack) + 1
  BY <1>1
<1>3. QED
  BY <1>2 DEF Pushes, Top

(* What a function has been shown stays true while it is at its move.         *)
LEMMA StepShown ==
  ASSUME IInv, IInv', Shown, Next, status = "run"
  PROVE  Shown'
<1>1. OneEnd(toks')
  BY EndStays DEF Shown
<1>2. SUFFICES ASSUME status' = "run"  PROVE stack'[1].start = 1 /\ Answered(stack') /\ Told(Top', cur', toks')
  BY <1>1 DEF Shown
<1>3. stack[1].start = 1 /\ Answered(stack) /\ Told(Top, cur, toks)
  BY DEF Shown
<1>4. /\ Seated(stack) /\ Len(stack) \in Nat \ {0} /\ Len(stack) \in 1..Len(stack)
      /\ Top = stack[Len(stack)] /\ Top.fn \in Rules /\ Top.pc \in Places(Top.fn)
      /\ Move = Grammar[Top.fn][Top.pc] /\ Top.pc \in Nat \ {0}
  BY StackSeated, PlaceFacts
<1>5. ASSUME NEW k, NEW g, Onto(k, g), g.start = stack[k].start, g.by = stack[k].by,
             g.fn = stack[k].fn \/ g.fn \in GoesOnAs[stack[k].fn]
      PROVE  stack'[1].start = 1 /\ Answered(stack')
  BY <1>3, <1>4, <1>5, UptoAnswered DEF Onto
<1>6. ASSUME NEW f, Passes(f, cur'), Onto(Len(stack), f)
      PROVE  stack'[1].start = 1 /\ Answered(stack') /\ Told(Top', cur', toks')
  <2>1. As(f, Top.fn, Top.pc + 1) /\ Found(cur') /\ toks' = toks
    BY <1>6 DEF Passes, Goes
  <2>2. Top' = f /\ f.pc \in Places(f.fn)
    BY <1>6, LandsOn
  <2>3. Told(f, cur', toks)
    BY <1>3, <2>1, <2>2, ToldPassed DEF As
  <2>4. QED
    BY <1>4, <1>5, <1>6, <2>1, <2>2, <2>3 DEF As
<1>7. ASSUME NEW f, Remains(f, cur'), Onto(Len(stack), f)
      PROVE  stack'[1].start = 1 /\ Answered(stack') /\ Told(Top', cur', toks')
  <2>1. As(f, Top.fn, Top.pc) /\ Move.op \in {"skips", "bounded", "collect", "scope"}
    BY <1>7 DEF Remains
  <2>2. Top' = f /\ f.pc \in Places(f.fn)
    BY <1>7, LandsOn
  <2>3. Told(f, cur', toks')
    BY <1>4, <2>1, <2>2, ToldStill DEF As
  <2>4. QED
    BY <1>4, <1>5, <1>7, <2>1, <2>2, <2>3 DEF As
<1>8. ASSUME NEW f, NEW r, GivesWay(f, r), Onto(Len(stack), f)
      PROVE  stack'[1].start = 1 /\ Answered(stack') /\ Told(Top', cur', toks')
  <2>1. /\ As(f, r, 1) /\ r \in Leaves(Move) /\ (Move.op \in {"switch", "pick"} => r \in Chosen(Move))
        /\ cur' = cur /\ toks' = toks
    BY <1>8 DEF GivesWay, Goes
  <2>2. Top' = f
    BY <1>8, LandsOn
  <2>3. r \in GoesOnAs[Top.fn] /\ Told(f, cur, toks)
    BY <2>1, ToldChosen
  <2>4. QED
    BY <1>4, <1>5, <1>8, <2>1, <2>2, <2>3 DEF As
<1>9. ASSUME NEW f, NEW g, Pushes(f, g)
      PROVE  stack'[1].start = 1 /\ Answered(stack') /\ Told(Top', cur', toks')
  <2> DEFINE s == [stack EXCEPT ![Len(stack)] = f]
  <2>1. As(f, Top.fn, Top.pc) /\ Asking(g.fn, cur') /\ g.fn \in Rules /\ g.pc = 1 /\ g.by = Move.op
    BY <1>9 DEF Pushes
  <2>2. g.fn \in Asks(Move) \cup AsksOn(Move)
    BY <2>1, AskingAsks
  <2>3. Top' = g
    BY <1>9, PushLands
  <2>4. Told(g, cur', toks')
    <3>1. g.fn \in Entered
      BY <1>4, <2>2, AsksFacts
    <3>2. QED
      BY <2>1, <3>1, ToldEntered
  <2>5. stack' \in Seq(Frames) /\ f \in Frames
    <3>1. stack' \in Seq(Frames) /\ Len(stack) \in 1..Len(stack') /\ stack'[Len(stack)] = f
      BY <1>4, <1>9, PushLands DEF IInv, StackOK
    <3>2. QED
      BY <3>1
  <2>6. /\ s \in Seq(Frames) /\ Len(s) = Len(stack)
        /\ \A i \in 1..Len(stack) : s[i] = IF i = Len(stack) THEN f ELSE stack[i]
    BY <1>4, <2>5 DEF Seated
  <2> HIDE DEF s
  <2>7. Seated(s)
    <3>1. \A i \in 1..Len(stack) : stack[i].fn \in Rules /\ stack[i].pc \in Places(stack[i].fn)
      BY <1>4 DEF Seated
    <3>2. QED
      BY <1>4, <2>1, <2>6, <3>1 DEF Seated, As
  <2>8. s[1].start = 1 /\ Answered(s)
    <3>1. Upto(stack, Len(stack), f, s)
      BY <2>6 DEF Upto
    <3>2. QED
      BY <1>3, <1>4, <2>1, <3>1, UptoAnswered DEF As
  <2>9. Len(stack') = Len(s) + 1 /\ \A i \in 1..Len(stack') : stack'[i] = IF i = Len(stack') THEN g ELSE s[i]
    <3>1. Len(stack') = Len(stack) + 1 /\ \A i \in 1..Len(stack) + 1 :
            stack'[i] = IF i = Len(stack) + 1 THEN g ELSE IF i = Len(stack) THEN f ELSE stack[i]
      BY <1>9 DEF Pushes
    <3>2. \A i \in 1..Len(stack) + 1 : i # Len(stack) + 1 => i \in 1..Len(stack)
      BY <1>4
    <3>3. QED
      BY <2>6, <3>1, <3>2
  <2>10. s # <<>> /\ s[Len(s)] = f /\ Grammar[f.fn][f.pc] = Move
    BY <1>4, <2>1, <2>6 DEF As
  <2>11. stack'[1].start = 1 /\ Answered(stack')
    BY <2>1, <2>2, <2>7, <2>8, <2>9, <2>10, PushAnswered
  <2>12. QED
    BY <2>3, <2>4, <2>11
<1>10. ASSUME NEW k, NEW g, Strands(k, g)
       PROVE  stack'[1].start = 1 /\ Answered(stack') /\ Told(Top', cur', toks')
  <2>1. Onto(k, g) /\ g.start = stack[k].start /\ g.by = stack[k].by /\ g.fn = stack[k].fn /\ g.pc = stack[k].pc + 1
        /\ Grammar[stack[k].fn][stack[k].pc].op = "try"
    BY <1>10 DEF Strands
  <2>2. Top' = g /\ g.fn \in Rules /\ g.pc \in Places(g.fn)
    BY <2>1, LandsOn
  <2>3. stack[k].fn \in Rules /\ stack[k].pc \in Places(stack[k].fn)
    BY <1>4, <2>1 DEF Onto, Seated
  <2>4. g.pc > 1 /\ Before(g.fn, g.pc).op = "try"
    BY <2>1, <2>2, <2>3, PlaceFacts
  <2>5. Told(g, cur', toks')
    BY <2>2, <2>4, ToldAfter
  <2>6. QED
    BY <1>5, <2>1, <2>2, <2>5
<1>11. ASSUME NEW k, NEW g, Hands(k, g)
       PROVE  stack'[1].start = 1 /\ Answered(stack') /\ Told(Top', cur', toks')
  <2>1. /\ Onto(k, g) /\ k + 1 = Len(stack) /\ g.start = stack[k].start /\ g.by = stack[k].by /\ g.fn = stack[k].fn
        /\ g.pc = IF Top.by \in Loops THEN stack[k].pc ELSE stack[k].pc + 1
    BY <1>11 DEF Hands, Resumes
  <2>2. Top' = g /\ g.fn \in Rules /\ g.pc \in Places(g.fn)
    BY <2>1, LandsOn
  <2>3. stack[k].fn \in Rules /\ stack[k].pc \in Places(stack[k].fn)
    BY <1>4, <2>1 DEF Onto, Seated
  <2> DEFINE m == Grammar[stack[k].fn][stack[k].pc]
  <2>4. Top.by = m.op /\ Top.fn \in Answers(m)
    <3> DEFINE N == Len(stack)
    <3>1. N \in 2..N /\ N - 1 = k
      BY <1>4, <2>1 DEF Onto
    <3> HIDE DEF N
    <3>2. stack[N].by = Grammar[stack[N - 1].fn][stack[N - 1].pc].op
          /\ stack[N].fn \in Answers(Grammar[stack[N - 1].fn][stack[N - 1].pc])
      <4>1. N = Len(stack)
        BY DEF N
      <4>2. QED
        BY <1>3, <3>1, <4>1 DEF Answered
    <3>3. QED
      BY <1>4, <3>1, <3>2 DEF N
  <2>5. m.op \notin {"tok", "look", "skip", "skips", "note", "ret", "yield", "scan", "braces", "switch"}
    BY <2>3, <2>4, AnswersOn
  <2>6. Told(g, cur', toks')
    <3>1. CASE Top.by \in Loops
      <4>1. Grammar[g.fn][g.pc].op \notin {"tok", "ret", "yield", "scan", "braces"}
        BY <2>1, <2>5, <3>1
      <4>2. QED
        BY <2>2, <4>1, ToldStill
    <3>2. CASE Top.by \notin Loops
      <4>1. g.pc > 1 /\ Before(g.fn, g.pc) = m
        BY <2>1, <2>2, <2>3, <3>2, PlaceFacts
      <4>2. Before(g.fn, g.pc).op \notin {"tok", "look", "while", "bounded"}
        BY <2>4, <2>5, <3>2, <4>1 DEF Loops
      <4>3. QED
        BY <2>2, <4>1, <4>2, ToldAfter
    <3>3. QED
      BY <3>1, <3>2
  <2>7. QED
    BY <1>5, <2>1, <2>2, <2>6
<1>12. ASSUME Splits, Onto(Len(stack), Done(Top))
       PROVE  stack'[1].start = 1 /\ Answered(stack') /\ Told(Top', cur', toks')
  <2> DEFINE f == Done(Top)
  <2>1. As(f, Top.fn, Top.pc + 1) /\ Move.op = "split"
    BY <1>12, LikeTop DEF Splits
  <2> HIDE DEF f
  <2>2. Onto(Len(stack), f)
    BY <1>12 DEF f
  <2>3. Top' = f /\ f.fn \in Rules /\ f.pc \in Places(f.fn)
    BY <2>2, LandsOn
  <2>4. f.pc > 1 /\ Before(f.fn, f.pc).op = "split"
    BY <1>4, <2>1, <2>3, PlaceFacts DEF As
  <2>5. Told(f, cur', toks')
    BY <2>3, <2>4, ToldAfter
  <2>6. QED
    BY <1>4, <1>5, <2>1, <2>2, <2>3, <2>5 DEF As
<1>13. Lands
  BY <1>2, <1>3, StepLands
<1>14. QED
  BY <1>6, <1>7, <1>8, <1>9, <1>10, <1>11, <1>12, <1>13 DEF Lands

-------------------------------------------------------------------------------
(* Who is lost.                                                               *)

\* somebody on the stack is lost
Strayed == \E i \in 1..Len(stack) : Lost(stack, i, Here)

(* Who goes on without the answer it tried for is lost:                       *)
LEMMA StrandsLost ==
  ASSUME IInv, IInv', NEW k, NEW g, Strands(k, g)
  PROVE  Strayed'
<1>1. /\ Onto(k, g) /\ g.fn = stack[k].fn /\ g.pc = stack[k].pc + 1 /\ g.node.kind = "None"
      /\ Grammar[stack[k].fn][stack[k].pc].op = "try"
  BY DEF Strands
<1>2. Len(stack') = k /\ stack'[k] = g /\ k \in Nat \ {0} /\ k \in 1..k
  BY <1>1, LandsOn, StackSeated DEF Onto
<1>3. Stuck(stack[k].fn, stack[k].pc)
  <2>1. stack[k].fn \in Rules /\ stack[k].pc \in Places(stack[k].fn)
    BY <1>1, StackSeated DEF Onto, Seated
  <2>2. QED
    BY <2>1, PlaceFacts
<1>4. Grammar[g.fn][g.pc].op = "else"
  BY <1>1, <1>3 DEF Stuck
<1>5. Lost(stack', k, Here')
  BY <1>1, <1>2, <1>4 DEF Lost
<1>6. QED
  BY <1>2, <1>5 DEF Strayed

(* one that waits for its last hope stays so whatever is done above it,       *)
LEMMA StillLost ==
  ASSUME NEW s, NEW t, NEW i \in Nat, i < Len(s), i < Len(t), NEW a, NEW b, Lost(s, i, a),
         t[i].fn = s[i].fn, t[i].pc = s[i].pc, t[i + 1].fn = s[i + 1].fn, t[i + 1].by = s[i + 1].by
  PROVE  Lost(t, i, b)
BY DEF Lost

(* and when it has the answer the token it then wants is not there;           *)
LEMMA LostBelow ==
  ASSUME IInv, IInv', Shown, NEW i \in 1..Len(stack), i < Len(stack), Lost(stack, i, Here),
         status = "run", Lands, ~\E k, g : Strands(k, g)
  PROVE  Strayed'
<1> DEFINE N == Len(stack)
           m == Grammar[stack[i].fn][stack[i].pc]
<1>1. /\ Seated(stack) /\ N \in Nat \ {0} /\ N \in 1..N
      /\ Top = stack[N] /\ Top.fn \in Rules /\ Top.pc \in Places(Top.fn) /\ Move = Grammar[Top.fn][Top.pc]
      /\ i \in Nat \ {0} /\ i + 1 \in 1..N /\ i + 1 <= N
  BY StackSeated
<1>2. m.op = "else" /\ stack[i + 1].by = "else" /\ stack[i + 1].fn = m.fn
  BY DEF Lost
<1>3. stack[i].fn \in Rules /\ stack[i].pc \in Places(stack[i].fn)
  BY <1>1 DEF Seated
<1>4. Stuck(stack[i].fn, stack[i].pc)
  BY <1>3, PlaceFacts
<1>5. ASSUME NEW k, NEW g, Onto(k, g), i < k, g.fn = stack[k].fn, g.by = stack[k].by
      PROVE  Strayed'
  <2>1. Len(stack') = k /\ \A j \in 1..k : stack'[j] = IF j = k THEN g ELSE stack[j]
    BY <1>5 DEF Onto, Upto
  <2>2. k \in Nat /\ i \in 1..k /\ i # k /\ i + 1 \in 1..k
    BY <1>1, <1>5 DEF Onto
  <2>3. stack'[i] = stack[i] /\ stack'[i + 1].fn = stack[i + 1].fn /\ stack'[i + 1].by = stack[i + 1].by
    BY <1>5, <2>1, <2>2
  <2>4. Lost(stack', i, Here')
    BY <1>1, <1>5, <2>1, <2>3, StillLost
  <2>5. QED
    BY <2>1, <2>2, <2>4 DEF Strayed
<1>6. ASSUME NEW f, Passes(f, cur') \/ Remains(f, cur'), Onto(N, f)  PROVE Strayed'
  BY <1>1, <1>5, <1>6 DEF Passes, Remains, As
<1>7. ASSUME NEW f, NEW r, GivesWay(f, r), Onto(N, f)  PROVE Strayed'
  <2>1. f.by = Top.by /\ r \in Leaves(Move)
    BY <1>7 DEF GivesWay, As
  <2>2. i + 1 # N
    BY Zenon, <1>1, <1>2, <1>4, <2>1 DEF Stuck
  <2>3. Len(stack') = N /\ \A j \in 1..N : stack'[j] = IF j = N THEN f ELSE stack[j]
    BY <1>7 DEF Onto, Upto
  <2>4. stack'[i] = stack[i] /\ stack'[i + 1] = stack[i + 1]
    BY <1>1, <2>2, <2>3
  <2>5. Lost(stack', i, Here')
    BY <1>1, <2>3, <2>4, StillLost
  <2>6. QED
    BY <1>1, <2>3, <2>5 DEF Strayed
<1>8. ASSUME NEW f, NEW g, Pushes(f, g)  PROVE Strayed'
  <2>1. /\ Len(stack') = N + 1
        /\ \A j \in 1..N + 1 : stack'[j] = IF j = N + 1 THEN g ELSE IF j = N THEN f ELSE stack[j]
        /\ f.fn = Top.fn /\ f.by = Top.by
    BY <1>8 DEF Pushes, As
  <2>2. i \in 1..N + 1 /\ i + 1 \in 1..N + 1 /\ i # N /\ i # N + 1 /\ i + 1 # N + 1
    BY <1>1
  <2>3. stack'[i] = stack[i] /\ stack'[i + 1].fn = stack[i + 1].fn /\ stack'[i + 1].by = stack[i + 1].by
    <3>1. stack'[i + 1] = IF i + 1 = N THEN f ELSE stack[i + 1]
      BY <2>1, <2>2
    <3>2. QED
      BY <1>1, <2>1, <2>2, <3>1
  <2>4. i < Len(stack')
    BY <1>1, <2>1
  <2>5. Lost(stack', i, Here')
    BY <1>1, <2>3, <2>4, StillLost
  <2>6. QED
    BY <2>1, <2>2, <2>5 DEF Strayed
<1>9. ASSUME NEW k, NEW g, Hands(k, g)  PROVE Strayed'
  <2>1. /\ Onto(k, g) /\ k + 1 = N /\ toks' = toks /\ cur' = cur /\ Returns2(Move)
        /\ g.fn = stack[k].fn /\ g.by = stack[k].by
        /\ g.pc = IF Top.by \in Loops THEN stack[k].pc ELSE stack[k].pc + 1
    BY <1>9 DEF Hands, Resumes
  <2>2. k \in 1..N
    BY <2>1 DEF Onto
  <2>3. CASE i < k
    BY <1>5, <2>1, <2>3
  <2>4. CASE i = k
    <3>1. Top.by = "else" /\ Top.fn = m.fn
      BY <1>1, <1>2, <2>1, <2>4
    <3> DEFINE n == Grammar[stack[i].fn][stack[i].pc + 1]
    <3>2. n.op = "tok" /\ Before(Top.fn, Top.pc).op = "bounded" /\ n.on \subseteq Covers(Before(Top.fn, Top.pc))
      <4>1. n.op = "tok" /\ \A q \in Places(m.fn) : Returns2(Grammar[m.fn][q]) =>
              Before(m.fn, q).op = "bounded" /\ n.on \subseteq Covers(Before(m.fn, q))
        BY Zenon, <1>2, <1>4 DEF Stuck
      <4>2. QED
        BY Zenon, <1>1, <2>1, <3>1, <4>1
    <3>3. Here \notin Covers(Before(Top.fn, Top.pc))
      <4>1. Told(Top, cur, toks)
        BY DEF Shown
      <4>2. QED
        BY Zenon, <1>1, <2>1, <3>2, <4>1 DEF Told, Here
    <3>4. Here \notin n.on
      BY <3>2, <3>3
    <3>5. g.pc = stack[i].pc + 1 /\ g.fn = stack[i].fn
      BY <2>1, <2>4, <3>1 DEF Loops
    <3>6. Len(stack') = k /\ stack'[k] = g /\ k \in 1..k
      BY <1>1, <2>1, <2>4, LandsOn
    <3>7. Here' = Here
      BY <2>1 DEF Here
    <3>8. Lost(stack', k, Here')
      BY <3>2, <3>4, <3>5, <3>6, <3>7 DEF Lost
    <3>9. QED
      BY <3>6, <3>8 DEF Strayed
  <2>5. QED
    BY <1>1, <2>1, <2>2, <2>3, <2>4
<1>10. ASSUME Splits, Onto(N, Done(Top))  PROVE Strayed'
  <2> DEFINE f == Done(Top)
  <2>1. f.fn = Top.fn /\ f.by = Top.by
    BY LikeTop DEF As
  <2> HIDE DEF f
  <2>2. Onto(N, f)
    BY <1>10 DEF f
  <2>3. QED
    BY <1>1, <1>5, <2>1, <2>2
<1>11. QED
  BY <1>6, <1>7, <1>8, <1>9, <1>10 DEF Lands

(* one that is at work can only fail, or call its last hope.                  *)
LEMMA LostTop ==
  ASSUME IInv, IInv', Lost(stack, Len(stack), Here), Lands, ~\E k, g : Strands(k, g)
  PROVE  Strayed'
<1>1. /\ Top = stack[Len(stack)] /\ Move = Grammar[Top.fn][Top.pc] /\ Len(stack) \in Nat \ {0}
  BY StackSeated
<1>2. \/ Move.op = "else" /\ Top.node.kind = "None"
      \/ Move.op = "tok" /\ Here \notin Move.on
  BY <1>1 DEF Lost
<1>3. \A f : ~Passes(f, cur')
  BY <1>2 DEF Passes, Found
<1>4. \A f : ~Remains(f, cur')
  BY <1>2 DEF Remains
<1>5. \A f, r : ~GivesWay(f, r)
  BY <1>2 DEF GivesWay, Leaves
<1>6. (\A k, g : ~Hands(k, g)) /\ ~Splits
  BY <1>2 DEF Hands, Splits, Returns2
<1>7. PICK f, g : Pushes(f, g)
  BY <1>3, <1>4, <1>5, <1>6 DEF Lands
<1>8. /\ As(f, Top.fn, Top.pc) /\ Asking(g.fn, cur') /\ g.by = Move.op
      /\ Len(stack') = Len(stack) + 1 /\ stack'[Len(stack) + 1] = g /\ stack'[Len(stack)] = f
  BY <1>7, PushLands DEF Pushes
<1>9. g.fn = Move.fn /\ Move.op = "else"
  BY <1>2, <1>8 DEF Asking, Sure
<1>10. Len(stack) < Len(stack') /\ Len(stack) \in 1..Len(stack')
  BY <1>1, <1>8
<1>11. Lost(stack', Len(stack), Here')
  BY <1>1, <1>8, <1>9, <1>10 DEF Lost, As
<1>12. QED
  BY <1>10, <1>11 DEF Strayed

(* Who is lost stays so, or somebody else is.                                 *)
LEMMA LostStep ==
  ASSUME IInv, IInv', Shown, Lands, status = "run", Strayed
  PROVE  Strayed'
<1>1. CASE \E k, g : Strands(k, g)
  BY <1>1, StrandsLost
<1>2. CASE ~\E k, g : Strands(k, g)
  <2>1. PICK i \in 1..Len(stack) : Lost(stack, i, Here)
    BY DEF Strayed
  <2>2. Len(stack) \in Nat
    BY StackSeated
  <2>3. i < Len(stack) \/ i = Len(stack)
    BY <2>2
  <2>4. QED
    BY <1>2, <2>1, <2>3, LostBelow, LostTop
<1>3. QED
  BY <1>1, <1>2

-------------------------------------------------------------------------------
(* Where {} is met behind a name.                                             *)

(* Where the grammar says {} may be met behind a name follows the moves.      *)
LEMMA MetOn ==
  ASSUME NEW r \in Rules, NEW p \in Places(r)
  PROVE  LET m == Grammar[r][p]
             b == Before(r, p)
         IN  /\ b.op \in {"tok", "skip"} /\ b.on \cap Names # {} => <<r, p>> \in Met
             /\ m.op = "scope" \/ (m.op = "skips" /\ m.on \cap Names # {}) => <<r, p>> \in Met
             /\ <<r, p - 1>> \in Met /\ MayPass(b) => <<r, p>> \in Met
             /\ \A y \in Met : Returns2(Grammar[y[1]][y[2]]) =>
                  /\ m.op \in Loops /\ y[1] \in Answers(m) => <<r, p>> \in Met
                  /\ b.op \notin Loops /\ y[1] \in Answers(b) => <<r, p>> \in Met
             /\ \A y \in Met :
                  p = 1 /\ r \in MayLeave(Grammar[y[1]][y[2]]) \cup MayAsk(Grammar[y[1]][y[2]]) => <<r, p>> \in Met
<1> DEFINE x == <<r, p>>
<1>1. x \in Steps /\ x[1] = r /\ x[2] = p
  BY DEF Steps
<1>2. Meets(Met) \subseteq Met
  BY BracketsMatch
<1>3. ASSUME NEW y \in Met, Returns2(Grammar[y[1]][y[2]])
      PROVE  y[1] \in {z[1] : z \in {z \in Met : Returns2(Grammar[z[1]][z[2]])}}
  BY <1>3
<1>4. ASSUME NEW y \in Met, r \in MayLeave(Grammar[y[1]][y[2]]) \cup MayAsk(Grammar[y[1]][y[2]])
      PROVE  r \in UNION {MayLeave(Grammar[z[1]][z[2]]) \cup MayAsk(Grammar[z[1]][z[2]]) : z \in Met}
  BY <1>4
<1> HIDE DEF x
<1>5. LET m == Grammar[r][p]
          b == Before(r, p)
      IN  /\ b.op \in {"tok", "skip"} /\ b.on \cap Names # {} => x \in Meets(Met)
          /\ m.op = "scope" \/ (m.op = "skips" /\ m.on \cap Names # {}) => x \in Meets(Met)
          /\ <<r, p - 1>> \in Met /\ MayPass(b) => x \in Meets(Met)
  BY <1>1 DEF Meets
<1>6. ASSUME NEW y \in Met, Returns2(Grammar[y[1]][y[2]])
      PROVE  LET m == Grammar[r][p]
                 b == Before(r, p)
             IN  /\ m.op \in Loops /\ y[1] \in Answers(m) => x \in Meets(Met)
                 /\ b.op \notin Loops /\ y[1] \in Answers(b) => x \in Meets(Met)
  BY <1>1, <1>3, <1>6 DEF Meets
<1>7. ASSUME NEW y \in Met, p = 1, r \in MayLeave(Grammar[y[1]][y[2]]) \cup MayAsk(Grammar[y[1]][y[2]])
      PROVE  x \in Meets(Met)
  BY <1>1, <1>4, <1>7 DEF Meets
<1>8. QED
  BY <1>2, <1>5, <1>6, <1>7 DEF x

\* what the parser sees at a {}
LEMMA SeesBraces ==
  ASSUME IInv, BracesAt(toks, cur)
  PROVE  /\ Here = "{" /\ Ahead(0) = "{" /\ Ahead(1) = "}"
         /\ Chosen(Move) \subseteq LikelyOn(Move, Braces)
         /\ Chosen(Move) = {} => \A a \in 1..Len(Move.alts) : ~Must(Move.alts[a], Braces)
<1>1. cur < Len(toks) /\ toks[cur] = "{" /\ toks[cur + 1] = "}"
  BY Zenon DEF BracesAt
<1>2. cur + 0 = cur /\ cur + 0 <= Len(toks) /\ cur + 1 <= Len(toks)
  <2>1. PICK c \in Nat, n \in Nat : c = cur /\ n = Len(toks)
    BY TopFacts DEF IInv
  <2>2. c < n => c + 0 = c /\ c + 0 <= n /\ c + 1 <= n
    OBVIOUS
  <2>3. c < n
    BY Zenon, <1>1, <2>1
  <2>4. QED
    BY <2>1, <2>2, <2>3
<1>3. Here = "{" /\ Ahead(0) = "{" /\ Ahead(1) = "}"
  BY Zenon, <1>1, <1>2 DEF Here, Ahead
<1>4. Len(Braces) = 2 /\ \A k \in 1..2 : Braces[k] = Ahead(k - 1)
  <2>1. Len(Braces) = 2 /\ Braces[1] = "{" /\ Braces[2] = "}"
    BY DEF Braces
  <2>2. \A k \in 1..2 : (k = 1 /\ k - 1 = 0) \/ (k = 2 /\ k - 1 = 1)
    OBVIOUS
  <2>3. QED
    BY Zenon, <1>3, <2>1, <2>2
<1>5. Chosen(Move) \subseteq LikelyOn(Move, Braces)
  <2>1. Len(Braces) \in Nat /\ \A k \in 1..Len(Braces) : Braces[k] = Ahead(k - 1)
    BY <1>4
  <2>2. QED
    BY <2>1, ChosenLikelyOn
<1>6. ASSUME NEW a \in 1..Len(Move.alts), Must(Move.alts[a], Braces)  PROVE Applies(Move.alts[a])
  <2> DEFINE e == Move.alts[a]
  <2>1. e.kinds = {} /\ Len(e.ahead) <= 2 /\ \A k \in 1..Len(e.ahead) : k <= 2 => Braces[k] \in e.ahead[k]
    BY <1>4, <1>6 DEF Must, Sees
  <2>2. Len(e.ahead) \in Nat
    <3>1. Move.alts \in Seq(Alternatives)
      BY MoveFacts DEF Moves
    <3>2. e \in Alternatives
      BY <3>1
    <3> HIDE DEF e
    <3>3. QED
      BY <3>2 DEF Alternatives
  <2> HIDE DEF e
  <2>3. \A k \in 1..Len(e.ahead) : k \in 1..2 /\ k <= 2
    BY <2>1, <2>2
  <2>4. QED
    BY <1>4, <2>1, <2>3 DEF Applies, e
<1>7. QED
  BY Zenon, <1>3, <1>5, <1>6, NotCovered

(* Some tokens that are not names, and are not braces.                        *)
LEMMA PlainTokens ==
  /\ "::" \notin Names /\ ")" \notin Names /\ "fn" # "{" /\ ">" # "{" /\ "}" # "{"
  /\ Modifiers \cap Names = {}
BY DEF Names, Modifiers

\* {} behind a name when the cursor has moved on by one
LEMMA BehindHere ==
  ASSUME IInv, BehindName(toks, cur + 1)
  PROVE  Here \in Names
<1>1. PICK c \in Nat : c = cur
  BY TopFacts DEF IInv
<1>2. toks[c + 1 - 1] \in Names
  BY <1>1 DEF BehindName
<1>3. c + 1 - 1 = c
  OBVIOUS
<1>4. QED
  BY <1>1, <1>2, <1>3 DEF Here

(* A move that is passed meets {} behind a name only where the grammar says,  *)
LEMMA CleanPassed ==
  ASSUME IInv, Told(Top, cur, toks), Clean(Top, cur, toks), NEW c, Found(c),
         Top.pc + 1 \in Places(Top.fn), NEW f, As(f, Top.fn, Top.pc + 1)
  PROVE  Clean(f, c, toks)
<1> DEFINE r == Top.fn
           p == Top.pc
           m == Grammar[r][p + 1]
<1>1. /\ r \in Rules /\ p \in Places(r) /\ p + 1 \in Places(r) /\ Move = Grammar[r][p] /\ p \in Nat \ {0}
      /\ cur \in 1..Len(toks) /\ Len(toks) \in Nat
  BY StackSeated, PlaceFacts
<1>2. f.fn = r /\ f.pc = p + 1 /\ Before(r, p + 1) = Move /\ Unmet(r, p + 1) /\ Unmet(r, p) /\ p + 1 - 1 = p
  BY <1>1, PlaceFacts DEF As
<1> HIDE DEF r, p
<1>3. ASSUME BehindName(toks, c)  PROVE <<r, p + 1>> \in Met
  <2>1. CASE c = cur
    <3>1. BehindName(toks, cur) /\ BracesAt(toks, cur)
      BY <1>3, <2>1 DEF BehindName
    <3>2. <<r, p>> \in Met
      BY <3>1 DEF Clean, r, p
    <3>3. Here = "{"
      BY Zenon, <3>1, SeesBraces
    <3>4. MayPass(Move)
      <4>1. Move.op \notin Sure \cup {"try", "switch", "ret", "yield"}
        BY DEF Found
      <4>2. Move.op # "tok" /\ Move.op # "scan"
        BY <1>1, <2>1 DEF Found
      <4>3. Move.op # "braces"
        BY Zenon, <1>1, <3>3, PlainTokens DEF Told, Here, r, p
      <4>4. Move.op = "look" => "{" \in Move.on
        BY Zenon, <3>3 DEF Found
      <4>5. Move.op = "refuse" \/ Move.op \in Guarded => "{" \notin Move.on
        <5>1. Move.op \in {"refuse", "skips", "opt", "while", "elses", "params"} => Here \notin Move.on
          BY DEF Found
        <5>2. Move.op \in {"skip", "list"} => Here \notin Move.on
          BY <1>1, <2>1 DEF Found
        <5>3. QED
          BY Zenon, <3>3, <5>1, <5>2 DEF Guarded
      <4>6. Move.op \in {"repeat", "pick", "bounded"} => \A a \in 1..Len(Move.alts) : ~Must(Move.alts[a], Braces)
        BY Zenon, <3>1, SeesBraces DEF Found
      <4>7. QED
        BY Zenon, <4>1, <4>2, <4>3, <4>4, <4>5, <4>6 DEF MayPass, Guarded, Sure
    <3>5. QED
      BY <1>1, <1>2, <3>2, <3>4, MetOn
  <2>2. CASE c # cur
    <3>1. Move.op \in {"tok", "skip", "list", "scope", "close", "scan"}
      BY <2>2 DEF Found
    <3>2. Move.op # "scan"
      BY Zenon, <1>3, PlainTokens DEF Found, BehindName, BracesAt
    <3>3. c = cur + 1
      BY <2>2, <3>1, <3>2 DEF Found
    <3>4. Here \in Names
      BY <1>3, <3>3, BehindHere
    <3>5. Move.op # "scope" /\ Move.op # "close"
      BY <2>2, <3>4, PlainTokens DEF Found
    <3>6. Here \in Move.on
      BY <2>2, <3>1, <3>2, <3>5 DEF Found
    <3>7. Move.op # "list"
      BY Zenon, <1>1, <1>2, <3>4, <3>6 DEF Unmet
    <3>8. Move.op \in {"tok", "skip"} /\ Move.on \cap Names # {}
      BY <3>1, <3>2, <3>4, <3>5, <3>6, <3>7
    <3>9. QED
      BY <1>1, <1>2, <3>8, MetOn
  <2>3. QED
    BY <2>1, <2>2
<1>4. ASSUME m.op = "braces"  PROVE c <= 2 \/ toks[c - 2] \notin Names
  <2>1. p + 1 = 2 /\ Move.op = "tok" /\ <<r, 1>> \notin Met
    BY Zenon, <1>2, <1>4 DEF Unmet
  <2>2. p = 1 /\ Len(Grammar[r]) > 1 /\ Grammar[r][2].op = "braces"
    BY <1>1, <1>4, <2>1, PlaceFacts
  <2>3. BracesAt(toks, cur)
    BY Zenon, <2>2 DEF Told, r, p
  <2>4. ~BehindName(toks, cur)
    BY <2>1, <2>2 DEF Clean, r, p
  <2>5. c = cur + 1
    BY <2>1 DEF Found
  <2>6. CASE cur = 1
    BY <2>5, <2>6
  <2>7. CASE cur > 1
    <3>1. c - 2 = cur - 1
      BY <1>1, <2>5
    <3>2. toks[cur - 1] \notin Names
      BY <2>3, <2>4, <2>7 DEF BehindName
    <3>3. QED
      BY <3>1, <3>2
  <2>8. QED
    BY <1>1, <2>6, <2>7
<1>5. QED
  BY <1>2, <1>3, <1>4 DEF Clean

(* and so does one that is not at work on braces.                             *)
LEMMA CleanElse ==
  ASSUME NEW f, f.fn \in Rules, f.pc \in Places(f.fn), NEW c, NEW w,
         BehindName(w, c) => <<f.fn, f.pc>> \in Met,
         f.pc = 1 \/ Grammar[f.fn][f.pc].op # "braces" \/ Before(f.fn, f.pc).op # "tok"
  PROVE  Clean(f, c, w)
<1>1. Unmet(f.fn, f.pc)
  BY PlaceFacts
<1>2. ASSUME Grammar[f.fn][f.pc].op = "braces"  PROVE FALSE
  <2>1. f.pc = 2 /\ Before(f.fn, f.pc).op = "tok"
    BY Zenon, <1>1, <1>2 DEF Unmet
  <2>2. QED
    BY <1>2, <2>1
<1>3. QED
  BY <1>2 DEF Clean

(* No step of a function, if nobody is lost, meets {} behind a name but       *)
(* there.                                                                     *)
LEMMA CleanStep ==
  ASSUME IInv, IInv', Shown, status = "run", Lands, ~Strayed, ~\E k, g : Strands(k, g),
         Clean(Top, cur, toks)
  PROVE  Clean(Top', cur', toks')
<1>1. /\ Seated(stack) /\ Len(stack) \in Nat \ {0} /\ Len(stack) \in 1..Len(stack)
      /\ Top = stack[Len(stack)] /\ Top.fn \in Rules /\ Top.pc \in Places(Top.fn)
      /\ Move = Grammar[Top.fn][Top.pc] /\ Top.pc \in Nat \ {0}
      /\ cur \in 1..Len(toks) /\ Len(toks) \in Nat
  BY StackSeated, PlaceFacts
<1>2. Told(Top, cur, toks) /\ Answered(stack)
  BY DEF Shown
<1>3. BehindName(toks, cur) => <<Top.fn, Top.pc>> \in Met
  BY DEF Clean
<1>4. ASSUME NEW f, Passes(f, cur'), Onto(Len(stack), f)  PROVE Clean(Top', cur', toks')
  <2>1. As(f, Top.fn, Top.pc + 1) /\ Found(cur') /\ toks' = toks
    BY <1>4 DEF Passes, Goes
  <2>2. Top' = f /\ f.pc \in Places(f.fn)
    BY <1>4, LandsOn
  <2>3. Clean(f, cur', toks)
    BY <1>2, <2>1, <2>2, CleanPassed DEF As
  <2>4. QED
    BY <2>1, <2>2, <2>3
<1>5. ASSUME NEW f, Remains(f, cur'), Onto(Len(stack), f)  PROVE Clean(Top', cur', toks')
  <2>1. As(f, Top.fn, Top.pc) /\ toks' = toks
        /\ \/ Move.op = "skips" /\ Here \in Move.on /\ cur' = cur + 1
           \/ Move.op = "bounded" /\ cur' = cur
           \/ Move.op = "collect" /\ Here \in Modifiers /\ cur' = cur + 1
           \/ Move.op = "scope"
    BY <1>5 DEF Remains, Goes
  <2>2. Top' = f /\ f.pc \in Places(f.fn)
    BY <1>5, LandsOn
  <2>3. ASSUME BehindName(toks, cur')  PROVE <<Top.fn, Top.pc>> \in Met
    <3>1. CASE Move.op = "bounded" /\ cur' = cur
      BY <1>3, <2>3, <3>1
    <3>2. CASE Move.op = "skips" /\ Here \in Move.on /\ cur' = cur + 1
      BY <1>1, <2>3, <3>2, BehindHere, MetOn
    <3>3. CASE Move.op = "collect" /\ Here \in Modifiers /\ cur' = cur + 1
      BY <2>3, <3>3, BehindHere, PlainTokens
    <3>4. CASE Move.op = "scope"
      BY <1>1, <3>4, MetOn
    <3>5. QED
      BY <2>1, <3>1, <3>2, <3>3, <3>4
  <2>4. Clean(f, cur', toks)
    BY <1>1, <2>1, <2>2, <2>3, CleanElse DEF As
  <2>5. QED
    BY <2>1, <2>2, <2>4
<1>6. ASSUME NEW f, NEW r, GivesWay(f, r), Onto(Len(stack), f)  PROVE Clean(Top', cur', toks')
  <2>1. /\ As(f, r, 1) /\ r \in Leaves(Move) /\ (Move.op \in {"switch", "pick"} => r \in Chosen(Move))
        /\ cur' = cur /\ toks' = toks
    BY <1>6 DEF GivesWay, Goes
  <2>2. Top' = f /\ f.pc \in Places(f.fn) /\ f.fn \in Rules
    BY <1>6, LandsOn
  <2>3. ASSUME BehindName(toks, cur)  PROVE <<r, 1>> \in Met
    <3>1. BracesAt(toks, cur)
      BY <2>3 DEF BehindName
    <3>2. r \in MayLeave(Move)
      BY Zenon, <2>1, <3>1, SeesBraces DEF MayLeave
    <3> DEFINE y == <<Top.fn, Top.pc>>
    <3>3. y \in Met /\ y[1] = Top.fn /\ y[2] = Top.pc
      BY <1>3, <2>3
    <3> HIDE DEF y
    <3>4. r \in MayLeave(Grammar[y[1]][y[2]])
      BY <1>1, <3>2, <3>3
    <3>5. r \in Rules /\ 1 \in Places(r)
      BY <2>1, <2>2 DEF As
    <3>6. QED
      BY <3>3, <3>4, <3>5, MetOn
  <2>4. Clean(f, cur, toks)
    BY <2>1, <2>2, <2>3, CleanElse DEF As
  <2>5. QED
    BY <2>1, <2>2, <2>4
<1>7. ASSUME NEW f, NEW g, Pushes(f, g)  PROVE Clean(Top', cur', toks')
  <2>1. Asking(g.fn, cur') /\ g.fn \in Rules /\ g.pc = 1 /\ toks' = toks
    BY <1>7 DEF Pushes
  <2>2. Top' = g
    BY <1>7, PushLands
  <2>3. 1 \in Places(g.fn)
    BY <2>1, FirstPlaces
  <2>4. ASSUME BehindName(toks, cur')  PROVE <<g.fn, 1>> \in Met
    <3>1. CASE cur' = cur /\ Move.op \notin {"list", "params", "scope"}
      <4>1. BehindName(toks, cur) /\ BracesAt(toks, cur)
        BY <2>4, <3>1 DEF BehindName
      <4>2. ~(Move.op = "else" /\ Top.node.kind = "None")
        <5>1. Move.op = "else" /\ Top.node.kind = "None" => Lost(stack, Len(stack), Here)
          BY <1>1 DEF Lost
        <5>2. QED
          BY <1>1, <5>1 DEF Strayed
      <4>3. Here = "{" /\ Chosen(Move) \subseteq LikelyOn(Move, Braces)
        BY Zenon, <4>1, SeesBraces
      <4>4. g.fn \in MayAsk(Move)
        BY Zenon, <2>1, <3>1, <4>2, <4>3 DEF Asking, MayAsk, Sure
      <4> DEFINE y == <<Top.fn, Top.pc>>
      <4>5. y \in Met /\ y[1] = Top.fn /\ y[2] = Top.pc
        BY <1>3, <4>1
      <4> HIDE DEF y
      <4>6. g.fn \in MayAsk(Grammar[y[1]][y[2]])
        BY <1>1, <4>4, <4>5
      <4>7. QED
        BY <2>1, <2>3, <4>5, <4>6, MetOn
    <3>2. CASE Move.op \in {"list", "params", "scope"}
      <4>1. cur' = cur + 1 /\ (Here \in Move.on \/ Here = "::") /\ (Move.op # "scope" => Here \in Move.on)
        BY <2>1, <3>2 DEF Asking, Sure
      <4>2. Here \in Names
        BY <2>4, <4>1, BehindHere
      <4>3. Move.op # "scope"
        BY <2>1, <4>2, PlainTokens DEF Asking, Sure
      <4>4. Unmet(Top.fn, Top.pc)
        BY <1>1, PlaceFacts
      <4>5. QED
        BY Zenon, <1>1, <3>2, <4>1, <4>2, <4>3, <4>4 DEF Unmet
    <3>3. QED
      BY <2>1, <3>1, <3>2 DEF Asking
  <2>5. Clean(g, cur', toks)
    BY <2>1, <2>3, <2>4, CleanElse
  <2>6. QED
    BY <2>1, <2>2, <2>5
<1>8. ASSUME NEW k, NEW g, Hands(k, g)  PROVE Clean(Top', cur', toks')
  <2>1. /\ Onto(k, g) /\ k + 1 = Len(stack) /\ g.fn = stack[k].fn /\ Returns2(Move)
        /\ g.pc = IF Top.by \in Loops THEN stack[k].pc ELSE stack[k].pc + 1
        /\ cur' = cur /\ toks' = toks
    BY <1>8 DEF Hands, Resumes
  <2>2. Top' = g /\ g.fn \in Rules /\ g.pc \in Places(g.fn)
    BY <2>1, LandsOn
  <2>3. stack[k].fn \in Rules /\ stack[k].pc \in Places(stack[k].fn)
    BY <1>1, <2>1 DEF Onto, Seated
  <2> DEFINE m == Grammar[stack[k].fn][stack[k].pc]
  <2>4. Top.by = m.op /\ Top.fn \in Answers(m)
    <3> DEFINE N == Len(stack)
    <3>1. N \in 2..N /\ N - 1 = k
      BY <1>1, <2>1 DEF Onto
    <3> HIDE DEF N
    <3>2. stack[N].by = Grammar[stack[N - 1].fn][stack[N - 1].pc].op
          /\ stack[N].fn \in Answers(Grammar[stack[N - 1].fn][stack[N - 1].pc])
      <4>1. N = Len(stack)
        BY DEF N
      <4>2. QED
        BY <1>2, <3>1, <4>1 DEF Answered
    <3>3. QED
      BY <1>1, <3>1, <3>2 DEF N
  <2>5. m.op \notin {"tok", "look", "skip", "skips", "note", "ret", "yield", "scan", "braces", "switch"}
    BY <2>3, <2>4, AnswersOn
  <2>6. ASSUME BehindName(toks, cur)
        PROVE  /\ \A x \in Places(g.fn) : Grammar[g.fn][x].op \in Loops /\ Grammar[g.fn][x] = m => <<g.fn, x>> \in Met
               /\ \A x \in Places(g.fn) : Before(g.fn, x).op \notin Loops /\ Before(g.fn, x) = m => <<g.fn, x>> \in Met
    <3> DEFINE y == <<Top.fn, Top.pc>>
    <3>1. y \in Met /\ y[1] = Top.fn /\ y[2] = Top.pc
      BY <1>3, <2>6
    <3> HIDE DEF y, m
    <3>2. Returns2(Grammar[y[1]][y[2]]) /\ y[1] \in Answers(m)
      BY <1>1, <2>1, <2>4, <3>1
    <3>3. QED
      BY <2>2, <3>1, <3>2, MetOn
  <2>7. Clean(g, cur, toks)
    <3>1. CASE Top.by \in Loops
      <4>1. Grammar[g.fn][g.pc] = m
        BY <2>1, <3>1
      <4>2. BehindName(toks, cur) => <<g.fn, g.pc>> \in Met
        BY <2>2, <2>4, <2>6, <3>1, <4>1
      <4>3. QED
        BY <2>2, <2>5, <4>1, <4>2, CleanElse
    <3>2. CASE Top.by \notin Loops
      <4>1. Before(g.fn, g.pc) = m
        BY <2>1, <2>2, <2>3, <3>2, PlaceFacts
      <4>2. BehindName(toks, cur) => <<g.fn, g.pc>> \in Met
        BY <2>2, <2>4, <2>6, <3>2, <4>1
      <4>3. QED
        BY <2>2, <2>5, <4>1, <4>2, CleanElse
    <3>3. QED
      BY <3>1, <3>2
  <2>8. QED
    BY <2>1, <2>2, <2>7
<1>9. ASSUME Splits, Onto(Len(stack), Done(Top))  PROVE Clean(Top', cur', toks')
  <2> DEFINE f == Done(Top)
  <2>1. As(f, Top.fn, Top.pc + 1) /\ Move.op = "split" /\ cur' = cur
    BY <1>9, LikeTop DEF Splits
  <2> HIDE DEF f
  <2>2. Onto(Len(stack), f)
    BY <1>9 DEF f
  <2>3. Top' = f /\ f.fn \in Rules /\ f.pc \in Places(f.fn)
    BY <2>2, LandsOn
  <2>4. Before(f.fn, f.pc).op = "split"
    BY <1>1, <2>1, <2>3, PlaceFacts DEF As
  <2>5. ~BehindName(toks', cur')
    BY Zenon, <1>9, <2>1, SplitWhole, PlainTokens DEF BehindName, BracesAt
  <2>6. Clean(f, cur', toks')
    BY <2>3, <2>4, <2>5, CleanElse
  <2>7. QED
    BY <2>3, <2>6
<1>10. QED
  BY <1>4, <1>5, <1>6, <1>7, <1>8, <1>9 DEF Lands

-------------------------------------------------------------------------------
(* What the functions owe.                                                    *)

(* Functions begin in the order in which they were called.                    *)
LEMMA StackOrdered ==
  ASSUME IInv, Onward
  PROVE  \A i \in 1..Len(stack) :
           /\ stack[i].start \in Nat /\ Until(stack, cur, i) \in Nat
           /\ 1 <= stack[i].start
           /\ stack[i].start <= Until(stack, cur, i) /\ Until(stack, cur, i) <= cur
<1>1. Len(stack) \in Nat \ {0} /\ cur \in Nat /\ \A i \in 1..Len(stack) : stack[i].start \in 1..cur
  BY TopFacts DEF IInv, StackOK, Placed1
<1>2. ASSUME NEW i \in 1..Len(stack)
      PROVE  /\ stack[i].start \in Nat /\ Until(stack, cur, i) \in Nat /\ 1 <= stack[i].start
             /\ stack[i].start <= Until(stack, cur, i) /\ Until(stack, cur, i) <= cur
  <2>1. PICK a \in Nat : a = stack[i].start /\ 1 <= a /\ a <= cur
    BY <1>1
  <2>2. CASE i = Len(stack)
    BY <1>1, <2>1, <2>2 DEF Until
  <2>3. CASE i # Len(stack)
    <3>1. i + 1 \in 1..Len(stack) /\ i < i + 1
      BY <1>1, <2>3
    <3>2. PICK b \in Nat : b = stack[i + 1].start /\ b <= cur
      BY <1>1, <3>1
    <3>3. Below(stack[i], stack[i + 1], Until(stack, cur, i + 1))
      BY <3>1 DEF Onward, Advances
    <3>4. a <= b
      BY <2>1, <3>2, <3>3 DEF Below
    <3>5. QED
      BY <2>1, <2>3, <3>2, <3>4 DEF Until
  <2>4. QED
    BY <2>2, <2>3
<1>3. QED
  BY <1>2

(* Tokens that are no brackets change nothing.                                *)
LEMMA NoTurn ==
  ASSUME NEW o, NEW t, t \notin Brackets
  PROVE  Turn(o, t) = o
BY DEF Turn, Brackets

(* The tokens that are skipped unread are no brackets.                        *)
LEMMA NoBrackets ==
  /\ "::" \notin Brackets
  /\ Modifiers \cap Brackets = {} /\ Names \cap Brackets = {}
<1>1. DOMAIN Opening = {")", "]", "}"}
  BY DEF Opening
<1>2. Brackets = {"(", "[", "{", ")", "]", "}"}
  BY Zenon, <1>1 DEF Brackets, Openers
<1>3. QED
  BY Zenon, <1>2 DEF Modifiers, Names

(* What is open behind the token at hand, and the one behind it.              *)
LEMMA OpenOn ==
  ASSUME IInv, Onward
  PROVE  /\ OpenIn(toks, Top.start, cur + 1) = Turn(OpenIn(toks, Top.start, cur), Here)
         /\ OpenIn(toks, Top.start, cur + 2) = Turn(OpenIn(toks, Top.start, cur + 1), toks[cur + 1])
<1>1. PICK a \in Nat, b \in Nat : a = Top.start /\ b = cur /\ a <= b
  BY TopBegins
<1>2. a <= b + 1 /\ b + 1 \in Nat /\ b + 1 + 1 = b + 2
  BY <1>1
<1>3. OpenIn(toks, a, b + 1) = Turn(OpenIn(toks, a, b), toks[b])
  BY <1>1, OpenInSteps
<1>4. OpenIn(toks, a, b + 1 + 1) = Turn(OpenIn(toks, a, b + 1), toks[b + 1])
  BY <1>2, OpenInSteps
<1>5. QED
  BY <1>1, <1>2, <1>3, <1>4 DEF Here

\* what the function on top owes
Due == Owes(toks, Top, cur)

(* The function on top owes what the grammar says, and may return only when   *)
(* it owes nothing.                                                           *)
LEMMA DueFacts ==
  ASSUME IInv, Onward, Debts(stack, cur, toks)
  PROVE  /\ Due \in Owed[Top.fn][Top.pc] /\ Due \in Owing
         /\ Due.owed = OpenIn(toks, Top.start, cur) /\ Due.paren = Paren(Top)
         /\ Due = [owed |-> OpenIn(toks, Top.start, cur), paren |-> Paren(Top)]
         /\ Settles(Top.fn, Top.pc)
<1>1. /\ Len(stack) \in 1..Len(stack) /\ Top = stack[Len(stack)] /\ Top.fn \in Rules /\ Top.pc \in Places(Top.fn)
  BY StackSeated
<1>2. Until(stack, cur, Len(stack)) = cur
  BY DEF Until
<1>3. Due \in Owed[Top.fn][Top.pc]
  BY <1>1, <1>2 DEF Debts, Due
<1>4. Settles(Top.fn, Top.pc)
  BY <1>1, PlaceFacts
<1>5. QED
  BY <1>3, <1>4 DEF Settles, Due, Owes, Paren

(* What the functions below owe stays what it was.                            *)
LEMMA DebtsOnto ==
  ASSUME IInv, Onward, Debts(stack, cur, toks), NEW k, NEW g, Onto(k, g), g.start = stack[k].start,
         \A j \in 1..cur - 1 : toks'[j] = toks[j],
         Owes(toks', g, cur') \in Owed[g.fn][g.pc]
  PROVE  Debts(stack', cur', toks')
<1>1. /\ k \in 1..Len(stack) /\ Len(stack') = k /\ \A i \in 1..k : stack'[i] = IF i = k THEN g ELSE stack[i]
      /\ Len(stack) \in Nat /\ k \in Nat
  BY StackSeated DEF Onto, Upto
<1>2. ASSUME NEW i \in 1..k, i # k
      PROVE  Owes(toks', stack'[i], Until(stack', cur', i)) \in Owed[stack'[i].fn][stack'[i].pc]
  <2>1. i \in 1..Len(stack) /\ i + 1 \in 1..k /\ i # Len(stack)
    BY <1>1, <1>2
  <2>2. stack'[i] = stack[i] /\ stack'[i + 1].start = stack[i + 1].start
    <3>1. stack'[i + 1] = IF i + 1 = k THEN g ELSE stack[i + 1]
      BY <1>1, <2>1
    <3>2. QED
      BY <1>1, <1>2, <3>1
  <2>3. Until(stack', cur', i) = Until(stack, cur, i)
    BY <1>1, <1>2, <2>1, <2>2 DEF Until
  <2>4. PICK a \in Nat, b \in Nat : a = stack[i].start /\ b = Until(stack, cur, i) /\ 1 <= a /\ a <= b /\ b <= cur
    BY <2>1, StackOrdered
  <2>5. \A j \in a..b - 1 : toks'[j] = toks[j]
    <3>1. cur \in Nat
      BY TopFacts DEF IInv
    <3>2. \A j \in a..b - 1 : j \in 1..cur - 1
      BY <2>4, <3>1
    <3>3. QED
      BY <3>2
  <2>6. OpenIn(toks', a, b) = OpenIn(toks, a, b)
    <3>1. PICK w : w = toks'
      OBVIOUS
    <3>2. \A j \in a..b - 1 : w[j] = toks[j]
      BY <2>5, <3>1
    <3>3. a <= b
      BY <2>4
    <3>4. OpenIn(w, a, b) = OpenIn(toks, a, b)
      BY <3>2, <3>3, OpenInAgree
    <3>5. QED
      BY <3>1, <3>4
  <2>7. Owes(toks', stack'[i], Until(stack', cur', i)) = Owes(toks, stack[i], Until(stack, cur, i))
    BY <2>2, <2>3, <2>4, <2>6 DEF Owes
  <2>8. QED
    BY <2>1, <2>2, <2>7 DEF Debts
<1>3. ASSUME NEW i \in 1..k, i = k
      PROVE  Owes(toks', stack'[i], Until(stack', cur', i)) \in Owed[stack'[i].fn][stack'[i].pc]
  <2>1. stack'[i] = g /\ Until(stack', cur', i) = cur'
    BY <1>1, <1>3 DEF Until
  <2>2. QED
    BY <2>1
<1>4. QED
  BY <1>1, <1>2, <1>3 DEF Debts

(* What may be owed when a move is passed, by the kind of the move.           *)
LEMMA PastFacts ==
  ASSUME NEW m, NEW d
  PROVE  /\ m.op = "tok" => \A t \in m.on : Reads(d, t) \in Past(m, d)
         /\ SkipsIt(m) /\ d.paren => \A t \in m.on : Reads(d, t) \in Past(m, d)
         /\ m.op = "close" /\ d.paren => Reads(d, ")") \in Past(m, d)
         /\ m.op = "also" \/ NotesIt(m) => d \in Past(m, d) /\ Recalls(d) \in Past(m, d)
         /\ m.op \notin {"tok", "also", "braces"} /\ (SkipsIt(m) \/ m.op = "close" => ~d.paren) => d \in Past(m, d)
<1>1. CASE m.op = "tok"
  <2>1. Past(m, d) = Taken(m, d)
    BY <1>1 DEF Past
  <2>2. QED
    BY <1>1, <2>1 DEF SkipsIt, NotesIt, Taken
<1>2. CASE SkipsIt(m) /\ d.paren
  <2>1. Past(m, d) = Taken(m, d) /\ m.op = "skip"
    BY <1>2 DEF Past, SkipsIt
  <2>2. QED
    BY <1>2, <2>1 DEF NotesIt, Taken
<1>3. CASE m.op = "close" /\ d.paren
  <2>1. Past(m, d) = {Reads(d, ")")}
    BY <1>3 DEF Past, SkipsIt
  <2>2. QED
    BY <1>3, <2>1 DEF NotesIt, SkipsIt
<1>4. CASE m.op = "also" \/ NotesIt(m)
  <2>1. Past(m, d) = {d, Recalls(d)} /\ m.op \in {"also", "note"}
    BY <1>4 DEF Past, SkipsIt, NotesIt
  <2>2. QED
    BY <1>4, <2>1 DEF SkipsIt
<1>5. CASE ~(m.op = "tok") /\ ~(SkipsIt(m) /\ d.paren) /\ ~(m.op = "close" /\ d.paren)
           /\ ~(m.op = "also" \/ NotesIt(m))
  <2>1. m.op # "braces" => Past(m, d) = {d}
    BY <1>5 DEF Past
  <2>2. QED
    BY <1>5, <2>1
<1>6. QED
  BY <1>1, <1>2, <1>3, <1>4, <1>5

(* Moves that are passed.                                                     *)
LEMMA DuePassed ==
  ASSUME IInv, Onward, Debts(stack, cur, toks), Sorted(Top, cur, toks), Clean(Top, cur, toks),
         Move.op # "scan", NEW c, Found(c), NEW f, As(f, Top.fn, Top.pc + 1),
         Paren(f) <=> Paren(Top) \/ (NotesIt(Move) /\ Here \in Move.on)
  PROVE  Owes(toks, f, c) \in Past(Move, Due)
<1> DEFINE e == Owes(toks, f, c)
           o == OpenIn(toks, Top.start, cur)
<1>1. /\ Due.owed = o /\ Due.paren = Paren(Top) /\ Due = [owed |-> o, paren |-> Paren(Top)]
      /\ Settles(Top.fn, Top.pc) /\ Move = Grammar[Top.fn][Top.pc]
  BY DueFacts DEF Move
<1>2. e = [owed |-> OpenIn(toks, Top.start, c), paren |-> Paren(f)]
  BY DEF Owes, Paren, As
<1>3. OpenIn(toks, Top.start, cur + 1) = Turn(o, Here)
  BY OpenOn
<1> HIDE DEF e, o
<1>4. ASSUME c = cur, Paren(f) <=> Paren(Top)  PROVE e = Due
  BY <1>1, <1>2, <1>4 DEF o, Paren
<1>5. ASSUME c = cur + 1, Paren(f) <=> Paren(Top)  PROVE e = Reads(Due, Here)
  BY <1>1, <1>2, <1>3, <1>5 DEF Reads, Paren
<1>6. ASSUME c = cur + 1, Here \notin Brackets, Paren(f) <=> Paren(Top)  PROVE e = Due
  BY <1>1, <1>2, <1>3, <1>6, NoTurn DEF Paren
<1>7. Move.op \notin Sure \cup {"braces"}
  <2>1. Move.op = "braces" => cur > 2 /\ toks[cur - 2] \in Names
    BY DEF Found
  <2>2. cur \in Nat
    BY TopFacts DEF IInv
  <2>3. Move.op # "braces"
    BY <1>1, <2>1, <2>2 DEF Clean
  <2>4. QED
    BY <2>3 DEF Found
<1>8. CASE Move.op = "tok"
  <2>1. c = cur + 1 /\ Here \in Move.on /\ (Paren(f) <=> Paren(Top))
    BY <1>8 DEF Found, NotesIt
  <2>2. e = Reads(Due, Here)
    BY <1>5, <2>1
  <2>3. QED
    BY <1>8, <2>1, <2>2, PastFacts DEF e
<1>9. CASE SkipsIt(Move)
  <2>1. /\ Move.op = "skip" /\ (c = IF Here \in Move.on THEN cur + 1 ELSE cur) /\ (Paren(f) <=> Paren(Top))
        /\ (Here \in Move.on <=> Paren(Top))
    BY <1>1, <1>9 DEF Found, NotesIt, SkipsIt, Sorted, Here, Paren
  <2>2. CASE Paren(Top)
    <3>1. e = Reads(Due, Here) /\ Here \in Move.on /\ Due.paren
      BY <1>1, <1>5, <2>1, <2>2
    <3>2. QED
      BY <1>9, <2>1, <3>1, PastFacts DEF e
  <2>3. CASE ~Paren(Top)
    <3>1. e = Due /\ ~Due.paren
      BY <1>1, <1>4, <2>1, <2>3
    <3>2. QED
      BY <2>1, <3>1, PastFacts DEF e
  <2>4. QED
    BY <2>2, <2>3
<1>10. CASE Move.op = "close"
  <2>1. (Paren(f) <=> Paren(Top)) /\ IF Paren(Top) THEN c = cur + 1 /\ Here = ")" ELSE c = cur
    BY <1>10 DEF Found, NotesIt
  <2>2. CASE Paren(Top)
    <3>1. e = Reads(Due, ")") /\ Due.paren
      BY <1>1, <1>5, <2>1, <2>2
    <3>2. QED
      BY <1>10, <3>1, PastFacts DEF e
  <2>3. CASE ~Paren(Top)
    <3>1. e = Due /\ ~Due.paren
      BY <1>1, <1>4, <2>1, <2>3
    <3>2. QED
      BY <1>10, <3>1, PastFacts DEF e
  <2>4. QED
    BY <2>2, <2>3
<1>11. CASE NotesIt(Move)
  <2>1. c = cur /\ Move.op = "note"
    BY <1>11 DEF Found, NotesIt
  <2>2. Due \in Past(Move, Due) /\ Recalls(Due) \in Past(Move, Due)
    BY <1>11, PastFacts
  <2>3. CASE Paren(f) <=> Paren(Top)
    BY <1>4, <2>1, <2>2, <2>3 DEF e
  <2>4. CASE ~(Paren(f) <=> Paren(Top))
    <3>1. Paren(f) = TRUE
      BY <2>4 DEF Paren
    <3>2. Recalls(Due) = [owed |-> o, paren |-> TRUE]
      BY <1>1 DEF Recalls
    <3>3. e = [owed |-> o, paren |-> TRUE]
      BY <1>2, <2>1, <3>1 DEF o
    <3>4. QED
      BY <2>2, <3>2, <3>3 DEF e
  <2>5. QED
    BY <2>3, <2>4
<1>12. CASE Move.op \notin {"tok", "close", "also", "braces"} /\ ~SkipsIt(Move) /\ ~NotesIt(Move)
  <2>1. Due \in Past(Move, Due)
    BY <1>12, PastFacts
  <2>2. Paren(f) <=> Paren(Top)
    BY <1>12
  <2>3. c = cur \/ (c = cur + 1 /\ Here \notin Brackets)
    <3>1. CASE Move.op = "skip"
      <4>1. Move.on \cap Brackets = {}
        BY <1>12, <3>1 DEF SkipsIt
      <4>2. c = IF Here \in Move.on THEN cur + 1 ELSE cur
        BY <3>1 DEF Found
      <4>3. QED
        BY <4>1, <4>2
    <3>2. CASE Move.op = "list"
      <4>1. Move.on \cap Brackets = {}
        BY <1>1, <3>2 DEF Settles
      <4>2. c = IF Here \in Move.on THEN cur + 1 ELSE cur
        BY <3>2 DEF Found
      <4>3. QED
        BY <4>1, <4>2
    <3>3. CASE Move.op = "scope"
      BY <3>3, NoBrackets DEF Found
    <3>4. CASE Move.op \notin {"skip", "list", "scope"}
      BY <1>12, <3>4 DEF Found
    <3>5. QED
      BY <3>1, <3>2, <3>3, <3>4
  <2>4. e = Due
    BY <1>4, <1>6, <2>2, <2>3
  <2>5. QED
    BY <2>1, <2>4 DEF e
<1>13. QED
  BY <1>7, <1>8, <1>9, <1>10, <1>11, <1>12 DEF Sure

(* Moves that are stayed at, or call.                                         *)
LEMMA DueStays ==
  ASSUME IInv, Onward, Debts(stack, cur, toks), NEW f, f.start = Top.start, Paren(f) <=> Paren(Top), NEW c,
         \/ c = cur
         \/ c = cur + 1 /\ Here \notin Brackets
         \/ c = cur + 2 /\ Here \notin Brackets /\ toks[cur + 1] \notin Brackets
  PROVE  Owes(toks, f, c) = Due
<1> DEFINE o == OpenIn(toks, Top.start, cur)
<1>1. Due = [owed |-> o, paren |-> Paren(Top)]
  BY DueFacts
<1>2. Owes(toks, f, c) = [owed |-> OpenIn(toks, Top.start, c), paren |-> Paren(Top)]
  BY DEF Owes, Paren
<1>3. /\ OpenIn(toks, Top.start, cur + 1) = Turn(o, Here)
      /\ OpenIn(toks, Top.start, cur + 2) = Turn(OpenIn(toks, Top.start, cur + 1), toks[cur + 1])
  BY OpenOn
<1> HIDE DEF o
<1>4. OpenIn(toks, Top.start, c) = o
  <2>1. CASE c = cur
    BY <2>1 DEF o
  <2>2. CASE c = cur + 1 /\ Here \notin Brackets
    BY <1>3, <2>2, NoTurn
  <2>3. CASE c = cur + 2 /\ Here \notin Brackets /\ toks[cur + 1] \notin Brackets
    <3>1. OpenIn(toks, Top.start, cur + 1) = o
      BY <1>3, <2>3, NoTurn
    <3>2. QED
      BY <1>3, <2>3, <3>1, NoTurn
  <2>4. QED
    BY <2>1, <2>2, <2>3
<1>5. QED
  BY <1>1, <1>2, <1>4

\* the words of a text
LEMMA HasFacts ==
  ASSUME NEW w, w \in Seq(Tokens \cup {EOF}), w # <<>>, NEW t
  PROVE  (\E n \in 1..Len(SubSeq(w, 1, Len(w) - 1)) : SubSeq(w, 1, Len(w) - 1)[n] = t)
           <=> \E n \in 1..Len(w) - 1 : w[n] = t
<1>1. Len(w) \in Nat \ {0}
  OBVIOUS
<1>2. PICK k : k = Len(w) - 1
  OBVIOUS
<1>3. k \in 0..Len(w)
  BY <1>1, <1>2
<1>4. Len(SubSeq(w, 1, k)) = k /\ \A n \in 1..k : SubSeq(w, 1, k)[n] = w[n]
  BY <1>1, <1>3
<1>5. QED
  BY <1>2, <1>4

(* A text that names an operator keeps the name when '>>' is split.           *)
LEMMA HasStep ==
  ASSUME IInv, IInv', toks' = toks \/ Splits, Has("op")
  PROVE  Has("op")'
<1>1. CASE toks' = toks
  BY <1>1 DEF Has, Text
<1>2. CASE Splits
  <2>1. /\ cur \in Nat /\ Len(toks) \in Nat /\ cur + 1 <= Len(toks) /\ Len(toks') = Len(toks) + 1
        /\ \A j \in 1..cur - 1 : toks'[j] = toks[j]
        /\ \A j \in cur + 1..Len(toks) : toks'[j + 1] = toks[j]
    BY <1>2, SplitWhole
  <2>2. PICK n \in 1..Len(toks) - 1 : toks[n] = "op"
    <3>1. toks \in Seq(Tokens \cup {EOF}) /\ toks # <<>>
      BY DEF IInv, ListOK
    <3>2. QED
      BY <3>1, HasFacts DEF Has, Text
  <2>3. n # cur
    BY <1>2, <2>2 DEF Splits, Here
  <2>4. \E k \in 1..Len(toks') - 1 : toks'[k] = "op"
    <3>1. CASE n < cur
      <4>1. n \in 1..cur - 1 /\ n \in 1..Len(toks') - 1
        BY <2>1, <3>1
      <4>2. QED
        BY <2>1, <2>2, <4>1
    <3>2. CASE n > cur
      <4>1. n \in cur + 1..Len(toks) /\ n + 1 \in 1..Len(toks') - 1
        BY <2>1, <3>2
      <4>2. QED
        BY <2>1, <2>2, <4>1
    <3>3. QED
      BY <2>1, <2>3, <3>1, <3>2
  <2>5. PICK w : w = toks'
    OBVIOUS
  <2>6. w \in Seq(Tokens \cup {EOF}) /\ w # <<>>
    BY <2>5 DEF IInv, ListOK
  <2>7. \E k \in 1..Len(SubSeq(w, 1, Len(w) - 1)) : SubSeq(w, 1, Len(w) - 1)[k] = "op"
    BY <2>4, <2>5, <2>6, HasFacts
  <2>8. QED
    BY <2>5, <2>7 DEF Has, Text
<1>3. QED
  BY <1>1, <1>2

\* OpDecl looks for its operator's name behind an op
LEMMA NoScan ==
  ASSUME IInv, Told(Top, cur, toks), ~Has("op")
  PROVE  Move.op # "scan"
<1>1. SUFFICES ASSUME Move.op = "scan"  PROVE FALSE
  OBVIOUS
<1>2. Here = "op" /\ Here # EOF
  BY <1>1 DEF Told, Move, Here, EOF
<1>3. cur \in 1..Len(toks) /\ Len(toks) \in Nat /\ cur # Len(toks)
  BY <1>2, StackSeated, TopFacts
<1>4. cur \in 1..Len(toks) - 1 /\ toks[cur] = "op"
  BY <1>2, <1>3 DEF Here
<1>5. toks \in Seq(Tokens \cup {EOF}) /\ toks # <<>>
  BY DEF IInv, ListOK
<1>6. QED
  BY <1>4, <1>5, HasFacts DEF Has, Text

\* a bracket is skipped right behind where it was noted
LEMMA SortedElse ==
  ASSUME NEW f, f.fn \in Rules, f.pc \in Places(f.fn), NEW c, NEW w,
         f.pc = 1 \/ Grammar[f.fn][f.pc].op # "skip" \/ Before(f.fn, f.pc).op # "note"
  PROVE  Sorted(f, c, w)
<1>1. Settles(f.fn, f.pc) /\ (f.pc = 1 => Before(f.fn, f.pc) = Plain("entry"))
  BY PlaceFacts
<1>2. ASSUME SkipsIt(Grammar[f.fn][f.pc])  PROVE FALSE
  <2>1. Grammar[f.fn][f.pc].op = "skip" /\ Before(f.fn, f.pc).op = "note"
    BY <1>1, <1>2 DEF Settles, SkipsIt, NotesIt
  <2>2. f.pc = 1
    BY <2>1
  <2>3. Before(f.fn, f.pc).op = "entry"
    BY <1>1, <2>2, EntryIsNone
  <2>4. QED
    BY <2>1, <2>3
<1>3. QED
  BY <1>2 DEF Sorted

(* A '(' is skipped where the move before has noted it.                       *)
LEMMA SortedPassed ==
  ASSUME IInv, Onward, Debts(stack, cur, toks), NEW f, Passes(f, cur'), Top.pc + 1 \in Places(Top.fn)
  PROVE  Sorted(f, cur', toks)
<1> DEFINE r == Top.fn
           p == Top.pc
           m == Grammar[r][p + 1]
<1>1. /\ r \in Rules /\ p \in Places(r) /\ p + 1 \in Places(r) /\ Move = Grammar[r][p] /\ p \in Nat \ {0}
      /\ p + 1 - 1 = p
  BY StackSeated, PlaceFacts
<1>2. f.fn = r /\ f.pc = p + 1 /\ Before(r, p + 1) = Move /\ Settles(r, p + 1)
  BY <1>1, PlaceFacts DEF As, Passes
<1>3. Due \in Owed[r][p] /\ Due.paren = Paren(Top)
  BY DueFacts
<1> HIDE DEF r, p
<1>4. ASSUME SkipsIt(m)  PROVE toks[cur'] \in m.on <=> Paren(f)
  <2>1. NotesIt(Move) /\ Move.on = m.on /\ \A d \in Owed[r][p] : ~d.paren
    BY <1>1, <1>2, <1>4 DEF Settles
  <2>2. ~Paren(Top)
    BY <1>3, <2>1
  <2>3. cur' = cur /\ (Paren(f) <=> Here \in Move.on)
    BY <2>1, <2>2 DEF Passes, Found, NotesIt
  <2>4. QED
    BY <2>1, <2>3 DEF Here
<1>5. QED
  BY <1>2, <1>4 DEF Sorted, Paren

(* No step of a function, if nobody is lost and no operator named, makes it   *)
(* owe what the grammar does not say.                                         *)
LEMMA DebtsStep ==
  ASSUME IInv, IInv', Onward, Shown, status = "run", Lands, ~\E k, g : Strands(k, g), ~Has("op"),
         Debts(stack, cur, toks), Sorted(Top, cur, toks), Clean(Top, cur, toks)
  PROVE  Debts(stack', cur', toks') /\ Sorted(Top', cur', toks')
<1>1. /\ Seated(stack) /\ Len(stack) \in Nat \ {0} /\ Len(stack) \in 1..Len(stack)
      /\ Top = stack[Len(stack)] /\ Top.fn \in Rules /\ Top.pc \in Places(Top.fn)
      /\ Move = Grammar[Top.fn][Top.pc] /\ Top.pc \in Nat \ {0}
      /\ cur \in 1..Len(toks) /\ Len(toks) \in Nat
  BY StackSeated, PlaceFacts
<1>2. Told(Top, cur, toks) /\ Answered(stack)
  BY DEF Shown
<1>3. Due \in Owed[Top.fn][Top.pc] /\ Settles(Top.fn, Top.pc) /\ Due.owed = OpenIn(toks, Top.start, cur)
  BY DueFacts
<1>4. ASSUME Top.pc + 1 \in Places(Top.fn)  PROVE Past(Move, Due) \subseteq Owed[Top.fn][Top.pc + 1]
  <2>1. Top.pc < Len(Grammar[Top.fn])
    <3>1. Top.pc + 1 \in 1..Len(Grammar[Top.fn]) /\ Len(Grammar[Top.fn]) \in Nat
      BY <1>1, <1>4, PlaceFacts DEF Places
    <3>2. QED
      BY <1>1, <3>1
  <2>2. QED
    BY <1>1, <1>3, <2>1 DEF Settles
<1>5. ASSUME NEW f, Passes(f, cur'), Onto(Len(stack), f)
      PROVE  Debts(stack', cur', toks') /\ Sorted(Top', cur', toks')
  <2>1. As(f, Top.fn, Top.pc + 1) /\ Found(cur') /\ toks' = toks
        /\ (Paren(f) <=> Paren(Top) \/ (NotesIt(Move) /\ Here \in Move.on))
    BY <1>5 DEF Passes, Goes
  <2>2. Top' = f /\ f.pc \in Places(f.fn)
    BY <1>5, LandsOn
  <2>3. Top.pc + 1 \in Places(Top.fn)
    BY <2>1, <2>2 DEF As
  <2>4. Owes(toks, f, cur') \in Past(Move, Due)
    BY <1>2, <2>1, DuePassed, NoScan
  <2>5. Owes(toks', f, cur') \in Owed[f.fn][f.pc]
    BY <1>4, <2>1, <2>3, <2>4 DEF As
  <2>6. Debts(stack', cur', toks')
    BY <1>1, <1>5, <2>1, <2>5, DebtsOnto DEF As
  <2>7. Sorted(f, cur', toks)
    BY <1>5, <2>3, SortedPassed
  <2>8. QED
    BY <2>1, <2>2, <2>6, <2>7
<1>6. ASSUME NEW f, Remains(f, cur'), Onto(Len(stack), f)
      PROVE  Debts(stack', cur', toks') /\ Sorted(Top', cur', toks')
  <2>1. As(f, Top.fn, Top.pc) /\ toks' = toks /\ (Paren(f) <=> Paren(Top))
        /\ \/ Move.op = "skips" /\ Here \in Move.on /\ cur' = cur + 1
           \/ Move.op = "bounded" /\ cur' = cur
           \/ Move.op = "collect" /\ Here \in Modifiers /\ cur' = cur + 1
           \/ Move.op = "scope" /\ Here = "::" /\ Ahead(1) \in Names /\ cur' = cur + 2
    BY <1>6 DEF Remains, Goes
  <2>2. Top' = f /\ f.pc \in Places(f.fn)
    BY <1>6, LandsOn
  <2>3. Owes(toks, f, cur') = Due
    <3>1. CASE Move.op = "skips" /\ Here \in Move.on /\ cur' = cur + 1
      <4>1. Here \notin Brackets
        BY <1>1, <1>3, <3>1 DEF Settles
      <4>2. QED
        BY <2>1, <3>1, <4>1, DueStays DEF As
    <3>2. CASE cur' = cur
      BY <2>1, <3>2, DueStays DEF As
    <3>3. CASE Here \in Modifiers /\ cur' = cur + 1
      BY <2>1, <3>3, DueStays, NoBrackets DEF As
    <3>4. CASE Here = "::" /\ Ahead(1) \in Names /\ cur' = cur + 2
      <4>1. toks[cur + 1] \in Names
        BY <3>4 DEF Ahead, EOF, Names
      <4>2. Here \notin Brackets /\ toks[cur + 1] \notin Brackets
        BY <3>4, <4>1, NoBrackets
      <4>3. QED
        BY <2>1, <3>4, <4>2, DueStays DEF As
    <3>5. QED
      BY <2>1, <3>1, <3>2, <3>3, <3>4
  <2>4. Owes(toks', f, cur') \in Owed[f.fn][f.pc]
    BY <1>3, <2>1, <2>3 DEF As
  <2>5. Debts(stack', cur', toks')
    BY <1>1, <1>6, <2>1, <2>4, DebtsOnto DEF As
  <2>6. Sorted(f, cur', toks)
    BY <1>1, <2>1, <2>2, SortedElse DEF As
  <2>7. QED
    BY <2>1, <2>2, <2>5, <2>6
<1>7. ASSUME NEW f, NEW r, GivesWay(f, r), Onto(Len(stack), f)
      PROVE  Debts(stack', cur', toks') /\ Sorted(Top', cur', toks')
  <2>1. As(f, r, 1) /\ r \in Leaves(Move) /\ cur' = cur /\ toks' = toks /\ (Paren(f) <=> Paren(Top))
    BY <1>7 DEF GivesWay, Goes
  <2>2. Top' = f /\ f.pc \in Places(f.fn) /\ f.fn \in Rules
    BY <1>7, LandsOn
  <2>3. Owes(toks, f, cur) = Due
    BY <2>1, DueStays DEF As
  <2>4. Owes(toks', f, cur') \in Owed[f.fn][f.pc]
    <3>1. Owed[Top.fn][Top.pc] \subseteq Owed[r][1]
      BY <1>1, <1>3, <2>1 DEF Settles
    <3>2. QED
      BY <1>3, <2>1, <2>3, <3>1 DEF As
  <2>5. Debts(stack', cur', toks')
    BY <1>1, <1>7, <2>1, <2>4, DebtsOnto DEF As
  <2>6. Sorted(f, cur', toks)
    BY <2>1, <2>2, SortedElse DEF As
  <2>7. QED
    BY <2>1, <2>2, <2>5, <2>6
<1>8. ASSUME NEW f, NEW g, Pushes(f, g)
      PROVE  Debts(stack', cur', toks') /\ Sorted(Top', cur', toks')
  <2>1. /\ As(f, Top.fn, Top.pc) /\ (Paren(f) <=> Paren(Top)) /\ Asking(g.fn, cur') /\ g.fn \in Rules
        /\ g.pc = 1 /\ g.start = cur' /\ ~Paren(g) /\ toks' = toks
        /\ Len(stack') = Len(stack) + 1
        /\ \A i \in 1..Len(stack) + 1 :
             stack'[i] = IF i = Len(stack) + 1 THEN g ELSE IF i = Len(stack) THEN f ELSE stack[i]
    BY <1>8 DEF Pushes
  <2>2. Top' = g
    BY <1>8, PushLands
  <2>3. Owes(toks, f, cur') = Due
    <3>1. cur' = cur \/ (cur' = cur + 1 /\ Here \notin Brackets)
      <4>1. CASE Move.op \in {"list", "params"}
        <5>1. Move.on \cap Brackets = {}
          BY <1>1, <1>3, <4>1 DEF Settles
        <5>2. QED
          BY <2>1, <4>1, <5>1 DEF Asking, Sure
      <4>2. CASE Move.op \notin {"list", "params"}
        BY <2>1, <4>2, NoBrackets DEF Asking
      <4>3. QED
        BY <4>1, <4>2
    <3>2. QED
      BY <2>1, <3>1, DueStays DEF As
  <2>4. Owes(toks, g, cur') \in Owed[g.fn][1]
    <3>1. g.fn \in Entered
      BY <1>1, <2>1, AskingAsks, AsksFacts
    <3>2. OpenIn(toks, cur', cur') = <<>>
      <4>1. PICK c \in Nat : c = cur'
        BY DEF IInv
      <4>2. c <= c
        BY <4>1
      <4>3. OpenIn(toks, c, c) = <<>>
        BY <4>2, OpenInSteps
      <4>4. QED
        BY <4>1, <4>3
    <3>3. Paren(g) = FALSE
      BY <2>1 DEF Paren
    <3>4. Owes(toks, g, cur') = Nothing
      BY <2>1, <3>2, <3>3 DEF Owes, Nothing, Paren
    <3>5. QED
      BY <3>1, <3>4, BracketsMatch
  <2>5. ASSUME NEW i \in 1..Len(stack')
        PROVE  Owes(toks', stack'[i], Until(stack', cur', i)) \in Owed[stack'[i].fn][stack'[i].pc]
    <3>1. CASE i = Len(stack) + 1
      <4>1. stack'[i] = g /\ Until(stack', cur', i) = cur'
        BY <2>1, <3>1 DEF Until
      <4>2. QED
        BY <2>1, <2>4, <4>1
    <3>2. CASE i = Len(stack)
      <4>1. Len(stack) + 1 \in 1..Len(stack) + 1 /\ i # Len(stack) + 1 /\ i \in 1..Len(stack) + 1
        BY <1>1, <3>2
      <4>2. stack'[i] = f /\ stack'[i + 1] = g
        BY <2>1, <3>2, <4>1
      <4>3. Until(stack', cur', i) = cur'
        BY <2>1, <4>1, <4>2 DEF Until
      <4>4. QED
        BY <1>3, <2>1, <2>3, <4>2, <4>3 DEF As
    <3>3. CASE i # Len(stack) /\ i # Len(stack) + 1
      <4>1. /\ i \in 1..Len(stack) + 1 /\ i \in 1..Len(stack) /\ i + 1 \in 1..Len(stack)
            /\ i + 1 \in 1..Len(stack) + 1 /\ i + 1 # Len(stack) + 1
        BY <1>1, <2>1, <3>3
      <4>2. stack'[i] = stack[i]
        BY <2>1, <3>3, <4>1
      <4>3. stack'[i + 1] = IF i + 1 = Len(stack) THEN f ELSE stack[i + 1]
        BY <2>1, <4>1
      <4>4. stack'[i + 1].start = stack[i + 1].start
        BY <1>1, <2>1, <4>3 DEF As
      <4>5. Until(stack', cur', i) = Until(stack, cur, i)
        BY <2>1, <3>3, <4>4 DEF Until
      <4>6. QED
        BY <2>1, <4>1, <4>2, <4>5 DEF Debts
    <3>4. QED
      BY <3>1, <3>2, <3>3
  <2>6. Debts(stack', cur', toks')
    BY <2>5 DEF Debts
  <2>7. Sorted(g, cur', toks')
    BY <2>1, FirstPlaces, SortedElse
  <2>8. QED
    BY <2>2, <2>6, <2>7
<1>9. ASSUME NEW k, NEW g, Hands(k, g)
      PROVE  Debts(stack', cur', toks') /\ Sorted(Top', cur', toks')
  <2> DEFINE h == stack[k]
             m == Grammar[h.fn][h.pc]
  <2>1. /\ Onto(k, g) /\ k + 1 = Len(stack) /\ g.fn = h.fn /\ g.start = h.start /\ Returns2(Move)
        /\ g.pc = IF Top.by \in Loops THEN h.pc ELSE h.pc + 1
        /\ (Paren(h) => Paren(g)) /\ (Top.by # "also" => (Paren(g) => Paren(h)))
        /\ cur' = cur /\ toks' = toks
    BY <1>9 DEF Hands, Resumes
  <2>2. Top' = g /\ g.fn \in Rules /\ g.pc \in Places(g.fn)
    BY <2>1, LandsOn
  <2>3. h.fn \in Rules /\ h.pc \in Places(h.fn) /\ k \in 1..Len(stack) /\ k # Len(stack)
    BY <1>1, <2>1 DEF Onto, Seated
  <2>4. Top.by = m.op /\ Top.fn \in Answers(m)
    <3> DEFINE N == Len(stack)
    <3>1. N \in 2..N /\ N - 1 = k
      BY <1>1, <2>1 DEF Onto
    <3> HIDE DEF N
    <3>2. stack[N].by = Grammar[stack[N - 1].fn][stack[N - 1].pc].op
          /\ stack[N].fn \in Answers(Grammar[stack[N - 1].fn][stack[N - 1].pc])
      <4>1. N = Len(stack)
        BY DEF N
      <4>2. QED
        BY <1>2, <3>1, <4>1 DEF Answered
    <3>3. QED
      BY <1>1, <3>1, <3>2 DEF N
  <2>5. m.op \notin {"tok", "look", "skip", "skips", "note", "ret", "yield", "scan", "braces", "switch", "close"}
    BY <2>3, <2>4, AnswersOn
  <2> DEFINE d == Owes(toks, h, Top.start)
             e == Owes(toks, g, cur)
  <2>6. d \in Owed[h.fn][h.pc] /\ Settles(h.fn, h.pc)
    <3>1. Until(stack, cur, k) = Top.start
      BY <1>1, <2>1, <2>3 DEF Until
    <3>2. QED
      BY <2>3, <3>1, PlaceFacts DEF Debts
  <2>7. OpenIn(toks, h.start, cur) = OpenIn(toks, h.start, Top.start)
    <3>1. OpenIn(toks, Top.start, cur) = <<>>
      BY <1>1, <1>3, <2>1 DEF Settles
    <3>2. OpenIn(toks, h.start, Top.start) \in Seq(Openers)
      BY <2>6 DEF Settles, Owing, Owes
    <3>3. PICK a \in Nat, b \in Nat, c \in Nat : a = h.start /\ b = Top.start /\ c = cur /\ a <= b /\ b <= c
      <4>1. h.start \in Nat /\ h.start <= Until(stack, cur, k)
        BY <2>3, StackOrdered
      <4>2. Until(stack, cur, k) = Top.start
        BY <1>1, <2>1, <2>3 DEF Until
      <4>3. Top.start \in Nat /\ cur \in Nat /\ Top.start <= cur
        BY TopBegins
      <4>4. QED
        BY <4>1, <4>2, <4>3
    <3> HIDE DEF h
    <3>4. OpenIn(toks, a, b) \in Seq(Openers) /\ OpenIn(toks, b, c) = <<>> /\ a <= b /\ b <= c
      BY <3>1, <3>2, <3>3
    <3>5. OpenIn(toks, a, c) = OpenIn(toks, a, b)
      BY <3>4, OpenInJoins
    <3>6. QED
      BY <3>3, <3>5
  <2>8. /\ d = [owed |-> OpenIn(toks, h.start, Top.start), paren |-> Paren(h)]
        /\ e = [owed |-> OpenIn(toks, h.start, Top.start), paren |-> Paren(g)]
    BY <2>1, <2>7 DEF Owes, Paren
  <2>9. (Paren(g) <=> Paren(h)) => e = d
    BY <2>8 DEF Paren
  <2> HIDE DEF d, e, h
  <2>10. e \in Owed[g.fn][g.pc]
    <3>1. CASE Top.by \in Loops
      <4>1. Top.by # "also"
        BY <3>1 DEF Loops
      <4>2. e = d /\ g.pc = h.pc
        BY <2>1, <2>9, <3>1, <4>1
      <4>3. QED
        BY <2>1, <2>6, <4>2
    <3>2. CASE Top.by \notin Loops
      <4>1. g.pc = h.pc + 1
        BY <2>1, <3>2
      <4>2. h.pc < Len(Grammar[h.fn])
        <5>1. h.pc \in Nat /\ Len(Grammar[h.fn]) \in Nat /\ h.pc + 1 <= Len(Grammar[h.fn])
          <6>1. h.pc \in Nat
            BY <2>3, PlaceFacts
          <6>2. Len(Grammar[g.fn]) \in Nat /\ g.pc <= Len(Grammar[g.fn])
            BY <2>2, PlaceFacts
          <6>3. QED
            BY <2>1, <4>1, <6>1, <6>2
        <5>2. QED
          BY <5>1
      <4>3. Past(m, d) \subseteq Owed[h.fn][h.pc + 1]
        BY <2>6, <4>2 DEF Settles
      <4>4. e \in Past(m, d)
        <5>1. CASE m.op = "also"
          <6>1. d \in Past(m, d) /\ Recalls(d) \in Past(m, d)
            BY <5>1, PastFacts
          <6>2. CASE Paren(g) <=> Paren(h)
            BY <2>9, <6>1, <6>2
          <6>3. CASE ~(Paren(g) <=> Paren(h))
            <7>1. Paren(g) = TRUE
              BY <2>1, <6>3 DEF Paren
            <7>2. e = Recalls(d)
              BY <2>8, <7>1 DEF Recalls
            <7>3. QED
              BY <6>1, <7>2
          <6>4. QED
            BY <6>2, <6>3
        <5>2. CASE m.op # "also"
          <6>1. e = d
            BY <2>1, <2>4, <2>9, <5>2
          <6>2. d \in Past(m, d)
            BY <2>5, <5>2, PastFacts DEF SkipsIt
          <6>3. QED
            BY <6>1, <6>2
        <5>3. QED
          BY <5>1, <5>2
      <4>5. QED
        BY <2>1, <4>1, <4>3, <4>4
    <3>3. QED
      BY <3>1, <3>2
  <2>11. Debts(stack', cur', toks')
    BY <2>1, <2>10, DebtsOnto DEF e, h
  <2>12. Sorted(g, cur', toks')
    <3>1. CASE Top.by \in Loops
      <4>1. Grammar[g.fn][g.pc].op # "skip"
        BY <2>1, <2>5, <3>1
      <4>2. QED
        BY <2>2, <4>1, SortedElse
    <3>2. CASE Top.by \notin Loops
      <4>1. Before(g.fn, g.pc).op # "note"
        BY <2>1, <2>2, <2>3, <2>5, <3>2, PlaceFacts
      <4>2. QED
        BY <2>2, <4>1, SortedElse
    <3>3. QED
      BY <3>1, <3>2
  <2>13. QED
    BY <2>2, <2>11, <2>12
<1>10. ASSUME Splits, Onto(Len(stack), Done(Top))
       PROVE  Debts(stack', cur', toks') /\ Sorted(Top', cur', toks')
  <2> DEFINE f == Done(Top)
  <2>1. As(f, Top.fn, Top.pc + 1) /\ (Paren(f) <=> Paren(Top)) /\ Move.op = "split" /\ cur' = cur
    BY <1>10, LikeTop DEF Splits
  <2> HIDE DEF f
  <2>2. Onto(Len(stack), f)
    BY <1>10 DEF f
  <2>3. Top' = f /\ f.fn \in Rules /\ f.pc \in Places(f.fn)
    BY <2>2, LandsOn
  <2>4. \A j \in 1..cur - 1 : toks'[j] = toks[j]
    BY <1>10, SplitWhole
  <2>5. Owes(toks', f, cur') = Due
    <3>1. PICK a \in Nat, b \in Nat : a = Top.start /\ b = cur /\ a <= b /\ 1 <= a
      BY <1>1, TopBegins, StackOrdered
    <3>2. PICK w : w = toks'
      OBVIOUS
    <3>3. \A j \in a..b - 1 : w[j] = toks[j]
      <4>1. \A j \in a..b - 1 : j \in 1..b - 1
        BY <3>1
      <4>2. QED
        BY <2>4, <3>1, <3>2, <4>1
    <3>4. a <= b
      BY <3>1
    <3>5. OpenIn(w, a, b) = OpenIn(toks, a, b)
      BY <3>3, <3>4, OpenInAgree
    <3>6. OpenIn(toks', Top.start, cur) = OpenIn(toks, Top.start, cur)
      BY <3>1, <3>2, <3>5
    <3>7. QED
      BY <2>1, <3>6 DEF Owes, Due, As, Paren
  <2>6. Due \in Past(Move, Due)
    BY <2>1, PastFacts DEF SkipsIt
  <2>7. Owes(toks', f, cur') \in Owed[f.fn][f.pc]
    BY <1>4, <2>1, <2>3, <2>5, <2>6 DEF As
  <2>8. Debts(stack', cur', toks')
    BY <1>1, <2>1, <2>2, <2>4, <2>7, DebtsOnto DEF As
  <2>9. Before(f.fn, f.pc).op = "split"
    BY <1>1, <2>1, <2>3, PlaceFacts DEF As
  <2>10. Sorted(f, cur', toks')
    BY <2>3, <2>9, SortedElse
  <2>11. QED
    BY <2>3, <2>8, <2>10
<1>11. QED
  BY <1>5, <1>6, <1>7, <1>8, <1>9, <1>10 DEF Lands

-------------------------------------------------------------------------------
(* Balance.                                                                   *)

(* So no step of the parser does, unless somebody is lost, and then somebody  *)
(* stays so.                                                                  *)
LEMMA StraightStep ==
  ASSUME IInv, IInv', Onward, Shown, Straight, Next, status = "run"
  PROVE  Straight'
<1>1. SUFFICES ASSUME status' = "run"
               PROVE  \/ Strayed'
                      \/ /\ ~Has("op")' => Debts(stack', cur', toks') /\ Sorted(Top', cur', toks')
                         /\ Clean(Top', cur', toks')
  BY DEF Straight, Strayed
<1>2. Lands
  BY <1>1, StepLands DEF Shown
<1>3. CASE Strayed
  BY <1>2, <1>3, LostStep
<1>4. CASE \E k, g : Strands(k, g)
  BY <1>4, StrandsLost
<1>5. CASE ~Strayed /\ ~\E k, g : Strands(k, g)
  <2>1. /\ ~Has("op") => Debts(stack, cur, toks) /\ Sorted(Top, cur, toks)
        /\ Clean(Top, cur, toks)
    BY <1>5 DEF Straight, Strayed
  <2>2. Clean(Top', cur', toks')
    BY <1>2, <1>5, <2>1, CleanStep
  <2>3. Has("op") => Has("op")'
    BY StepWords, HasStep
  <2>4. ~Has("op") => Debts(stack', cur', toks') /\ Sorted(Top', cur', toks')
    BY <1>2, <1>5, <2>1, DebtsStep
  <2>5. QED
    BY <2>2, <2>3, <2>4
<1>6. QED
  BY <1>3, <1>4, <1>5

(* Only a return of the function that was called first ends a parse well.     *)
LEMMA OnlyReturnsEnd ==
  ASSUME IInv, Next, status = "run", status' = "done"
  PROVE  /\ Len(stack) = 1 /\ Returns2(Move) /\ cur' = cur /\ toks' = toks
         /\ stack'[1].fn = Top.fn
<1>1. Forms
  BY StepForms
<1>2. \A f : ~Passes(f, cur') /\ ~Remains(f, cur')
  BY DEF Passes, Remains, Goes
<1>3. \A f, r : ~GivesWay(f, r)
  BY DEF GivesWay, Goes
<1>4. ASSUME NEW frames, NEW why \in {"error", "toolong"}, NEW c, Fails(why, c, frames)  PROVE FALSE
  BY <1>4 DEF Fails
<1>5. \A f, r, n : ~Puts(f, r, n, cur')
  BY <1>4 DEF Puts, Calls
<1>6. ~Splits
  BY DEF Splits
<1>7. Returns2(Move) /\ \E n \in Nodes : Returns1(n)
  BY <1>1, <1>2, <1>3, <1>4, <1>5, <1>6 DEF Forms
<1>8. PICK n \in Nodes : Returns1(n)
  BY <1>7
<1>9. QED
  BY <1>7, <1>8, ReturnsCuts

(* When the function that was called first returns, nobody is lost, nothing   *)
(* is owed and nothing is left.                                               *)
LEMMA DoneStep ==
  ASSUME IInv, Onward, Shown, Straight, Next, status = "run"
  PROVE  AcceptsOnlyBalanced'
<1>1. SUFFICES ASSUME status' = "done", stack'[1].fn = "Program"
               PROVE  cur' = Len(toks') /\ (~Has("op")' => Balanced')
  BY DEF AcceptsOnlyBalanced, Entry
<1>2. /\ Len(stack) = 1 /\ Returns2(Move) /\ cur' = cur /\ toks' = toks
      /\ stack'[1].fn = Top.fn
  BY <1>1, OnlyReturnsEnd
<1>3. /\ Top = stack[1] /\ Top.fn = "Program" /\ Top.fn \in Rules /\ Top.pc \in Places(Top.fn)
      /\ Move = Grammar[Top.fn][Top.pc] /\ cur \in 1..Len(toks) /\ Len(toks) \in Nat
  BY <1>1, <1>2, StackSeated
<1>4. Before(Top.fn, Top.pc).op = "while" /\ Before(Top.fn, Top.pc).on = Tokens
  <2>1. ReadsAll(Top.pc)
    BY <1>3, PlaceFacts
  <2>2. QED
    BY <1>2, <1>3, <2>1 DEF ReadsAll
<1>5. Here \notin Tokens
  BY Zenon, <1>2, <1>3, <1>4 DEF Shown, Told, Here
<1>6. Here = EOF
  BY <1>5, TopFacts
<1>7. cur = Len(toks)
  <2>1. ~(cur \in 1..Len(toks) - 1)
    BY <1>6 DEF Shown, OneEnd, Here
  <2>2. QED
    BY <1>3, <2>1
<1>8. ~Strayed
  <2>1. SUFFICES ASSUME NEW i \in 1..1, Lost(stack, i, Here) PROVE FALSE
    BY <1>2 DEF Strayed
  <2>2. i = 1
    OBVIOUS
  <2>3. Move.op \in {"else", "tok"}
    BY <1>2, <1>3, <2>1, <2>2 DEF Lost
  <2>4. QED
    BY <1>2, <2>3 DEF Returns2
<1>9. ASSUME ~Has("op")  PROVE Balanced
  <2>1. Debts(stack, cur, toks)
    BY <1>8, <1>9 DEF Straight, Strayed
  <2>2. /\ Due \in Owed[Top.fn][Top.pc] /\ Due.owed = OpenIn(toks, Top.start, cur)
        /\ Settles(Top.fn, Top.pc)
    BY <2>1, DueFacts
  <2>3. Due.owed = <<>>
    BY <1>2, <1>3, <2>2 DEF Settles
  <2>4. Top.start = 1
    BY <1>3 DEF Shown
  <2>5. QED
    BY <1>7, <2>2, <2>3, <2>4 DEF Balanced
<1>10. Has("op")' <=> Has("op")
  BY <1>2 DEF Has, Text
<1>11. Balanced' <=> Balanced
  BY <1>2 DEF Balanced, OpenIn, Turn
<1>12. QED
  BY <1>2, <1>7, <1>9, <1>10, <1>11

(* A parse begins with nothing owed, met or lost.                             *)
LEMMA InitStraight == Init => Shown /\ Straight /\ AcceptsOnlyBalanced
<1>1. SUFFICES ASSUME Init PROVE Shown /\ Straight /\ AcceptsOnlyBalanced
  OBVIOUS
<1>2. PICK i \in Inputs :
        /\ toks = Append(i.toks, EOF) /\ cur = 1 /\ status = "run"
        /\ stack = <<Frame(i.entry, 1, "entry", NoNode)>>
  BY <1>1 DEF Init
<1> DEFINE f == Frame(i.entry, 1, "entry", NoNode)
<1>3. f.fn = i.entry /\ f.pc = 1 /\ f.start = 1 /\ f.tags = {}
  BY DEF Frame
<1> HIDE DEF f
<1>4. Len(stack) = 1 /\ stack[1] = f /\ Top = f
  BY <1>2 DEF Top, f
<1>5. IInv
  BY <1>1, InitHolds
<1>6. f.fn \in Rules /\ f.pc \in Places(f.fn) /\ f.fn \in Entered
  <2>1. i.entry \in Entered
    BY DEF Entered
  <2>2. QED
    BY <1>3, <1>4, <1>5, <2>1, StackSeated
<1>7. OneEnd(toks)
  <2> DEFINE t == i.toks
  <2>1. t \in Seq(Tokens) /\ Len(t) \in Nat
    BY InputsAssumption
  <2>2. toks = Append(t, EOF)
    BY <1>2
  <2> HIDE DEF t
  <2>3. EOF \notin Tokens
    BY DEF EOF, Tokens, BinaryOps, UnaryOps, Literals, Modifiers, Identifiers, Names,
       Punctuation, Keywords
  <2>4. \A n \in 1..Len(toks) - 1 : n \in 1..Len(t) /\ toks[n] = t[n] /\ t[n] \in Tokens
    BY <2>1, <2>2
  <2>5. QED
    BY <2>3, <2>4 DEF OneEnd
<1>8. Answered(stack)
  BY <1>4 DEF Answered
<1>9. Told(Top, cur, toks)
  BY <1>3, <1>4, <1>6, ToldEntered
<1>10. Debts(stack, cur, toks)
  <2>1. Nothing \in Owed[f.fn][1]
    BY <1>6, BracketsMatch
  <2>2. OpenIn(toks, 1, 1) = <<>>
    BY OpenInSteps
  <2>3. Owes(toks, f, 1) = Nothing
    <3>1. f.start = 1 /\ ("paren" \in f.tags) = FALSE
      BY <1>3
    <3>2. OpenIn(toks, f.start, 1) = <<>>
      BY <2>2, <3>1
    <3>3. QED
      BY Zenon, <3>1, <3>2 DEF Owes, Nothing
  <2>4. Until(stack, cur, 1) = 1
    BY <1>2, <1>4 DEF Until
  <2>5. \A k \in 1..Len(stack) : k = 1
    BY <1>4
  <2>6. QED
    BY <1>3, <1>4, <2>1, <2>3, <2>4, <2>5 DEF Debts
<1>11. Sorted(Top, cur, toks)
  BY <1>3, <1>4, <1>6, SortedElse
<1>12. Clean(Top, cur, toks)
  <2>1. ~BehindName(toks, cur)
    BY <1>2 DEF BehindName
  <2>2. QED
    BY <1>3, <1>4, <1>6, <2>1, CleanElse
<1>13. QED
  BY <1>2, <1>3, <1>4, <1>7, <1>8, <1>9, <1>10, <1>11, <1>12 DEF Shown, Straight,
     AcceptsOnlyBalanced

(* With a grammar whose functions close what they open, whatever the text: a  *)
(* program that the parser accepts is read to its end and has every bracket   *)
(* closed in order, if it defines no operator.                                *)
THEOREM AcceptedIsBalanced == Spec => []AcceptsOnlyBalanced
<1> DEFINE Inv == IInv /\ Onward /\ Shown /\ Straight /\ AcceptsOnlyBalanced
<1>1. Init => Inv
  BY InitHolds, InitOnward, InitStraight
<1>2. Inv /\ [Next]_vars => Inv'
  <2>1. ASSUME Inv, UNCHANGED vars PROVE Inv'
    <3>1. toks' = toks /\ cur' = cur /\ stack' = stack /\ status' = status
      BY <2>1 DEF vars
    <3>2. IInv' /\ Onward'
      BY <2>1, <3>1 DEF IInv, Onward
    <3>3. Top' = Top /\ Here' = Here
      BY <3>1 DEF Top, Here
    <3>4. Has("op")' = Has("op")
      BY <3>1 DEF Has, Text
    <3>5. Shown' /\ Straight'
      BY <2>1, <3>1, <3>3, <3>4 DEF Shown, Straight
    <3>6. AcceptsOnlyBalanced'
      BY <2>1, <3>1, <3>4 DEF AcceptsOnlyBalanced, Entry, Balanced
    <3>7. QED
      BY <3>2, <3>5, <3>6
  <2>2. ASSUME Inv, Next PROVE Inv'
    <3>1. CASE status = "run"
      <4>1. IInv' /\ Onward'
        BY <2>2, StepKeeps, StepOnward
      <4>2. Shown' /\ Straight'
        BY <2>2, <3>1, <4>1, StepShown, StraightStep
      <4>3. AcceptsOnlyBalanced'
        BY <2>2, <3>1, DoneStep
      <4>4. QED
        BY <4>1, <4>2, <4>3
    <3>2. CASE status # "run"
      BY <2>1, <2>2, <3>2, EndedStays
    <3>3. QED
      BY <3>1, <3>2
  <2>3. QED
    BY <2>1, <2>2
<1>3. Inv => AcceptsOnlyBalanced
  OBVIOUS
<1> HIDE DEF Inv
<1>4. QED
  BY <1>1, <1>2, <1>3, PTL DEF Spec

-------------------------------------------------------------------------------
(* The names of ffi declarations, which FFIDecl does not check.               *)

(* A name that is being parsed is at one of four moves, and what is at hand,  *)
(* or was taken, is the string.                                               *)
LEMMA OnStringMoves ==
  ASSUME IInv, OnString
  PROVE  /\ Move.op \in {"pick", "tok", "elements", "ret"}
         /\ Move.op = "pick" => Top.pc = 1 /\ Here \in Strings /\ TakesString(Top.fn)
         /\ Move.op = "tok" => Top.pc = 1 /\ Here \in Strings /\ TakesOne(Top.fn) /\ Here \in Move.on
         /\ Move.op = "elements" => Top.pc = 2 /\ TakesOne(Top.fn) /\ toks[cur - 1] = "fs"
<1>1. Top.pc \in Nat \ {0} /\ Top.pc \in Places(Top.fn) /\ Move = Grammar[Top.fn][Top.pc]
  BY StackSeated, PlaceFacts
<1>2. CASE Top.pc = 1 /\ TakesString(Top.fn)
  BY Zenon, <1>1, <1>2 DEF OnString, TakesString
<1>3. CASE Top.pc = 1 /\ TakesOne(Top.fn) /\ Here \in Move.on
  BY <1>1, <1>3 DEF OnString, TakesOne
<1>4. CASE Top.pc # 1
  <2>1. Top.pc > 1
    BY <1>1, <1>4
  <2>2. TakesOne(Top.fn) /\ (Move.op = "elements" => toks[cur - 1] = "fs")
    BY <1>4 DEF OnString
  <2>3. Move.op = "ret" \/ (Move.op = "elements" /\ Top.pc = 2)
    BY <1>1, <2>1, <2>2 DEF TakesOne
  <2>4. QED
    BY <2>2, <2>3
<1>5. QED
  BY <1>2, <1>3, <1>4 DEF OnString

(* The only one that fails is that of the elements of an f-string.            *)
LEMMA OnStringThrows ==
  ASSUME IInv, OnString, Next, status = "run", status' = "thrown"
  PROVE  Move.op = "elements" /\ cur' = cur /\ toks' = toks
<1>1. Move.op \in {"pick", "tok", "elements", "ret"}
  BY OnStringMoves
<1>2. CASE Move.op = "tok"
  <2>1. TakeToken
    BY <1>2, ActionAtHand
  <2>2. QED
    BY <1>2, <2>1, OnStringMoves DEF TakeToken, AtHand, Goes
<1>3. CASE Move.op = "pick"
  <2>1. PickOne
    BY <1>3, ActionAtHand
  <2>2. QED
    BY <2>1 DEF PickOne, AtHand, Goes, Proceeds
<1>4. CASE Move.op = "elements"
  <2>1. ParseElements
    BY <1>4, ActionAtHand
  <2>2. QED
    BY <1>4, <2>1 DEF ParseElements, AtHand, Goes, Proceeds, Refuses, Fails
<1>5. CASE Move.op = "ret"
  <2>1. ReturnNode \/ YieldNode
    BY <1>5, ActionAtHand
  <2>2. QED
    BY <2>1 DEF ReturnNode, YieldNode, AtHand, Returns1
<1>6. QED
  BY <1>1, <1>2, <1>3, <1>4, <1>5

\* what FFIDecl has asked for before a call that it does not check
LEMMA NameAsked ==
  ASSUME "FFIDecl" \in Rules, NEW p \in Places("FFIDecl"), Grammar["FFIDecl"][p].op = "unchecked"
  PROVE  /\ p > 1 /\ Before("FFIDecl", p).op = "look" /\ Before("FFIDecl", p).on \subseteq Strings
         /\ TakesString(Grammar["FFIDecl"][p].fn)
<1>1. /\ Before("FFIDecl", p).op = "look" /\ Before("FFIDecl", p).on \subseteq Strings
      /\ TakesString(Grammar["FFIDecl"][p].fn)
  BY FFINamesAreStrings
<1>2. p \in Nat \ {0} /\ (p = 1 => Before("FFIDecl", p) = Plain("entry"))
  BY PlaceFacts
<1>3. p # 1
  BY <1>1, <1>2, EntryIsNone
<1>4. QED
  BY <1>1, <1>2, <1>3

(* A name that is being parsed goes on as one when its function passes a      *)
(* move,                                                                      *)
LEMMA OnStringPassed ==
  ASSUME IInv, OnString, NEW f, As(f, Top.fn, Top.pc + 1), f.pc \in Places(f.fn), Found(cur'),
         toks' = toks, Top' = f
  PROVE  OnString'
<1>1. /\ Top.fn \in Rules /\ Top.pc \in Places(Top.fn) /\ Top.pc \in Nat \ {0} /\ Move = Grammar[Top.fn][Top.pc]
      /\ cur \in 1..Len(toks)
  BY StackSeated, PlaceFacts
<1>2. Move.op \in {"pick", "tok", "elements"}
  BY OnStringMoves DEF Found
<1>3. Move.op # "pick"
  <2>1. SUFFICES ASSUME Move.op = "pick"  PROVE FALSE
    OBVIOUS
  <2>2. Chosen(Move) = {}
    BY <2>1 DEF Found
  <2>3. Here \notin Covers(Move)
    BY <2>2, NotCovered
  <2>4. Here \in Strings /\ Strings \subseteq Covers(Move)
    BY <1>1, <2>1, OnStringMoves DEF TakesString
  <2>5. QED
    BY <2>3, <2>4
<1>4. TakesOne(Top.fn) /\ Top.pc \in {1, 2}
  BY <1>2, <1>3, OnStringMoves
<1>5. /\ Top'.fn = Top.fn /\ Top'.pc = Top.pc + 1 /\ Top'.pc \in Places(Top.fn)
      /\ Move' = Grammar[Top.fn][Top.pc + 1]
  <2>1. Top'.fn = Top.fn /\ Top'.pc = Top.pc + 1
    BY DEF As
  <2>2. Top'.pc \in Places(Top'.fn)
    OBVIOUS
  <2>3. QED
    BY <2>1, <2>2 DEF Move
<1>6. TakesOne(Top'.fn)
  BY <1>4, <1>5 DEF TakesOne
<1>7. ASSUME Move'.op = "elements"  PROVE toks'[cur' - 1] = "fs"
  <2>1. Top.pc + 1 > 1
    BY <1>1
  <2>2. Top.pc + 1 = 2 /\ Grammar[Top.fn][1].on = {"fs"}
    BY <1>4, <1>5, <1>7, <2>1 DEF TakesOne
  <2>3. Top.pc = 1
    BY <1>1, <2>2
  <2>4. Move.op = "tok" /\ Here \in Move.on
    BY <1>2, <1>3, <2>3, OnStringMoves
  <2>5. Here = "fs" /\ cur' = cur + 1
    BY <1>1, <2>2, <2>3, <2>4 DEF Found
  <2>6. cur' - 1 = cur
    BY <1>1, <2>5
  <2>7. QED
    BY <2>5, <2>6 DEF Here
<1>8. Top'.pc # 1
  BY <1>1, <1>5
<1>9. QED
  BY <1>6, <1>7, <1>8 DEF OnString

(* and when it gives way to another.                                          *)
LEMMA OnStringGoesOn ==
  ASSUME IInv, OnString, NEW r, NEW f, As(f, r, 1), r \in Leaves(Move),
         Move.op \in {"switch", "pick"} => r \in Chosen(Move), toks' = toks, cur' = cur, Top' = f
  PROVE  OnString'
<1>1. Move = Grammar[Top.fn][Top.pc] /\ cur \in 1..Len(toks) /\ Len(toks) \in Nat
  BY StackSeated
<1>2. Move.op = "pick"
  BY OnStringMoves DEF Leaves
<1>3. Move = Grammar[Top.fn][1] /\ Here \in Strings /\ TakesString(Top.fn)
  BY <1>1, <1>2, OnStringMoves
<1>4. PICK a \in 1..Len(Move.alts) : Move.alts[a].fn = r /\ Applies(Move.alts[a])
  BY <1>2 DEF Chosen
<1> DEFINE b == Move.alts[a]
<1>5. TakesOne(b.fn) /\ Len(b.ahead) >= 1 /\ b.ahead[1] \cap Strings \subseteq Grammar[b.fn][1].on
  BY <1>3 DEF TakesString
<1>6. Here \in b.ahead[1]
  <2>1. \A k \in 1..Len(b.ahead) : Ahead(k - 1) \in b.ahead[k]
    BY <1>4 DEF Applies
  <2>2. Len(b.ahead) \in Nat
    <3>1. Move.alts \in Seq(Alternatives)
      BY MoveFacts DEF Moves
    <3>2. b \in Alternatives
      BY <3>1
    <3>3. b.ahead \in Seq(TokenSets)
      BY <3>2 DEF Alternatives
    <3>4. QED
      BY <3>3
  <2>3. 1 \in 1..Len(b.ahead) /\ 1 - 1 = 0
    BY <1>5, <2>2
  <2>4. Ahead(0) \in b.ahead[1]
    BY <2>1, <2>3
  <2>5. cur + 0 = cur /\ cur <= Len(toks)
    BY <1>1
  <2>6. Ahead(0) = Here
    BY <2>5 DEF Ahead, Here
  <2>7. QED
    BY <2>4, <2>6
<1>7. Top'.fn = r /\ Top'.pc = 1 /\ Move' = Grammar[r][1] /\ Here' = Here
  BY DEF As, Move, Here
<1>8. TakesOne(Top'.fn) /\ Here' \in Move'.on /\ Here' \in Strings
  BY <1>3, <1>4, <1>5, <1>6, <1>7 DEF TakesOne
<1>9. QED
  BY <1>7, <1>8 DEF OnString

\* a name that is being parsed, and is where the stack is cut, was on top
LEMMA NamingCut ==
  ASSUME IInv, NamesAreStrings, status = "run", NEW k, NEW g, Onto(k, g), g.by = stack[k].by,
         NEW i \in 2..Len(stack'), Naming(i)'
  PROVE  k = Len(stack) /\ i = k /\ OnString /\ Len(stack') = k
<1>1. k \in 1..Len(stack) /\ Len(stack) \in Nat /\ Len(stack') = k
      /\ \A n \in 1..k : stack'[n] = IF n = k THEN g ELSE stack[n]
  BY StackSeated DEF Onto, Upto
<1>2. i \in 1..k /\ i - 1 \in 1..k /\ i - 1 # k /\ i \in 2..Len(stack) /\ i <= k /\ k <= Len(stack)
  BY <1>1
<1>3. stack'[i].by = stack[i].by /\ stack'[i - 1].fn = stack[i - 1].fn
  BY <1>1, <1>2
<1>4. Naming(i)
  BY <1>3 DEF Naming
<1>5. i = Len(stack) /\ OnString
  BY <1>2, <1>4 DEF NamesAreStrings
<1>6. QED
  BY <1>1, <1>2, <1>5

\* where the move before is no test of a token, no name of FFIDecl's is asked for
LEMMA NotAsked ==
  ASSUME NEW f, f.fn \in Rules, f.pc \in Places(f.fn),
         f.fn = "FFIDecl" => Before(f.fn, f.pc).op # "look"
  PROVE  ~(f.fn = "FFIDecl" /\ Grammar[f.fn][f.pc].op = "unchecked")
<1>1. SUFFICES ASSUME f.fn = "FFIDecl", Grammar[f.fn][f.pc].op = "unchecked"  PROVE FALSE
  OBVIOUS
<1> DEFINE p == f.pc
<1>2. "FFIDecl" \in Rules /\ p \in Places("FFIDecl") /\ Grammar["FFIDecl"][p].op = "unchecked"
      /\ Before("FFIDecl", p).op # "look"
  BY <1>1
<1> HIDE DEF p
<1>3. QED
  BY <1>2, NameAsked

(* No step calls for a name where there is no string, or anybody while one    *)
(* is parsed.                                                                 *)
LEMMA NamesStep ==
  ASSUME IInv, IInv', Shown, NamesAreStrings, Next, status = "run"
  PROVE  NamesAreStrings'
<1>1. SUFFICES ASSUME status' = "run"
               PROVE  /\ Top'.fn = "FFIDecl" /\ Move'.op = "unchecked" => Here' \in Strings
                      /\ \A i \in 2..Len(stack') : Naming(i)' => i = Len(stack') /\ OnString'
  BY DEF NamesAreStrings
<1>2. Lands
  BY <1>1, StepLands DEF Shown
<1>3. /\ Seated(stack) /\ Len(stack) \in Nat \ {0} /\ Len(stack) \in 1..Len(stack)
      /\ Top = stack[Len(stack)] /\ Top.fn \in Rules /\ Top.pc \in Places(Top.fn)
      /\ Move = Grammar[Top.fn][Top.pc] /\ Top.pc \in Nat \ {0}
      /\ cur \in 1..Len(toks) /\ Len(toks) \in Nat
  BY StackSeated, PlaceFacts
<1>4. ASSUME NEW k, NEW g, Onto(k, g), g.by = stack[k].by,
             g.fn = "FFIDecl" /\ Grammar[g.fn][g.pc].op = "unchecked" => Here' \in Strings,
             OnString /\ k = Len(stack) => OnString'
      PROVE  /\ Top'.fn = "FFIDecl" /\ Move'.op = "unchecked" => Here' \in Strings
             /\ \A i \in 2..Len(stack') : Naming(i)' => i = Len(stack') /\ OnString'
  <2>1. Top' = g
    BY <1>4, LandsOn
  <2>2. \A i \in 2..Len(stack') : Naming(i)' => k = Len(stack) /\ i = k /\ OnString /\ Len(stack') = k
    BY <1>4, NamingCut
  <2>3. QED
    BY <1>4, <2>1, <2>2 DEF Move
<1>5. ASSUME NEW f, Passes(f, cur'), Onto(Len(stack), f)
      PROVE  /\ Top'.fn = "FFIDecl" /\ Move'.op = "unchecked" => Here' \in Strings
             /\ \A i \in 2..Len(stack') : Naming(i)' => i = Len(stack') /\ OnString'
  <2>1. As(f, Top.fn, Top.pc + 1) /\ Found(cur') /\ toks' = toks
    BY <1>5 DEF Passes, Goes
  <2>2. Top' = f /\ f.fn \in Rules /\ f.pc \in Places(f.fn)
    BY <1>5, LandsOn
  <2>3. ASSUME f.fn = "FFIDecl", Grammar[f.fn][f.pc].op = "unchecked"  PROVE Here' \in Strings
    <3> DEFINE p == f.pc
    <3>1. "FFIDecl" \in Rules /\ p \in Places("FFIDecl") /\ Grammar["FFIDecl"][p].op = "unchecked"
      BY <2>2, <2>3
    <3>2. Before(f.fn, f.pc) = Move
      BY <1>3, <2>1, <2>2, PlaceFacts DEF As
    <3>3. Before("FFIDecl", p) = Move
      BY <2>3, <3>2
    <3> HIDE DEF p
    <3>4. Move.op = "look" /\ Move.on \subseteq Strings
      BY <3>1, <3>3, NameAsked
    <3>5. Here \in Move.on /\ cur' = cur
      BY <2>1, <3>4 DEF Found
    <3>6. Here' = Here
      BY <2>1, <3>5 DEF Here
    <3>7. QED
      BY <3>4, <3>5, <3>6
  <2>4. OnString => OnString'
    BY <2>1, <2>2, OnStringPassed
  <2>5. f.by = stack[Len(stack)].by
    BY <1>3, <2>1 DEF As
  <2>6. QED
    BY <1>4, <1>5, <2>3, <2>4, <2>5
<1>6. ASSUME NEW f, Remains(f, cur'), Onto(Len(stack), f)
      PROVE  /\ Top'.fn = "FFIDecl" /\ Move'.op = "unchecked" => Here' \in Strings
             /\ \A i \in 2..Len(stack') : Naming(i)' => i = Len(stack') /\ OnString'
  <2>1. As(f, Top.fn, Top.pc) /\ Move.op \in {"skips", "bounded", "collect", "scope"}
    BY <1>6 DEF Remains
  <2>2. ~OnString
    BY <2>1, OnStringMoves
  <2>3. f.by = stack[Len(stack)].by /\ Grammar[f.fn][f.pc].op # "unchecked"
    BY <1>3, <2>1 DEF As
  <2>4. QED
    BY <1>4, <1>6, <2>2, <2>3
<1>7. ASSUME NEW f, NEW r, GivesWay(f, r), Onto(Len(stack), f)
      PROVE  /\ Top'.fn = "FFIDecl" /\ Move'.op = "unchecked" => Here' \in Strings
             /\ \A i \in 2..Len(stack') : Naming(i)' => i = Len(stack') /\ OnString'
  <2>1. /\ As(f, r, 1) /\ r \in Leaves(Move) /\ (Move.op \in {"switch", "pick"} => r \in Chosen(Move))
        /\ cur' = cur /\ toks' = toks
    BY <1>7 DEF GivesWay, Goes
  <2>2. Top' = f /\ f.fn \in Rules /\ f.pc \in Places(f.fn)
    BY <1>7, LandsOn
  <2>3. f.pc = 1 /\ f.by = stack[Len(stack)].by
    BY <1>3, <2>1 DEF As
  <2>4. Before(f.fn, f.pc).op # "look"
    BY <2>2, <2>3, PlaceFacts, EntryIsNone
  <2>5. ~(f.fn = "FFIDecl" /\ Grammar[f.fn][f.pc].op = "unchecked")
    BY <2>2, <2>4, NotAsked
  <2>6. OnString => OnString'
    BY <2>1, <2>2, OnStringGoesOn
  <2>7. QED
    BY <1>4, <1>7, <2>3, <2>5, <2>6
<1>8. ASSUME NEW f, NEW g, Pushes(f, g)
      PROVE  /\ Top'.fn = "FFIDecl" /\ Move'.op = "unchecked" => Here' \in Strings
             /\ \A i \in 2..Len(stack') : Naming(i)' => i = Len(stack') /\ OnString'
  <2>1. /\ As(f, Top.fn, Top.pc) /\ Asking(g.fn, cur') /\ g.fn \in Rules /\ g.pc = 1 /\ g.by = Move.op
        /\ toks' = toks
    BY <1>8 DEF Pushes
  <2>2. /\ Top' = g /\ Len(stack') = Len(stack) + 1 /\ stack'[Len(stack) + 1] = g
        /\ stack'[Len(stack)] = f /\ \A i \in 1..Len(stack) - 1 : stack'[i] = stack[i]
    BY <1>8, PushLands
  <2>3. ~(g.fn = "FFIDecl" /\ Grammar[g.fn][g.pc].op = "unchecked")
    <3>1. g.pc \in Places(g.fn)
      BY <2>1, FirstPlaces
    <3>2. Before(g.fn, g.pc).op # "look"
      BY <2>1, <3>1, PlaceFacts, EntryIsNone
    <3>3. QED
      BY <2>1, <3>1, <3>2, NotAsked
  <2>4. ~OnString
    BY <2>1, OnStringMoves DEF Asking, Sure
  <2>5. ASSUME NEW i \in 2..Len(stack'), Naming(i)'
        PROVE  i = Len(stack') /\ OnString'
    <3>1. stack'[i].by = "unchecked" /\ stack'[i - 1].fn = "FFIDecl"
      BY <2>5 DEF Naming
    <3>2. CASE i = Len(stack) + 1
      <4>1. i - 1 = Len(stack) /\ i = Len(stack') /\ stack'[i] = g /\ stack'[i - 1] = f
        <5>1. i - 1 = Len(stack)
          BY <1>3, <3>2
        <5>2. QED
          BY <2>2, <3>2, <5>1
      <4>2. Move.op = "unchecked" /\ Top.fn = "FFIDecl"
        BY <2>1, <3>1, <4>1 DEF As
      <4>3. g.fn = Move.fn /\ cur' = cur
        BY <2>1, <4>2 DEF Asking, Sure
      <4>4. Here' \in Strings
        <5>1. Here \in Strings
          BY <4>2 DEF NamesAreStrings
        <5>2. QED
          BY <2>1, <4>3, <5>1 DEF Here
      <4>5. TakesString(g.fn)
        <5> DEFINE p == Top.pc
        <5>1. "FFIDecl" \in Rules /\ p \in Places("FFIDecl") /\ Move = Grammar["FFIDecl"][p]
          BY <1>3, <4>2
        <5> HIDE DEF p
        <5>2. QED
          BY <4>2, <4>3, <5>1, NameAsked
      <4>6. Top'.fn = g.fn /\ Top'.pc = 1
        BY <2>1, <2>2
      <4>7. TakesString(Top'.fn)
        BY <4>5, <4>6
      <4>8. QED
        BY <4>1, <4>4, <4>6, <4>7 DEF OnString
    <3>3. CASE i # Len(stack) + 1
      <4>1. i \in 2..Len(stack) /\ i - 1 \in 1..Len(stack) - 1
        BY <1>3, <2>2, <3>3
      <4>2. stack'[i - 1] = stack[i - 1]
        BY <2>2, <4>1
      <4>3. stack'[i].by = stack[i].by
        <5>1. CASE i = Len(stack)
          BY <1>3, <2>1, <2>2, <5>1 DEF As
        <5>2. CASE i # Len(stack)
          <6>1. i \in 1..Len(stack) - 1
            BY <1>3, <4>1, <5>2
          <6>2. QED
            BY <2>2, <6>1
        <5>3. QED
          BY <5>1, <5>2
      <4>4. Naming(i)
        BY <3>1, <4>2, <4>3 DEF Naming
      <4>5. QED
        BY <2>4, <4>1, <4>4 DEF NamesAreStrings
    <3>4. QED
      BY <3>2, <3>3
  <2>6. QED
    BY <2>2, <2>3, <2>5 DEF Move
<1>9. ASSUME NEW k, NEW g, Strands(k, g)
      PROVE  /\ Top'.fn = "FFIDecl" /\ Move'.op = "unchecked" => Here' \in Strings
             /\ \A i \in 2..Len(stack') : Naming(i)' => i = Len(stack') /\ OnString'
  <2>1. Onto(k, g) /\ g.by = stack[k].by /\ g.fn = stack[k].fn /\ g.pc = stack[k].pc + 1
        /\ Grammar[stack[k].fn][stack[k].pc].op = "try"
    BY <1>9 DEF Strands
  <2>2. g.fn \in Rules /\ g.pc \in Places(g.fn)
    BY <2>1, LandsOn
  <2>3. stack[k].fn \in Rules /\ stack[k].pc \in Places(stack[k].fn)
    BY <1>3, <2>1 DEF Onto, Seated
  <2>4. Before(g.fn, g.pc).op = "try"
    BY <2>1, <2>2, <2>3, PlaceFacts
  <2>5. ~(g.fn = "FFIDecl" /\ Grammar[g.fn][g.pc].op = "unchecked")
    BY <2>2, <2>4, NotAsked
  <2>6. ASSUME k = Len(stack)  PROVE ~OnString
    <3>1. Move.op = "try"
      BY <1>3, <2>1, <2>6
    <3>2. QED
      BY <3>1, OnStringMoves
  <2>7. QED
    BY <1>4, <2>1, <2>5, <2>6
<1>10. ASSUME NEW k, NEW g, Hands(k, g)
       PROVE  /\ Top'.fn = "FFIDecl" /\ Move'.op = "unchecked" => Here' \in Strings
              /\ \A i \in 2..Len(stack') : Naming(i)' => i = Len(stack') /\ OnString'
  <2>1. /\ Onto(k, g) /\ k + 1 = Len(stack) /\ g.by = stack[k].by /\ g.fn = stack[k].fn
        /\ g.pc = IF Top.by \in Loops THEN stack[k].pc ELSE stack[k].pc + 1
    BY <1>10 DEF Hands, Resumes
  <2>2. g.fn \in Rules /\ g.pc \in Places(g.fn)
    BY <2>1, LandsOn
  <2>3. stack[k].fn \in Rules /\ stack[k].pc \in Places(stack[k].fn)
    BY <1>3, <2>1 DEF Onto, Seated
  <2> DEFINE m == Grammar[stack[k].fn][stack[k].pc]
  <2>4. Top.by = m.op /\ Top.fn \in Answers(m)
    <3> DEFINE N == Len(stack)
    <3>1. N \in 2..N /\ N - 1 = k
      BY <1>3, <2>1 DEF Onto
    <3> HIDE DEF N
    <3>2. stack[N].by = Grammar[stack[N - 1].fn][stack[N - 1].pc].op
          /\ stack[N].fn \in Answers(Grammar[stack[N - 1].fn][stack[N - 1].pc])
      <4>1. N = Len(stack)
        BY DEF N
      <4>2. QED
        BY <3>1, <4>1 DEF Shown, Answered
    <3>3. QED
      BY <1>3, <3>1, <3>2 DEF N
  <2>5. m.op # "look"
    BY <2>3, <2>4, AnswersOn
  <2>6. ~(g.fn = "FFIDecl" /\ Grammar[g.fn][g.pc].op = "unchecked")
    <3>1. CASE Top.by \in Loops
      BY <2>1, <2>4, <3>1 DEF Loops
    <3>2. CASE Top.by \notin Loops
      <4>1. Before(g.fn, g.pc) = m
        BY <2>1, <2>2, <2>3, <3>2, PlaceFacts
      <4>2. QED
        BY <2>2, <2>5, <4>1, NotAsked
    <3>3. QED
      BY <3>1, <3>2
  <2>7. k # Len(stack)
    BY <1>3, <2>1 DEF Onto
  <2>8. QED
    BY <1>4, <2>1, <2>6, <2>7
<1>11. ASSUME Splits, Onto(Len(stack), Done(Top))
       PROVE  /\ Top'.fn = "FFIDecl" /\ Move'.op = "unchecked" => Here' \in Strings
              /\ \A i \in 2..Len(stack') : Naming(i)' => i = Len(stack') /\ OnString'
  <2> DEFINE f == Done(Top)
  <2>1. As(f, Top.fn, Top.pc + 1) /\ Move.op = "split"
    BY <1>11, LikeTop DEF Splits
  <2> HIDE DEF f
  <2>2. Onto(Len(stack), f)
    BY <1>11 DEF f
  <2>3. f.fn \in Rules /\ f.pc \in Places(f.fn)
    BY <2>2, LandsOn
  <2>4. Before(f.fn, f.pc).op = "split"
    BY <1>3, <2>1, <2>3, PlaceFacts DEF As
  <2>5. ~(f.fn = "FFIDecl" /\ Grammar[f.fn][f.pc].op = "unchecked")
    BY <2>3, <2>4, NotAsked
  <2>6. ~OnString
    BY <2>1, OnStringMoves
  <2>7. f.by = stack[Len(stack)].by
    BY <1>3, <2>1 DEF As
  <2>8. QED
    BY <1>4, <2>2, <2>5, <2>6, <2>7
<1>12. QED
  BY <1>2, <1>5, <1>6, <1>7, <1>8, <1>9, <1>10, <1>11 DEF Lands

(* Who an error throws at, if it is thrown.                                   *)
LEMMA FailThrows ==
  ASSUME NEW frames \in Seq(Frames), frames # <<>>, frames[1].by = "entry", NEW why \in {"error", "toolong"},
         NEW d, Fails(why, d, frames), status = "run", status' = "thrown"
  PROVE  /\ cur' = d /\ toks' = toks /\ stack' = frames
         /\ \E last \in 2..Len(frames) : frames[last].by = "unchecked"
<1>1. Len(frames) \in Nat
  OBVIOUS
<1>2. PICK last \in 0..Len(frames) :
        /\ last # 0 => frames[last].by \in Unasked
        /\ cur' = d /\ toks' = toks
        /\ IF last # 0 /\ frames[last].by = "try"
           THEN status' = status
           ELSE stack' = frames /\ status' = IF last # 0 THEN "thrown" ELSE why
  BY DEF Fails
<1>3. last # 0 /\ frames[last].by = "unchecked" /\ stack' = frames
  BY <1>2 DEF Unasked
<1>4. last # 1
  BY <1>3
<1>5. last \in 2..Len(frames)
  BY <1>1, <1>3, <1>4
<1>6. QED
  BY <1>2, <1>3, <1>5

(* A step that throws throws for a call that is not checked, and for a name   *)
(* only at an f-string's elements.                                            *)
LEMMA ThrowStep ==
  ASSUME IInv, NamesAreStrings, Next, status = "run"
  PROVE  ThrowsExplained'
<1>1. SUFFICES ASSUME status' = "thrown"
               PROVE  \E i \in 2..Len(stack') :
                        stack'[i].by = "unchecked" /\ (stack'[i - 1].fn = "FFIDecl" => toks'[cur' - 1] = "fs")
  BY DEF ThrowsExplained
<1>2. Forms
  BY StepForms
<1>3. /\ Seated(stack) /\ Len(stack) \in Nat \ {0} /\ Len(stack) \in 1..Len(stack)
      /\ Top = stack[Len(stack)] /\ Top.fn \in Rules /\ Top.pc \in Places(Top.fn)
      /\ Move = Grammar[Top.fn][Top.pc] /\ cur \in 1..Len(toks) /\ Len(toks) \in Nat
      /\ stack[1].by = "entry" /\ stack \in Seq(Frames) /\ stack # <<>>
  BY StackSeated DEF Seated
<1>4. CASE \E why \in {"error", "toolong"} : Fails(why, cur', stack)
  <2>1. PICK i \in 2..Len(stack) : stack[i].by = "unchecked" /\ stack' = stack /\ toks' = toks
    BY <1>1, <1>3, <1>4, FailThrows
  <2>2. ASSUME stack[i - 1].fn = "FFIDecl"  PROVE toks'[cur' - 1] = "fs"
    <3>1. OnString
      BY <2>1, <2>2 DEF NamesAreStrings, Naming
    <3>2. Move.op = "elements" /\ cur' = cur /\ toks' = toks
      BY <1>1, <3>1, OnStringThrows
    <3>3. toks[cur - 1] = "fs"
      BY <3>1, <3>2, OnStringMoves
    <3>4. QED
      BY <3>2, <3>3
  <2>3. QED
    BY <2>1, <2>2
<1>5. ASSUME NEW f, NEW r, NEW n, Puts(f, r, n, cur')
      PROVE  \E i \in 2..Len(stack') :
               stack'[i].by = "unchecked" /\ (stack'[i - 1].fn = "FFIDecl" => toks'[cur' - 1] = "fs")
  <2> DEFINE s == [stack EXCEPT ![Len(stack)] = f]
             c == cur'
             g == Frame(r, c, Move.op, n)
             called == Append(s, g)
  <2>1. f \in Frames /\ r \in Rules /\ n \in Nodes /\ As(f, Top.fn, Top.pc) /\ Asking(r, c)
        /\ Calls(f, c, Move, r, n)
    BY <1>5 DEF Puts
  <2>2. g.by = Move.op /\ g.fn = r
    BY DEF Frame
  <2>3. /\ s \in Seq(Frames) /\ Len(s) = Len(stack)
        /\ \A i \in 1..Len(stack) : s[i] = IF i = Len(stack) THEN f ELSE stack[i]
    BY <1>3, <2>1
  <2>4. ~(c < Len(toks)) /\ Fails("error", c, called)
    BY <1>1, <2>1 DEF Calls
  <2>5. g \in Frames
    <3>1. Move.op \in Words
      BY MoveFacts DEF Moves, Words
    <3>2. c \in Nat /\ c \in 1..Len(toks) /\ ListOK(toks)
      <4>1. c = cur \/ (c = cur + 1 /\ Here # EOF)
        <5>1. Move.op \in {"list", "params"} => EOF \notin Move.on
          BY MoveFacts
        <5>2. "::" # EOF
          BY DEF EOF
        <5>3. QED
          BY <2>1, <5>1, <5>2 DEF Asking
      <4>2. cur = Len(toks) => Here = EOF
        BY TopFacts
      <4>3. c \in Nat /\ c \in 1..Len(toks)
        BY <1>3, <4>1, <4>2
      <4>4. QED
        BY <4>3 DEF IInv
    <3>3. QED
      BY <2>1, <3>1, <3>2, FrameIsPlaced DEF Placed1
  <2> HIDE DEF s, g, c
  <2>6. /\ called \in Seq(Frames) /\ called # <<>> /\ Len(called) = Len(stack) + 1
        /\ called[Len(stack) + 1] = g
        /\ \A i \in 1..Len(stack) : called[i] = IF i = Len(stack) THEN f ELSE stack[i]
    BY <1>3, <2>3, <2>5
  <2> HIDE DEF called
  <2>7. called[1].by = "entry"
    <3>1. 1 \in 1..Len(stack)
      BY <1>3
    <3>2. called[1] = IF 1 = Len(stack) THEN f ELSE stack[1]
      BY <2>6, <3>1
    <3>3. QED
      BY <1>3, <2>1, <3>2 DEF As
  <2>8. PICK i \in 2..Len(called) : called[i].by = "unchecked" /\ stack' = called
    BY <1>1, <2>4, <2>6, <2>7, FailThrows
  <2>9. ASSUME called[i - 1].fn = "FFIDecl"  PROVE FALSE
    <3>1. CASE i = Len(stack) + 1
      <4>1. i - 1 = Len(stack) /\ called[i] = g /\ called[i - 1] = f
        <5>1. i - 1 = Len(stack)
          BY <1>3, <3>1
        <5>2. QED
          BY Zenon, <1>3, <2>6, <3>1, <5>1
      <4>2. Move.op = "unchecked" /\ Top.fn = "FFIDecl"
        BY <2>1, <2>2, <2>8, <2>9, <4>1 DEF As
      <4>3. Here \in Strings
        BY <4>2 DEF NamesAreStrings
      <4>4. c = cur
        BY <2>1, <4>2 DEF Asking, Sure
      <4>5. cur = Len(toks)
        BY <1>3, <2>4, <4>4
      <4>6. Here = EOF
        BY <4>5, TopFacts
      <4>7. QED
        BY <4>3, <4>6 DEF Strings, EOF
    <3>2. CASE i # Len(stack) + 1
      <4>1. i \in 2..Len(stack) /\ i - 1 \in 1..Len(stack) /\ i \in 1..Len(stack) /\ i - 1 # Len(stack)
        BY <1>3, <2>6, <2>8, <3>2
      <4>2. called[i - 1] = stack[i - 1] /\ called[i] = IF i = Len(stack) THEN f ELSE stack[i]
        BY <2>6, <4>1
      <4>3. stack[i].by = "unchecked"
        BY <1>3, <2>1, <2>8, <4>2 DEF As
      <4>4. Naming(i)
        BY <2>9, <4>2, <4>3 DEF Naming
      <4>5. OnString
        BY <4>1, <4>4 DEF NamesAreStrings
      <4>6. QED
        BY <2>1, <4>5, OnStringMoves DEF Asking, Sure
    <3>3. QED
      BY <3>1, <3>2
  <2>10. QED
    BY <2>8, <2>9
<1>6. \A f : ~Passes(f, cur') /\ ~Remains(f, cur')
  BY <1>1 DEF Passes, Remains, Goes
<1>7. \A f, r : ~GivesWay(f, r)
  BY <1>1 DEF GivesWay, Goes
<1>8. \A n \in Nodes : ~Returns1(n)
  BY <1>1 DEF Returns1
<1>9. ~Splits
  BY <1>1 DEF Splits
<1>10. QED
  BY <1>1, <1>2, <1>4, <1>5, <1>6, <1>7, <1>8, <1>9 DEF Forms

(* A parse begins with no name asked for.                                     *)
LEMMA InitNames == Init => Shown /\ NamesAreStrings /\ ThrowsExplained
<1>1. SUFFICES ASSUME Init PROVE Shown /\ NamesAreStrings /\ ThrowsExplained
  OBVIOUS
<1>2. PICK i \in Inputs : status = "run" /\ stack = <<Frame(i.entry, 1, "entry", NoNode)>>
  BY <1>1 DEF Init
<1>3. IInv /\ Shown
  BY <1>1, InitHolds, InitStraight
<1>4. Len(stack) = 1 /\ stack[1].pc = 1 /\ Top.pc = 1
  BY <1>2 DEF Top, Frame
<1>5. Top.fn \in Rules /\ Top.pc \in Places(Top.fn) /\ Move = Grammar[Top.fn][Top.pc]
  BY <1>3, StackSeated
<1>6. Before(Top.fn, Top.pc).op # "look"
  BY <1>4, <1>5, PlaceFacts, EntryIsNone
<1>7. ~(Top.fn = "FFIDecl" /\ Move.op = "unchecked")
  BY <1>5, <1>6, NotAsked
<1>8. QED
  BY <1>2, <1>3, <1>4, <1>7 DEF NamesAreStrings, ThrowsExplained

(* With a grammar that calls a literal without a test only where it has seen  *)
(* a string, whatever the text: what throws is the first item of an import    *)
(* list, or the name of an ffi declaration that is an f-string.               *)
THEOREM StringsNeverThrow == Spec => []ThrowsExplained
<1> DEFINE Inv == IInv /\ Shown /\ NamesAreStrings /\ ThrowsExplained
<1>1. Init => Inv
  BY InitHolds, InitNames
<1>2. Inv /\ [Next]_vars => Inv'
  <2>1. ASSUME Inv, UNCHANGED vars PROVE Inv'
    <3>1. toks' = toks /\ cur' = cur /\ stack' = stack /\ status' = status
      BY <2>1 DEF vars
    <3>2. IInv' /\ ThrowsExplained'
      BY <2>1, <3>1 DEF IInv, ThrowsExplained
    <3>3. Top' = Top /\ Here' = Here
      BY <3>1 DEF Top, Here
    <3>4. Shown'
      BY <2>1, <3>1, <3>3 DEF Shown
    <3>5. NamesAreStrings'
      BY <2>1, <3>1, <3>3 DEF NamesAreStrings, Naming, OnString, Move
    <3>6. QED
      BY <3>2, <3>4, <3>5
  <2>2. ASSUME Inv, Next PROVE Inv'
    <3>1. CASE status = "run"
      <4>1. IInv'
        BY <2>2, StepKeeps
      <4>2. Shown' /\ NamesAreStrings'
        BY <2>2, <3>1, <4>1, StepShown, NamesStep
      <4>3. ThrowsExplained'
        BY <2>2, <3>1, ThrowStep
      <4>4. QED
        BY <4>1, <4>2, <4>3
    <3>2. CASE status # "run"
      BY <2>1, <2>2, <3>2, EndedStays
    <3>3. QED
      BY <3>1, <3>2
  <2>3. QED
    BY <2>1, <2>2
<1>3. Inv => ThrowsExplained
  OBVIOUS
<1> HIDE DEF Inv
<1>4. QED
  BY <1>1, <1>2, <1>3, PTL DEF Spec
===============================================================================
