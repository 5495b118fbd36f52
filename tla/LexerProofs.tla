----------------------------- MODULE LexerProofs -----------------------------
(***************************************************************************)
(* Proofs about Lexer, for every source text and every operator table.       *)
(*                                                                         *)
(* Inv is inductive.  Beside the types it says that the cursor is inside the  *)
(* text and on the line it claims (Sound), where the scanner at work began    *)
(* and that it has moved on (ScanSound), that no number, name or operator     *)
(* has crossed a line (OneLine), and what the tokens cover.                   *)
(***************************************************************************)
EXTENDS Lexer, FiniteSetTheorems, TLAPS

(* A cursor that read nothing past the terminating nul, and counts lines.    *)
Sound(c) ==
    /\ c \in Cursor
    /\ ~c.wild
    /\ c.pos <= End + 1
    /\ c.line = LineOf(c.pos)

-----------------------------------------------------------------------------
(* The cursor. *)

(* One more character has one more newline, if it is one.                    *)
LEMMA NextLine ==
    ASSUME NEW p \in Nat, source \in Seq(Chars)
    PROVE  /\ LineOf(p) \in Nat
           /\ LineOf(p + 1) = IF At(p) = "\n" THEN LineOf(p) + 1 ELSE LineOf(p)
<1> DEFINE S == Newlines(source, p)
           T == Newlines(source, p + 1)
<1>1. Len(source) \in Nat /\ DOMAIN source = 1 .. Len(source)
  OBVIOUS
<1>2. IsFiniteSet(1 .. Len(source))
  BY <1>1, FS_Interval
<1>3. IsFiniteSet(S) /\ Cardinality(S) \in Nat
  <2>1. S \subseteq 1 .. Len(source)
    BY <1>1 DEF Newlines
  <2> QED
    BY <2>1, <1>2, FS_Subset, FS_CardinalityType
<1>4. CASE At(p) = "\n"
  <2>1. p < Len(source) /\ source[p + 1] = "\n"
    BY <1>4, <1>1 DEF At, End, Nul
  <2>2. T = S \cup {p + 1} /\ p + 1 \notin S
    BY <2>1, <1>1 DEF Newlines
  <2>3. Cardinality(T) = Cardinality(S) + 1
    BY <2>2, <1>3, FS_AddElement
  <2> QED
    BY <2>3, <1>3, <1>4 DEF LineOf
<1>5. CASE At(p) # "\n"
  <2>1. ~(p < Len(source) /\ source[p + 1] = "\n")
    BY <1>5, <1>1 DEF At, End
  <2>2. T = S
    BY <2>1, <1>1 DEF Newlines
  <2> QED
    BY <2>2, <1>3, <1>5 DEF LineOf
<1> QED
  BY <1>4, <1>5

(* bare_advance keeps a cursor sound, up to one position after the nul.      *)
LEMMA AdvanceSound ==
    ASSUME source \in Seq(Chars), NEW c, Sound(c), c.pos <= End
    PROVE  /\ Sound(BareAdvance(c))
           /\ BareAdvance(c).pos = c.pos + 1
           /\ At(c.pos) # "\n" => BareAdvance(c).line = c.line
<1>1. c.pos \in Nat /\ c.line \in Nat /\ c.column \in Nat /\ End \in Nat
  BY DEF Sound, Cursor, End
<1>2. BareAdvance(c).pos = c.pos + 1 /\ BareAdvance(c) \in Cursor /\ ~BareAdvance(c).wild
  BY <1>1 DEF BareAdvance, Sound, Cursor
<1>3. BareAdvance(c).line = IF At(c.pos) = "\n" THEN c.line + 1 ELSE c.line
  BY DEF BareAdvance
<1>4. BareAdvance(c).line = LineOf(c.pos + 1)
  BY <1>1, <1>3, NextLine DEF Sound
<1> QED
  BY <1>1, <1>2, <1>3, <1>4 DEF Sound

(* What peek_forward sees is the next character; it sees one only inside.    *)
LEMMA PeekInside ==
    ASSUME source \in Seq(Chars), NEW c, Sound(c), Peek(c) # Nul
    PROVE  c.pos + 1 < End /\ At(c.pos + 1) = Peek(c)
BY DEF Peek, Sound, Cursor, End

(* Going back over a character that is no newline.                           *)
LEMMA BackSound ==
    ASSUME source \in Seq(Chars), NEW c, Sound(c), c.pos > 0, At(c.pos - 1) # "\n"
    PROVE  /\ Sound(Back(c))
           /\ Back(c).pos = c.pos - 1
           /\ Back(c).line = c.line
<1>1. c.pos \in Nat /\ c.pos - 1 \in Nat /\ c.line \in Nat /\ c.column \in Nat /\ End \in Nat
  BY DEF Sound, Cursor, End
<1>2. Back(c).pos = c.pos - 1 /\ Back(c) \in Cursor /\ Back(c).line = c.line /\ ~Back(c).wild
  BY <1>1 DEF Back, Sound, Cursor
<1>3. c.pos = (c.pos - 1) + 1
  BY <1>1
<1>4. LineOf(c.pos) = LineOf(c.pos - 1)
  BY <1>1, <1>3, NextLine
<1> QED
  BY <1>1, <1>2, <1>4 DEF Sound

-----------------------------------------------------------------------------
(* The invariant. *)

(* The scanner at work began inside the text and has moved on before it is    *)
(* over; what it began with is still there to keep its depth above zero.     *)
ScanSound ==
    scan.kind # "none" /\ outcome = "running" =>
        /\ scan.from < End /\ scan.from <= cur.pos
        /\ scan.over => scan.from < cur.pos
        /\ scan.line = LineOf(scan.from)
        /\ scan.kind = "line_comment" => At(scan.from) = "/"
        /\ scan.kind = "number" => At(scan.from) = "1"
        /\ scan.kind = "block_comment" =>
              /\ scan.from + 1 < End
              /\ At(scan.from) = "/" /\ At(scan.from + 1) = "*"
              /\ scan.over \/ scan.depth > 0 \/ cur.pos = scan.from
        /\ scan.kind = "directive" =>
              /\ scan.from + 1 < End
              /\ At(scan.from) = "#" /\ At(scan.from + 1) = "["
              /\ scan.over \/ scan.depth > 0 \/ cur.pos \in {scan.from, scan.from + 1}

(* Names, numbers and operators stay on one line, so that giving back one of  *)
(* their characters does not change the line.                                *)
OneLine ==
    scan.kind \in {"name", "number", "operator"} /\ outcome = "running" =>
        /\ cur.line = scan.line
        /\ \A p \in scan.from .. cur.pos - 1 : At(p) # "\n"
        /\ ~scan.over => At(cur.pos) # "\n"

Inv == TypeOK /\ Sound(cur) /\ ScanSound /\ OneLine /\ Tile /\ LinesAreRight

(* The local variables that a scanner never changes.                         *)
SameScanner(s) == s \in Scan /\ s.kind = scan.kind /\ s.from = scan.from /\ s.line = scan.line

(* A scanner that goes on leaves the tokens and what they cover alone.        *)
LEMMA MoveKeeps ==
    ASSUME Inv, NEW c, NEW s, Sound(c), SameScanner(s), scan.kind # "none",
           outcome = "running", Move(c, s)
    PROVE  TypeOK' /\ Sound(cur)' /\ Tile' /\ LinesAreRight'
<1>1. cur' = c /\ scan' = s /\ source' = source /\ tokens' = tokens /\ outcome' = outcome
  BY DEF Move
<1>2. TypeOK'
  BY <1>1 DEF Inv, TypeOK, Sound, SameScanner, Cursor, Scan
<1>3. Sound(cur)'
  BY <1>1 DEF Sound, LineOf, End, Cursor
<1>4. Reached' = Reached
  BY <1>1 DEF Reached, SameScanner
<1>5. Tile'
  BY <1>1, <1>4 DEF Inv, Tile, Covered, At, End
<1>6. LinesAreRight'
  BY <1>1, <1>3 DEF Inv, LinesAreRight, Sound, LineOf
<1> QED
  BY <1>2, <1>3, <1>5, <1>6

CommentKinds == {"line_comment", "block_comment", "directive"}

(* A token that begins where the last one, and white space, ended.            *)
LEMMA PushKeeps ==
    ASSUME Inv, NEW k \in Kinds \ {"eof"}, NEW to \in Nat, NEW line \in Nat,
           Push(k, Reached, to, line), Reached < to, to = cur'.pos, Sound(cur'),
           source' = source,
           line = LineOf(IF k \in CommentKinds THEN to ELSE Reached)
    PROVE  Inv'
<1> DEFINE t == [kind |-> k, from |-> Reached, to |-> to, line |-> line]
<1>1. /\ tokens' = Append(tokens, t) /\ scan' = Idle /\ outcome' = outcome
      /\ tokens \in Seq(Token) /\ source \in Seq(Chars) /\ Len(tokens) \in Nat
      /\ Reached \in Nat /\ End \in Nat
  BY DEF Push, Inv, TypeOK, Reached, Cursor, Scan, End
<1>2. t \in Token
  BY <1>1 DEF Token
<1>3. /\ tokens' \in Seq(Token) /\ Len(tokens') = Len(tokens) + 1
      /\ \A n \in 1 .. Len(tokens) : tokens'[n] = tokens[n]
      /\ tokens'[Len(tokens) + 1] = t
      /\ DOMAIN tokens = 1 .. Len(tokens) /\ DOMAIN tokens' = 1 .. Len(tokens) + 1
  BY <1>1, <1>2
<1>4. Idle \in Scan
  BY DEF Idle, Scan
<1>5. TypeOK'
  BY <1>1, <1>3, <1>4 DEF Inv, TypeOK, Sound
<1>6. Sound(cur)'
  BY DEF Sound, LineOf, End, Cursor
<1>7. ScanSound' /\ OneLine'
  BY <1>1 DEF ScanSound, OneLine, Idle
<1>8. Reached' = to
  BY <1>1 DEF Reached, Idle
<1>9. Tile'
  <2>1. ASSUME NEW n \in DOMAIN tokens'
        PROVE  /\ tokens'[n].kind # "eof" => tokens'[n].from < tokens'[n].to
               /\ tokens'[n].to <= Reached'
               /\ \A m \in 1 .. n - 1 : tokens'[m].to <= tokens'[n].from
    <3>1. CASE n \in 1 .. Len(tokens)
      <4>1. tokens[n] \in Token /\ tokens[n].to <= Reached
        BY <3>1, <1>1, <1>3 DEF Inv, Tile
      <4>2. tokens[n].to \in Nat
        BY <4>1 DEF Token
      <4>3. tokens'[n].to <= Reached'
        BY <3>1, <1>1, <1>3, <1>8, <4>1, <4>2
      <4> QED
        BY <3>1, <1>3, <1>1, <4>3 DEF Inv, Tile
    <3>2. CASE n = Len(tokens) + 1
      <4>1. tokens'[n] = t
        BY <3>2, <1>3
      <4>2. \A m \in 1 .. Len(tokens) : tokens'[m].to <= Reached
        BY <1>3 DEF Inv, Tile
      <4> QED
        BY <3>2, <1>1, <1>8, <4>1, <4>2
    <3> QED
      BY <3>1, <3>2, <1>3
  <2>2. ASSUME NEW p \in 0 .. End' - 1, p < Reached'
        PROVE  At(p)' \in White \/ Covered(p)'
    <3>1. End' = End /\ At(p)' = At(p) /\ p \in 0 .. End - 1
      BY DEF End, At
    <3>2. CASE p < Reached
      <4>1. At(p) \in White \/ Covered(p)
        BY <3>1, <3>2 DEF Inv, Tile
      <4>2. Covered(p) => Covered(p)'
        BY <1>1, <1>3 DEF Covered
      <4> QED
        BY <3>1, <4>1, <4>2
    <3>3. CASE Reached <= p
      <4>1. Len(tokens) + 1 \in DOMAIN tokens'
        BY <1>1, <1>3
      <4>2. tokens'[Len(tokens) + 1].from <= p /\ p < tokens'[Len(tokens) + 1].to
        BY <3>3, <2>2, <1>3, <1>8
      <4> QED
        BY <4>1, <4>2 DEF Covered
    <3> QED
      BY <3>1, <3>2, <3>3, <1>1
  <2> QED
    BY <2>1, <2>2 DEF Tile
<1>10. LinesAreRight'
  <2>1. ASSUME NEW n \in DOMAIN tokens'
        PROVE  tokens'[n].line =
                  LineOf(IF tokens'[n].kind \in CommentKinds
                         THEN tokens'[n].to ELSE tokens'[n].from)
    <3>1. CASE n \in 1 .. Len(tokens)
      BY <3>1, <1>3 DEF Inv, LinesAreRight, CommentKinds
    <3>2. CASE n = Len(tokens) + 1
      BY <3>2, <1>3
    <3> QED
      BY <3>1, <3>2, <1>3
  <2> QED
    BY <2>1, <1>6 DEF LinesAreRight, Sound, LineOf, CommentKinds
<1> QED
  BY <1>5, <1>6, <1>7, <1>9, <1>10 DEF Inv

-----------------------------------------------------------------------------
(* The steps of the scanners. *)

(* What a step of a scanner can use.                                         *)
LEMMA Facts ==
    ASSUME Inv
    PROVE  /\ source \in Seq(Chars) /\ End \in Nat
           /\ cur \in Cursor /\ cur.pos \in Nat /\ cur.line \in Nat
           /\ scan \in Scan /\ scan.from \in Nat /\ scan.line \in Nat /\ scan.depth \in Nat
           /\ Sound(cur)
           /\ Next2 # Nul => cur.pos + 1 < End /\ At(cur.pos + 1) = Next2
           /\ cur.pos <= End => /\ Sound(BareAdvance(cur))
                                /\ BareAdvance(cur).pos = cur.pos + 1
                                /\ Next1 # "\n" => BareAdvance(cur).line = cur.line
<1>1. source \in Seq(Chars) /\ End \in Nat /\ Sound(cur)
  BY DEF Inv, TypeOK, End
<1>2. cur \in Cursor /\ cur.pos \in Nat /\ cur.line \in Nat
  BY DEF Inv, TypeOK, Cursor
<1>3. scan \in Scan /\ scan.from \in Nat /\ scan.line \in Nat /\ scan.depth \in Nat
  BY DEF Inv, TypeOK, Scan
<1>4. Next2 # Nul => cur.pos + 1 < End /\ At(cur.pos + 1) = Next2
  BY <1>1, PeekInside DEF Next2
<1>5. cur.pos <= End => /\ Sound(BareAdvance(cur))
                        /\ BareAdvance(cur).pos = cur.pos + 1
                        /\ Next1 # "\n" => BareAdvance(cur).line = cur.line
  BY <1>1, AdvanceSound DEF Next1
<1> QED
  BY <1>1, <1>2, <1>3, <1>4, <1>5

(* Two characters at once, when the second was seen.                         *)
LEMMA AdvanceTwo ==
    ASSUME Inv, cur.pos <= End, Next2 # Nul
    PROVE  Sound(Advance2(cur)) /\ Advance2(cur).pos = cur.pos + 2 /\ cur.pos + 2 <= End
<1>1. /\ Sound(BareAdvance(cur)) /\ BareAdvance(cur).pos = cur.pos + 1
      /\ cur.pos + 1 < End /\ End \in Nat /\ cur.pos \in Nat /\ source \in Seq(Chars)
  BY Facts
<1>2. BareAdvance(cur).pos <= End
  BY <1>1
<1> QED
  BY <1>1, <1>2, AdvanceSound DEF Advance2

(* A scanner that returns its token.                                         *)
LEMMA EmitStep ==
    ASSUME Inv, scan.kind # "none", outcome = "running", scan.from < cur.pos,
           NEW k \in Kinds \ {"eof"}, NEW line \in Nat,
           line = LineOf(IF k \in CommentKinds THEN cur.pos ELSE scan.from),
           Emit(k, line)
    PROVE  Inv'
<1>1. Reached = scan.from
  BY DEF Reached
<1>2. cur.pos \in Nat /\ cur' = cur /\ source' = source /\ Sound(cur')
  BY Facts DEF Emit
<1>3. Push(k, Reached, cur.pos, line)
  BY <1>1 DEF Emit
<1> QED
  BY <1>1, <1>2, <1>3, PushKeeps

(* When a scanner ends it has moved on.                                      *)
LEMMA EndingMoved ==
    ASSUME Inv, NEW k \in Scanners, Ending(k)
    PROVE  /\ scan.kind # "none" /\ outcome = "running" /\ scan.from < cur.pos
           /\ scan.line = LineOf(scan.from) /\ cur.line = LineOf(cur.pos)
<1>1. k # "none"
  BY DEF Scanners
<1>2. scan.kind = k /\ outcome = "running" /\ (scan.over \/ cur.pos > End)
  BY DEF Ending, Running, IsEof
<1>3. scan.from < cur.pos /\ scan.line = LineOf(scan.from)
  BY <1>1, <1>2, Facts DEF Inv, ScanSound
<1> QED
  BY <1>1, <1>2, <1>3, Facts DEF Sound

(* A refusal changes the outcome and nothing else.                           *)
LEMMA PanicStep ==
    ASSUME Inv, Panic
    PROVE  Inv'
BY DEF Panic, Inv, TypeOK, Sound, Cursor, ScanSound, OneLine, Tile, Covered, Reached,
       LinesAreRight, LineOf, At, End

(* The comments end where the next line or the file does; at the first        *)
(* character they do not stand still.                                        *)
LEMMA LineCommentStep ==
    ASSUME Inv, LineComment \/ EndLineComment
    PROVE  Inv'
<1>1. CASE LineComment
  <2> DEFINE c == IF Next1 = "\n" THEN cur ELSE BareAdvance(cur)
             s == [scan EXCEPT !.over = Next1 = "\n"]
  <2>1. /\ outcome = "running" /\ scan.kind = "line_comment" /\ ~scan.over
        /\ cur.pos <= End /\ Move(c, s)
    BY <1>1, Facts DEF LineComment, Looping, Running, IsEof
  <2>2. Sound(c) /\ c.pos \in {cur.pos, cur.pos + 1} /\ (Next1 # "\n" => c.pos = cur.pos + 1)
    BY <2>1, Facts
  <2>3. SameScanner(s)
    BY Facts DEF SameScanner, Scan
  <2>4. TypeOK' /\ Sound(cur)' /\ Tile' /\ LinesAreRight'
    BY <2>1, <2>2, <2>3, MoveKeeps
  <2>5. cur' = c /\ scan' = s /\ source' = source
    BY <2>1 DEF Move
  <2>6. scan.from # cur.pos \/ Next1 # "\n"
    BY <2>1 DEF Inv, ScanSound, Next1
  <2>7. s.over = (Next1 = "\n") /\ s.kind = "line_comment" /\ s.from = scan.from /\ s.line = scan.line
    BY <2>1, Facts DEF Scan
  <2>8. ScanSound'
    BY <2>1, <2>2, <2>5, <2>6, <2>7, Facts DEF Inv, ScanSound, LineOf, At, End
  <2>9. OneLine'
    BY <2>5, <2>7 DEF OneLine
  <2> QED
    BY <2>4, <2>8, <2>9 DEF Inv
<1>2. CASE EndLineComment
  <2>1. Ending("line_comment") /\ Emit("line_comment", cur.line)
    BY <1>2 DEF EndLineComment
  <2>2. "line_comment" \in Scanners /\ "line_comment" \in Kinds \ {"eof"} /\ "line_comment" \in CommentKinds
    BY DEF Scanners, Kinds, CommentKinds
  <2> QED
    BY <2>1, <2>2, EndingMoved, EmitStep, Facts
<1> QED
  BY <1>1, <1>2

(* Block comments skip up to three characters, of which they saw two.        *)
LEMMA BlockCommentStep ==
    ASSUME Inv, BlockComment \/ EndBlockComment
    PROVE  Inv'
<1>1. CASE BlockComment
  <2> DEFINE opens  == Next1 = "/" /\ Next2 = "*"
             closes == Next1 = "*" /\ Next2 = "/"
             depth  == IF opens THEN scan.depth + 1
                       ELSE IF closes THEN scan.depth - 1 ELSE scan.depth
             c == IF depth = 0 THEN Advance2(cur)
                  ELSE IF opens \/ closes THEN BareAdvance(Advance2(cur)) ELSE BareAdvance(cur)
             s == IF depth = 0 THEN [scan EXCEPT !.depth = 0, !.over = TRUE]
                  ELSE [scan EXCEPT !.depth = depth]
  <2>1. /\ outcome = "running" /\ scan.kind = "block_comment" /\ ~scan.over /\ cur.pos <= End
        /\ Move(c, s)
    BY <1>1, Facts DEF BlockComment, Looping, Running, IsEof
  <2>2. /\ scan.from + 1 < End /\ scan.from <= cur.pos /\ scan.line = LineOf(scan.from)
        /\ At(scan.from) = "/" /\ At(scan.from + 1) = "*"
        /\ scan.depth > 0 \/ cur.pos = scan.from
    BY <2>1 DEF Inv, ScanSound
  <2>3. cur.pos = scan.from => opens
    BY <2>2, Facts DEF Next1, Next2, Peek
  <2>4. depth \in Nat /\ (depth = 0 => closes)
    BY <2>2, <2>3, Facts
  <2>5. opens \/ closes => Next2 # Nul
    BY DEF Nul
  <2>6. Sound(c) /\ c.pos > cur.pos /\ c.pos \in Nat
    <3>1. CASE opens \/ closes
      <4>1. Sound(Advance2(cur)) /\ Advance2(cur).pos = cur.pos + 2 /\ cur.pos + 2 <= End
        BY <2>1, <2>5, <3>1, AdvanceTwo
      <4>2. Sound(BareAdvance(Advance2(cur))) /\ BareAdvance(Advance2(cur)).pos = cur.pos + 3
        BY <4>1, AdvanceSound, Facts
      <4> QED
        BY <3>1, <4>1, <4>2, Facts
    <3>2. CASE ~(opens \/ closes)
      BY <3>2, <2>1, <2>4, Facts
    <3> QED
      BY <3>1, <3>2
  <2>7. s.kind = "block_comment" /\ s.from = scan.from /\ s.line = scan.line /\ s \in Scan
    BY <2>1, <2>4, Facts DEF Scan
  <2>8. s.over \/ s.depth > 0
    BY <2>4, Facts DEF Scan
  <2>9. SameScanner(s)
    BY <2>1, <2>7 DEF SameScanner
  <2>10. TypeOK' /\ Sound(cur)' /\ Tile' /\ LinesAreRight'
    BY <2>1, <2>6, <2>9, MoveKeeps
  <2>11. cur' = c /\ scan' = s /\ source' = source
    BY <2>1 DEF Move
  <2> HIDE DEF c, s
  <2>12. ScanSound'
    <3>1. /\ scan'.kind = s.kind /\ scan'.from = s.from /\ scan'.line = s.line
          /\ scan'.depth = s.depth /\ scan'.over = s.over
          /\ End' = End /\ LineOf(scan.from)' = LineOf(s.from)
          /\ At(scan.from)' = At(s.from) /\ At(scan.from + 1)' = At(s.from + 1)
      BY <2>11 DEF LineOf, At, End
    <3>2. cur'.pos \in Nat /\ cur'.pos > cur.pos
      BY <2>6, <2>11
    <3> QED
      BY <2>2, <2>6, <2>7, <2>8, <2>11, <3>1, <3>2, Facts DEF ScanSound
  <2>13. OneLine'
    BY <2>7, <2>11 DEF OneLine
  <2> QED
    BY <2>10, <2>12, <2>13 DEF Inv
<1>2. CASE EndBlockComment
  <2>1. CASE scan.depth # 0
    BY <1>2, <2>1, PanicStep DEF EndBlockComment
  <2>2. CASE scan.depth = 0
    <3>1. Ending("block_comment") /\ Emit("block_comment", cur.line)
      BY <1>2, <2>2 DEF EndBlockComment
    <3>2. "block_comment" \in Scanners /\ "block_comment" \in Kinds \ {"eof"} /\ "block_comment" \in CommentKinds
      BY DEF Scanners, Kinds, CommentKinds
    <3> QED
      BY <3>1, <3>2, EndingMoved, EmitStep, Facts
  <2> QED
    BY <2>1, <2>2
<1> QED
  BY <1>1, <1>2

(* Directives begin with two characters that bring their depth to one.       *)
LEMMA DirectiveStep ==
    ASSUME Inv, Directive \/ EndDirective
    PROVE  Inv'
<1>1. CASE Directive
  <2> DEFINE depth == IF Next1 = "[" THEN scan.depth + 1
                      ELSE IF Next1 = "]" THEN scan.depth - 1 ELSE scan.depth
             s == [scan EXCEPT !.depth = depth, !.over = Next1 \in {"]", "\n"} /\ depth = 0]
  <2>1. /\ outcome = "running" /\ scan.kind = "directive" /\ ~scan.over /\ cur.pos <= End
        /\ Move(BareAdvance(cur), s)
    BY <1>1, Facts DEF Directive, Looping, Running, IsEof
  <2>2. /\ scan.from + 1 < End /\ scan.from <= cur.pos /\ scan.line = LineOf(scan.from)
        /\ At(scan.from) = "#" /\ At(scan.from + 1) = "["
        /\ scan.depth > 0 \/ cur.pos \in {scan.from, scan.from + 1}
    BY <2>1 DEF Inv, ScanSound
  <2>3. /\ cur.pos = scan.from => Next1 = "#"
        /\ cur.pos = scan.from + 1 => Next1 = "["
    BY <2>2 DEF Next1
  <2>4. depth \in Nat /\ (depth > 0 \/ Next1 = "]" \/ cur.pos = scan.from)
    BY <2>2, <2>3, Facts
  <2>5. Sound(BareAdvance(cur)) /\ BareAdvance(cur).pos = cur.pos + 1
    BY <2>1, Facts
  <2>6. /\ s.kind = "directive" /\ s.from = scan.from /\ s.line = scan.line /\ s \in Scan
        /\ s.depth = depth /\ s.over <=> (Next1 \in {"]", "\n"} /\ depth = 0)
    BY <2>1, <2>4, Facts DEF Scan
  <2>7. s.over \/ s.depth > 0 \/ cur.pos + 1 = s.from + 1
    BY <2>4, <2>6, Facts
  <2>8. SameScanner(s)
    BY <2>1, <2>6 DEF SameScanner
  <2>9. TypeOK' /\ Sound(cur)' /\ Tile' /\ LinesAreRight'
    BY <2>1, <2>5, <2>8, MoveKeeps
  <2>10. cur' = BareAdvance(cur) /\ scan' = s /\ source' = source
    BY <2>1 DEF Move
  <2> HIDE DEF s
  <2>11. ScanSound'
    <3>1. /\ scan'.kind = s.kind /\ scan'.from = s.from /\ scan'.line = s.line
          /\ scan'.depth = s.depth /\ scan'.over = s.over
          /\ End' = End /\ LineOf(scan.from)' = LineOf(s.from)
          /\ At(scan.from)' = At(s.from) /\ At(scan.from + 1)' = At(s.from + 1)
      BY <2>10 DEF LineOf, At, End
    <3>2. cur'.pos \in Nat /\ cur'.pos > cur.pos
      BY <2>5, <2>10, Facts
    <3> QED
      BY <2>2, <2>5, <2>6, <2>7, <2>10, <3>1, <3>2, Facts DEF ScanSound
  <2>12. OneLine'
    BY <2>6, <2>10 DEF OneLine
  <2> QED
    BY <2>9, <2>11, <2>12 DEF Inv
<1>2. CASE EndDirective
  <2>1. Ending("directive") /\ Emit("directive", cur.line)
    BY <1>2 DEF EndDirective
  <2>2. "directive" \in Scanners /\ "directive" \in Kinds \ {"eof"} /\ "directive" \in CommentKinds
    BY DEF Scanners, Kinds, CommentKinds
  <2> QED
    BY <2>1, <2>2, EndingMoved, EmitStep, Facts
<1> QED
  BY <1>1, <1>2

(* The scanners that stay on one line: a step that takes one more character,  *)
(* from where they are (or one back, for a range).                           *)
LEMMA OneLineMove ==
    ASSUME Inv, outcome = "running", scan.kind \in {"name", "number", "operator"},
           NEW c, NEW s, Move(c, s), SameScanner(s), Sound(c),
           c.pos > scan.from, c.pos <= cur.pos + 1, c.line = cur.line,
           ~scan.over \/ c.pos <= cur.pos, s.over \/ At(c.pos) # "\n"
    PROVE  Inv'
<1>1. scan.kind # "none"
  OBVIOUS
<1>2. TypeOK' /\ Sound(cur)' /\ Tile' /\ LinesAreRight'
  BY <1>1, MoveKeeps
<1>3. cur' = c /\ scan' = s /\ source' = source /\ outcome' = outcome
  BY DEF Move
<1>4. s.kind = scan.kind /\ s.from = scan.from /\ s.line = scan.line
  BY DEF SameScanner
<1>5. c.pos \in Nat
  BY DEF Sound, Cursor
<1>6. /\ scan.from < End /\ scan.line = LineOf(scan.from)
      /\ scan.kind = "number" => At(scan.from) = "1"
  BY <1>1 DEF Inv, ScanSound
<1>7. /\ End' = End /\ LineOf(scan.from)' = LineOf(scan.from)
      /\ At(scan.from)' = At(scan.from)
  BY <1>3, <1>4 DEF LineOf, At, End
<1>8. ScanSound'
  BY <1>3, <1>4, <1>5, <1>6, <1>7, Facts DEF ScanSound
<1>9. OneLine'
  <2>1. cur.line = scan.line /\ \A p \in scan.from .. cur.pos - 1 : At(p) # "\n"
    BY DEF Inv, OneLine
  <2>2. ~scan.over => At(cur.pos) # "\n"
    BY DEF Inv, OneLine
  <2>3. \A p \in scan.from .. c.pos - 1 : At(p) # "\n"
    BY <2>1, <2>2, <1>5, Facts
  <2>4. \A p \in Nat : At(p)' = At(p)
    BY <1>3 DEF At, End
  <2>5. \A p \in scan'.from .. cur'.pos - 1 : At(p)' # "\n"
    BY <1>3, <1>4, <1>5, <2>3, <2>4, Facts
  <2>6. ~scan'.over => At(cur.pos)' # "\n"
    BY <1>3, <1>5, <2>4 DEF At, End
  <2> QED
    BY <1>3, <1>4, <2>1, <2>5, <2>6 DEF OneLine
<1> QED
  BY <1>2, <1>8, <1>9 DEF Inv

(* A token of one line.                                                      *)
LEMMA OneLineEmit ==
    ASSUME Inv, NEW k \in {"name", "number", "operator"}, Ending(k),
           NEW kind \in {"name", "int", "float", "operator"}, Emit(kind, cur.line)
    PROVE  Inv'
<1>1. k \in Scanners /\ kind \in Kinds \ {"eof"} /\ kind \notin CommentKinds
  BY DEF Scanners, Kinds, CommentKinds
<1>2. /\ scan.kind # "none" /\ outcome = "running" /\ scan.from < cur.pos
      /\ scan.line = LineOf(scan.from)
  BY <1>1, EndingMoved
<1>3. cur.line = scan.line
  BY DEF Inv, OneLine, Ending, Running
<1> QED
  BY <1>1, <1>2, <1>3, EmitStep, Facts

(* Names end before the first character that is not part of one.            *)
LEMMA NameStep ==
    ASSUME Inv, Name \/ EndName
    PROVE  Inv'
<1>1. CASE Name
  <2> DEFINE s == [scan EXCEPT !.over = Next2 \notin NameChars]
  <2>1. /\ outcome = "running" /\ scan.kind = "name" /\ ~scan.over /\ cur.pos <= End
        /\ Move(BareAdvance(cur), s)
    BY <1>1, Facts DEF Name, Looping, Running, IsEof
  <2>2. Next1 # "\n" /\ scan.from <= cur.pos
    BY <2>1 DEF Inv, OneLine, ScanSound, Next1
  <2>3. /\ Sound(BareAdvance(cur)) /\ BareAdvance(cur).pos = cur.pos + 1
        /\ BareAdvance(cur).line = cur.line
    BY <2>1, <2>2, Facts
  <2>4. SameScanner(s)
    BY Facts DEF SameScanner, Scan
  <2>5. s.over \/ At(cur.pos + 1) # "\n"
    <3>1. s.over <=> Next2 \notin NameChars
      BY Facts DEF Scan
    <3>2. Next2 \in NameChars => Next2 # Nul /\ Next2 # "\n"
      BY DEF NameChars, Letters, Prefixes, Nul
    <3> QED
      BY <3>1, <3>2, Facts
  <2>6. /\ BareAdvance(cur).pos > scan.from /\ BareAdvance(cur).pos <= cur.pos + 1
        /\ s.over \/ At(BareAdvance(cur).pos) # "\n"
    BY <2>2, <2>3, <2>5, Facts
  <2> HIDE DEF s
  <2> QED
    BY <2>1, <2>3, <2>4, <2>6, OneLineMove
<1>2. CASE EndName
  BY <1>2, OneLineEmit DEF EndName
<1> QED
  BY <1>1, <1>2

(* A range gives back a dot, which is behind the first digit.                *)
LEMMA NumberStep ==
    ASSUME Inv, Number \/ EndNumber
    PROVE  Inv'
<1>1. CASE Number
  <2> DEFINE dots  == IF Next2 = "." THEN scan.dots + 1 ELSE scan.dots
             range == Next2 = "." /\ dots = 2 /\ Next1 = "."
             goes  == \/ Next2 \in Numeric \cup {"."}
                      \/ scan.sci /\ Next2 \in {"-", "+"}
             b == IF range THEN Back(cur) ELSE cur
             s == [scan EXCEPT !.dots = dots,
                               !.float = IF range THEN FALSE ELSE Next2 = "." \/ @,
                               !.sci = Next2 = "e" \/ @,
                               !.over = range \/ ~goes]
  <2>1. /\ outcome = "running" /\ scan.kind = "number" /\ ~scan.over /\ cur.pos <= End
        /\ Move(BareAdvance(b), s)
    BY <1>1, Facts DEF Number, Looping, Running, IsEof
  <2>2. /\ Next1 # "\n" /\ scan.from <= cur.pos /\ At(scan.from) = "1"
        /\ \A p \in scan.from .. cur.pos - 1 : At(p) # "\n"
    BY <2>1 DEF Inv, OneLine, ScanSound, Next1
  <2>3. /\ Sound(b) /\ b.pos <= End /\ b.line = cur.line /\ At(b.pos) # "\n"
        /\ b.pos >= scan.from /\ b.pos <= cur.pos
    <3>1. CASE range
      <4>1. cur.pos > scan.from
        BY <2>2, <3>1, Facts DEF Next1
      <4>2. cur.pos - 1 \in scan.from .. cur.pos - 1
        BY <4>1, Facts
      <4>3. cur.pos > 0 /\ At(cur.pos - 1) # "\n"
        BY <2>2, <4>1, <4>2, Facts
      <4>4. Sound(Back(cur)) /\ Back(cur).pos = cur.pos - 1 /\ Back(cur).line = cur.line
        BY <4>3, BackSound, Facts
      <4> QED
        BY <2>1, <3>1, <4>1, <4>3, <4>4, Facts
    <3>2. CASE ~range
      BY <2>1, <2>2, <3>2, Facts DEF Next1
    <3> QED
      BY <3>1, <3>2
  <2>4. /\ Sound(BareAdvance(b)) /\ BareAdvance(b).pos = b.pos + 1
        /\ BareAdvance(b).line = cur.line
    BY <2>3, AdvanceSound, Facts
  <2>5. s \in Scan /\ s.kind = scan.kind /\ s.from = scan.from /\ s.line = scan.line
        /\ (s.over <=> range \/ ~goes)
    <3>1. dots \in Nat /\ scan.float \in BOOLEAN /\ scan.sci \in BOOLEAN
      BY Facts DEF Scan
    <3>2. (IF range THEN FALSE ELSE Next2 = "." \/ scan.float) \in BOOLEAN
      BY <3>1
    <3>3. (Next2 = "e" \/ scan.sci) \in BOOLEAN /\ (range \/ ~goes) \in BOOLEAN
      BY <3>1
    <3> HIDE DEF range, goes, dots
    <3>4. s \in Scan
      BY <3>1, <3>2, <3>3, Facts DEF Scan
    <3> QED
      BY <3>4, Facts DEF Scan
  <2>6. SameScanner(s)
    BY <2>5 DEF SameScanner
  <2>7. s.over \/ At(BareAdvance(b).pos) # "\n"
    <3>1. goes => Next2 # Nul /\ Next2 # "\n"
      BY DEF Numeric, Nul
    <3>2. ~range => b.pos = cur.pos
      OBVIOUS
    <3> QED
      BY <2>4, <2>5, <3>1, <3>2, Facts
  <2>8. b.pos \in Nat
    BY <2>3 DEF Sound, Cursor
  <2> HIDE DEF b, s, range, goes, dots
  <2> QED
    BY <2>1, <2>2, <2>3, <2>4, <2>6, <2>7, <2>8, OneLineMove, Facts
<1>2. CASE EndNumber
  <2>1. CASE scan.float /\ scan.dots > 1
    BY <1>2, <2>1, PanicStep DEF EndNumber
  <2>2. CASE ~(scan.float /\ scan.dots > 1)
    <3> DEFINE kind == IF scan.float THEN "float" ELSE "int"
    <3>1. Ending("number") /\ Emit(kind, cur.line)
      BY <1>2, <2>2 DEF EndNumber
    <3>2. kind \in {"name", "int", "float", "operator"}
      OBVIOUS
    <3> QED
      BY <3>1, <3>2, OneLineEmit
  <2> QED
    BY <2>1, <2>2
<1> QED
  BY <1>1, <1>2

(* Strings skip two characters, of which they saw the second.                *)
LEMMA StringStep ==
    ASSUME Inv, String \/ EndString
    PROVE  Inv'
<1>1. CASE String
  <2> DEFINE braces == Braces(Next1)
             two == braces = 0 /\ Next2 \in Quotes \cup {"\\"}
             c == IF two THEN Advance2(cur) ELSE BareAdvance(cur)
             over == braces = 0 /\ Next2 \in Quotes /\ Next2 = scan.quote
             s == [scan EXCEPT !.braces = braces, !.over = over]
  <2>1. /\ outcome = "running" /\ scan.kind = "string" /\ ~scan.over /\ cur.pos <= End
        /\ Move(c, s)
    BY <1>1, Facts DEF String, Looping, Running, IsEof
  <2>2. scan.from < End /\ scan.from <= cur.pos /\ scan.line = LineOf(scan.from)
    BY <2>1 DEF Inv, ScanSound
  <2>3. two => Next2 # Nul
    BY DEF Quotes, Nul
  <2>4. Sound(c) /\ c.pos > cur.pos /\ c.pos \in Nat
    <3>1. CASE two
      BY <2>1, <2>3, <3>1, AdvanceTwo, Facts
    <3>2. CASE ~two
      BY <2>1, <3>2, Facts
    <3> QED
      BY <3>1, <3>2
  <2>5. braces \in Nat
    <3>1. scan.braces \in Nat /\ SizeMax \in Nat /\ SizeMax > 0
      BY SizeAssumption, Facts DEF Scan
    <3>2. (scan.braces + 1) % SizeMax \in Nat
      BY <3>1
    <3>3. CASE scan.fmt /\ Next1 = "{"
      BY <3>2, <3>3 DEF Braces
    <3>4. CASE scan.fmt /\ Next1 = "}"
      <4>1. braces = IF scan.braces = 0 THEN SizeMax - 1 ELSE scan.braces - 1
        BY <3>4 DEF Braces
      <4> QED
        BY <3>1, <4>1
    <3>5. CASE ~(scan.fmt /\ Next1 = "{") /\ ~(scan.fmt /\ Next1 = "}")
      <4>1. braces = scan.braces
        BY <3>5 DEF Braces
      <4> QED
        BY <3>1, <4>1
    <3> QED
      BY <3>3, <3>4, <3>5
  <2>6. over \in BOOLEAN
    OBVIOUS
  <2> HIDE DEF c, over, braces
  <2>7. s \in Scan /\ s.kind = "string" /\ s.from = scan.from /\ s.line = scan.line
    BY <2>1, <2>5, <2>6, Facts DEF Scan
  <2>8. SameScanner(s)
    BY <2>1, <2>7 DEF SameScanner
  <2> HIDE DEF s
  <2>9. TypeOK' /\ Sound(cur)' /\ Tile' /\ LinesAreRight'
    BY <2>1, <2>4, <2>8, MoveKeeps
  <2>10. cur' = c /\ scan' = s /\ source' = source
    BY <2>1 DEF Move
  <2>11. ScanSound'
    <3>1. End' = End /\ LineOf(scan.from)' = LineOf(s.from)
      BY <2>10 DEF LineOf, End
    <3> QED
      BY <2>2, <2>4, <2>7, <2>10, <3>1, Facts DEF ScanSound
  <2>12. OneLine'
    BY <2>7, <2>10 DEF OneLine
  <2> QED
    BY <2>9, <2>11, <2>12 DEF Inv
<1>2. CASE EndString
  <2>1. CASE scan.braces > 0 \/ IsEof(cur)
    BY <1>2, <2>1, PanicStep DEF EndString
  <2>2. CASE ~(scan.braces > 0 \/ IsEof(cur))
    <3>1. Ending("string") /\ Emit("string", scan.line)
      BY <1>2, <2>2 DEF EndString
    <3>2. "string" \in Scanners /\ "string" \in Kinds \ {"eof"} /\ "string" \notin CommentKinds
      BY DEF Scanners, Kinds, CommentKinds
    <3> QED
      BY <3>1, <3>2, EndingMoved, EmitStep, Facts
  <2> QED
    BY <2>1, <2>2
<1> QED
  BY <1>1, <1>2

(* Operators take what they see, and give back what they took.               *)
LEMMA OperatorStep ==
    ASSUME Inv, Operator \/ EndOperator
    PROVE  Inv'
<1>1. CASE Operator
  <2> DEFINE s == [scan EXCEPT !.over = Next2 \notin Operators]
  <2>1. /\ outcome = "running" /\ scan.kind = "operator" /\ ~scan.over /\ cur.pos <= End
        /\ Move(BareAdvance(cur), s)
    BY <1>1, Facts DEF Operator, Looping, Running, IsEof
  <2>2. Next1 # "\n" /\ scan.from <= cur.pos
    BY <2>1 DEF Inv, OneLine, ScanSound, Next1
  <2>3. /\ Sound(BareAdvance(cur)) /\ BareAdvance(cur).pos = cur.pos + 1
        /\ BareAdvance(cur).line = cur.line
    BY <2>1, <2>2, Facts
  <2>4. SameScanner(s)
    BY Facts DEF SameScanner, Scan
  <2>5. s.over \/ At(cur.pos + 1) # "\n"
    <3>1. s.over <=> Next2 \notin Operators
      BY Facts DEF Scan
    <3>2. Next2 \in Operators => Next2 # Nul /\ Next2 # "\n"
      BY DEF Operators, Nul
    <3> QED
      BY <3>1, <3>2, Facts
  <2>6. /\ BareAdvance(cur).pos > scan.from /\ BareAdvance(cur).pos <= cur.pos + 1
        /\ s.over \/ At(BareAdvance(cur).pos) # "\n"
    BY <2>2, <2>3, <2>5, Facts
  <2> HIDE DEF s
  <2> QED
    BY <2>1, <2>3, <2>4, <2>6, OneLineMove
<1>2. CASE EndOperator
  BY <1>2, OneLineEmit DEF EndOperator
<1> QED
  BY <1>1, <1>2

(* Giving one character back stays on the line and behind the start.        *)
LEMMA BackOffStep ==
    ASSUME Inv, BackOff
    PROVE  Inv'
<1>1. Ending("operator")
  BY DEF BackOff
<1>2. "operator" \in Scanners
  BY DEF Scanners
<1>3. /\ scan.kind = "operator" /\ outcome = "running" /\ scan.from < cur.pos
      /\ \A p \in scan.from .. cur.pos - 1 : At(p) # "\n"
  BY <1>1, <1>2, EndingMoved DEF Ending, Running, Inv, OneLine
<1>4. cur.pos - 1 \in scan.from .. cur.pos - 1 /\ cur.pos > 0
  BY <1>3, Facts
<1>5. Sound(Back(cur)) /\ Back(cur).pos = cur.pos - 1 /\ Back(cur).line = cur.line
  BY <1>3, <1>4, BackSound, Facts
<1>6. CASE cur.pos - 1 = scan.from
  <2>1. /\ outcome' = "panic" /\ cur' = Back(cur) /\ scan' = scan /\ source' = source
        /\ tokens' = tokens
    BY <1>6 DEF BackOff
  <2>2. TypeOK'
    BY <2>1, <1>5 DEF Inv, TypeOK, Sound
  <2>3. Sound(cur)'
    BY <2>1, <1>5 DEF Sound, LineOf, End, Cursor
  <2>4. ScanSound' /\ OneLine'
    BY <2>1 DEF ScanSound, OneLine
  <2>5. Reached' = Reached
    BY <2>1, <1>3 DEF Reached
  <2>6. Tile'
    BY <2>1, <2>5 DEF Inv, Tile, Covered, At, End
  <2>7. LinesAreRight'
    BY <2>1, <2>3 DEF Inv, LinesAreRight, Sound, LineOf
  <2> QED
    BY <2>2, <2>3, <2>4, <2>6, <2>7 DEF Inv
<1>7. CASE cur.pos - 1 # scan.from
  <2> DEFINE s == [scan EXCEPT !.over = TRUE]
  <2>1. Move(Back(cur), s)
    BY <1>7 DEF BackOff
  <2>2. SameScanner(s) /\ s.over
    BY Facts DEF SameScanner, Scan
  <2>3. /\ Back(cur).pos > scan.from /\ Back(cur).pos <= cur.pos + 1
        /\ Back(cur).pos <= cur.pos
    BY <1>3, <1>5, <1>7, Facts
  <2> HIDE DEF s
  <2> QED
    BY <1>3, <1>5, <2>1, <2>2, <2>3, OneLineMove
<1> QED
  BY <1>6, <1>7

-----------------------------------------------------------------------------
(* The steps of tokenize. *)

(* White space is the one thing between two tokens.                         *)
LEMMA SkipWhiteStep ==
    ASSUME Inv, SkipWhite
    PROVE  Inv'
<1>1. /\ scan.kind = "none" /\ outcome = "running" /\ cur.pos + 1 <= End /\ Next1 \in White
      /\ cur' = BareAdvance(cur) /\ scan' = Idle /\ source' = source /\ tokens' = tokens
      /\ outcome' = outcome
  BY DEF SkipWhite, Running, Move
<1>2. Sound(BareAdvance(cur)) /\ BareAdvance(cur).pos = cur.pos + 1
  BY <1>1, Facts
<1>3. Idle \in Scan /\ Idle.kind = "none"
  BY DEF Idle, Scan
<1>4. TypeOK'
  BY <1>1, <1>2, <1>3 DEF Inv, TypeOK, Sound
<1>5. Sound(cur)'
  BY <1>1, <1>2 DEF Sound, LineOf, End, Cursor
<1>6. ScanSound' /\ OneLine'
  BY <1>1, <1>3 DEF ScanSound, OneLine
<1>7. Reached = cur.pos /\ Reached' = cur.pos + 1
  BY <1>1, <1>2, <1>3 DEF Reached
<1>8. Tile'
  <2>1. ASSUME NEW n \in DOMAIN tokens
        PROVE  tokens[n].to <= cur.pos + 1
    <3>1. tokens[n].to <= cur.pos /\ tokens[n] \in Token
      BY <1>7 DEF Inv, Tile, TypeOK
    <3> QED
      BY <3>1, Facts DEF Token
  <2>2. ASSUME NEW p \in 0 .. End - 1, p < cur.pos + 1
        PROVE  At(p) \in White \/ Covered(p)
    BY <2>2, <1>1, <1>7, Facts DEF Inv, Tile, Next1
  <2> QED
    BY <1>1, <1>7, <2>1, <2>2 DEF Inv, Tile, Covered, At, End
<1>9. LinesAreRight'
  BY <1>1, <1>5 DEF Inv, LinesAreRight, Sound, LineOf
<1> QED
  BY <1>4, <1>5, <1>6, <1>8, <1>9 DEF Inv

(* A scanner begins where the last token ended.                              *)
LEMMA BeginStep ==
    ASSUME Inv, Begin
    PROVE  Inv'
<1> DEFINE prefixed == ScannerHere = "string" /\ Next1 \in Prefixes
           c == IF prefixed THEN BareAdvance(cur) ELSE cur
           q == IF ScannerHere = "string" THEN At(c.pos) ELSE Nul
           f == prefixed /\ Next1 # "u"
           s == [Idle EXCEPT !.kind = ScannerHere, !.from = cur.pos, !.line = cur.line,
                             !.quote = q, !.fmt = f]
<1>1. /\ scan.kind = "none" /\ outcome = "running" /\ cur.pos + 1 <= End
      /\ ScannerHere # "none"
      /\ cur' = c /\ scan' = s /\ source' = source /\ tokens' = tokens /\ outcome' = outcome
  BY DEF Begin, Running, Move
<1>2. Sound(c) /\ c.pos >= cur.pos /\ c.pos \in Nat
  BY <1>1, Facts
<1>3. At(c.pos) \in Chars \cup {Nul}
  BY <1>2, Facts DEF At, End
<1>4. ScannerHere \in Scanners \cup {"none"}
  BY DEF ScannerHere, Scanners
<1>5. q \in Chars \cup {Nul} /\ f \in BOOLEAN
  BY <1>3
<1>6. /\ ScannerHere = "line_comment" => Next1 = "/"
      /\ ScannerHere = "number" => Next1 = "1"
      /\ ScannerHere = "block_comment" => Next1 = "/" /\ Next2 = "*"
      /\ ScannerHere = "directive" => Next1 = "#" /\ Next2 = "["
      /\ ScannerHere \in {"name", "number", "operator"} => c = cur /\ Next1 # "\n"
  BY DEF ScannerHere, Quotes, Prefixes, Letters, Operators
<1> HIDE DEF c, q, f
<1>7. /\ s \in Scan /\ s.kind = ScannerHere /\ s.from = cur.pos /\ s.line = cur.line
      /\ s.over = FALSE
  BY <1>4, <1>5, Facts DEF Idle, Scan
<1> HIDE DEF s
<1>8. TypeOK'
  BY <1>1, <1>2, <1>7 DEF Inv, TypeOK, Sound
<1>9. Sound(cur)'
  BY <1>1, <1>2 DEF Sound, LineOf, End, Cursor
<1>10. /\ End' = End /\ LineOf(scan.from)' = LineOf(cur.pos)
       /\ At(scan.from)' = Next1 /\ At(scan.from + 1)' = At(cur.pos + 1)
       /\ At(cur.pos)' = At(c.pos)
  BY <1>1, <1>7 DEF LineOf, At, End, Next1
<1>11. ScanSound'
  <2>1. cur.line = LineOf(cur.pos)
    BY Facts DEF Sound
  <2>2. ScannerHere \in {"block_comment", "directive"} =>
            cur.pos + 1 < End /\ At(cur.pos + 1) = Next2 /\ c.pos = cur.pos
    BY <1>6, Facts DEF c, Nul
  <2> QED
    BY <1>1, <1>2, <1>6, <1>7, <1>10, <2>1, <2>2, Facts DEF ScanSound
<1>12. OneLine'
  BY <1>1, <1>6, <1>7, <1>10, Facts DEF OneLine, At, End, Next1
<1>13. Reached = cur.pos /\ Reached' = cur.pos
  BY <1>1, <1>7 DEF Reached
<1>14. Tile'
  BY <1>1, <1>13 DEF Inv, Tile, Covered, At, End
<1>15. LinesAreRight'
  BY <1>1, <1>9 DEF Inv, LinesAreRight, Sound, LineOf
<1> QED
  BY <1>8, <1>9, <1>11, <1>12, <1>14, <1>15 DEF Inv

(* Punctuation of one, two or three characters, of which it saw all.        *)
LEMMA PunctuationStep ==
    ASSUME Inv, ParsePunctuation
    PROVE  Inv'
<1>1. /\ scan.kind = "none" /\ cur.pos + 1 <= End
      /\ cur' = PunctuationEnd /\ source' = source
      /\ Push("punctuation", cur.pos, PunctuationEnd.pos, cur.line)
  BY DEF ParsePunctuation, Running
<1>2. Reached = cur.pos
  BY <1>1 DEF Reached
<1>3. Sound(BareAdvance(cur)) /\ BareAdvance(cur).pos = cur.pos + 1
  BY <1>1, Facts
<1>4. Next2 # Nul => Sound(Advance2(cur)) /\ Advance2(cur).pos = cur.pos + 2 /\ cur.pos + 2 <= End
  BY <1>1, AdvanceTwo, Facts
<1>5. Next2 # Nul =>
          /\ Sound(BareAdvance(Advance2(cur)))
          /\ BareAdvance(Advance2(cur)).pos = cur.pos + 3
  BY <1>4, AdvanceSound, Facts
<1>6. Sound(PunctuationEnd) /\ PunctuationEnd.pos > cur.pos
  BY <1>3, <1>4, <1>5, Facts DEF PunctuationEnd, Nul
<1>7. PunctuationEnd.pos \in Nat /\ cur.line = LineOf(Reached) /\ cur.line \in Nat
  BY <1>2, <1>6, Facts DEF Sound, Cursor
<1>8. "punctuation" \in Kinds \ {"eof"} /\ "punctuation" \notin CommentKinds
  BY DEF Kinds, CommentKinds
<1> QED
  BY <1>1, <1>2, <1>6, <1>7, <1>8, PushKeeps

(* The <eof> covers nothing, and stands where the cursor stopped.           *)
LEMMA FinishStep ==
    ASSUME Inv, Finish
    PROVE  Inv'
<1> DEFINE t == [kind |-> "eof", from |-> cur.pos, to |-> cur.pos, line |-> cur.line]
<1>1. /\ scan.kind = "none" /\ outcome' = "done"
      /\ source' = source /\ cur' = cur /\ scan' = scan
      /\ tokens' = Append(tokens, t) /\ tokens \in Seq(Token)
  BY DEF Finish, Running, Inv, TypeOK
<1>2. t \in Token
  BY Facts DEF Token, Kinds
<1>3. /\ tokens' \in Seq(Token) /\ Len(tokens') = Len(tokens) + 1 /\ Len(tokens) \in Nat
      /\ \A n \in 1 .. Len(tokens) : tokens'[n] = tokens[n]
      /\ tokens'[Len(tokens) + 1] = t
      /\ DOMAIN tokens = 1 .. Len(tokens) /\ DOMAIN tokens' = 1 .. Len(tokens) + 1
  BY <1>1, <1>2
<1>4. TypeOK'
  BY <1>1, <1>3 DEF Inv, TypeOK
<1>5. Sound(cur)'
  BY <1>1, Facts DEF Sound, LineOf, End, Cursor
<1>6. ScanSound' /\ OneLine'
  BY <1>1 DEF ScanSound, OneLine
<1>7. Reached = cur.pos /\ Reached' = cur.pos
  BY <1>1 DEF Reached
<1>8. Tile'
  <2>1. ASSUME NEW n \in DOMAIN tokens'
        PROVE  /\ tokens'[n].kind # "eof" => tokens'[n].from < tokens'[n].to
               /\ tokens'[n].to <= Reached'
               /\ \A m \in 1 .. n - 1 : tokens'[m].to <= tokens'[n].from
    <3>1. CASE n \in 1 .. Len(tokens)
      BY <3>1, <1>3, <1>7 DEF Inv, Tile
    <3>2. CASE n = Len(tokens) + 1
      <4>1. \A m \in 1 .. Len(tokens) : tokens'[m].to <= cur.pos
        BY <1>3, <1>7 DEF Inv, Tile
      <4> QED
        BY <3>2, <4>1, <1>3, <1>7, Facts
    <3> QED
      BY <3>1, <3>2, <1>3
  <2>2. \A p \in Nat : Covered(p) => Covered(p)'
    BY <1>3 DEF Covered
  <2> QED
    BY <1>1, <1>7, <2>1, <2>2, Facts DEF Inv, Tile, At, End
<1>9. LinesAreRight'
  <2>1. ASSUME NEW n \in DOMAIN tokens'
        PROVE  tokens'[n].line =
                  LineOf(IF tokens'[n].kind \in CommentKinds
                         THEN tokens'[n].to ELSE tokens'[n].from)
    <3>1. CASE n \in 1 .. Len(tokens)
      BY <3>1, <1>3 DEF Inv, LinesAreRight, CommentKinds
    <3>2. CASE n = Len(tokens) + 1
      BY <3>2, <1>3, Facts DEF CommentKinds, Sound
    <3> QED
      BY <3>1, <3>2, <1>3
  <2> QED
    BY <2>1, <1>1, <1>5 DEF LinesAreRight, Sound, LineOf, CommentKinds
<1> QED
  BY <1>4, <1>5, <1>6, <1>8, <1>9 DEF Inv

-----------------------------------------------------------------------------

(* The invariant holds before the first character is read.                  *)
LEMMA InitInv == Init => Inv
<1> SUFFICES ASSUME Init PROVE Inv
  OBVIOUS
<1>1. source \in Seq(Chars) /\ End \in Nat
  BY SourcesAssumption DEF Init, End
<1>2. LineOf(0) = 1
  <2>1. Newlines(source, 0) = {}
    BY <1>1 DEF Newlines
  <2> QED
    BY <2>1, FS_EmptySet DEF LineOf
<1>3. Idle \in Scan /\ Idle.kind = "none"
  BY DEF Idle, Scan
<1>4. TypeOK /\ Sound(cur)
  BY <1>1, <1>2, <1>3 DEF Init, TypeOK, Sound, Cursor
<1>5. ScanSound /\ OneLine
  BY <1>3 DEF Init, ScanSound, OneLine
<1>6. Tile /\ LinesAreRight
  BY <1>1, <1>2, <1>3 DEF Init, Tile, LinesAreRight, Reached
<1> QED
  BY <1>4, <1>5, <1>6 DEF Inv

(* Every step of the lexer preserves the invariant.                         *)
LEMMA NextInv == Inv /\ [Next]_vars => Inv'
<1> SUFFICES ASSUME Inv, [Next]_vars PROVE Inv'
  OBVIOUS
<1>1. CASE SkipWhite  BY <1>1, SkipWhiteStep
<1>2. CASE Begin  BY <1>2, BeginStep
<1>3. CASE ParsePunctuation  BY <1>3, PunctuationStep
<1>4. CASE Unknown  BY <1>4, PanicStep DEF Unknown
<1>5. CASE Finish  BY <1>5, FinishStep
<1>6. CASE LineComment \/ EndLineComment  BY <1>6, LineCommentStep
<1>7. CASE BlockComment \/ EndBlockComment  BY <1>7, BlockCommentStep
<1>8. CASE Directive \/ EndDirective  BY <1>8, DirectiveStep
<1>9. CASE Name \/ EndName  BY <1>9, NameStep
<1>10. CASE Number \/ EndNumber  BY <1>10, NumberStep
<1>11. CASE String \/ EndString  BY <1>11, StringStep
<1>12. CASE Operator \/ EndOperator  BY <1>12, OperatorStep
<1>13. CASE BackOff  BY <1>13, BackOffStep
<1>14. CASE UNCHANGED vars
  BY <1>14 DEF vars, Inv, TypeOK, Sound, Cursor, ScanSound, OneLine, Tile, Covered, Reached,
               LinesAreRight, LineOf, At, End
<1> QED
  BY <1>1, <1>2, <1>3, <1>4, <1>5, <1>6, <1>7, <1>8, <1>9, <1>10, <1>11, <1>12, <1>13, <1>14
     DEF Next, Done

(* The invariant, for every text, whatever the operators are.                *)
THEOREM Invariance == Spec => []Inv
BY InitInv, NextInv, PTL DEF Spec

(* Cursor, scanner and tokens stay in their types, for every text.          *)
THEOREM TypeCorrect == Spec => []TypeOK
<1>1. Inv => TypeOK
  BY DEF Inv
<1> QED
  BY <1>1, Invariance, PTL

(* The lexer never reads past the nul that ends the text.                    *)
THEOREM StaysInBounds == Spec => []InBounds
<1>1. Inv => InBounds
  BY DEF Inv, Sound, InBounds
<1> QED
  BY <1>1, Invariance, PTL

(* No character but white space is lost, and none is in two tokens.          *)
THEOREM NothingIsLost == Spec => []Tile
<1>1. Inv => Tile
  BY DEF Inv
<1> QED
  BY <1>1, Invariance, PTL

(* Lines are counted right, in spite of the characters given back.           *)
THEOREM LinesAreCounted == Spec => []LinesAreRight
<1>1. Inv => LinesAreRight
  BY DEF Inv
<1> QED
  BY <1>1, Invariance, PTL

-----------------------------------------------------------------------------
(* Delimiters.  A string that is over has its quote behind the cursor, and a  *)
(* block comment its closing; a comment moved past all of its opening before *)
(* it could see one.                                                        *)
Opening(from) == IF At(from) \in Quotes THEN from ELSE from + 1

Delimited(kind, from, to) ==
    /\ kind = "string" => Opening(from) + 1 < to /\ At(to - 1) = At(Opening(from))
    /\ kind = "block_comment" => from + 4 < to /\ At(to - 2) = "*" /\ At(to - 1) = "/"

TokensDelimited ==
    \A n \in DOMAIN tokens : Delimited(tokens[n].kind, tokens[n].from, tokens[n].to)

ScanDelimited ==
    scan.kind # "none" /\ outcome = "running" =>
        /\ scan.over => Delimited(scan.kind, scan.from, cur.pos)
        /\ scan.kind = "string" =>
              Opening(scan.from) <= cur.pos /\ scan.quote = At(Opening(scan.from))
        /\ scan.kind = "block_comment" =>
              scan.over \/ cur.pos = scan.from \/ scan.from + 3 <= cur.pos

DelimInv == TokensDelimited /\ ScanDelimited

(* The characters stay where they are.                                       *)
LEMMA SameText ==
    ASSUME source' = source
    PROVE  /\ \A p : At(p)' = At(p)
           /\ \A p : Opening(p)' = Opening(p)
           /\ \A k, p, q : Delimited(k, p, q)' <=> Delimited(k, p, q)
<1>1. \A p : At(p)' = At(p)
  BY DEF At, End
<1>2. \A p : Opening(p)' = Opening(p)
  BY <1>1 DEF Opening
<1>3. QED BY <1>1, <1>2 DEF Delimited

(* A step that adds no token leaves them delimited.                            *)
LEMMA TokensStay ==
    ASSUME TokensDelimited, source' = source, tokens' = tokens
    PROVE  TokensDelimited'
BY SameText DEF TokensDelimited

(* A token that is delimited leaves the tokens so.                             *)
LEMMA TokenAdded ==
    ASSUME Inv, TokensDelimited, source' = source, NEW t,
           tokens' = Append(tokens, t), Delimited(t.kind, t.from, t.to)
    PROVE  TokensDelimited'
<1>1. tokens \in Seq(Token) /\ Len(tokens) \in Nat
  BY DEF Inv, TypeOK
<1>2. /\ DOMAIN tokens' = 1 .. Len(tokens) + 1 /\ tokens'[Len(tokens) + 1] = t
      /\ \A n \in 1 .. Len(tokens) : n \in DOMAIN tokens /\ tokens'[n] = tokens[n]
  BY <1>1
<1>3. ASSUME NEW n \in DOMAIN tokens'
      PROVE  Delimited(tokens'[n].kind, tokens'[n].from, tokens'[n].to)
  <2>1. CASE n = Len(tokens) + 1
    BY <2>1, <1>2
  <2>2. CASE n # Len(tokens) + 1
    <3>1. n \in 1 .. Len(tokens)
      BY <2>2, <1>1, <1>2
    <3>2. QED BY <3>1, <1>2 DEF TokensDelimited
  <2>3. QED BY <2>1, <2>2
<1>4. QED BY <1>3, SameText DEF TokensDelimited

(* A token of any other kind has no delimiters to match.                     *)
LEMMA PlainToken ==
    ASSUME Inv, DelimInv, source' = source,
           NEW k \in Kinds \ {"string", "block_comment"}, NEW from, NEW to, NEW line,
           Push(k, from, to, line)
    PROVE  DelimInv'
<1> DEFINE t == [kind |-> k, from |-> from, to |-> to, line |-> line]
<1>1. tokens' = Append(tokens, t) /\ scan' = Idle
  BY DEF Push
<1>2. Delimited(t.kind, t.from, t.to)
  BY DEF Delimited
<1> HIDE DEF t
<1>3. TokensDelimited'
  BY <1>1, <1>2, TokenAdded DEF DelimInv
<1>4. ScanDelimited'
  BY <1>1 DEF ScanDelimited, Idle
<1>5. QED BY <1>3, <1>4 DEF DelimInv

(* So has a scanner of any other kind.                                       *)
LEMMA PlainMove ==
    ASSUME DelimInv, source' = source, tokens' = tokens,
           \/ scan'.kind \notin {"string", "block_comment"}
           \/ outcome' # "running"
    PROVE  DelimInv'
<1>1. TokensDelimited'
  BY TokensStay DEF DelimInv
<1>2. ScanDelimited'
  BY DEF ScanDelimited, Delimited
<1>3. QED BY <1>1, <1>2 DEF DelimInv

(* Scanning a string: it is over at its quote or at the end of the text.       *)
LEMMA DelimString ==
    ASSUME Inv, DelimInv, String \/ EndString
    PROVE  DelimInv'
<1>1. CASE String
  <2> DEFINE b == Braces(Next1)
             two == b = 0 /\ Next2 \in Quotes \cup {"\\"}
             c == IF two THEN Advance2(cur) ELSE BareAdvance(cur)
             over == b = 0 /\ Next2 \in Quotes /\ Next2 = scan.quote
             o == Opening(scan.from)
  <2>1. /\ outcome = "running" /\ scan.kind = "string" /\ ~scan.over /\ cur.pos <= End
        /\ cur' = c /\ scan' = [scan EXCEPT !.braces = b, !.over = over]
        /\ source' = source /\ tokens' = tokens
    BY <1>1, Facts DEF String, Looping, Running, IsEof, Move
  <2>2. o <= cur.pos /\ scan.quote = At(o)
    BY <2>1 DEF DelimInv, ScanDelimited
  <2>3. o \in Nat
    BY Facts DEF Opening
  <2>4. over => two /\ Next2 # Nul /\ At(cur.pos + 1) = At(o)
    BY <2>2, Facts DEF Quotes, Nul
  <2>5. c.pos \in Nat /\ c.pos > cur.pos /\ (over => c.pos = cur.pos + 2)
    <3>1. two => Next2 # Nul
      BY DEF Quotes, Nul
    <3>2. CASE two
      BY <3>1, <3>2, <2>1, AdvanceTwo, Facts
    <3>3. CASE ~two
      BY <3>3, <2>1, <2>4, Facts
    <3>4. QED BY <3>2, <3>3
  <2>6. scan'.kind = "string" /\ scan'.from = scan.from /\ scan'.quote = scan.quote
        /\ scan'.over = over
    BY <2>1, Facts DEF Scan
  <2> HIDE DEF c, o, over
  <2>7. over => Delimited("string", scan.from, c.pos)
    <3>1. SUFFICES ASSUME over  PROVE o + 1 < c.pos /\ At(c.pos - 1) = At(o)
      BY DEF Delimited, o
    <3>2. c.pos = cur.pos + 2 /\ c.pos - 1 = cur.pos + 1 /\ o + 1 < c.pos
      BY <3>1, <2>2, <2>3, <2>5, Facts
    <3>3. QED BY <3>1, <3>2, <2>4
  <2>8. o <= c.pos
    BY <2>2, <2>3, <2>5, Facts
  <2>9. ScanDelimited'
    <3>1. /\ Opening(scan.from)' = o /\ At(Opening(scan.from))' = At(o)
          /\ Delimited(scan.kind, scan.from, cur.pos)' <=> Delimited("string", scan.from, c.pos)
      BY <2>1, <2>6, SameText DEF o
    <3>2. QED BY <2>1, <2>2, <2>6, <2>7, <2>8, <3>1 DEF ScanDelimited
  <2>10. QED BY <2>1, <2>9, TokensStay DEF DelimInv
<1>2. CASE EndString
  <2>1. scan.kind = "string" /\ outcome = "running" /\ source' = source
        /\ (Panic \/ (~IsEof(cur) /\ Emit("string", scan.line)))
        /\ (scan.over \/ IsEof(cur))
    BY <1>2 DEF EndString, Ending, Running, Panic, Emit
  <2>2. CASE Panic
    BY <2>1, <2>2, PlainMove DEF Panic
  <2>3. CASE ~IsEof(cur) /\ Emit("string", scan.line)
    <3> DEFINE t == [kind |-> "string", from |-> scan.from, to |-> cur.pos, line |-> scan.line]
    <3>1. Delimited(t.kind, t.from, t.to)
      BY <2>1, <2>3 DEF DelimInv, ScanDelimited
    <3>2. tokens' = Append(tokens, t) /\ scan' = Idle
      BY <2>3 DEF Emit, Push
    <3> HIDE DEF t
    <3>3. TokensDelimited'
      BY <2>1, <3>1, <3>2, TokenAdded DEF DelimInv
    <3>4. ScanDelimited'
      BY <3>2 DEF ScanDelimited, Idle
    <3>5. QED BY <3>3, <3>4 DEF DelimInv
  <2>4. QED BY <2>1, <2>2, <2>3
<1>3. QED BY <1>1, <1>2

(* Scanning a block comment: the same.                                         *)
LEMMA DelimComment ==
    ASSUME Inv, DelimInv, BlockComment \/ EndBlockComment
    PROVE  DelimInv'
<1>1. CASE BlockComment
  <2> DEFINE opens  == Next1 = "/" /\ Next2 = "*"
             closes == Next1 = "*" /\ Next2 = "/"
             depth  == IF opens THEN scan.depth + 1
                       ELSE IF closes THEN scan.depth - 1 ELSE scan.depth
             c == IF depth = 0 THEN Advance2(cur)
                  ELSE IF opens \/ closes THEN BareAdvance(Advance2(cur)) ELSE BareAdvance(cur)
             s == IF depth = 0 THEN [scan EXCEPT !.depth = 0, !.over = TRUE]
                  ELSE [scan EXCEPT !.depth = depth]
  <2>1. /\ outcome = "running" /\ scan.kind = "block_comment" /\ ~scan.over /\ cur.pos <= End
        /\ cur' = c /\ scan' = s /\ source' = source /\ tokens' = tokens
    BY <1>1, Facts DEF BlockComment, Looping, Running, IsEof, Move
  <2>2. /\ scan.from + 1 < End /\ At(scan.from) = "/" /\ At(scan.from + 1) = "*"
        /\ scan.depth > 0 \/ cur.pos = scan.from
    BY <2>1 DEF Inv, ScanSound
  <2>3. cur.pos = scan.from \/ scan.from + 3 <= cur.pos
    BY <2>1 DEF DelimInv, ScanDelimited
  <2>4. cur.pos = scan.from => opens
    BY <2>2, Facts DEF Next1, Next2, Peek
  <2>5. (depth = 0 => closes) /\ (depth = 0 => scan.from + 3 <= cur.pos)
    BY <2>2, <2>3, <2>4, Facts
  <2>6. opens \/ closes => Next2 # Nul
    BY DEF Nul
  <2>7. /\ c.pos \in Nat /\ c.pos > cur.pos
        /\ depth = 0 => c.pos = cur.pos + 2
        /\ opens => c.pos = cur.pos + 3
    <3>1. CASE opens \/ closes
      <4>1. Sound(Advance2(cur)) /\ Advance2(cur).pos = cur.pos + 2 /\ cur.pos + 2 <= End
        BY <2>1, <2>6, <3>1, AdvanceTwo
      <4>2. Sound(BareAdvance(Advance2(cur))) /\ BareAdvance(Advance2(cur)).pos = cur.pos + 3
        BY <4>1, AdvanceSound, Facts
      <4>3. opens => depth # 0
        BY Facts
      <4>4. QED BY <3>1, <4>1, <4>2, <4>3, Facts
    <3>2. CASE ~(opens \/ closes)
      BY <3>2, <2>1, <2>5, Facts
    <3>3. QED BY <3>1, <3>2
  <2>8. scan'.kind = "block_comment" /\ scan'.from = scan.from /\ scan'.over = (depth = 0)
    BY <2>1, Facts DEF Scan
  <2> HIDE DEF c, s, depth
  <2>9. depth = 0 => Delimited("block_comment", scan.from, c.pos)
    <3>1. SUFFICES ASSUME depth = 0
                   PROVE  scan.from + 4 < c.pos /\ At(c.pos - 2) = "*" /\ At(c.pos - 1) = "/"
      BY DEF Delimited
    <3>2. c.pos = cur.pos + 2 /\ c.pos - 2 = cur.pos /\ c.pos - 1 = cur.pos + 1
          /\ scan.from + 4 < c.pos
      BY <3>1, <2>5, <2>7, Facts
    <3>3. closes
      BY <3>1, <2>5
    <3>4. Next2 # Nul /\ At(cur.pos + 1) = Next2 /\ At(cur.pos) = Next1
      BY <3>3, <2>6, Facts DEF Next1
    <3>5. QED BY <3>2, <3>3, <3>4
  <2>10. scan.from + 3 <= c.pos
    BY <2>3, <2>4, <2>7, Facts
  <2>11. ScanDelimited'
    <3>1. Delimited(scan.kind, scan.from, cur.pos)' <=> Delimited("block_comment", scan.from, c.pos)
      BY <2>1, <2>8, SameText
    <3>2. QED BY <2>1, <2>8, <2>9, <2>10, <3>1 DEF ScanDelimited
  <2>12. QED BY <2>1, <2>11, TokensStay DEF DelimInv
<1>2. CASE EndBlockComment
  <2>1. scan.kind = "block_comment" /\ outcome = "running" /\ source' = source
        /\ (Panic \/ (scan.depth = 0 /\ Emit("block_comment", cur.line)))
        /\ (scan.over \/ cur.pos > End)
    BY <1>2 DEF EndBlockComment, Ending, Running, Panic, Emit, IsEof
  <2>2. CASE Panic
    BY <2>1, <2>2, PlainMove DEF Panic
  <2>3. CASE scan.depth = 0 /\ Emit("block_comment", cur.line)
    <3> DEFINE t == [kind |-> "block_comment", from |-> scan.from, to |-> cur.pos,
                     line |-> cur.line]
    <3>1. scan.over
      BY <2>1, <2>3, Facts DEF Inv, ScanSound
    <3>2. Delimited(t.kind, t.from, t.to)
      BY <2>1, <3>1 DEF DelimInv, ScanDelimited
    <3>3. tokens' = Append(tokens, t) /\ scan' = Idle
      BY <2>3 DEF Emit, Push
    <3> HIDE DEF t
    <3>4. TokensDelimited'
      BY <2>1, <3>2, <3>3, TokenAdded DEF DelimInv
    <3>5. ScanDelimited'
      BY <3>3 DEF ScanDelimited, Idle
    <3>6. QED BY <3>4, <3>5 DEF DelimInv
  <2>4. QED BY <2>1, <2>2, <2>3
<1>3. QED BY <1>1, <1>2

(* Every scanner begins in front of what it delimits.                          *)
LEMMA DelimBegin ==
    ASSUME Inv, DelimInv, Begin
    PROVE  DelimInv'
<1> DEFINE prefixed == ScannerHere = "string" /\ Next1 \in Prefixes
           c == IF prefixed THEN BareAdvance(cur) ELSE cur
<1>1. /\ cur.pos + 1 <= End /\ cur' = c /\ source' = source /\ tokens' = tokens
      /\ scan'.kind = ScannerHere /\ scan'.from = cur.pos /\ ~scan'.over
      /\ ScannerHere = "string" => scan'.quote = At(c.pos)
  BY DEF Begin, Move, Idle
<1>2. c.pos = (IF prefixed THEN cur.pos + 1 ELSE cur.pos)
  BY <1>1, Facts
<1>3. ScannerHere = "string" => c.pos = Opening(cur.pos)
  <2>1. SUFFICES ASSUME ScannerHere = "string"  PROVE c.pos = Opening(cur.pos)
    OBVIOUS
  <2>2. Next1 \in Quotes \/ (Next1 \in Prefixes /\ Next2 \in Quotes)
    BY <2>1 DEF ScannerHere
  <2>3. Quotes \cap Prefixes = {}
    BY DEF Quotes, Prefixes
  <2>4. QED BY <2>1, <2>2, <2>3, <1>2 DEF Opening, Next1
<1>4. ScannerHere = "block_comment" => c.pos = cur.pos
  BY <1>2
<1> HIDE DEF c
<1>5. ScanDelimited'
  <2>1. Opening(scan.from)' = Opening(cur.pos) /\ At(Opening(scan.from))' = At(Opening(cur.pos))
    BY <1>1, SameText
  <2>2. c.pos \in Nat
    BY <1>2, Facts
  <2>3. QED BY <1>1, <1>3, <1>4, <2>1, <2>2 DEF ScanDelimited
<1>6. QED BY <1>1, <1>5, TokensStay DEF DelimInv

(* Every step keeps what is said of delimiters.                                *)
LEMMA NextDelim == Inv /\ DelimInv /\ [Next]_vars => DelimInv'
<1> SUFFICES ASSUME Inv, DelimInv, [Next]_vars  PROVE DelimInv'
  OBVIOUS
<1>1. CASE SkipWhite \/ Unknown
  BY <1>1, PlainMove DEF SkipWhite, Unknown, Move, Idle, Panic
<1>2. CASE Begin
  BY <1>2, DelimBegin
<1>3. CASE ParsePunctuation
  <2>1. source' = source /\ Push("punctuation", cur.pos, PunctuationEnd.pos, cur.line)
    BY <1>3 DEF ParsePunctuation
  <2>2. QED BY <2>1, PlainToken DEF Kinds
<1>4. CASE Finish
  <2> DEFINE t == [kind |-> "eof", from |-> cur.pos, to |-> cur.pos, line |-> cur.line]
  <2>1. tokens' = Append(tokens, t) /\ source' = source /\ outcome' = "done"
    BY <1>4 DEF Finish
  <2>2. Delimited(t.kind, t.from, t.to)
    BY DEF Delimited
  <2> HIDE DEF t
  <2>3. QED BY <2>1, <2>2, TokenAdded DEF DelimInv, ScanDelimited
<1>5. CASE LineComment \/ Directive \/ Name \/ Number \/ Operator
  <2>1. /\ scan.kind \in {"line_comment", "directive", "name", "number", "operator"}
        /\ scan'.kind = scan.kind /\ source' = source /\ tokens' = tokens
    BY <1>5, Facts DEF LineComment, Directive, Name, Number, Operator, Looping, Running, Move, Scan
  <2>2. QED BY <2>1, PlainMove
<1>6. CASE EndLineComment \/ EndDirective \/ EndName \/ EndNumber \/ EndOperator
  <2>1. \/ Panic
        \/ \E k \in Kinds \ {"string", "block_comment"} : Emit(k, cur.line)
    BY <1>6 DEF EndLineComment, EndDirective, EndName, EndNumber, EndOperator, Kinds
  <2>2. CASE Panic
    BY <2>2, PlainMove DEF Panic
  <2>3. QED BY <2>1, <2>2, PlainToken DEF Emit
<1>7. CASE BlockComment \/ EndBlockComment
  BY <1>7, DelimComment
<1>8. CASE String \/ EndString
  BY <1>8, DelimString
<1>9. CASE BackOff
  <2>1. /\ scan.kind = "operator" /\ scan'.kind = scan.kind
        /\ source' = source /\ tokens' = tokens
    BY <1>9, Facts DEF BackOff, Ending, Running, Move, Scan
  <2>2. QED BY <2>1, PlainMove
<1>10. CASE UNCHANGED vars
  BY <1>10, SameText DEF vars, DelimInv, TokensDelimited, ScanDelimited
<1> QED
  BY <1>1, <1>2, <1>3, <1>4, <1>5, <1>6, <1>7, <1>8, <1>9, <1>10 DEF Next, Done

(* At the beginning there is no token.                                         *)
LEMMA InitDelim == Init => DelimInv
BY DEF Init, DelimInv, TokensDelimited, ScanDelimited, Idle

(* A string ends with its own quote and a block comment with a closing that   *)
(* is not part of its opening, for every text.                               *)
THEOREM DelimitersAreClosed == Spec => []DelimitersMatch
<1>1. Init => Inv /\ DelimInv
  BY InitInv, InitDelim
<1>2. Inv /\ DelimInv /\ [Next]_vars => (Inv /\ DelimInv)'
  BY NextInv, NextDelim
<1>3. DelimInv => DelimitersMatch
  BY DEF DelimInv, TokensDelimited, Delimited, Opening, DelimitersMatch
<1>4. QED BY <1>1, <1>2, <1>3, PTL DEF Spec
=============================================================================
