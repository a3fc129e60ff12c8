--------------------------- MODULE ConsoleProofs ---------------------------
(***************************************************************************)
(* Theorems about the console for every size of the screen: the cursor     *)
(* never leaves it, and it always shows the last rows of the roll.         *)
(***************************************************************************)
EXTENDS Console, TLAPS

Line == [Col -> Cells]
BlankLine(color) == [c \in Col |-> Cell(Space, color)]

\* The inductive invariant: the roll has at least the rows of the screen, and
\* the screen is its end.
IInv ==
  /\ TypeOK
  /\ CursorOnScreen
  /\ Len(paper.rows) >= VIDEO_MAX_ROW
  /\ ShowsLastRows

----------------------------------------------------------------------------
(* One character                                                           *)

\* The only multiple of four among the next four columns is the one that the
\* code computes by clearing two bits.
LEMMA TabAgrees ==
  ASSUME NEW y \in Nat
  PROVE  /\ TabStop(y) \in Nat
         /\ TabStop(y) = CHOOSE c \in y + 1 .. y + 4 : c % 4 = 0
<1>1. /\ TabStop(y) \in y + 1 .. y + 4
      /\ TabStop(y) % 4 = 0
  BY Z3 DEF TabStop
<1>2. \A c \in y + 1 .. y + 4 : c % 4 = 0 => c = TabStop(y)
  BY Z3 DEF TabStop
<1>3. QED
  BY <1>1, <1>2

\* A character moves down by one row at most.
LEMMA ColumnFacts ==
  ASSUME NEW ch, NEW y \in Col
  PROVE  /\ Column(ch, y) \in Nat
         /\ Lines(ch, y) \in {0, 1}
         /\ ch = "LF" => ~Wraps(Column(ch, y))
<1>1. y \in Nat /\ VIDEO_MAX_COLUMN \in Nat \ {0}
  BY ConsoleAssumption DEF Col
<1>2. Column(ch, y) \in Nat
  BY <1>1, TabAgrees DEF Column
<1>3. ch = "LF" => Column(ch, y) = 0
  BY DEF Column
<1>4. ch = "LF" => ~Wraps(Column(ch, y))
  BY <1>1, <1>3 DEF Wraps
<1>5. QED
  BY <1>2, <1>4 DEF Lines

\* What a character does to the roll, in the words of the code.
Drawn(p, ch, color) ==
  IF ch \in Controls THEN p.rows
  ELSE [p.rows EXCEPT ![p.row] = [p.rows[p.row] EXCEPT ![p.col] = Cell(ch, color)]]

LEMMA TypedIsAdvance ==
  ASSUME NEW p \in [rows : Seq(Line), row : Nat \ {0}, col : Nat],
         NEW ch, NEW color
  PROVE  Typed(p, Cell(ch, color)) =
           Advance([p EXCEPT !.rows = Drawn(p, ch, color)],
                   IF ch = "LF" THEN 1 ELSE 0, Column(ch, p.col), color)
<1> DEFINE cell == Cell(ch, color)
<1>1. cell.ch = ch /\ cell.color = color
  BY DEF Cell
<1>2. p = [p EXCEPT !.rows = p.rows]
  OBVIOUS
<1>3. CASE ch \in Controls
  BY <1>1, <1>2, <1>3, TabAgrees DEF Typed, Drawn, Controls, Column
<1>4. CASE ch \notin Controls
  BY <1>1, <1>4 DEF Typed, Drawn, Controls, Column, ReplaceAt
<1>5. QED
  BY <1>3, <1>4

\* The roll after an advance by at most one row: it grows by a blank line when
\* its last row was left.
LEMMA AdvanceFacts ==
  ASSUME NEW p \in [rows : Seq(Line), row : Nat \ {0}, col : Nat],
         NEW lf \in {0, 1}, NEW col \in Nat, NEW color \in Colors,
         lf = 1 => ~Wraps(col),
         p.row <= Len(p.rows),
         NEW down, down = lf + IF Wraps(col) THEN 1 ELSE 0,
         NEW to, to = Advance(p, lf, col, color)
  PROVE  /\ to \in [rows : Seq(Line), row : Nat \ {0}, col : Nat]
         /\ to.row = p.row + down
         /\ to.col = IF Wraps(col) THEN 0 ELSE col
         /\ to.rows = IF p.row + down > Len(p.rows)
                      THEN Append(p.rows, BlankLine(color)) ELSE p.rows
<1> DEFINE full == col >= VIDEO_MAX_COLUMN
           row == p.row + lf + IF full THEN 1 ELSE 0
           new == IF row <= Len(p.rows) THEN <<>>
                  ELSE [i \in 1 .. row - Len(p.rows) |-> BlankLine(color)]
           q == [rows |-> p.rows \o new, row |-> row,
                 col |-> IF full THEN 0 ELSE col]
<1>1. to = q
  BY DEF Advance, BlankLine
<1>2. /\ full = Wraps(col)
      /\ row \in Nat \ {0}
      /\ row <= p.row + 1
      /\ p.rows \in Seq(Line) /\ Len(p.rows) \in Nat
  BY DEF Wraps
<1>3. BlankLine(color) \in Line
  BY DEF BlankLine, Line, Cell, Cells
<1>4. new = IF row > Len(p.rows) THEN <<BlankLine(color)>> ELSE <<>>
  <2>1. CASE row <= Len(p.rows)
    BY <1>2, <2>1
  <2>2. CASE row > Len(p.rows)
    <3>1. row - Len(p.rows) = 1
      BY <1>2, <2>2
    <3>2. new = [i \in 1 .. 1 |-> BlankLine(color)]
      BY <1>2, <2>2, <3>1
    <3>3. [i \in 1 .. 1 |-> BlankLine(color)] = <<BlankLine(color)>>
      OBVIOUS
    <3>4. QED
      BY <2>2, <3>2, <3>3
  <2>3. QED
    BY <1>2, <2>1, <2>2
<1>5. p.rows \o new = IF row > Len(p.rows) THEN Append(p.rows, BlankLine(color))
                      ELSE p.rows
  <2> HIDE DEF row
  <2>1. p.rows \o <<BlankLine(color)>> = Append(p.rows, BlankLine(color))
    BY <1>2, <1>3
  <2>2. p.rows \o <<>> = p.rows
    BY <1>2
  <2>3. QED
    BY <1>4, <2>1, <2>2
<1>6. p.rows \o new \in Seq(Line)
  BY <1>2, <1>3, <1>5
<1>7. row = p.row + down
  <2>1. CASE full
    BY <2>1 DEF Wraps
  <2>2. CASE ~full
    BY <2>2 DEF Wraps
  <2>3. QED
    BY <2>1, <2>2
<1>8. q \in [rows : Seq(Line), row : Nat \ {0}, col : Nat]
  <2> HIDE DEF row, new
  <2>1. QED
    BY <1>2, <1>6
<1>9. /\ q.row = row /\ q.col = IF full THEN 0 ELSE col
      /\ q.rows = p.rows \o new
  OBVIOUS
<1>10. QED
  <2> HIDE DEF row, new, q, full
  <2>1. QED
    BY <1>1, <1>2, <1>5, <1>7, <1>8, <1>9

----------------------------------------------------------------------------
(* Steps                                                                   *)

\* Scrolling by nothing is nothing.
LEMMA ScrolledFacts ==
  ASSUME NEW s \in [Row -> Line]
  PROVE  /\ Scrolled(s, 0) = s
         /\ \A r \in Row : Scrolled(s, 1)[r] =
               IF r + 1 \in Row THEN s[r + 1] ELSE BlankLine(attrib)
<1>1. Row \subseteq Int
  BY DEF Row
<1>2. Scrolled(s, 0) = [r \in Row |-> s[r]]
  BY <1>1 DEF Scrolled
<1>3. QED
  BY <1>2 DEF Scrolled, BlankLine

\* The state, with the roll and the screen side by side.
LEMMA StateFacts ==
  ASSUME IInv
  PROVE  /\ paper \in [rows : Seq(Line), row : Nat \ {0}, col : Nat]
         /\ Len(paper.rows) \in Nat
         /\ Len(paper.rows) - VIDEO_MAX_ROW \in Nat
         /\ X \in Row /\ Y \in Col
         /\ paper.row = X + (Len(paper.rows) - VIDEO_MAX_ROW) + 1
         /\ paper.col = Y
         /\ paper.row \in 1 .. Len(paper.rows)
         /\ screen \in [Row -> Line]
         /\ attrib \in Colors
         /\ VIDEO_MAX_ROW \in Nat \ {0} /\ VIDEO_MAX_COLUMN \in Nat \ {0}
<1>1. /\ paper \in [rows : Seq(Line), row : Nat \ {0}, col : Nat]
      /\ screen \in [Row -> Line] /\ attrib \in Colors
      /\ VIDEO_MAX_ROW \in Nat \ {0} /\ VIDEO_MAX_COLUMN \in Nat \ {0}
  BY ConsoleAssumption DEF IInv, TypeOK, Line
<1>2. paper.rows \in Seq(Line) /\ Len(paper.rows) \in Nat /\ paper.row \in Nat \ {0}
  BY <1>1
<1>3. /\ X \in Row /\ Y \in Col
      /\ X = paper.row - (Len(paper.rows) - VIDEO_MAX_ROW) - 1
      /\ paper.col = Y
      /\ Len(paper.rows) >= VIDEO_MAX_ROW
  BY DEF IInv, CursorOnScreen, ShowsLastRows
<1>4. X \in 0 .. VIDEO_MAX_ROW - 1
  BY <1>3 DEF Row
<1>5. /\ Len(paper.rows) - VIDEO_MAX_ROW \in Nat
      /\ paper.row = X + (Len(paper.rows) - VIDEO_MAX_ROW) + 1
      /\ paper.row \in 1 .. Len(paper.rows)
  BY <1>1, <1>2, <1>3, <1>4
<1>6. QED
  BY <1>1, <1>2, <1>3, <1>5

\* What putch() draws is what it types.
LEMMA DrawnAgrees ==
  ASSUME IInv, NEW ch \in Chars \cup Controls
  PROVE  LET s == IF ch \in Controls THEN screen
                  ELSE [screen EXCEPT ![X][Y] = Cell(ch, attrib)]
             d == Drawn(paper, ch, attrib)
         IN  /\ s \in [Row -> Line]
             /\ d \in Seq(Line) /\ Len(d) = Len(paper.rows)
             /\ \A r \in Row :
                  s[r] = d[Len(paper.rows) - VIDEO_MAX_ROW + r + 1]
<1> DEFINE rows == paper.rows
           off == Len(rows) - VIDEO_MAX_ROW
<1>1. /\ rows \in Seq(Line) /\ Len(rows) \in Nat /\ off \in Nat
      /\ X \in Row /\ Y \in Col
      /\ screen \in [Row -> Line]
      /\ paper.row = X + off + 1 /\ paper.col = Y
      /\ paper.row \in 1 .. Len(rows)
      /\ VIDEO_MAX_ROW \in Nat \ {0}
  BY StateFacts
<1>2. \A r \in Row : r \in Int /\ off + r + 1 \in 1 .. Len(rows)
  BY <1>1 DEF Row
<1>3. \A r \in Row : screen[r] = rows[off + r + 1]
  BY DEF IInv, ShowsLastRows
<1>4. CASE ch \in Controls
  BY <1>1, <1>3, <1>4 DEF Drawn
<1>5. CASE ch \notin Controls
  <2> DEFINE line == [rows[paper.row] EXCEPT ![paper.col] = Cell(ch, attrib)]
             drawn == [screen EXCEPT ![X][Y] = Cell(ch, attrib)]
             d == [rows EXCEPT ![paper.row] = line]
  <2>1. Cell(ch, attrib) \in Cells
    BY <1>5 DEF Cell, Cells, IInv, TypeOK
  <2>2. rows[paper.row] \in Line /\ rows[paper.row] = screen[X]
    <3>1. off + X + 1 = paper.row
      BY <1>1, <1>2
    <3>2. screen[X] = rows[off + X + 1]
      BY <1>1, <1>3
    <3>3. screen[X] \in Line
      BY <1>1
    <3>4. QED
      BY <3>1, <3>2, <3>3
  <2>3. line \in Line
    BY <2>1, <2>2 DEF Line
  <2>4. d \in Seq(Line) /\ Len(d) = Len(rows)
    BY <1>1, <2>3
  <2>5. drawn = [screen EXCEPT ![X] = line]
    BY <1>1, <2>2
  <2>6. drawn \in [Row -> Line]
    BY <1>1, <2>3, <2>5
  <2>7. ASSUME NEW r \in Row
        PROVE  drawn[r] = d[off + r + 1]
    <3>1. CASE r = X
      <4>1. off + r + 1 = paper.row
        BY <1>1, <1>2, <3>1
      <4>2. d[paper.row] = line
        BY <1>1
      <4>3. drawn[r] = line
        BY <1>1, <2>5, <3>1
      <4>4. QED
        BY <4>1, <4>2, <4>3
    <3>2. CASE r # X
      <4>1. off + r + 1 # paper.row /\ off + r + 1 \in 1 .. Len(rows)
        BY <1>1, <1>2, <3>2
      <4>2. d[off + r + 1] = rows[off + r + 1]
        BY <1>1, <4>1
      <4>3. drawn[r] = screen[r]
        BY <1>1, <2>5, <3>2
      <4>4. QED
        BY <1>3, <4>2, <4>3
    <3>3. QED
      BY <3>1, <3>2
  <2>8. QED
    BY <1>5, <2>4, <2>6, <2>7 DEF Drawn
<1>6. QED
  BY <1>4, <1>5

\* A character keeps the screen at the end of the roll.
LEMMA PutchInv ==
  ASSUME IInv, NEW ch \in Chars \cup Controls, Putch(ch)
  PROVE  IInv'
<1> DEFINE rows == paper.rows
           off == Len(rows) - VIDEO_MAX_ROW
           lf == IF ch = "LF" THEN 1 ELSE 0
           col == Column(ch, Y)
           down == Lines(ch, Y)
           s == IF ch \in Controls THEN screen
                ELSE [screen EXCEPT ![X][Y] = Cell(ch, attrib)]
           d == Drawn(paper, ch, attrib)
           p == [paper EXCEPT !.rows = d]
           more == paper.row + down > Len(rows)
           over == IF more THEN 1 ELSE 0
<1>1. /\ paper \in [rows : Seq(Line), row : Nat \ {0}, col : Nat]
      /\ Len(rows) \in Nat /\ off \in Nat
      /\ X \in Row /\ Y \in Col
      /\ paper.row = X + off + 1 /\ paper.col = Y
      /\ paper.row <= Len(rows)
      /\ attrib \in Colors
      /\ VIDEO_MAX_ROW \in Nat \ {0} /\ VIDEO_MAX_COLUMN \in Nat \ {0}
  BY StateFacts
<1>2. /\ s \in [Row -> Line]
      /\ d \in Seq(Line) /\ Len(d) = Len(rows)
      /\ \A r \in Row : s[r] = d[off + r + 1]
  BY DrawnAgrees
<1>3. /\ col \in Nat
      /\ down \in {0, 1}
      /\ ch = "LF" => ~Wraps(col)
  BY <1>1, ColumnFacts
<1>4. down = lf + IF Wraps(col) THEN 1 ELSE 0
  BY DEF Lines
<1>5. /\ p \in [rows : Seq(Line), row : Nat \ {0}, col : Nat]
      /\ p.rows = d /\ p.row = paper.row /\ p.col = paper.col
  <2> HIDE DEF d
  <2>1. QED
    BY <1>1, <1>2
<1>6. HasCell
  BY <1>1 DEF HasCell, Col
<1>7. /\ Draw(ch)
      /\ paper' = Typed(paper, Cell(ch, attrib))
      /\ printed' = printed + 1 /\ printed < MaxText
      /\ attrib' = attrib
  BY <1>6 DEF Putch
<1>8. paper' = Advance(p, lf, col, attrib)
  BY <1>1, <1>7, TypedIsAdvance
<1>9. /\ paper' \in [rows : Seq(Line), row : Nat \ {0}, col : Nat]
      /\ paper'.row = paper.row + down
      /\ paper'.col = IF Wraps(col) THEN 0 ELSE col
      /\ paper'.rows = IF more THEN Append(d, BlankLine(attrib)) ELSE d
  <2> HIDE DEF p, d, col, lf, down
  <2>1. lf \in {0, 1} /\ (lf = 1 => ~Wraps(col))
    BY <1>3 DEF lf
  <2>2. p.row <= Len(p.rows)
    BY <1>1, <1>2, <1>5
  <2>3. /\ p \in [rows : Seq(Line), row : Nat \ {0}, col : Nat]
        /\ col \in Nat /\ attrib \in Colors
    BY <1>1, <1>3, <1>5
  <2>4. /\ paper' \in [rows : Seq(Line), row : Nat \ {0}, col : Nat]
        /\ paper'.row = p.row + down
        /\ paper'.col = IF Wraps(col) THEN 0 ELSE col
        /\ paper'.rows = IF p.row + down > Len(p.rows)
                         THEN Append(p.rows, BlankLine(attrib)) ELSE p.rows
    BY <1>4, <1>8, <2>1, <2>2, <2>3, AdvanceFacts
  <2>5. QED
    BY <1>2, <1>5, <2>4
<1>10. /\ screen' = Scrolled(s, over)
       /\ X' = X + down - over
       /\ Y' = IF Wraps(col) THEN 0 ELSE col
  <2> HIDE DEF s, col
  <2> DEFINE x == X + down
             n == IF x >= VIDEO_MAX_ROW THEN x - VIDEO_MAX_ROW + 1 ELSE 0
  <2>1. /\ screen' = Scrolled(s, n) /\ X' = x - n
        /\ Y' = IF Wraps(col) THEN 0 ELSE col
    BY <1>7 DEF Draw, s, col
  <2>2. n = over
    BY <1>1, <1>3 DEF Row
  <2>3. X \in Int /\ down \in Int /\ over \in Int
    BY <1>1, <1>3 DEF Row
  <2> HIDE DEF n, over, down
  <2>4. X' = X + down - over
    BY <2>1, <2>2, <2>3
  <2>5. QED
    BY <2>1, <2>2, <2>4
<1> HIDE DEF s, d, p, col, down
<1>11. /\ Len(paper'.rows) = Len(rows) + over
       /\ over \in {0, 1}
  BY <1>1, <1>2, <1>9
<1>12. X' \in Row /\ Y' \in Col
  <2>1. X' \in Row
    BY <1>1, <1>3, <1>10 DEF Row
  <2>2. Wraps(col) => Y' \in Col
    BY <1>1, <1>10 DEF Col
  <2>3. ~Wraps(col) => Y' \in Col
    BY <1>1, <1>3, <1>10 DEF Col, Wraps
  <2>4. QED
    BY <2>1, <2>2, <2>3
<1>13. /\ screen' \in [Row -> Line]
       /\ \A r \in Row : screen'[r] = paper'.rows[off + over + r + 1]
  <2>1. CASE ~more
    <3>1. over = 0 /\ screen' = s /\ paper'.rows = d
      BY <1>2, <1>9, <1>10, <2>1, ScrolledFacts
    <3>2. off + over = off
      BY <1>1, <3>1
    <3>3. QED
      BY <1>2, <3>1, <3>2
  <2>2. CASE more
    <3>1. screen' = Scrolled(s, 1)
      BY <1>10, <2>2
    <3>2. \A r \in Row : screen'[r] = IF r + 1 \in Row THEN s[r + 1]
                                      ELSE BlankLine(attrib)
      BY <1>2, <3>1, ScrolledFacts
    <3>3. BlankLine(attrib) \in Line
      BY <1>1 DEF BlankLine, Line, Cell, Cells
    <3>4. screen' \in [Row -> Line]
      <4>1. DOMAIN screen' = Row /\ screen' = [r \in Row |-> screen'[r]]
        BY <3>1 DEF Scrolled
      <4>2. \A r \in Row : screen'[r] \in Line
        BY <1>2, <3>2, <3>3
      <4>3. QED
        BY <4>1, <4>2
    <3>5. ASSUME NEW r \in Row
          PROVE  screen'[r] = paper'.rows[off + 1 + r + 1]
      <4>1. r \in Int /\ off + 1 + r + 1 \in 1 .. Len(rows) + 1
        BY <1>1 DEF Row
      <4>2. CASE r + 1 \in Row
        <5>1. screen'[r] = d[off + (r + 1) + 1]
          BY <1>2, <3>2, <4>2
        <5>2. off + (r + 1) + 1 = off + 1 + r + 1
          BY <1>1, <4>1
        <5>3. off + 1 + r + 1 \in 1 .. Len(rows)
          BY <1>1, <4>1, <4>2 DEF Row
        <5>4. Append(d, BlankLine(attrib))[off + 1 + r + 1] = d[off + 1 + r + 1]
          BY <1>2, <3>3, <5>3
        <5>5. QED
          BY <1>9, <2>2, <5>1, <5>2, <5>4
      <4>3. CASE r + 1 \notin Row
        <5>1. screen'[r] = BlankLine(attrib)
          BY <3>2, <4>3
        <5>2. off + 1 + r + 1 = Len(rows) + 1
          BY <1>1, <4>1, <4>3 DEF Row
        <5>3. Append(d, BlankLine(attrib))[Len(d) + 1] = BlankLine(attrib)
          BY <1>2, <3>3
        <5>4. QED
          BY <1>2, <1>9, <2>2, <5>1, <5>2, <5>3
      <4>4. QED
        BY <4>2, <4>3
    <3>6. QED
      BY <2>2, <3>4, <3>5
  <2>3. QED
    BY <2>1, <2>2
<1>14. TypeOK'
  <2>1. printed' \in 0 .. MaxText
    BY <1>7, ConsoleAssumption DEF IInv, TypeOK
  <2>2. X' \in Int /\ Y' \in Int
    BY <1>12 DEF Row, Col
  <2>3. QED
    BY <1>1, <1>7, <1>9, <1>13, <2>1, <2>2 DEF TypeOK, Line
<1>15. /\ Len(paper'.rows) >= VIDEO_MAX_ROW
       /\ Len(paper'.rows) - VIDEO_MAX_ROW = off + over
  BY <1>1, <1>11
<1>16. X' = paper'.row - (off + over) - 1 /\ Y' = paper'.col
  <2> HIDE DEF off, over
  <2>1. Y' = paper'.col
    BY <1>9, <1>10
  <2>2. X \in Int /\ over \in Int
    BY <1>1, <1>11 DEF Row
  <2>3. X' = paper'.row - (off + over) - 1
    BY <1>1, <1>3, <1>9, <1>10, <2>2
  <2>4. QED
    BY <2>1, <2>3
<1>17. QED
  BY <1>12, <1>13, <1>14, <1>15, <1>16 DEF IInv, CursorOnScreen, ShowsLastRows

\* A new roll is the screen itself, so a replaced screen is at its end.
LEMMA NewRollInv ==
  ASSUME screen' \in [Row -> Line], X' \in Row, Y' \in Col,
         attrib' \in Colors, printed' \in 0 .. MaxText,
         NewRoll
  PROVE  IInv'
<1>0. /\ \A r \in Row : r \in Int /\ r + 1 \in Nat \ {0} /\ r = (r + 1) - 0 - 1
      /\ \A c \in Col : c \in Nat
  BY ConsoleAssumption DEF Row, Col
<1> DEFINE rows == [i \in 1 .. VIDEO_MAX_ROW |-> screen'[i - 1]]
<1>1. VIDEO_MAX_ROW \in Nat \ {0} /\ VIDEO_MAX_COLUMN \in Nat \ {0}
  BY ConsoleAssumption
<1>2. /\ X' \in Int /\ X' + 1 \in Nat \ {0}
      /\ Y' \in Nat
  BY <1>0
<1>3. rows \in Seq(Line) /\ Len(rows) = VIDEO_MAX_ROW
  <2>1. \A i \in 1 .. VIDEO_MAX_ROW : screen'[i - 1] \in Line
    <3>1. \A i \in 1 .. VIDEO_MAX_ROW : i - 1 \in Row
      BY <1>1 DEF Row
    <3>2. QED
      BY <3>1
  <2>2. QED
    BY <1>1, <2>1
<1>4. paper' = [rows |-> rows, row |-> X' + 1, col |-> Y']
  BY DEF NewRoll, Sheet
<1>5. paper'.rows = rows /\ paper'.row = X' + 1 /\ paper'.col = Y'
  <2> HIDE DEF rows
  <2>1. QED
    BY <1>4
<1>6. \A r \in Row : screen'[r] = rows[0 + r + 1]
  <2>1. \A r \in Row : r + 1 \in 1 .. VIDEO_MAX_ROW /\ 0 + r + 1 = r + 1 /\ (r + 1) - 1 = r
    BY <1>1 DEF Row
  <2>2. QED
    BY <2>1
<1> HIDE DEF rows
<1>7. paper' \in [rows : Seq(Line), row : Nat \ {0}, col : Nat]
  BY <1>2, <1>3, <1>4
<1>8. TypeOK'
  BY <1>2, <1>7 DEF TypeOK, Line
<1>9. Len(paper'.rows) - VIDEO_MAX_ROW = 0 /\ Len(paper'.rows) >= VIDEO_MAX_ROW
  BY <1>1, <1>3, <1>5
<1>10. X' = paper'.row - 0 - 1
  BY <1>0, <1>5
<1>11. QED
  BY <1>5, <1>6, <1>8, <1>9, <1>10 DEF IInv, CursorOnScreen, ShowsLastRows

\* The first cell of the screen is a cell.
LEMMA Origin == 0 \in Row /\ 0 \in Col
BY ConsoleAssumption DEF Row, Col

LEMMA BlankIsScreen ==
  ASSUME NEW color \in Colors
  PROVE  Blank(color) \in [Row -> Line]
BY DEF Blank, Line, Cell, Cells

LEMMA InitInv == Init => IInv
<1> SUFFICES ASSUME Init PROVE IInv
  OBVIOUS
<1> DEFINE rows == [i \in 1 .. VIDEO_MAX_ROW |-> screen[i - 1]]
<1>1. VIDEO_MAX_ROW \in Nat \ {0} /\ VIDEO_MAX_COLUMN \in Nat \ {0}
  BY ConsoleAssumption
<1>2. /\ screen \in [Row -> Line] /\ X = 0 /\ Y = 0
      /\ attrib \in Colors /\ printed \in 0 .. MaxText
  BY ConsoleAssumption, BlankIsScreen DEF Init
<1>3. rows \in Seq(Line) /\ Len(rows) = VIDEO_MAX_ROW
  <2>1. \A i \in 1 .. VIDEO_MAX_ROW : screen[i - 1] \in Line
    <3>1. \A i \in 1 .. VIDEO_MAX_ROW : i - 1 \in Row
      BY <1>1 DEF Row
    <3>2. QED
      BY <1>2, <3>1
  <2>2. QED
    BY <1>1, <2>1
<1>4. paper = [rows |-> rows, row |-> 1, col |-> 0]
  BY DEF Init, Sheet
<1>5. paper.rows = rows /\ paper.row = 1 /\ paper.col = 0
  <2> HIDE DEF rows
  <2>1. QED
    BY <1>4
<1>6. \A r \in Row : screen[r] = rows[0 + r + 1]
  <2>1. \A r \in Row : r + 1 \in 1 .. VIDEO_MAX_ROW /\ 0 + r + 1 = r + 1 /\ (r + 1) - 1 = r
    BY <1>1 DEF Row
  <2>2. QED
    BY <2>1
<1> HIDE DEF rows
<1>7. paper \in [rows : Seq(Line), row : Nat \ {0}, col : Nat]
  BY <1>3, <1>4
<1>8. TypeOK
  BY <1>2, <1>7 DEF TypeOK, Line
<1>9. Len(paper.rows) - VIDEO_MAX_ROW = 0 /\ Len(paper.rows) >= VIDEO_MAX_ROW
  BY <1>1, <1>3, <1>5
<1>10. X = paper.row - 0 - 1
  BY <1>2, <1>5
<1>11. QED
  BY <1>2, <1>5, <1>6, <1>8, <1>9, <1>10, Origin
     DEF IInv, CursorOnScreen, ShowsLastRows

\* Every operation of the console keeps the invariant.
LEMMA NextInv ==
  ASSUME IInv, [Next]_vars
  PROVE  IInv'
<1>1. CASE UNCHANGED vars
  BY <1>1 DEF vars, IInv, TypeOK, CursorOnScreen, ShowsLastRows
<1>2. ASSUME NEW ch \in Chars \cup Controls, Putch(ch)
      PROVE  IInv'
  BY <1>2, PutchInv
<1>3. ASSUME NEW color \in Colors, Setcolor(color)
      PROVE  IInv'
  BY <1>3 DEF Setcolor, IInv, TypeOK, CursorOnScreen, ShowsLastRows
<1>4. ASSUME NEW color \in Colors, Recolor(color)
      PROVE  IInv'
  <2>1. \A r \in Row, c \in Col : Cell(screen[r][c].ch, color) \in Cells
    <3>1. ASSUME NEW r \in Row, NEW c \in Col
          PROVE  screen[r][c].ch \in Chars \cup {Space}
      <4>1. screen[r][c] \in Cells
        BY StateFacts DEF Line
      <4>2. QED
        BY <4>1 DEF Cells
    <3>2. QED
      BY <3>1 DEF Cell, Cells
  <2>2. screen' \in [Row -> Line]
    BY <1>4, <2>1 DEF Recolor, Line
  <2>3. X' \in Row /\ Y' \in Col /\ attrib' \in Colors /\ printed' \in 0 .. MaxText
    BY <1>4, StateFacts DEF Recolor, IInv, TypeOK
  <2>4. QED
    BY <1>4, <2>2, <2>3, NewRollInv DEF Recolor
<1>5. ASSUME NEW picture \in [Row -> Line], Replace(picture)
      PROVE  IInv'
  <2>1. /\ screen' \in [Row -> Line] /\ X' \in Row /\ Y' \in Col
        /\ attrib' \in Colors /\ printed' \in 0 .. MaxText
    BY <1>5, Origin DEF Replace, IInv, TypeOK
  <2>2. QED
    BY <1>5, <2>1, NewRollInv DEF Replace
<1>6. CASE Clear
  <2>1. Blank(attrib) \in [Row -> Line]
    BY StateFacts, BlankIsScreen
  <2>2. QED
    BY <1>5, <1>6, <2>1 DEF Clear
<1>7. ASSUME NEW src \in Pictures, Bkcopy(src)
      PROVE  IInv'
  <2>1. src \in [Row -> Line]
    BY ConsoleAssumption DEF Pictures, Line, Cell, Cells
  <2>2. QED
    BY <1>5, <1>7, <2>1 DEF Bkcopy
<1>8. QED
  BY <1>1, <1>2, <1>3, <1>4, <1>6, <1>7 DEF Next

LEMMA Inductive == Spec => []IInv
<1>1. Init => IInv
  BY InitInv
<1>2. IInv /\ [Next]_vars => IInv'
  BY NextInv
<1>3. QED
  BY <1>1, <1>2, PTL DEF Spec

----------------------------------------------------------------------------
(* Theorems                                                                *)

\* Whatever is printed, every cell of the screen holds a character in one of
\* the colours that setcolor() was given, and the cursor is a pair of numbers.
THEOREM TypeCorrect == Spec => []TypeOK
<1>1. IInv => TypeOK
  BY DEF IInv
<1>2. QED
  BY <1>1, Inductive, PTL

\* No sequence of characters and control characters, on a screen of any size,
\* takes the cursor off the screen: putch() never drops a character because
\* get_cell_ptr() returned NULL, nor writes outside the video memory.
THEOREM CursorStays == Spec => []CursorOnScreen
<1>1. IInv => CursorOnScreen
  BY DEF IInv
<1>2. QED
  BY <1>1, Inductive, PTL

\* On a screen of any size, scroll() loses the rows that left by the top and
\* nothing else: the screen is always the end of all that was printed.
THEOREM ShowsRoll == Spec => []ShowsLastRows
<1>1. IInv => ShowsLastRows
  BY DEF IInv
<1>2. QED
  BY <1>1, Inductive, PTL

=============================================================================
