------------------------------ MODULE Console ------------------------------
(***************************************************************************)
(* The text console (krnl/console.cc): a cursor that putch() moves, and a  *)
(* screen that scrolls by copying itself upwards.  What the screen should  *)
(* show is defined without scrolling: on a roll of paper, of which the     *)
(* screen is the last rows.                                                *)
(***************************************************************************)
EXTENDS Integers, Sequences, SequencesExt

CONSTANTS
  VIDEO_MAX_ROW, VIDEO_MAX_COLUMN,
  Colors,     \* what setcolor() is given; default is one of them
  default_color,
  Chars,      \* printable characters
  MaxText     \* bound on the calls of putch()

ASSUME ConsoleAssumption ==
  /\ VIDEO_MAX_ROW \in Nat \ {0} /\ VIDEO_MAX_COLUMN \in Nat \ {0}
  /\ default_color \in Colors
  /\ MaxText \in Nat

Row == 0 .. VIDEO_MAX_ROW - 1
Col == 0 .. VIDEO_MAX_COLUMN - 1
Space == " "
Controls == {"BS", "HT", "CR", "LF"}
Cell(ch, color) == [ch |-> ch, color |-> color]
Cells == [ch : Chars \cup {Space}, color : Colors]

VARIABLES
  attrib,
  X, Y,       \* cursor::X is the row, cursor::Y the column
  screen,     \* the memory at VIDEO_BASE
  paper,      \* the roll since the screen was last replaced (not in the code)
  printed     \* calls of putch(), up to MaxText (nor this)

vars == <<attrib, X, Y, screen, paper, printed>>

TypeOK ==
  /\ attrib \in Colors
  /\ X \in Int /\ Y \in Int
  /\ screen \in [Row -> [Col -> Cells]]
  /\ paper \in [rows : Seq([Col -> Cells]), row : Nat \ {0}, col : Nat]
  /\ printed \in 0 .. MaxText

Blank(color) == [r \in Row |-> [c \in Col |-> Cell(Space, color)]]

\* A sheet: its rows, from the top, and the place to print at.
Sheet(s, x, y) ==
  [rows |-> [i \in 1 .. VIDEO_MAX_ROW |-> s[i - 1]], row |-> x + 1, col |-> y]

\* A character on the roll, to which rows are only ever added.  A tab goes to
\* the next multiple of four, a backspace stops at the margin, and a full line
\* goes on in the next one.
Advance(p, lines, col, color) ==
  LET full == col >= VIDEO_MAX_COLUMN
      row  == p.row + lines + IF full THEN 1 ELSE 0
      new  == IF row <= Len(p.rows) THEN <<>>
              ELSE [i \in 1 .. row - Len(p.rows) |-> [c \in Col |-> Cell(Space, color)]]
  IN  [rows |-> p.rows \o new, row |-> row, col |-> IF full THEN 0 ELSE col]

Typed(p, cell) ==
  CASE cell.ch = "LF" -> Advance(p, 1, 0, cell.color)
    [] cell.ch = "CR" -> Advance(p, 0, 0, cell.color)
    [] cell.ch = "BS" -> Advance(p, 0, IF p.col = 0 THEN 0 ELSE p.col - 1, cell.color)
    [] cell.ch = "HT" ->
         Advance(p, 0, CHOOSE c \in p.col + 1 .. p.col + 4 : c % 4 = 0, cell.color)
    [] OTHER ->
         LET line == [p.rows[p.row] EXCEPT ![p.col] = cell]
         IN  Advance([p EXCEPT !.rows = ReplaceAt(@, p.row, line)],
                     0, p.col + 1, cell.color)

\* console::initialize(): the cursor that the BIOS left is forgotten by clear().
Init ==
  /\ attrib = default_color
  /\ X = 0 /\ Y = 0
  /\ screen = Blank(default_color)
  /\ paper = Sheet(screen, 0, 0) /\ printed = 0

\* get_cell_ptr(X, Y) # NULL; the column is compared with ">".
HasCell == X \in Row /\ Y \in 0 .. VIDEO_MAX_COLUMN

\* (cursor::Y + 4) & ~3
TabStop(y) == ((y + 4) \div 4) * 4

Column(ch, y) ==
  CASE ch = "BS"         -> IF y # 0 THEN y - 1 ELSE 0
    [] ch = "HT"         -> TabStop(y)
    [] ch \in {"CR", "LF"} -> 0
    [] OTHER             -> y + 1

\* The row after the character, and after a line that became too long.
Mut_Wraps(y) == y > VIDEO_MAX_COLUMN
Wraps(y) == y >= VIDEO_MAX_COLUMN

Lines(ch, y) ==
  (IF ch = "LF" THEN 1 ELSE 0) + (IF Wraps(Column(ch, y)) THEN 1 ELSE 0)

\* scroll(), n times: rows move up, rows at the bottom are filled.
Mut1_Scrolled(s, n) == s
Scrolled(s, n) ==
  [r \in Row |-> IF r + n \in Row THEN s[r + n]
                 ELSE [c \in Col |-> Cell(Space, attrib)]]

\* putch().  Outside the screen it would drop the character.
Draw(ch) ==
  LET drawn == IF ch \in Controls THEN screen
               ELSE [screen EXCEPT ![X][Y] = Cell(ch, attrib)]
      x     == X + Lines(ch, Y)
      over  == IF x >= VIDEO_MAX_ROW THEN x - VIDEO_MAX_ROW + 1 ELSE 0
  IN  /\ screen' = Scrolled(drawn, over)
      /\ X' = x - over
      /\ Y' = IF Wraps(Column(ch, Y)) THEN 0 ELSE Column(ch, Y)

Putch(ch) ==
  /\ printed < MaxText
  /\ IF HasCell THEN Draw(ch) ELSE UNCHANGED <<screen, X, Y>>
  /\ paper' = Typed(paper, Cell(ch, attrib))
  /\ printed' = printed + 1
  /\ UNCHANGED attrib

\* A new roll begins with what is on the screen.
NewRoll == paper' = Sheet(screen', X', Y')

\* setcolor(); with reset the characters stay and all colours change.
Setcolor(color) ==
  /\ attrib' = color
  /\ UNCHANGED <<X, Y, screen, paper, printed>>

Recolor(color) ==
  /\ attrib' = color
  /\ screen' = [r \in Row |-> [c \in Col |-> Cell(screen[r][c].ch, color)]]
  /\ UNCHANGED <<X, Y, printed>>
  /\ NewRoll

\* clear() and bkcopy() replace the whole screen.
Replace(picture) ==
  /\ screen' = picture
  /\ X' = 0 /\ Y' = 0
  /\ UNCHANGED <<attrib, printed>>
  /\ NewRoll

Clear == Replace(Blank(attrib))
Bkcopy(src) == Replace(src)

----------------------------------------------------------------------------

\* Pictures are those of a film: one character on the default colour.
Pictures == {[r \in Row |-> [c \in Col |-> Cell(ch, default_color)]] : ch \in Chars}

Next ==
  \/ \E ch \in Chars \cup Controls : Putch(ch)
  \/ \E color \in Colors : Setcolor(color) \/ Recolor(color)
  \/ Clear
  \/ \E src \in Pictures : Bkcopy(src)

Spec == Init /\ [][Next]_vars

----------------------------------------------------------------------------
(* Properties                                                              *)

\* After every operation the cursor is on a cell of the screen, so putch()
\* never takes its early return and loses output.
CursorOnScreen == X \in Row /\ Y \in Col

\* The screen shows the last rows of what was written, colours included, and
\* the cursor is where the writing stands: scrolling loses nothing else.
ShowsLastRows ==
  LET off == Len(paper.rows) - VIDEO_MAX_ROW
  IN  /\ \A r \in Row : screen[r] = paper.rows[off + r + 1]
      /\ X = paper.row - off - 1 /\ Y = paper.col

=============================================================================
