\* Two rows of five cells: one tab stop inside a row, scrolling after one line.
CONSTANTS
  VIDEO_MAX_ROW = 2
  VIDEO_MAX_COLUMN = 5
  Colors = {white, red}
  default_color = white
  Chars = {"o"}
  MaxText = 7
  white = white
  red = red
SPECIFICATION Spec
INVARIANTS
  CursorOnScreen
  ShowsLastRows
