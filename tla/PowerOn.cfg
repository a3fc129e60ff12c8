\* The timer, the keyboard, and a device on the slave; exceptions with an error
\* code and without, one of them not to be masked.
\* The machine stops after a disk error and after an exception.
CONSTANTS
  Lines = {0, 1, 8}
  Drives <- MCDrives
  Images <- MCImages
  Vectors = {0, 2, 13, 14, 18}
SPECIFICATION PowerSpec
INVARIANTS
  ImageLoaded
  ReadyWhenReached
  OneUser
  ReportsFrame
PROPERTIES
  PagesAsUsed
  FilmPlays
CHECK_DEADLOCK FALSE
