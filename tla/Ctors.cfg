\* Screens of 2 x 3 cells, bytes of 3 bits, a table of 3 slots of which 0 has
\* three of the four functions, vectors of 2; a program may stop anywhere.
CONSTANTS
  Films <- MCFilms
  Row = 2
  Col = 3
  ByteBits = 3
  Large = 3
  Functions = {4, 12, 20, 28}
  Word = 64
  Multiplier = 37
  SLOT_SIZE = 3
  Capacity = 2
  MaxIndex = 5
  VideoDtor = 4
  Lists <- MCLists
SPECIFICATION Spec
INVARIANTS
  Silhouette
  BlocksColoured
  TableSound
PROPERTIES
  ImplementsRegistry
  FilmReady
CHECK_DEADLOCK FALSE
