\* Three nodes where two suffice, and films of up to four frames.
CONSTANTS
  Nodes = {n1, n2, n3}
  Width = 20
  MaxFrames = 4
SPECIFICATION FairSpec
INVARIANTS
  OneActAtATime
  PoolOutlivesFilm
PROPERTIES
  QuietAfterFilm
  FramesOnTime
  EndsInClock
CHECK_DEADLOCK FALSE
