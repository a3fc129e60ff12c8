\* Three nodes, so that one is unlinked between two others, and an interval
\* such that a walk counts down on one tick and calls on the next.
CONSTANTS
  Nodes = {n1, n2, n3}
  Intervals = {2}
  Width = 3
  NULL = NULL
  MaxGuards = 1
  ScopedOnly = TRUE
SYMMETRY Addresses
SPECIFICATION ListSpec
INVARIANTS
  ListWhole
PROPERTIES
  ImplementsTimer
