\* A timer is added, removed or called while another one is at the cursor.
CONSTANTS
  Nodes = {n1, n2}
  Intervals = {0, 1, 2, 3}
  Width = 4
SPECIFICATION FairSpec
INVARIANTS
  ListSound
  OnSchedule
PROPERTIES
  ImplementsService
  Reclaimed
  TimersFire
CHECK_DEADLOCK FALSE
