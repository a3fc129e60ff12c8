\* Any use of the guards; a guard released early and destroyed halts the machine.
CONSTANTS
  MaxGuards = 3
  ScopedOnly = FALSE
SPECIFICATION FairSpec
INVARIANTS
  GuardExcludesHandler
  HandlerStaysMasked
  FlagRestored
  NoPanic
PROPERTIES
  CountBalanced
  Delivery
CHECK_DEADLOCK FALSE
