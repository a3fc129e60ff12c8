\* The timer and two devices on the slave; the slave's mask is shared with a handler.
CONSTANTS
  Lines = {0, 8, 9}
  HandlerLines = {8}
SPECIFICATION FairSpec
INVARIANTS
  NothingInService
  MasksAsAsked
PROPERTIES
  EveryLineServed
