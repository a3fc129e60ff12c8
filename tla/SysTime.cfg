\* The clock of a PC: BCD or binary, 24 hours.
CONSTANTS
  Values <- CarryValues
  Modes <- Modes24
  Gap = 3
SPECIFICATION FairSpec
INVARIANTS
PROPERTIES
  ReturnsATime
  Returns
