\* The same clock in 12-hour mode.
CONSTANTS
  Values <- HourValues
  Modes <- Modes12
  Gap = 3
SPECIFICATION Spec
PROPERTIES
  HourIsRight
