CONSTANTS
  MaxGuards = 1
  ScopedOnly = FALSE
SPECIFICATION Spec
INVARIANT ReleasedGuardEndsQuietly
CHECK_DEADLOCK FALSE
