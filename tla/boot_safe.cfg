\* One start.
CONSTANTS
  MaxTries = 3
  MaxLosses = 0
  MaxCommands = 0
SPECIFICATION Spec
INVARIANTS
  SafeIfNoConnection
CHECK_DEADLOCK FALSE
