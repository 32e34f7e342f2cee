\* All settings, a few polls, a loss of power and three commands.
CONSTANTS
  MaxTries = 3
  MaxLosses = 1
  MaxCommands = 3
SPECIFICATION Spec
INVARIANTS
  TypeOK
  Reachable
  ServersFitMode
PROPERTIES
  BootEnds
\* No command is left.
CHECK_DEADLOCK FALSE
