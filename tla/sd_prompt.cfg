\* Answers come within the time-out, lines may be lost or refused.
CONSTANTS
  Lines = 3
  LongLines = {2}
  Tails = {TRUE, FALSE}
  BufferLines = 2
  NB_RETRY = 2
  Late = FALSE
  IdleWait = FALSE
  OpenMayFail = TRUE
  Lossy = {"G", "M29", "M30"}
  Splits = {"ok"}
  MaxFaults = 2
  MaxUploads = 2
SPECIFICATION Spec
INVARIANTS
  TypeOK
  SerialLocked
  NeverExecuted
  OkMeansEveryLine
  FailedLeavesNoFile
PROPERTIES
  LockReleased
CHECK_DEADLOCK FALSE
