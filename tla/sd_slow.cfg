\* A printer that answers late and reports that it waits; nothing is lost.
CONSTANTS
  Lines = 3
  LongLines = {2}
  Tails = {FALSE}
  BufferLines = 2
  NB_RETRY = 2
  Late = TRUE
  IdleWait = TRUE
  OpenMayFail = FALSE
  Lossy = {}
  Splits = {"ok"}
  MaxFaults = 0
  MaxUploads = 2
SPECIFICATION Spec
INVARIANTS
  OkMeansEveryLine
PROPERTIES
  LockReleased
CHECK_DEADLOCK FALSE
