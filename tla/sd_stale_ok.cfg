\* Answers may miss the time-out and one line may be lost.
CONSTANTS
  Lines = 3
  LongLines = {}
  Tails = {FALSE}
  BufferLines = 2
  NB_RETRY = 2
  Late = TRUE
  IdleWait = FALSE
  OpenMayFail = FALSE
  Lossy = {"G", "M29", "M30"}
  Splits = {"ok"}
  MaxFaults = 1
  MaxUploads = 1
SPECIFICATION Spec
INVARIANTS
  OkMeansEveryLine
CHECK_DEADLOCK FALSE
