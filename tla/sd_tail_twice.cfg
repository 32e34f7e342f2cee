\* Nothing goes wrong; the last line may lack its newline.
CONSTANTS
  Lines = 3
  LongLines = {}
  Tails = {TRUE, FALSE}
  BufferLines = 2
  NB_RETRY = 2
  Late = FALSE
  IdleWait = FALSE
  OpenMayFail = FALSE
  Lossy = {"G", "M29", "M30"}
  Splits = {"ok"}
  MaxFaults = 0
  MaxUploads = 1
SPECIFICATION Spec
INVARIANTS
  StoredOnce
CHECK_DEADLOCK FALSE
