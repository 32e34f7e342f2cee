\* One upload, checked against SdFile.
CONSTANTS
  Lines = 3
  LongLines = {2}
  Tails = {TRUE, FALSE}
  BufferLines = 2
  NB_RETRY = 2
  Late = FALSE
  IdleWait = FALSE
  OpenMayFail = TRUE
  Lossy = {"G", "M29", "M30"}
  Splits = {"ok"}
  MaxFaults = 3
  MaxUploads = 1
SPECIFICATION Spec
PROPERTIES
  FileAsPromised
CHECK_DEADLOCK FALSE
