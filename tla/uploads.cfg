\* Two clients with two files each, or three with one.
CONSTANTS
  MaxFiles = 2
  MaxBlocks = 1
  Builds <- MCBuilds
SPECIFICATION Spec
INVARIANTS
  TypeOK
  OkMeansStored
  FailureIsReal
  RestartOnlyUpdated
PROPERTIES
  ServerFree
\* The parser's endless loop, and no client left, are ends.
CHECK_DEADLOCK FALSE
