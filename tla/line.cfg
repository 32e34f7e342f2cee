\* One slot, as in the firmware, and two clients.
CONSTANTS
  Clients = {"c1", "c2"}
  MAX_SRV_CLIENTS = 1
  MAX_TRY = 2
  MaxTemps = 1
  Loads <- MCLoads
SPECIFICATION Spec
INVARIANTS
  TypeOK
  WholeLines
  AckIsOwn
  AnswerWhole
PROPERTIES
  ClientAnswered
  WebEnds
