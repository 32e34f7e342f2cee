\* A clock that wraps after 12 ticks and pulses counted modulo 8.
CONSTANTS
  ClockSize = 12
  WordSize = 8
  Ratio = 28
  Boards <- MCBoards
  Networks <- MCNetworks
  Readings <- MCReadings
  Monitor <- MCMonitor
  HOLD = 3
  GRACE = 1
  RESET = 2
  TEST = 3
  INTERVAL = 1
  ALARM = 2
  FAULT = 4
  WIFI = 6
  MaxStall = 2
  MaxRequests = 4
SPECIFICATION Spec
INVARIANTS
  TypeOK
PROPERTIES
  HandlerHeld
  PulseWhole
  PulseEnds
  AlarmShown
