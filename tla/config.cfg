\* Every task of the settings on a small sector, with two losses of power.
CONSTANTS
  EEPROM_SIZE = 10
  Byte = {0, 1, 2, 255}
  Blank = 255
  Images <- MCImages
  EP_BAUD_RATE = 0
  INTEGER_LENGTH = 2
  EP_WEB_PORT = 2
  EP_DATA_PORT = 4
  EP_TARGET_FW = 6
  EP_DATA_STRING = 9
  Bauds <- MCBauds
  Ports <- MCPorts
  Targets = {0, 1}
  TextLimits <- MCTextLimits
  Defaults <- MCDefaults
  Commands <- MCCommands
  BoardReads <- MCBoardReads
  SetupReads <- MCSetupReads
  ListReads <- MCListReads
  Torn = TRUE
  MaxLosses = 2
SPECIFICATION Spec
INVARIANTS
  TypeOK
  InstancesCounted
  SavedIsSaved
PROPERTIES
  ComesUp
  TargetInUse
  SettingsKept
