\* Three messages of at most four characters.
CONSTANTS
  MaxNodes = 4
  Texts <- MCTexts
  _maxsize = 3
  _maxstringlength = 4
SPECIFICATION Spec
INVARIANTS
  TypeOK
  Linked
  CacheInPlace
PROPERTIES
  IsRollingLog
