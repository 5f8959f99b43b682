SPECIFICATION Spec
CHECK_DEADLOCK FALSE
CONSTANTS
  Numbers <- MCNumbers
  Texts <- MCTexts
INVARIANTS
  TypeOK
  Intact
  NoPanic
  HeardAsWritten
