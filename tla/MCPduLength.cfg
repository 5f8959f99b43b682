SPECIFICATION Spec
CHECK_DEADLOCK FALSE
CONSTANTS
  Numbers <- MCNumbers
  Texts <- MCTexts
INVARIANT
  SizeInSeptets
