SPECIFICATION Spec
CHECK_DEADLOCK FALSE
CONSTANTS
  m1 = m1
  Sms <- OneSms
  Body <- OneBody
  Buffer = 6
  MaxCalls = 1
  MaxStarts = 1
  Split = FALSE
  Lossy = FALSE
  Faults <- NoFault
INVARIANTS
  NoSmsLost
