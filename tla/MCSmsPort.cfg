SPECIFICATION FairSpec
CHECK_DEADLOCK FALSE
CONSTANTS
  m1 = m1
  Sms <- OneSms
  Body <- OneBody
  Buffer = 6
  MaxCalls = 2
  MaxStarts = 2
  Split = TRUE
  Lossy = TRUE
  Faults <- AllFaults
INVARIANTS
  TypeOK
  OkTrue
  IInv
PROPERTIES
  HeardIfAlone
  SendEnds
  InitReturns
