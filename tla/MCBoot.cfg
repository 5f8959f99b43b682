SPECIFICATION FairSpec
CONSTANTS
  u1 = u1
  u2 = u2
  NoUser = NoUser
  Users <- MCUsers
  MaxRetry = 2
  MaxTries = 3
  Pins = {"right", "wrong"}
  Faults <- AllFaults
INVARIANTS
  TypeOK
  PinSpared
  NoUnsolicitedNotice
  IInv
PROPERTIES
  InitEnds
