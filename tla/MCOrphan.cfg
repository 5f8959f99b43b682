SPECIFICATION Spec
CONSTANTS
  p1 = p1
  p2 = p2
  px = px
  u1 = u1
  u2 = u2
  a1 = a1
  a2 = a2
  bogus = bogus
  s1 = s1
  s2 = s2
  s3 = s3
  NoUser = NoUser
  NoPhone = NoPhone
  NoMsg = NoMsg
  NoProc = NoProc
  NoMax = NoMax
  NoArg = NoArg
  Phones <- OnePhone
  Users <- OneUser
  UserOf <- OneUserOf
  Apps <- OneApp
  AppNames <- OneAppName
  RefArgs <- TwoRefArgs
  Procs <- TwoProcs
  MaxTunnels = 1
  TunnelTimeout = 1
  Faults <- OnlyStop
INVARIANTS
  LiveTracked
