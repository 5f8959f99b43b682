SPECIFICATION Spec
CONSTANTS
  c1 = c1
  p1 = p1
  p2 = p2
  p3 = p3
  NoFile = NoFile
  Empty = Empty
  Other = Other
  Callers <- OneCaller
  Pids <- ThreePids
  Faults <- OnlyDeath
INVARIANTS
  OneDaemon
  Stoppable
  IInv
PROPERTIES
  StopStops
