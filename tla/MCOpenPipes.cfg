SPECIFICATION FairSpec
CHECK_DEADLOCK FALSE
CONSTANTS
  Outputs <- MCOutputs
  Chunk = 3
  Verbose = 2
  Capacity = 2
INVARIANTS
  TypeOK
  UrlWhole
  ReasonTrue
  MailTrue
PROPERTIES
  MailEnds
