SPECIFICATION ClcSpec
CONSTANTS
  Owners <- MCOwners
  SsOwners <- MCSsOwners
  Pins <- MCPins
  HasClc = TRUE
INVARIANTS
  ClcTypeOK
  BorrowsOnePin
  FedByOwner
PROPERTIES
  NoTakeover
