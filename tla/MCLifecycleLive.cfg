SPECIFICATION Spec
CONSTANTS
  GeomSlots = 8
  GeomFrames = 16
  Edges = {"rise", "fall"}
  Unset = Unset
  LegCount <- MCLegCount
  Ports = {board}
  NoPort = NoPort
  Requests <- LiveRequests
  Setups <- LiveSetups
  DomainIds <- MCDomainIds
  Seed <- MCSeed
  SsOwners <- MCSsOwners
  Pins <- MCPins
  HasClc = TRUE
  LegOnPin <- MCLegOnPin
PROPERTIES
  CallsReturn
