SPECIFICATION Spec
CONSTANTS
  GeomSlots = 8
  GeomFrames = 16
  Edges = {"rise", "fall"}
  Unset = Unset
  LegCount <- MCLegCount
  Ports = {board}
  NoPort = NoPort
  Requests <- MCRequests
  Setups <- MCSetups
  DomainIds <- MCDomainIds
  Seed <- MCSeed
  SsOwners <- MCSsOwners
  Pins <- MCPins
  HasClc = TRUE
  LegOnPin <- MCLegOnPin
INVARIANTS
  TypeOK
  RunningIsTheTruth
  ProgrammedAsRouted
  OneClockPerDomain
  FirstBlockSilent
  MarkerStaysInside
  ClcIsNotLeaked
  DomainsRunWhole
  StartNeverStops
PROPERTIES
  MasterReleasedLast
  AnswersMatch
  ClockIsGated
  CallsAreAtomic
