SPECIFICATION Spec
CONSTANTS
  MaxHalves = 5
  MaxOverruns = 1
  MaxFaults = 2
INVARIANTS
  HalvesAreOurs
  EveryHalfOnce
  OverrunsShow
  FaultsCountedOnce
CHECK_DEADLOCK FALSE
