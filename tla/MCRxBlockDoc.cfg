SPECIFICATION Spec
CONSTANTS
  MaxHalves = 2
  MaxOverruns = 1
  MaxFaults = 1
INVARIANTS
  SampledPerBlock
CHECK_DEADLOCK FALSE
