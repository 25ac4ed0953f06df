SPECIFICATION FairSpec
CONSTANTS
  Modulus = 2
  Durations = {1}
  MaxIrqs = 2
  Calls = {"load", "callback"}
  Pairs <- SomePairs
INVARIANTS
  OnePairPerRun
PROPERTIES
  InterruptsServed
