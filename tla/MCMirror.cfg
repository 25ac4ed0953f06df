SPECIFICATION Spec
CONSTANTS
  Slots = 2
  Frames = 2
  MaxBlocks = 3
INVARIANTS
  MasterLocks
  SiblingHalfIsSafe
  SameBlock
  LockShowsInProbes
PROPERTIES
  UnsafeIsTrouble
