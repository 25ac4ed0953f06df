SPECIFICATION Spec
CONSTANTS
  Slots = 2
  Frames = 2
  MaxBlocks = 0
INVARIANTS
  LatchOneEdge
