SPECIFICATION Spec
CONSTANTS
  GeomFrames = 2
  Edges <- MCEdges
  Unset = Unset
  LegCount = 2
  Choices <- MCChoices
INVARIANTS
  OneDriver
  FramesLineUp
  ShapeAsAsked
  ReadAsSent
