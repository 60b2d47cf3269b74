CONSTANTS
  Radix = 3
  Unit = 8
  Turn = 24
  Epsilon = 1
  None = None
  Slots = 4
  Scenes <- MCScenes
  Frames <- MCFrames
  MaxFrames = 3
  MaxNow = 2
  MinimumMembers = 3
  MinimumPacking = 45
  DirectionSpread = 2
  AngleDifference = 0
  RadiusRatio = 12
SPECIFICATION Spec
INVARIANTS
  OutputsStayExact
