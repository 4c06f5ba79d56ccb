SPECIFICATION Spec
CONSTANTS
  Players = {0, 1, 2}
  RunAhead = 1
  FRAMES_TO_KEEP = 2
  FirstFrame = 3
  MaxFrame = 5
  Stopped = {0}
  Mortal = {}
  Repeated = {}
INVARIANTS
  SameFrameEverywhere
CHECK_DEADLOCK FALSE
