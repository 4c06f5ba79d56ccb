SPECIFICATION FairSpec
CONSTANTS
  Players = {0, 1, 2}
  RunAhead = 1
  FRAMES_TO_KEEP = 2
  FirstFrame = 3
  MaxFrame = 5
  Stopped = {1}
  Mortal = {0}
  Repeated = {"SCREENOFF"}
INVARIANTS
  TypeOK
  SameFrameEverywhere
PROPERTIES
  VotedOutByTheOthers
  KeepsPace
  EveryoneProceeds
CHECK_DEADLOCK FALSE
