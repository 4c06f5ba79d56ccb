SPECIFICATION Spec
CONSTANTS
  Players = {0, 1}
  MAX_FRAMES_AHEAD = 4
  MIN_RUNAHEAD = 1
  FirstRunAhead = 1
  MaxFrame = 8
  CommandLimit <- OneCommandEach
  RunAheads = {2}
  Leavers = {0}
INVARIANTS
  ExecutesWhatWasIssued
  SlotsHoldOneFrame
  KeepsRecentFrames
  CountsInv
PROPERTIES
  AnnouncedCountsAreFinal
  NothingReceivedIsLost
  OneSchedule
CHECK_DEADLOCK FALSE
