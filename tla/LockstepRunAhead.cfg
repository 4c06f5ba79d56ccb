SPECIFICATION Spec
CONSTANTS
  Players = {0, 1}
  MAX_FRAMES_AHEAD = 6
  MIN_RUNAHEAD = 1
  FirstRunAhead = 3
  MaxFrame = 6
  CommandLimit <- TwoOfTheRouter
  RunAheads = {1}
  Leavers = {}
INVARIANTS
  TypeOK
  ExecutesWhatWasIssued
PROPERTIES
  AnnouncedCountsAreFinal
  NothingReceivedIsLost
  OneSchedule
CHECK_DEADLOCK FALSE
