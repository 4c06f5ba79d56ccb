SPECIFICATION FairSpec
CONSTANTS
  Players = {0, 1}
  MAX_FRAMES_AHEAD = 4
  MIN_RUNAHEAD = 1
  FirstRunAhead = 1
  MaxFrame = 12
  CommandLimit <- NoCommands
  RunAheads = {}
  Leavers = {0, 1}
INVARIANTS
  ExecutesWhatWasIssued
  SlotsHoldOneFrame
  KeepsRecentFrames
PROPERTIES
  NothingReceivedIsLost
  EveryoneProceeds
CHECK_DEADLOCK FALSE
