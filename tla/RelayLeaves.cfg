SPECIFICATION FairSpec
CONSTANTS
  Players = {0, 1, 2}
  RunAhead = 2
  LeaveFrame <- RouterAndLastLeave
  Commands <- AfterLeavingOf2
  MaxFrame = 6
INVARIANTS
  TypeOK
  KeptUntilEverybodyHasIt
PROPERTIES
  EveryoneProceeds
CHECK_DEADLOCK FALSE
