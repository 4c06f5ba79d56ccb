SPECIFICATION Spec
CONSTANTS
  Players = {0, 1, 2, 3}
  RunAhead = 2
  LeaveFrame <- RouterLeaves
  Commands <- AfterLeavingOf2
  MaxFrame = 6
INVARIANTS
  KeptUntilEverybodyHasIt
CHECK_DEADLOCK FALSE
