SPECIFICATION FairSpec
CONSTANTS
  Modes = {FALSE, TRUE}
  Room = 2
  Lengths = {1, 2}
  MaxSends = 3
  MaxInputs = 2
INVARIANTS StreamInOrder ClosedOnce ClosedNotPolled
PROPERTY LoopReturns
CHECK_DEADLOCK FALSE
