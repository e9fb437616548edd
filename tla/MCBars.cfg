CONSTANTS
  Loads = {l1, l2}
  Contents <- MCContents
  Hole = Hole
  Recordings <- MCRecordings
  Intervals <- MCIntervals
  MaxTick = 2
  MaxEdits = 2
  MaxTrades = 3
SPECIFICATION Spec
INVARIANTS
  LoadIsCurrent
  ResampleIsExact
CHECK_DEADLOCK FALSE
