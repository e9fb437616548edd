CONSTANTS
  Sources <- MCSources
  Times <- MCTimes
  Tapes <- MCTapes
  Untimed = Untimed
  Epoch = 0
  Stride = 2
  WallClock <- MCWallClock
  Years <- MCYears
  EasterYears <- MCEasterYears

SPECIFICATION Spec

INVARIANTS
  SessionIsReplayed
  ReportInOrder
  CancelIsHeeded

PROPERTY Implements

CHECK_DEADLOCK FALSE
