\* Four timestamps in any order; counters that overflow at three.
SPECIFICATION ClocksSpec
CONSTANTS
  IntMin <- MCIntMin
  IntMax = 4
  Times <- MCTimes
  IdleTimeouts <- MCIdleTimeouts
  ScanIntervals <- MCScanIntervals
  MaxObservations = 4
  TotalMax = 2
  Readings <- MCReadings
  Lengths <- MCLengths
  Intervals <- MCIntervals
  MaxExpired = 1
INVARIANTS HighWaterIsMaximum NeverOverdue CutoffsAdvance ReportsAddUp IntervalKept
CHECK_DEADLOCK FALSE
