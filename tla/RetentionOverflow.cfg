SPECIFICATION Spec
CONSTANTS
  MaxTime = 18
  Ticks = 2
  Quarters = 2
  Hours = 3
  RawKept = 13
  FifteenKept = 14
  HourlyKept = 15
  Period = 2
  Results <- AllUp
  Windows <- Long
  Reportable = {}
  Quarter <- MCQuarter
  Hour <- MCHour
  Day <- MCDay
INVARIANT RawIsBounded
