SPECIFICATION Spec
CONSTANTS
  MaxTime = 26
  Ticks = 2
  Quarters = 2
  Hours = 3
  RawKept = 13
  FifteenKept = 14
  HourlyKept = 15
  Period = 26
  Results <- Gaps
  Windows <- Mixed
  Reportable = {2, 3}
  Quarter <- MCQuarter
  Hour <- MCHour
  Day <- MCDay
INVARIANTS TypeOK NothingDiscarded DailyIsComplete ReportsCounted
