SPECIFICATION StartupSpec
CONSTANTS
  Runners = {r1, r2}
  Layouts <- AnyLayout
  MaxFaults = 2
  Observed <- AllOutcomes
  MaxRun = 5
INVARIANTS RecordedIsReal DoneIsComplete SameState
PROPERTY MigratedUnlessCut
