\* the clock, serviced in time, with a caller that times things
CONSTANTS
  Ticks = 6
  Second = 2
  Minute = 2
  Hour = 2
  MaxGap = 4
  MaxElapsed = 14
  Milli = 2
  Periods = {0, 1, 3}
SPECIFICATION EventsSpec
INVARIANTS TypeOK TimestampAccurate ElapsedIsExact StopWatchWithinRange
PROPERTIES NeverBackwards
