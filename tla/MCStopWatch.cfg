\* a stop watch running for more than two turns of the counter
CONSTANTS
  Ticks = 6
  Second = 2
  Minute = 2
  Hour = 2
  MaxGap = 4
  MaxElapsed = 14
  Milli = 2
  Periods = {0, 1, 3}
SPECIFICATION EventsSpec
INVARIANTS StopWatchIsExact
