\* serviced once per turn of the counter, but not sooner
CONSTANTS
  Ticks = 12
  Second = 4
  Minute = 2
  Hour = 2
  MaxGap = 11
  MaxElapsed = 40
SPECIFICATION Spec
INVARIANTS TimestampAccurate
