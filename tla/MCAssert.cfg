\* interrupts that nest on the target, and the build for unit tests
CONSTANTS
  Contexts = 3
  Site = {s1, s2}
  TriggerCount = 1
  Modes = {"interrupts", "unit test"}
  MaxFailures = 1
SPECIFICATION FairSpec
INVARIANTS TypeOK MessageIntact SafeStateFirst ReArmed
PROPERTIES FirstReportKept ReportRepeats
\* the test program ends
CHECK_DEADLOCK FALSE
