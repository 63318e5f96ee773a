\* threads that may stop anywhere
CONSTANTS
  Contexts = 2
  Site = {s1, s2}
  TriggerCount = 1
  Modes = {"threads"}
  MaxFailures = 1
SPECIFICATION Spec
INVARIANTS MessageIntact
