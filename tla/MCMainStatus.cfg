\* the exit status after a failed set-up
CONSTANTS
  Builds = {TRUE}
  Argv <- MCArgv
  Width = 4
  MaxSignals = 1
  MaxRuns = 1
SPECIFICATION Spec
INVARIANTS StatusTellsErrors
\* the program ends
CHECK_DEADLOCK FALSE
