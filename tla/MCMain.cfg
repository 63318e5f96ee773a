\* the program on the target, and test_main called three times in one process
CONSTANTS
  Builds = {TRUE, FALSE}
  Argv <- MCArgv
  Width = 4
  MaxSignals = 3
  MaxRuns = 3
SPECIFICATION FairSpec
INVARIANTS TypeOK RunsUntilAsked LoopIsStoppable
PROPERTIES InterruptEndsProgram CoverageRunEnds TestMainReturns
\* the program ends
CHECK_DEADLOCK FALSE
