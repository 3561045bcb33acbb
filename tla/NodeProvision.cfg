\* hadoop is container 1, hue container 2; Init chooses AWS or not.
CONSTANTS
  N = 2
  Container = {1, 2}
  StartUnchecked = {2}
  Iterations = 0
  MaxRuns = 2
  MaxFaults = 2
SPECIFICATION FairSpec
INVARIANTS ProvisionedMeansReady InitGated
PROPERTIES FirstRunNeverAgain NodeServes KeepsPromise
\* Runs and faults are bounded: the system stops when both are used up.
CHECK_DEADLOCK FALSE
