\* One application, created up to three times; each run finds out what it is.
CONSTANTS
  Container = {1}
  Iterations = 0
  MaxRuns = 3
  MaxFaults = 2
SPECIFICATION FairSpec
INVARIANTS OutcomeTells
PROPERTIES AppEndsAndServes
\* Runs and faults are bounded: the system stops when both are used up.
CHECK_DEADLOCK FALSE
