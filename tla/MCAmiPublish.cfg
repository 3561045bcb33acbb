\* The coordinator and one node image, one region besides the default, and a
\* second run after whatever the first one left.
CONSTANTS
  Builder = {"coordinator", "node_main"}
  JoinOrder <- TwoJoined
  RegionOrder <- OneRegion
  Default = "us-west-2"
  MaxRuns = 2
  MaxFaults = 1
SPECIFICATION FairSpec
INVARIANTS FinishedMeansPublished CopiesAreOfReadyImages
PROPERTIES WithdrawnOnlyForSuccessor
\* Runs and faults are bounded: nothing is left to do after the last run.
CHECK_DEADLOCK FALSE
