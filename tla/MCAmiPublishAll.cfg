\* The two builders main.rb joins and the one it does not, in one run.
CONSTANTS
  Builder = {"coordinator", "node_main", "node_prod"}
  JoinOrder <- TwoJoined
  RegionOrder <- OneRegion
  Default = "us-west-2"
  MaxRuns = 1
  MaxFaults = 0
SPECIFICATION FairSpec
INVARIANT
  AllPublished
CHECK_DEADLOCK FALSE
