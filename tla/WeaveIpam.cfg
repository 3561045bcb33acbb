\* A coordinator with two addresses left, two containers, three calls.
CONSTANTS
  Container = {c1, c2}
  First = 32766
  MaxCalls = 3
  MaxFailures = 2
SPECIFICATION FairSpec
INVARIANTS DistinctAddresses AddressesAccounted
PROPERTIES CallReturns
\* Calls are bounded: the system stops when all have been made.
CHECK_DEADLOCK FALSE
