CONSTANTS
  MaxInt = 5
  MAX_INT = 5
  k1 = k1
  k2 = k2
  k3 = k3
  Other <- MCOther
  Hash <- MCHash
  Value = {x}
  Nil = Nil
  MaxSet = 6
SPECIFICATION Spec
INVARIANTS GetsWhatWasSet GetnIsBoundary
PROPERTY ImplementsDict
CHECK_DEADLOCK FALSE
