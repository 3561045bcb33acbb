SPECIFICATION FairSpec
CONSTANTS
  Cluster = {c1}
  MaxMarks = 2
  MaxHand = 2
  MaxReboots = 2
PROPERTIES StopsOnceIdle IdleStops
