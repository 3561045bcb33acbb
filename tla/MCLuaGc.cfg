SPECIFICATION FairSpec
CONSTANTS
  Main = Main
  Co = {co}
  Tab = {t}
  Udata = {u}
  Lcl = {c}
  Str = {s}
  Modes = {"strong"}
  Slots = 2
  Nil = Nil
  MaxOps = 2
  Start <- MCStart
INVARIANTS TriColour
PROPERTIES NothingInUseFreed FinalizedFirst WeakValuesCleared Collected
