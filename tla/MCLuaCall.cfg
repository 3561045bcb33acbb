CONSTANTS
  Main = Main
  Co = {c1, c2}
  MaxCcalls = 4
  MaxFrames = 4
SPECIFICATION Spec
INVARIANTS Continuable HandlerInForce UpvaluesLive CStackBounded
SYMMETRY CoSymmetry
CHECK_DEADLOCK FALSE
