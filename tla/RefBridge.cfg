SPECIFICATION Spec
CONSTANTS
  main = main
  io = io
  worker = worker
  w1 = w1
  w2 = w2
  Threads = {main, io, worker}
  Wraps = {w1, w2}
  MaxCalls = 6
INVARIANTS
  NoUseAfterFree
  ReclaimedExactly
PROPERTIES
  Implements
CHECK_DEADLOCK FALSE
