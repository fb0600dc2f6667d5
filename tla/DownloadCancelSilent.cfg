SPECIFICATION Spec
CONSTANTS
  d1 = d1
  d2 = d2
  Downloads = {d1}
  Host = {}
  MaxQueue = 2
PROPERTIES
  HandleLearnsTheEnd
CHECK_DEADLOCK FALSE
