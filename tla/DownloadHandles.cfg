SPECIFICATION Spec
CONSTANTS
  d1 = d1
  d2 = d2
  Downloads = {d1, d2}
  Host <- MCHost
  MaxQueue = 2
INVARIANTS
  NoFalseEnd
  FinishedIsDropped
  DroppedIsOver
PROPERTIES
  EndIsFinal
  RejectedStops
CHECK_DEADLOCK FALSE
