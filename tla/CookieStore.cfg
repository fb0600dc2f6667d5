SPECIFICATION Spec
CONSTANTS
  k1 = k1
  k2 = k2
  Missing = Missing
  MaxCalls = 3
  Cookies = {k1, k2}
INVARIANTS
  TypeOK
  CompletedOnce
  AnswersAreTrue
PROPERTIES
  EveryCallCompletes
CHECK_DEADLOCK FALSE
