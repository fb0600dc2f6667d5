SPECIFICATION Spec
CONSTANTS
  s1 = s1
  s2 = s2
  h1 = h1
  Sources = {s1, s2}
  Names = {h1}
  Programs <- MCPrograms
  Api <- MCApi
  MaxCalls = 3
INVARIANTS
  HandlersAreBindings
  TypeOK
  ScriptsInstalled
  MessagesReachHandlers
  EvalGetsOwnAnswer
PROPERTIES
  EvalCompletesWhileOpen
CHECK_DEADLOCK FALSE
