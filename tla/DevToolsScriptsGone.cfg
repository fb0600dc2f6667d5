SPECIFICATION Spec
CONSTANTS
  s1 = s1
  s2 = s2
  h1 = h1
  Sources = {s1}
  Names = {}
  Programs <- MCPrograms
  Api <- MCScripts
  MaxCalls = 2
PROPERTIES
  RemovedScriptsGone
CHECK_DEADLOCK FALSE
