SPECIFICATION DataSpec
CONSTANTS
  s1 = s1
  s2 = s2
  v3 = v3
  v1 = v1
  v2 = v2
  None = None
  Stores = {s1, s2}
  Views = {v1, v2, v3}
  Identifiers <- MCIdentifiers
  Alphanumeric <- MCAlphanumeric
  Profile <- MCProfile
INVARIANTS
  PersistentSurvives
CHECK_DEADLOCK FALSE
