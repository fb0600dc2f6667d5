SPECIFICATION Spec
CONSTANTS
  MaxQuits = 3
  MaxEvents = 1
  EarlyReply = FALSE
INVARIANTS
  DeferredIsOwed
  AnnouncedOnce
PROPERTIES
  Implements
CHECK_DEADLOCK FALSE
