SPECIFICATION Spec
CONSTANTS
  Heartbeat = 2
  Placeholder = 9
  Delays <- MCDelays
  MaxQueue = 2
INVARIANTS
  PendingIsReal
  DiscardedIsReposted
  IdleWaitIsBounded
PROPERTIES
  Implements
  ProgressIsPumped
