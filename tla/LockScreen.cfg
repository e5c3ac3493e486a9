SPECIFICATION FairSpec
CONSTANTS
  m1 = m1
  m2 = m2
  m3 = m3
  Monitors <- ThreeMonitors
  NoMonitor = NoMonitor
  NoAttempt = NoAttempt
  Strikes = 3
  SessionLockSupported = TRUE
  IdleAvailable = TRUE
  MaxLocks = 4
  BusCap = 4
INVARIANTS
  SurfacesFollowLock
  ShutWhileAnswering
  HoldsWhatItNeeds
PROPERTIES
  UndoneByItsOwn
  SessionLockContract
  SuspendNotStalled
  AttemptSettles
