SPECIFICATION Spec
CONSTANTS
  m1 = m1
  m2 = m2
  m3 = m3
  Monitors <- TwoMonitors
  NoMonitor = NoMonitor
  NoAttempt = NoAttempt
  Strikes = 3
  SessionLockSupported = TRUE
  IdleAvailable = TRUE
  MaxLocks = 2
  BusCap = 0
INVARIANT ShutOnlyWhileBusy
