SPECIFICATION FairSpec
CONSTANTS
  default = default
  reply = reply
  Default = default
  Keys <- MCKeys
  ClearThreshold = 1
  MaxNotifications = 3
  MaxSubmits = 4
INVARIANTS
  TimersOwned
  StackFollowsStore
PROPERTIES
  NotificationContract
  NothingStays
CHECK_DEADLOCK FALSE
