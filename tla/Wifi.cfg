SPECIFICATION FairSpec
CONSTANTS
  home = home
  Ssids <- MCSsids
  NoSsid = NoSsid
  MaxChanges = 1
  MaxToggles = 1
INVARIANTS
  FlagsOwned
  EventsArePolled
PROPERTIES
  WorkEnds
CHECK_DEADLOCK FALSE
