SPECIFICATION FairSpec
CONSTANTS
  c1 = c1
  c2 = c2
  twin = twin
  other = other
  native = native
  low = low
  Connectors <- MCConnectors
  Monitors <- MCMonitors
  Modes <- MCModes
  Profiles <- MCProfiles
  NoMonitor = NoMonitor
  NoMode = NoMode
  NoConfig = NoConfig
  NoSet = NoSet
  MaxHeads = 2
  MaxSerial = 3
INVARIANTS
  MirrorExact
  RestoresMatchHotplugs
PROPERTIES
  LayoutsAreSafe
  ComesToRest
CHECK_DEADLOCK FALSE
