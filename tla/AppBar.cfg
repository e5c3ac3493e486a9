SPECIFICATION PanelSpec
CONSTANTS
  Apps = {files, term, mail}
  Monitors = {left, right}
  None = None
  MaxWindows = 2
  MaxChanges = 2
  WireCap = 1
  MaxActs = 1
  MultiMonitor = TRUE
  PerMonitorApps = TRUE
  SavedPins <- MCSavedPins
SYMMETRY Symmetry
INVARIANTS BarsFollowStore ShownWhereItIs
PROPERTY DropMovesOne
CHECK_DEADLOCK FALSE
