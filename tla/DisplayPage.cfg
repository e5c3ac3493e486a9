SPECIFICATION PageFairSpec
CONSTANTS
  dp = dp
  hdmi = hdmi
  native = native
  low = low
  Outputs <- MCOutputs
  Modes <- MCModes
  NoMode = NoMode
  Nothing = Nothing
  MaxElsewhere = 1
INVARIANTS
  PageAgrees
PROPERTIES
  BlanksOnlyWithoutModes
  PageSettles
CHECK_DEADLOCK FALSE
