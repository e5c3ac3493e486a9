SPECIFICATION FairSpec
CONSTANTS
  edp = edp
  headless = headless
  volume = volume
  Outputs <- MCOutputs
  Internal <- MCInternal
  Modeless <- MCModeless
  Notices <- MCNotices
  None = None
  MaxPicks = 2
  MaxInputs = 3
INVARIANTS
  WindowsAgree
  ScreenIsOwned
PROPERTIES
  PicksApplyTheChoice
  ScreenClears
CHECK_DEADLOCK FALSE
