CONSTANTS
  Outputs = {o1, o2}
  Windows = {w}
  Full = 2
  None = None
SPECIFICATION Spec
INVARIANTS
  NothingLeftBehind
  InStep
PROPERTY EffectsEnd
CHECK_DEADLOCK TRUE
