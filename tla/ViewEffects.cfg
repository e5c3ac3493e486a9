CONSTANTS
  Toplevels = {w1, w2}
  Surfaces = {}
  Overlays = {}
  Panel = panel
  Full = 2
  None = None
SPECIFICATION Spec
INVARIANTS
  ViewsInPlace
  PushEndsWithReveal
PROPERTY PeekContracts
CHECK_DEADLOCK TRUE
