CONSTANTS
  Outputs = {o1, o2}
  Kinds <- MCKinds
  Full = 2
  MaxEnables = 3
  None = None
SPECIFICATION Spec
INVARIANTS
  GridFollowsReveal
  RevealsComeAndGo
PROPERTY PeekContract
CHECK_DEADLOCK TRUE
