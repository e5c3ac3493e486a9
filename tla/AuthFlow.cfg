SPECIFICATION RequestSpec
CONSTANTS
  user = user
  root = root
  admin = admin
  Identities <- MCIdentities
  NoSession = NoSession
  MAX_ATTEMPTS = 3
  MaxQueued = 2
INVARIANTS
  GrantIsEarned
  RequestIsServed
PROPERTIES
  AnswerStands
CHECK_DEADLOCK FALSE
