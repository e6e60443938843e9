SPECIFICATION Spec
CONSTANTS
  None = None
  t1 = t1
  t2 = t2
  s1 = s1
  s2 = s2
  Turns <- OneTurn
  Sessions <- OneSession
  SessionOf <- OnlyFirst
  MaxRoutes = 1
  MaxAttempts = 1
  ExecTimeout = TRUE
  UserCancels = TRUE
  UserKills = FALSE
  WebRestarts = FALSE
INVARIANTS
  KilledAgentsStop
CHECK_DEADLOCK FALSE
