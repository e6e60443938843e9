SPECIFICATION FairSpec
CONSTANTS
  None = None
  t1 = t1
  t2 = t2
  s1 = s1
  s2 = s2
  Turns <- TwoTurns
  Sessions <- OneSession
  SessionOf <- FirstAndOther
  MaxRoutes = 1
  MaxAttempts = 1
  ExecTimeout = TRUE
  UserCancels = FALSE
  UserKills = FALSE
  WebRestarts = FALSE
PROPERTIES
  TurnEnds
  ShutdownCompletes
  ImplementsService
CHECK_DEADLOCK FALSE
