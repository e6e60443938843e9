SPECIFICATION FairSpec
CONSTANTS
  None = None
  t1 = t1
  t2 = t2
  s1 = s1
  s2 = s2
  Turns <- OneTurn
  Sessions <- OneSession
  SessionOf <- OnlyFirst
  MaxRoutes = 1
  MaxAttempts = 2
  ExecTimeout = TRUE
  UserCancels = TRUE
  UserKills = TRUE
  WebRestarts = TRUE
INVARIANTS
  IInv
  CardsReleased
  AgentsSettled
  CancelReachesAgent
PROPERTIES
  OneTerminalFrame
  CancelEnds
CHECK_DEADLOCK FALSE
