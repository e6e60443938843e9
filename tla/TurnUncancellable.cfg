SPECIFICATION Spec
CONSTANTS
  None = None
  t1 = t1
  t2 = t2
  s1 = s1
  s2 = s2
  Turns <- TwoTurns
  Sessions <- OneSession
  SessionOf <- BothInSession
  MaxRoutes = 2
  MaxAttempts = 1
  ExecTimeout = FALSE
  UserCancels = FALSE
  UserKills = FALSE
  WebRestarts = FALSE
INVARIANTS
  InFlightAddressable
CHECK_DEADLOCK FALSE
