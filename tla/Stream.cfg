SPECIFICATION StreamFairSpec
CONSTANTS
  t1 = t1
  t2 = t2
  none = none
  s1 = s1
  Turns <- TwoTurns
  NoTurn = none
  Sessions <- OneSession
  SessionOf <- BothInFirst
  Capacity = 1
  MaxEvents = 3
INVARIANTS
  CompleteBeforeTerminal
  SpansWellFormed
  NoStaleSink
PROPERTIES
  TurnAnswered
CHECK_DEADLOCK FALSE
