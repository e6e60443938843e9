SPECIFICATION DaemonSpec
CONSTANTS
  a1 = a1
  none = none
  r1 = r1
  r2 = r2
  l1 = l1
  l2 = l2
  gateway = gateway
  Autos <- OneAuto
  NoAuto = none
  Runs <- TwoRuns
  Loops <- TwoLoops
  Ceilings <- NoOrOne
  Gates <- OffOrTwo
  MaxEdits = 2
  Critical <- OneTask
  MaxRetries = 1
  MaxBoots = 2
  EarlyRequests = FALSE
INVARIANTS
  ScheduleKept
  RunsCounted
  NeverForgotten
  RestartsBounded
  OpenRunsLive
PROPERTIES
  VerifiedSuccess
CHECK_DEADLOCK FALSE
SYMMETRY Symmetry
