CONSTANTS
  sonnet = sonnet
  haiku = haiku
  gpt = gpt
  anthropic = anthropic
  openai = openai
  empty = empty
  Models <- ModelIds
  NoModel = empty
  ProviderOf <- Providers
  Default = sonnet
  Override = sonnet
  Fallbacks <- ThreeFallbacks
  Classes <- FailureClasses
  MaxSteps = 2
  MaxRetries = 2
  MaxAttempts = 4
  HealthGated = TRUE
SPECIFICATION FairSpec
CHECK_DEADLOCK FALSE
INVARIANTS
  BudgetAddsUp
  FurthestIsReturned
  SwapLeavesPrimary
  CheckpointIsFurthest
PROPERTIES
  RetryDiscipline
  LadderEnds
