CONSTANTS
  s1 = s1
  s2 = s2
  Senders <- OneSender
  BufferSize = 2
  MaxSeq = 2
  MaxConns = 2
  MaxRestarts = 0
  OtherTurns <- NoOthers
SPECIFICATION DeliverySpec
CHECK_DEADLOCK FALSE
INVARIANT
  ResumeFillsGap
