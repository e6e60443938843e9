CONSTANTS
  s1 = s1
  s2 = s2
  Senders <- TwoSenders
  BufferSize = 2
  MaxSeq = 3
  MaxConns = 3
  MaxRestarts = 1
  OtherTurns <- AllOthers
SPECIFICATION DeliverySpec
CHECK_DEADLOCK FALSE
SYMMETRY TaskSymmetry
INVARIANTS
  DeliveryTypeOK
  NoSilentGap
  NumbersAccounted
  OwnConnection
  GivenOnce
  CursorCovers
  LiveFramesArrive
