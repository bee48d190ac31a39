SPECIFICATION LiveSpec
CONSTANTS
  Keys <- OneDca
  NoTerms = NoTerms
  U32Max = 9
  MaxLedger = 4
  MaxExpiry = 5
  Deposits = {1, 2}
  Intervals = {1}
  Rates = {4}
  Span = 2
  MaxEvents = 9
  MaxFill = 0
  ReclaimOn = TRUE
  BuilderStep = 0
  I128Max = 6
  NoOrder = NoOrder
  NoFile = NoFile
  NoTx = NoTx
  MaxCrashes = 1
INVARIANTS NoOpenOrderForgotten CaughtUpBookExact
PROPERTIES ExpiredReclaimed DueChunkExecuted
CHECK_DEADLOCK FALSE
