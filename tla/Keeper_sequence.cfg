SPECIFICATION LiveSpec
CONSTANTS
  Keys <- OneLimit
  NoTerms = NoTerms
  U32Max = 9
  MaxLedger = 4
  MaxExpiry = 3
  Deposits = {1, 2}
  Intervals = {1}
  Rates = {0}
  Span = 2
  MaxEvents = 9
  MaxFill = 0
  ReclaimOn = TRUE
  BuilderStep = 1
  I128Max = 6
  NoOrder = NoOrder
  NoFile = NoFile
  NoTx = NoTx
  MaxCrashes = 1
PROPERTY ExpiredReclaimed
CHECK_DEADLOCK FALSE
