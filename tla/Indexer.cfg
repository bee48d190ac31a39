SPECIFICATION LiveSpec
CONSTANTS
  NoTerms = NoTerms
  U32Max = 9
  Intervals = {1}
  Rates = {0}
  MaxEvents = 3
  StartLedger = 0
  NoRow = NoRow
  Keys <- OneDca
  MaxLedger = 3
  MaxExpiry = 3
  Deposits = {1, 3}
  Span = 2
  Lookback = 1
  Backfills = 1
  MaxOldest = 2
  MaxCrashes = 1
INVARIANTS ClosedRowsAreFinal CaughtUpRowsExact
PROPERTIES EndsAreShown
CHECK_DEADLOCK FALSE
