SPECIFICATION LiveSpec
CONSTANTS
  a1 = a1
  a2 = a2
  r1 = r1
  c1 = c1
  NoTx = NoTx
  Attempts <- TwoAttempts
  Routes <- OneRoute
  Callers <- OneCaller
  Polls = TRUE
  MaxSeq = 1
  Outlast = FALSE
  SameBytes = FALSE
  MaxCrashes = 1
INVARIANTS OneAttemptPerRoute NothingUnrecorded FinalTellsChain AccountedOnce
PROPERTIES LandedSettles
CHECK_DEADLOCK FALSE
