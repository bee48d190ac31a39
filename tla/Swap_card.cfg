SPECIFICATION MCSpec
CONSTANTS
  xlm = xlm
  usdc = usdc
  eurc = eurc
  alice = alice
  bob = bob
  Tokens = {xlm, usdc}
  FirstPair <- XlmUsdc
  Amounts = {1, 2}
  Limits = {5, 6}
  NoQuote = NoQuote
  MaxMounts = 2
  MaxTxs = 2
  MaxEdits = 2
  MaxQuotes = 2
  Accounts = {alice, bob}
  Assets = {usdc, eurc}
  Common = {usdc}
  Catalog = {usdc}
  NoOne = NoOne
  MaxSwitches = 2
  MaxReads = 3
  Trades <- TwoTrades
  NoRow = NoRow
  Cut = TRUE
  Overlap = TRUE
  MaxRuns = 1
  MaxCrashes = 1
  Swaps <- SomeSwaps
  Wallets = {alice, bob}
  NoWallet = NoWallet
  PageSize = 1
  MaxCalls = 4
  MaxTimers = 2
INVARIANTS SwapsMatchQuotes OutcomesAreTracked  TradesExact HistoryIsWhole
PROPERTIES NothingKnownIsForgotten
CHECK_DEADLOCK FALSE
