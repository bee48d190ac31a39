SPECIFICATION MCSpec
CONSTANTS
  XLM = XLM
  USD = USD
  EUR = EUR
  pair = pair
  comet = comet
  sushi = sushi
  ann = ann
  bot = bot
  Users = {ann, bot}
  Tokens = {XLM, USD, EUR}
  Venues = {pair, comet, sushi}
  Vault = Vault
  Agg = Agg
  Kind <- KindOf
  NoCall = NoCall
  I128Max = 2000
  Legs <- SomeLegs
  Minimums = {0, 3}
  Payments = {0, 1, 3}
  Endowment <- Endowed
  MaxFund = 1
  MaxCalls = 3
  MaxLedger = 2
  pa = pa
  pb = pb
  pc = pc
  pd = pd
  None = None
  Pools <- FourPools
  Markets <- TwoMarkets
  Routings <- SomeRoutings
  Samples = {}
  MinAmount = 4
  MaxAmount = 12
  ProbeAmount = 6
  MinProfit = 1
  MaxAge = 0
  Fees = {1, 3}
  Unit = 2
  MinPrice = 1
  MaxPrice = 3
  Fallback = 3
  Marks = {2, 4}
  Balances = {3, 8}
  Configs <- SomeConfigs
  MaxMoves = 1
  MaxFailures = 1
  Keys = 3
  DayOf <- DayOfDimension
  MaxPending = 2
  BatchSize = 1
  MaxRows = 1
  RetainedDays = 0
  MaxRecords = 4
  MaxDays = 2
  Bases = {"XLM", "USDC"}
  NoText = NoText
  Texts <- TwoTexts
  MaxRestarts = 1
  Bridges = {"XLM", "USDC"}
  Cycle <- BothWays
  Workers = 1
  Capacity = 1
  MinWindows = 2
  MinOpps = 1
  Modes <- ThreeModes
  MaxScans = 2
  VenueRoutes = {"soroswap", "comet"}
  Polls = TRUE
  MaxRecent = 1
  MaxRoutes = 1
  NoReport = NoReport
  Txs = {1, 2}
  BaseOf <- TwoBases
  RouteOf <- TwoRoutes
INVARIANTS LegsAddUp TripsAreJudgedTrue AttemptsAccounted FunnelIsTold ProfitIsTold
 
CHECK_DEADLOCK FALSE
