SPECIFICATION Spec
CONSTANTS
  o1 = o1
  XLM = XLM
  USDC = USDC
  Owners = {o1}
  Tokens = {XLM, USDC}
  Escrow = Escrow
  Market = Market
  NoTerms = NoTerms
  Rates = {3}
  RateScale = 2
  MaxOrderLifetime = 2
  I128Max = 5
  U32Max = 4
  MaxOrders <- OneOfEach
  MaxLedger = 3
  MaxInterval = 1
  Pairs <- BothWays
  Amounts = {1, 2}
  MaxOut = 2
  Endowment = 3
INVARIANTS DepositConserved RateShortfallBounded DcaOnSchedule
PROPERTIES HoldingsFollowOneOrder ImplementsCustody ImplementsLifecycle
CHECK_DEADLOCK FALSE
