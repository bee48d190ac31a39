CONSTANTS
    Q96 = 64
    MinTick <- LowTick
    MaxTick = 7
    TickSpacing = 1
    SqrtRatio <- SqrtRatios
    ChunkTicks = 2
    WordBits = 2
    Fee <- Fees
    FeeDenominator = 100
    MaxIterations = 30
    ScanWords = 1
    TickBatch = 3
    Candidates <- AllPositions
    FirstPositions <- StartPositions
    TradeAmounts = {4, 30}
    MaxTrades = 2
    MaxProvides = 1
    MaxJobs = 2
    MaxFailures = 1
    CurvePools <- SomePools
    CurveAmounts = {1, 7, 25, 60}
    MaxSwaps = 3
    FeeUnit = 10000
    Stroop = 100
    Bone = 10000
    TermFloor = 1
    Iterations = 255
    Terms = 50
SPECIFICATION MCSpec
CHECK_DEADLOCK FALSE
INVARIANTS
    AllowedQuotesAreExact
    
