CONSTANTS
    MaxHops = 3
    MaxMultiHop = 50
    MaxDirect = 0
    MaxSplits = 3
    Excluded = {}
    MinReserve = 10
    SplitThreshold = 5
    CompetitiveDelta = 50
    MinOutShare = 500
    MinInShare = 1000
    RateTolerance = 500
    MinImprovement = 5
    SplitExtra = 150
    Fractions = {5000, 9500}
    Requests = {r1, r2}
    Queries <- Asks
    Snapshots <- History
    ClassicPairs <- Classic
    Chain <- Pools
    Asked = {0, 27}
    RpcPools = 1
    BuildDust = 1000
    MaxMisses = 1
SYMMETRY Symmetric
SPECIFICATION Spec
CHECK_DEADLOCK FALSE
INVARIANTS
    RouteIsWhole
    QuotesBuild
