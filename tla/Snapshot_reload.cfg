SPECIFICATION FairSpec
CONSTANTS
    Backends = {"redis", "memory"}
    KeepLatest = 2
    MaxDiscoveries = 2
    MaxDrops = 1
    MaxErrors = 1
INVARIANTS
    LoadFailsOnlyWhenOutrun
PROPERTIES
    ServedMovesForward
    CurrentUnlessMissed
CHECK_DEADLOCK FALSE
