SPECIFICATION Spec
CONSTANTS
    p1 = p1
    p2 = p2
    p3 = p3
    w1 = w1
    Scenarios <- ClmmWatching
    Workers = {w1}
    QueueCapacity = 1
    MaxCatchup = 2
    MaxTouched = 2
INVARIANTS
    ClmmTouchesAreFollowed
CHECK_DEADLOCK FALSE
