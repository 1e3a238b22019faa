\* Two pings in batches of one, two flushes at a time, a clock that outruns the
\* window, one fault and a membership lost and regained.
SPECIFICATION FairSpec
CONSTANTS
    c1 = c1
    c2 = c2
    f1 = f1
    f2 = f2
    Circles <- MCCircles
    Flushes <- MCFlushes
    MaxBatch = 1
    MaxDelay = 1
    Window = 2
    Keep = 1
    Retention <- MCRetention
    MaxTime = 3
    MaxPings = 2
    MaxFaults = 1
    MaxMoves = 2
INVARIANTS
    NothingLost
PROPERTIES
    MapNeverGoesBack
    DrainsUnlessRefused
