\* Two pings in one batch; the clock outruns the window while the phone is offline.
SPECIFICATION FairSpec
CONSTANTS
    c1 = c1
    c2 = c2
    f1 = f1
    f2 = f2
    Circles <- MCCircles
    Flushes = {f1}
    MaxBatch = 2
    MaxDelay = 0
    Window = 1
    Keep = 1
    Retention <- MCRetention
    MaxTime = 2
    MaxPings = 2
    MaxFaults = 0
    MaxMoves = 0
PROPERTY StalePingsGo
