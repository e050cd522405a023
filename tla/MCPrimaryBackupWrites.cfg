SPECIFICATION Spec
CONSTANTS
    NumNodes = 3
    Nil = Nil
    Puts = {w1, w2}
    Doors = {0, 1}
    Crashable = {0}
    Restartable = {0}
    Monitors = {1}
    Beaters = {0}
    CrashOnce = TRUE
    MayMisjudge = TRUE
    MaxClock = 5
    MaxBeat = 1
    MaxBeats = 1
    MaxLaunched = 1
VIEW StoreView
SYMMETRY Writes
CHECK_DEADLOCK FALSE
INVARIANT AckedStays
PROPERTIES TimestampsOrdered
