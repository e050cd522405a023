SPECIFICATION Spec
CONSTANTS
    NumNodes = 3
    Nil = Nil
    Puts = {w1, w2}
    Doors = {0, 2}
    Crashable = {}
    Restartable = {}
    Monitors = {}
    Beaters = {}
    CrashOnce = TRUE
    MayMisjudge = FALSE
    MaxClock = 4
    MaxBeat = 0
    MaxBeats = 0
    MaxLaunched = 1
VIEW StoreView
SYMMETRY Writes
CHECK_DEADLOCK FALSE
INVARIANT ReplicasAgree
