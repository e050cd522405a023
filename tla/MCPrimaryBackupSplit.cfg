SPECIFICATION Spec
CONSTANTS
    NumNodes = 3
    Nil = Nil
    Puts = {}
    Doors = {}
    Crashable = {}
    Restartable = {}
    Monitors = {1, 2}
    Beaters = {0}
    CrashOnce = TRUE
    MayMisjudge = TRUE
    MaxClock = 5
    MaxBeat = 2
    MaxBeats = 1
    MaxLaunched = 1
VIEW View
CHECK_DEADLOCK FALSE
INVARIANT OneElected
