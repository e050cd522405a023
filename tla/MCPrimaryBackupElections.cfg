SPECIFICATION Spec
CONSTANTS
    NumNodes = 3
    Nil = Nil
    Puts = {}
    Doors = {}
    Crashable = {0}
    Restartable = {}
    Monitors = {1, 2}
    Beaters = {0, 1, 2}
    CrashOnce = TRUE
    MayMisjudge = FALSE
    MaxClock = 5
    MaxBeat = 4
    MaxBeats = 2
    MaxLaunched = 1
VIEW View
CHECK_DEADLOCK FALSE
INVARIANTS TypeOK OneWinner
