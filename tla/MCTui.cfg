SPECIFICATION Spec
CONSTANTS
    Enter = Enter
    Typed = {2, 3, 4, 5}
    MaxGame = 48
CHECK_DEADLOCK FALSE
INVARIANTS TypeOK VerdictTrue FairPlay
PROPERTIES GameEnds
