SPECIFICATION Spec
CONSTANTS
    x1 = x1
    x2 = x2
    o1 = o1
    Client = {x1, x2, o1}
    Wants <- TwoForX
    Nil = Nil
    boardRows = 1
    boardCols = 4
    boardM = 2
    initialCol <- Openings
    Lines <- Typing
    MaxLines = 1
    Crashers = {x1}
CHECK_DEADLOCK FALSE
INVARIANT XMovesFirst
