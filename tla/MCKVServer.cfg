SPECIFICATION Spec
CONSTANTS
    n1 = n1
    n2 = n2
    p1 = p1
    p2 = p2
    p3 = p3
    Node = {n1, n2}
    Nil = Nil
    Puts = {p1, p2, p3}
    Request <- Requests
    Contests <- InTurn
    Appliers = {n1}
    ChanCap = 1
    MaxLog = 3
VIEW View
CHECK_DEADLOCK FALSE
INVARIANTS TypeOK AnswerTrue ReadYourWrites StoreReplays
