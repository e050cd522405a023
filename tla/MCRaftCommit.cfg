SPECIFICATION Spec
CONSTANTS
    n1 = n1
    n2 = n2
    n3 = n3
    Node = {n1, n2, n3}
    Nil = Nil
    Command = {cmd}
    Killable = {}
    Lapses = {}
    Contests <- ThreeTerms
    MaxLog = 1
    MaxInFlight = 1
VIEW View
CHECK_DEADLOCK FALSE
INVARIANTS LogWellFormed LogMatching StateMachineSafety LeaderCompleteness
PROPERTIES NothingUndone ImplementsReplicatedLog
