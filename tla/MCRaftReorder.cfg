SPECIFICATION Spec
CONSTANTS
    n1 = n1
    n2 = n2
    n3 = n3
    Node = {n1, n2, n3}
    Nil = Nil
    Command = {cmd}
    Killable = {n1}
    Lapses = {}
    Contests <- OneTerm
    MaxLog = 3
    MaxInFlight = 2
VIEW View
CHECK_DEADLOCK FALSE
INVARIANTS PeerTracking CommittedOnQuorum
PROPERTIES NothingUndone
