SPECIFICATION Spec
CONSTANTS
    n1 = n1
    n2 = n2
    n3 = n3
    Node = {n1, n2, n3}
    Nil = Nil
    Command = {cmd}
    Killable = {}
    Lapses = {n1}
    Contests <- Rivals
    MaxLog = 1
    MaxInFlight = 1
VIEW ElectionView
CHECK_DEADLOCK FALSE
INVARIANTS TypeOK VoteOncePerTerm ElectionSafety TimerArmed
