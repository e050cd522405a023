--------------------------- MODULE ReplicatedLog ---------------------------
(***************************************************************************)
(* What the consensus core promises to the key-value servers on top of it: *)
(* one sequence of chosen entries that only ever grows, and nodes that     *)
(* each know a growing prefix of it.  There are no leaders, terms or       *)
(* messages here.                                                          *)
(***************************************************************************)
EXTENDS Integers, Sequences, SequencesExt

CONSTANT Node

VARIABLES
    chosen,   \* the entries chosen so far
    known     \* [Node -> Nat]: how many of them each node knows are chosen

Init == chosen = << >> /\ known = [n \in Node |-> 0]

\* A node learns of more chosen entries.  Whoever chooses new ones knows them.
Learn(n) ==
    /\ known[n] < known'[n]
    /\ known' = [known EXCEPT ![n] = known'[n]]
    /\ IsPrefix(chosen, chosen')
    /\ IF chosen' = chosen THEN known'[n] <= Len(chosen)
                          ELSE known'[n] = Len(chosen')

Next == \E n \in Node : Learn(n)

Spec == Init /\ [][Next]_<< chosen, known >>
=============================================================================
