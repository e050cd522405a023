------------------------------- MODULE MCRaft -------------------------------
(***************************************************************************)
(* Module Raft on three nodes.  The elections a run may see are one of the *)
(* sets below; n3 only votes.                                              *)
(***************************************************************************)
EXTENDS Raft, TLC

CONSTANTS n1, n2, n3

\* One leader, never challenged.
OneTerm == {<< n1, 1 >>}

\* The first leader comes back with what it wrote in its first term.
ThreeTerms == {<< n1, 1 >>, << n2, 2 >>, << n1, 3 >>}

\* Two candidates compete, twice.
Rivals == {n1, n2} \X {1, 2}

-----------------------------------------------------------------------------
(***************************************************************************)
(* States that differ only in what no step reads any more are one state:   *)
(* replies to an election or a leadership that is over, the vote count of  *)
(* a node that is no candidate, and the replication state of a node that   *)
(* does not lead (becomeLeader resets it); and the history of votes, which *)
(* no action reads.                                                        *)
(***************************************************************************)
Where(st, f) == [n \in {p \in Node : state[p] = st} |-> f[n]]

View ==
    << currentTerm, votedFor, log, state, armed, Where("Candidate", votes),
       commitIndex, Where("Leader", nextIndex), Where("Leader", matchIndex),
       dead, {m \in msgs : ~Inert(m)} >>

\* The runs about votes also tell apart the votes cast so far.
ElectionView == << View, ballots >>
=============================================================================
