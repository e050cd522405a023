-------------------------- MODULE MCPrimaryBackup --------------------------
(***************************************************************************)
(* Module PrimaryBackup with interchangeable writes.                       *)
(***************************************************************************)
EXTENDS PrimaryBackup, TLC

Writes == Permutations(Puts)

-----------------------------------------------------------------------------
(***************************************************************************)
(* States that differ only in what no step reads any more are one state:   *)
(* the memory of a crashed node, what is on its way to one, the snapshot   *)
(* of a node that is no candidate, an answer nobody waits for, whom a node *)
(* is told to follow that stays primary or that neither monitors nor       *)
(* redirects, the clock of a backup once no node is left that follows one, *)
(* how a Put failed, the timestamp of one that has and is on its way to    *)
(* nobody, and what a Put that is over, or whose primary is gone, was      *)
(* waiting for.                                                            *)
(***************************************************************************)
Of(f, S) == [x \in S |-> f[x]]

Candidates == {n \in Live : role[n] = "Candidate"}

Settled == {n \in Node : role[n] = "Primary" /\ (n = 0 \/ n \notin Restartable)}

\* The nodes that may read which primary they believe in.
Followers == (Doors \cup Monitors) \ Settled

\* The nodes that may yet suspect someone and stand.
Watchers == (Live \cap Monitors) \ Settled

\* The nodes whose clock may decide about a timestamp or an election.
Clocked ==
    {n \in Live : Followers = {} => role[n] = "Primary" \/ n \in Beaters}

Heeded(m) ==
    /\ m.to \in Reachable
    /\ IF m.type = "reply" THEN Asking(m.to, m) ELSE m.ask \/ m.to \in Followers

Waiting == {w \in Puts : pc[w] = "sent" /\ at[w] \in Live}

Under == {w \in Puts : pc[w] = "redirected"} \cup Waiting

Arriving == {c \in calls : c[2] \in Reachable}

Stamped == {w \in Puts : pc[w] \in {"sent", "ok"} \/ \E c \in Arriving : c[1] = w}

View ==
    << crashed, reborn, Of(role, Live), Of(primaryID, Live \cap Followers),
       Of(clk, Clocked), Of(launched, Watchers), Of(lastSeen, Watchers),
       Of(electionTs, Candidates), Of(asked, Candidates),
       {m \in msgs : Heeded(m)},
       {b \in beats : b.to \in Reachable}, Arriving,
       [w \in Puts |-> IF pc[w] = "unserved" THEN "error" ELSE pc[w]],
       Of(ts, Stamped), Of(at, Under), Of(await, Waiting), Of(failed, Waiting) >>

\* The runs about the replicas also tell their values apart, where nothing has
\* been forgotten, and which writes were acknowledged before one began.
StoreView ==
    << View, [n \in Node \ reborn |-> store[n].value],
       [w \in Puts |-> {v \in before[w] : pc[v] = "ok"}] >>
=============================================================================
