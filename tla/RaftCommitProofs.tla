-------------------------- MODULE RaftCommitProofs --------------------------
(***************************************************************************)
(* Proofs about commitment in module Raft, for every cluster and every     *)
(* bound: what a node considers committed is never lost or contradicted,   *)
(* and so the core implements module ReplicatedLog: whatever the           *)
(* elections, calls and losses, the key-value servers see one sequence of  *)
(* chosen entries that only grows, each of them a growing prefix of it.    *)
(*                                                                         *)
(* Besides the record h of the leaders' logs (module RaftProofs) the       *)
(* argument needs to know what each node has acknowledged in each term,    *)
(* also terms it has left.  The invariant says that such a record exists:  *)
(* a[p][t] is the highest index up to which p has confirmed the log of the *)
(* leader of term t.                                                       *)
(***************************************************************************)
EXTENDS RaftProofs

Acks == [Node -> [Nat -> Nat]]

-----------------------------------------------------------------------------
(* Entries that are or may become committed *)

\* Entry i of term t's leader is of term t itself.
Own(h, t, i) == i \in 1..Len(h[t]) /\ h[t][i].term = t

\* A majority confirmed entry i of term t, or may still do so.
MayCommit(a, t, i) ==
    Cardinality({p \in Node : currentTerm[p] <= t \/ i <= a[p][t]}) >= Quorum

Live(h, a, t, i) == Own(h, t, i) /\ MayCommit(a, t, i)

\* A majority confirmed it: the leader of t may count it as committed.
Fixed(h, a, t, i) ==
    Own(h, t, i) /\ Cardinality({p \in Node : i <= a[p][t]}) >= Quorum

\* The first k entries of l are covered by a fixed entry of a term up to u.
Settled(h, a, l, k, u) ==
    \/ k = 0
    \/ \E t \in 0..u, i \in Nat :
          Fixed(h, a, t, i) /\ k <= i /\ SamePrefix(l, h[t], k)

-----------------------------------------------------------------------------
(* The invariant *)

\* Nobody confirms more than there is, or a term it has not reached.
AcksBounded(h, a) ==
    \A p \in Node, t \in Nat :
        a[p][t] <= Len(h[t]) /\ (a[p][t] > 0 => t <= currentTerm[p])

\* What a node has confirmed in its current term it has.
AckedNow(h, a) ==
    \A p \in Node : SamePrefix(log[p], h[currentTerm[p]], a[p][currentTerm[p]])

\* What it has confirmed in any term it keeps, as long as it matters.
AckedKept(h, a) ==
    \A p \in Node, t \in Nat, i \in Nat :
        Live(h, a, t, i) /\ i <= a[p][t] => SamePrefix(log[p], h[t], i)

\* Later leaders have every entry that is or may become committed.
Complete(h, a) ==
    \A t, u \in Nat, i \in Nat :
        t < u /\ h[u] # << >> /\ Live(h, a, t, i) => SamePrefix(h[u], h[t], i)

\* n stands in term t, which has no leader yet.
Standing(h, n, t) == state[n] = "Candidate" /\ currentTerm[n] = t /\ h[t] = << >>

\* A candidate's log covers what its voters had confirmed before they voted.
BallotBacked(b, h, a) ==
    /\ b.term <= currentTerm[b.cand]
    /\ Standing(h, b.cand, b.term) =>
         \A t \in Nat, i \in Nat :
            t < b.term /\ Live(h, a, t, i) /\ i <= a[b.voter][t]
                => SamePrefix(log[b.cand], h[t], i)

BallotsBacked(h, a) == \A b \in ballots : BallotBacked(b, h, a)

\* A vote request describes the log of its sender; a successful reply stands
\* for a confirmation; a call's leaderCommit is settled within the call.
MessageHonest(m, h, a) ==
    /\ m.type = "RequestVote" =>
         /\ m.term <= currentTerm[m.from]
         /\ Standing(h, m.from, m.term) =>
              m.lastLogIndex = Len(log[m.from]) /\ m.lastLogTerm = LastTerm(log[m.from])
    /\ m.type = "AppendEntriesReply" /\ m.success => m.newMatch <= a[m.from][m.sentTerm]
    /\ m.type = "AppendEntries" =>
         /\ m.leaderCommit <= m.prevLogIndex + Len(m.entries)
         /\ Settled(h, a, h[m.term], m.leaderCommit, m.term)

MessagesHonest(h, a) == \A m \in msgs : MessageHonest(m, h, a)

\* A leader believes no more of its peers than they confirmed.
MatchTrue(a) ==
    \A n \in Node : state[n] = "Leader" =>
        /\ a[n][currentTerm[n]] = Len(log[n])
        /\ \A p \in Node \ {n} : matchIndex[n][p] <= a[p][currentTerm[n]]

\* What a node considers committed is settled.
CommitsSettled(h, a) ==
    \A n \in Node : Settled(h, a, log[n], commitIndex[n], currentTerm[n])

CommitInv(h, a) ==
    /\ a \in Acks
    /\ AcksBounded(h, a) /\ AckedNow(h, a) /\ AckedKept(h, a) /\ Complete(h, a)
    /\ BallotsBacked(h, a) /\ MessagesHonest(h, a) /\ MatchTrue(a) /\ CommitsSettled(h, a)

-----------------------------------------------------------------------------
(* Consequences *)

\* A set that contains a majority is one.
LEMMA QuorumMore ==
    ASSUME NEW Q, NEW R, Q \subseteq R, R \subseteq Node, Cardinality(Q) >= Quorum
    PROVE  Cardinality(R) >= Quorum
  <1>1. IsFiniteSet(R)
    BY NodeAssumption, FS_Subset
  <1>2. IsFiniteSet(Q) /\ Cardinality(Q) <= Cardinality(R)
    BY <1>1, FS_Subset
  <1>3. Cardinality(Node) \in Nat /\ Cardinality(Q) \in Nat /\ Cardinality(R) \in Nat
    BY <1>1, <1>2, NodeAssumption, FS_CardinalityType
  <1> QED
    BY <1>2, <1>3 DEF Quorum

\* A fixed entry is a live one.
LEMMA FixedLive ==
    ASSUME NEW h, NEW a, NEW t, NEW i, Fixed(h, a, t, i)
    PROVE  Live(h, a, t, i)
  <1> DEFINE Q == {p \in Node : i <= a[p][t]}
             R == {p \in Node : currentTerm[p] <= t \/ i <= a[p][t]}
  <1>1. Q \subseteq R /\ R \subseteq Node
    OBVIOUS
  <1>2. Cardinality(Q) >= Quorum /\ Own(h, t, i)
    BY DEF Fixed
  <1> HIDE DEF Q, R
  <1>3. Cardinality(R) >= Quorum
    BY <1>1, <1>2, QuorumMore
  <1> QED
    BY <1>2, <1>3 DEF Live, MayCommit, R

\* Where the entries of a log that is settled come from.
LEMMA SettledAt ==
    ASSUME NEW h \in LeaderLogs, NEW a, NEW l \in Seq(EntryType), NEW k \in Nat,
           NEW u \in Nat, Settled(h, a, l, k, u), k > 0
    PROVE  \E t \in Nat, i \in Nat :
              /\ t <= u /\ Fixed(h, a, t, i) /\ Live(h, a, t, i) /\ k <= i
              /\ h[t] \in Seq(EntryType) /\ SamePrefix(l, h[t], k) /\ k <= Len(l)
  <1>1. PICK t \in 0..u, i \in Nat : Fixed(h, a, t, i) /\ k <= i /\ SamePrefix(l, h[t], k)
    BY DEF Settled
  <1>2. t \in Nat /\ t <= u /\ h[t] \in Seq(EntryType)
    BY DEF LeaderLogs
  <1>3. k <= Len(l)
    BY <1>1 DEF SamePrefix
  <1> QED
    BY <1>1, <1>2, <1>3, FixedLive

\* A settled prefix lies within its log.
LEMMA SettledBound ==
    ASSUME NEW h \in LeaderLogs, NEW a, NEW l \in Seq(EntryType), NEW k \in Nat,
           NEW u \in Nat, Settled(h, a, l, k, u)
    PROVE  k <= Len(l)
  <1>1. Len(l) \in Nat
    BY LenProperties
  <1> QED
    BY <1>1, SettledAt

\* A log that the leader of term u agrees with on a settled prefix.
LEMMA SettledLeader ==
    ASSUME NEW h \in LeaderLogs, NEW a, Complete(h, a), NEW l \in Seq(EntryType),
           NEW k \in Nat, NEW u \in Nat, NEW v \in Nat, u <= v, h[v] # << >>,
           Settled(h, a, l, k, u)
    PROVE  SamePrefix(l, h[v], k)
  <1>1. h[v] \in Seq(EntryType)
    BY DEF LeaderLogs
  <1>2. CASE k = 0
    BY <1>1, <1>2, SamePrefixSelf
  <1>3. CASE k > 0
    <2>1. PICK t \in Nat, i \in Nat :
              /\ t <= u /\ Live(h, a, t, i) /\ k <= i
              /\ h[t] \in Seq(EntryType) /\ SamePrefix(l, h[t], k)
      BY <1>3, SettledAt
    <2>2. CASE t = v
      BY <2>1, <2>2
    <2>3. CASE t < v
      <3>1. SamePrefix(h[v], h[t], i)
        BY <2>1, <2>3 DEF Complete
      <3>2. SamePrefix(h[v], h[t], k)
        BY <1>1, <2>1, <3>1, SamePrefixLess
      <3> QED
        BY <2>1, <3>2, SamePrefixSym, SamePrefixTrans
    <2> QED
      BY <2>1, <2>2, <2>3
  <1> QED
    BY <1>2, <1>3

\* Two settled prefixes agree.
LEMMA SettledAgree ==
    ASSUME NEW h \in LeaderLogs, NEW a, Complete(h, a),
           NEW l \in Seq(EntryType), NEW w \in Seq(EntryType), NEW k \in Nat, NEW j \in Nat,
           k <= j, NEW u \in Nat, NEW v \in Nat,
           Settled(h, a, l, k, u), Settled(h, a, w, j, v)
    PROVE  SamePrefix(l, w, k)
  <1>1. CASE k = 0
    BY <1>1, SamePrefixSelf
  <1>2. CASE k > 0
    <2>1. PICK t \in Nat, i \in Nat :
              /\ t <= u /\ Live(h, a, t, i) /\ k <= i
              /\ h[t] \in Seq(EntryType) /\ SamePrefix(l, h[t], k)
      BY <1>2, SettledAt
    <2>2. PICK s \in Nat, i2 \in Nat :
              /\ s <= v /\ Live(h, a, s, i2) /\ j <= i2
              /\ h[s] \in Seq(EntryType) /\ SamePrefix(w, h[s], j)
      BY <1>2, SettledAt
    <2>3. SamePrefix(w, h[s], k)
      BY <2>2, SamePrefixLess
    <2>4. SamePrefix(h[t], h[s], k)
      <3>1. i \in 1..Len(h[t]) /\ i2 \in 1..Len(h[s])
        BY <2>1, <2>2 DEF Live, Own
      <3>2. h[t] # << >> /\ h[s] # << >>
        BY <2>1, <2>2, <3>1, EmptySeq
      <3>3. CASE t = s
        <4>1. SamePrefix(h[t], h[t], Len(h[t])) /\ Len(h[t]) \in Nat /\ k <= Len(h[t])
          BY <2>1, <3>1, SamePrefixSelf, LenProperties
        <4> QED
          BY <2>1, <3>3, <4>1, SamePrefixLess
      <3>4. CASE t < s
        <4>1. SamePrefix(h[s], h[t], i)
          BY <2>1, <2>2, <3>2, <3>4 DEF Complete
        <4> QED
          BY <2>1, <2>2, <4>1, SamePrefixLess, SamePrefixSym
      <3>5. CASE s < t
        <4>1. SamePrefix(h[t], h[s], i2)
          BY <2>1, <2>2, <3>2, <3>5 DEF Complete
        <4>2. k <= i2
          BY <2>2
        <4> QED
          BY <2>1, <2>2, <4>1, <4>2, SamePrefixLess
      <3> QED
        BY <2>1, <2>2, <3>3, <3>4, <3>5
    <2> QED
      BY <2>1, <2>3, <2>4, SamePrefixSym, SamePrefixTrans
  <1> QED
    BY <1>1, <1>2

-----------------------------------------------------------------------------
(* How the records change *)

\* The records h and a become g and b in a step: logs grow, and nodes confirm
\* more of the log of the term they are in.
RecordStep(h, a, g, b) ==
    /\ Grows(h, g)
    /\ b \in Acks
    /\ \A p \in Node, t \in Nat :
          \/ b[p][t] = a[p][t]
          \/ a[p][t] <= b[p][t] /\ t = currentTerm'[p]

\* Confirmations are never taken back.
LEMMA AcksGrow ==
    ASSUME NEW h, NEW g, NEW a \in Acks, NEW b, RecordStep(h, a, g, b)
    PROVE  \A p \in Node, t \in Nat :
              a[p][t] \in Nat /\ b[p][t] \in Nat /\ a[p][t] <= b[p][t]
  <1>1. \A p \in Node, t \in Nat : a[p][t] \in Nat /\ b[p][t] \in Nat
    BY DEF Acks, RecordStep
  <1> QED
    BY <1>1 DEF RecordStep

\* The records may also stay as they are.
LEMMA RecordSame ==
    ASSUME NEW h \in LeaderLogs, NEW a \in Acks
    PROVE  RecordStep(h, a, h, a)
  <1>1. \A t \in Nat : SamePrefix(h[t], h[t], Len(h[t]))
    BY SamePrefixSelf DEF LeaderLogs
  <1> QED
    BY <1>1 DEF RecordStep, Grows

\* Entries that were there become no more likely to be committed.
LEMMA LiveBack ==
    ASSUME TypeInv, TypeInv', Monotone, NEW h \in LeaderLogs, NEW a \in Acks, NEW g, NEW b,
           RecordStep(h, a, g, b), NEW t \in Nat, NEW i \in Nat,
           Live(g, b, t, i)', i <= Len(h[t])
    PROVE  Live(h, a, t, i)
  <1> DEFINE Q == {p \in Node : currentTerm'[p] <= t \/ i <= b[p][t]}
             R == {p \in Node : currentTerm[p] <= t \/ i <= a[p][t]}
  <1>1. Own(g, t, i) /\ Cardinality(Q) >= Quorum
    BY DEF Live, MayCommit, Own, Quorum
  <1>2. Own(h, t, i)
    <2>1. h[t] \in Seq(EntryType) /\ SamePrefix(h[t], g[t], Len(h[t]))
      BY DEF LeaderLogs, RecordStep, Grows
    <2>2. Len(h[t]) \in Nat
      BY <2>1, LenProperties
    <2>3. i \in 1..Len(h[t])
      BY <1>1, <2>2 DEF Own
    <2> QED
      BY <1>1, <2>1, <2>3 DEF Own, SamePrefix
  <1>3. ASSUME NEW p \in Node, p \in Q PROVE p \in R
    <2>1. currentTerm[p] \in Nat /\ currentTerm'[p] \in Nat /\ currentTerm[p] <= currentTerm'[p]
      BY DEF TypeInv, TypeOK, Monotone
    <2>2. \/ b[p][t] = a[p][t]
          \/ t = currentTerm'[p]
      BY DEF RecordStep
    <2> QED
      BY <1>3, <2>1, <2>2
  <1>4. Q \subseteq R /\ R \subseteq Node
    BY <1>3
  <1> HIDE DEF Q, R
  <1>5. Cardinality(R) >= Quorum
    BY <1>1, <1>4, QuorumMore
  <1> QED
    BY <1>2, <1>5 DEF Live, MayCommit, R

\* A fixed entry stays fixed.
LEMMA FixedOn ==
    ASSUME NEW h \in LeaderLogs, NEW a \in Acks, NEW g, NEW b, RecordStep(h, a, g, b),
           NEW t \in Nat, NEW i \in Nat, Fixed(h, a, t, i)
    PROVE  Fixed(g, b, t, i)
  <1> DEFINE Q == {p \in Node : i <= a[p][t]}
             R == {p \in Node : i <= b[p][t]}
  <1>1. Own(h, t, i) /\ Cardinality(Q) >= Quorum
    BY DEF Fixed
  <1>2. Own(g, t, i)
    <2>1. /\ h[t] \in Seq(EntryType) /\ g[t] \in Seq(EntryType)
          /\ SamePrefix(h[t], g[t], Len(h[t]))
      BY DEF LeaderLogs, RecordStep, Grows
    <2>2. Len(h[t]) \in Nat /\ Len(g[t]) \in Nat
      BY <2>1, LenProperties
    <2> QED
      BY <1>1, <2>1, <2>2 DEF Own, SamePrefix
  <1>3. \A p \in Node : a[p][t] \in Nat /\ b[p][t] \in Nat /\ a[p][t] <= b[p][t]
    BY AcksGrow
  <1>4. Q \subseteq R /\ R \subseteq Node
    BY <1>3
  <1> HIDE DEF Q, R
  <1>5. Cardinality(R) >= Quorum
    BY <1>1, <1>4, QuorumMore
  <1> QED
    BY <1>2, <1>5 DEF Fixed, R

\* A common prefix survives the growth of the record.
LEMMA PrefixOn ==
    ASSUME NEW h \in LeaderLogs, NEW g, Grows(h, g), NEW l, NEW t \in Nat, NEW k \in Nat,
           SamePrefix(l, h[t], k)
    PROVE  SamePrefix(l, g[t], k)
  <1>1. /\ h[t] \in Seq(EntryType) /\ g[t] \in Seq(EntryType)
        /\ SamePrefix(h[t], g[t], Len(h[t])) /\ k <= Len(h[t])
    BY DEF LeaderLogs, Grows, SamePrefix
  <1>2. Len(h[t]) \in Nat
    BY <1>1, LenProperties
  <1>3. SamePrefix(h[t], g[t], k)
    BY <1>1, <1>2, SamePrefixLess
  <1> QED
    BY <1>3, SamePrefixTrans

\* A settled prefix stays settled, in any log that has it.
LEMMA SettledOn ==
    ASSUME NEW h \in LeaderLogs, NEW a \in Acks, NEW g, NEW b, RecordStep(h, a, g, b),
           NEW l \in Seq(EntryType), NEW w, NEW k \in Nat, NEW u \in Nat, NEW v \in Nat, u <= v,
           Settled(h, a, l, k, u), SamePrefix(l, w, k)
    PROVE  Settled(g, b, w, k, v)
  <1>1. CASE k = 0
    BY <1>1 DEF Settled
  <1>2. CASE k > 0
    <2>1. PICK t \in Nat, i \in Nat :
              t <= u /\ Fixed(h, a, t, i) /\ k <= i /\ SamePrefix(l, h[t], k)
      BY <1>2, SettledAt
    <2>2. Fixed(g, b, t, i)
      BY <2>1, FixedOn
    <2>3. SamePrefix(l, g[t], k)
      BY <2>1, PrefixOn DEF RecordStep
    <2>4. SamePrefix(w, g[t], k)
      BY <2>3, SamePrefixSym, SamePrefixTrans
    <2>5. t \in 0..v
      BY <2>1
    <2> QED
      BY <2>1, <2>2, <2>4, <2>5 DEF Settled
  <1> QED
    BY <1>1, <1>2

-----------------------------------------------------------------------------
(* What every step keeps *)

\* Candidates of terms that have no leader do not touch their logs.
StandersIdle(g) ==
    \A n \in Node : state'[n] = "Candidate" /\ g[currentTerm'[n]] = << >> => log'[n] = log[n]

\* Whoever stands after a step stood before it, with the same log.
LEMMA StandingBack ==
    ASSUME TypeInv, TypeInv', Monotone, NEW h \in LeaderLogs, NEW g, Grows(h, g),
           StandersIdle(g), NEW n \in Node, NEW t \in Nat, t <= currentTerm[n],
           Standing(g, n, t)'
    PROVE  Standing(h, n, t) /\ log'[n] = log[n]
  <1>1. state'[n] = "Candidate" /\ currentTerm'[n] = t /\ g[t] = << >>
    BY DEF Standing
  <1>2. currentTerm[n] \in Nat /\ currentTerm'[n] \in Nat /\ currentTerm[n] <= currentTerm'[n]
    BY DEF TypeInv, TypeOK, Monotone
  <1>3. currentTerm[n] = t
    BY <1>1, <1>2
  <1>4. state[n] = "Candidate" /\ log'[n] = log[n]
    BY <1>1, <1>3 DEF Monotone, StandersIdle
  <1>5. h[t] = << >>
    <2>1. h[t] \in Seq(EntryType) /\ SamePrefix(h[t], g[t], Len(h[t]))
      BY DEF LeaderLogs, Grows
    <2>2. Len(h[t]) \in Nat /\ Len(h[t]) <= 0
      BY <1>1, <2>1, LenProperties DEF SamePrefix
    <2> QED
      BY <2>1, <2>2, EmptySeq
  <1> QED
    BY <1>3, <1>4, <1>5 DEF Standing

\* Messages in flight stay honest.
LEMMA MessageOn ==
    ASSUME TypeInv, TypeInv', Monotone, NEW h \in LeaderLogs, NEW a \in Acks, NEW g, NEW b,
           RecordStep(h, a, g, b), StandersIdle(g), NEW m \in Message, MessageHonest(m, h, a)
    PROVE  MessageHonest(m, g, b)'
  <1>0. m.to \in Node /\ m.from \in Node /\ m.term \in Nat /\ Grows(h, g)
    BY MessageKinds DEF RecordStep
  <1>1. ASSUME m.type = "RequestVote"
        PROVE  /\ m.term <= currentTerm'[m.from]
               /\ Standing(g, m.from, m.term)' =>
                    /\ m.lastLogIndex = Len(log'[m.from])
                    /\ m.lastLogTerm = LastTerm(log'[m.from])
    <2>1. m.term <= currentTerm[m.from]
      BY <1>1 DEF MessageHonest
    <2>2. /\ currentTerm[m.from] \in Nat /\ currentTerm'[m.from] \in Nat
          /\ currentTerm[m.from] <= currentTerm'[m.from]
      BY <1>0 DEF TypeInv, TypeOK, Monotone
    <2>3. ASSUME Standing(g, m.from, m.term)'
          PROVE  Standing(h, m.from, m.term) /\ log'[m.from] = log[m.from]
      BY <1>0, <2>1, <2>3, StandingBack
    <2> QED
      BY <1>0, <1>1, <2>1, <2>2, <2>3 DEF MessageHonest
  <1>2. ASSUME m.type = "AppendEntriesReply", m.success
        PROVE  m.newMatch <= b[m.from][m.sentTerm]
    <2>1. m.newMatch \in Nat /\ m.sentTerm \in Nat
      BY <1>2, MessageKinds DEF AppendReplyType
    <2>2. /\ a[m.from][m.sentTerm] \in Nat /\ b[m.from][m.sentTerm] \in Nat
          /\ a[m.from][m.sentTerm] <= b[m.from][m.sentTerm]
      BY <1>0, <2>1, AcksGrow
    <2> QED
      BY <1>2, <2>1, <2>2 DEF MessageHonest
  <1>3. ASSUME m.type = "AppendEntries"
        PROVE  Settled(g, b, g[m.term], m.leaderCommit, m.term)
    <2>1. m.leaderCommit \in Nat
      BY <1>3, MessageKinds DEF AppendCallType
    <2>2. h[m.term] \in Seq(EntryType) /\ Settled(h, a, h[m.term], m.leaderCommit, m.term)
      BY <1>0, <1>3 DEF LeaderLogs, MessageHonest
    <2>3. m.leaderCommit <= Len(h[m.term]) /\ Len(h[m.term]) \in Nat
      BY <1>0, <2>1, <2>2, SettledBound, LenProperties
    <2>4. SamePrefix(h[m.term], h[m.term], m.leaderCommit)
      BY <2>1, <2>2, <2>3, SamePrefixSelf, SamePrefixLess
    <2>5. SamePrefix(h[m.term], g[m.term], m.leaderCommit)
      BY <1>0, <2>1, <2>4, PrefixOn
    <2>6. m.term <= m.term
      BY <1>0
    <2> QED
      BY <1>0, <2>1, <2>2, <2>5, <2>6, SettledOn
  <1> QED
    BY <1>1, <1>2, <1>3 DEF MessageHonest, Settled, Fixed, Own, Quorum

\* Votes cast stay backed.
LEMMA BallotOn ==
    ASSUME ElectionInv, TypeInv', Monotone, NEW h \in LeaderLogs, NEW a \in Acks, NEW g, NEW b,
           RecordStep(h, a, g, b), StandersIdle(g), AcksBounded(h, a),
           NEW v \in ballots, BallotBacked(v, h, a)
    PROVE  BallotBacked(v, g, b)'
  <1>0. /\ TypeInv /\ v.voter \in Node /\ v.cand \in Node /\ v.term \in Nat /\ Grows(h, g)
        /\ v.term <= currentTerm[v.voter] /\ v.term <= currentTerm[v.cand]
    BY DEF ElectionInv, TypeInv, TypeOK, RecordStep, VoteRemembered, BallotBacked
  <1>1. \A n \in Node : /\ currentTerm[n] \in Nat /\ currentTerm'[n] \in Nat
                        /\ currentTerm[n] <= currentTerm'[n]
    BY <1>0 DEF TypeInv, TypeOK, Monotone
  <1>2. v.term <= currentTerm'[v.cand]
    BY <1>0, <1>1
  <1>3. ASSUME Standing(g, v.cand, v.term)', NEW t \in Nat, NEW i \in Nat,
               t < v.term, Live(g, b, t, i)', i <= b[v.voter][t]
        PROVE  SamePrefix(log'[v.cand], g[t], i)
    <2>1. Standing(h, v.cand, v.term) /\ log'[v.cand] = log[v.cand]
      BY <1>0, <1>3, StandingBack
    <2>2. b[v.voter][t] = a[v.voter][t]
      <3>1. t # currentTerm'[v.voter]
        BY <1>0, <1>1, <1>3
      <3> QED
        BY <1>0, <3>1 DEF RecordStep
    <2>3. i <= Len(h[t])
      <3>1. a[v.voter][t] \in Nat /\ a[v.voter][t] <= Len(h[t]) /\ Len(h[t]) \in Nat
        BY <1>0, LenProperties DEF Acks, AcksBounded, LeaderLogs
      <3> QED
        BY <1>3, <2>2, <3>1
    <2>4. Live(h, a, t, i)
      BY <1>0, <1>3, <2>3, LiveBack
    <2>5. SamePrefix(log[v.cand], h[t], i)
      BY <1>3, <2>1, <2>2, <2>4 DEF BallotBacked
    <2> QED
      BY <1>0, <2>1, <2>5, PrefixOn
  <1> QED
    BY <1>2, <1>3 DEF BallotBacked

\* A node whose log and confirmations stay as they are.
LEMMA NodeOn ==
    ASSUME TypeInv, TypeInv', Monotone, NEW h \in LeaderLogs, NEW a \in Acks, NEW g, NEW b,
           RecordStep(h, a, g, b), AcksBounded(h, a), AckedNow(h, a), AckedKept(h, a),
           NEW p \in Node, log'[p] = log[p], b[p] = a[p]
    PROVE  /\ SamePrefix(log'[p], g[currentTerm'[p]], b[p][currentTerm'[p]])
           /\ \A t \in Nat, i \in Nat :
                 Live(g, b, t, i)' /\ i <= b[p][t] => SamePrefix(log'[p], g[t], i)
  <1>0. /\ currentTerm[p] \in Nat /\ currentTerm'[p] \in Nat /\ currentTerm[p] <= currentTerm'[p]
        /\ Grows(h, g) /\ log[p] \in Seq(EntryType)
    BY DEF TypeInv, TypeOK, Monotone, RecordStep
  <1>1. \A t \in Nat : /\ a[p][t] \in Nat /\ a[p][t] <= Len(h[t]) /\ Len(h[t]) \in Nat
                       /\ a[p][t] > 0 => t <= currentTerm[p]
    BY LenProperties DEF Acks, AcksBounded, LeaderLogs
  <1>2. SamePrefix(log'[p], g[currentTerm'[p]], b[p][currentTerm'[p]])
    <2>1. CASE currentTerm'[p] = currentTerm[p]
      <3>1. SamePrefix(log[p], h[currentTerm[p]], a[p][currentTerm[p]])
        BY DEF AckedNow
      <3> QED
        BY <1>0, <1>1, <2>1, <3>1, PrefixOn
    <2>2. CASE currentTerm'[p] # currentTerm[p]
      <3>1. b[p][currentTerm'[p]] = 0
        BY <1>0, <1>1, <2>2
      <3>2. g[currentTerm'[p]] \in Seq(EntryType)
        BY <1>0 DEF Grows, LeaderLogs
      <3> QED
        BY <1>0, <3>1, <3>2, SamePrefixSelf
    <2> QED
      BY <2>1, <2>2
  <1>3. ASSUME NEW t \in Nat, NEW i \in Nat, Live(g, b, t, i)', i <= b[p][t]
        PROVE  SamePrefix(log'[p], g[t], i)
    <2>1. i <= a[p][t] /\ i <= Len(h[t])
      BY <1>1, <1>3
    <2>2. Live(h, a, t, i)
      BY <1>3, <2>1, LiveBack
    <2>3. SamePrefix(log[p], h[t], i)
      BY <2>1, <2>2 DEF AckedKept
    <2> QED
      BY <1>0, <2>3, PrefixOn
  <1> QED
    BY <1>2, <1>3

\* Leaders of terms that had one before stay complete.
LEMMA CompleteOn ==
    ASSUME TypeInv, TypeInv', Monotone, NEW h \in LeaderLogs, NEW a \in Acks, NEW g, NEW b,
           RecordStep(h, a, g, b), Complete(h, a),
           NEW t \in Nat, NEW u \in Nat, NEW i \in Nat, t < u, h[u] # << >>,
           Live(g, b, t, i)', i <= Len(h[t])
    PROVE  SamePrefix(g[u], g[t], i)
  <1>1. Live(h, a, t, i) /\ Grows(h, g)
    BY LiveBack DEF RecordStep
  <1>2. SamePrefix(h[u], h[t], i)
    BY <1>1 DEF Complete
  <1>3. SamePrefix(h[u], g[t], i)
    BY <1>1, <1>2, PrefixOn
  <1>4. SamePrefix(g[t], g[u], i)
    BY <1>1, <1>3, SamePrefixSym, PrefixOn
  <1> QED
    BY <1>4, SamePrefixSym

\* Confirmations stay within the logs they confirm.
LEMMA AcksBoundedOn ==
    ASSUME TypeInv, TypeInv', Monotone, NEW h \in LeaderLogs, NEW a \in Acks, NEW g, NEW b,
           RecordStep(h, a, g, b), AcksBounded(h, a),
           \A p \in Node, t \in Nat : b[p][t] = a[p][t] \/ b[p][t] <= Len(g[t])
    PROVE  AcksBounded(g, b)'
  <1> SUFFICES ASSUME NEW p \in Node, NEW t \in Nat
               PROVE  b[p][t] <= Len(g[t]) /\ (b[p][t] > 0 => t <= currentTerm'[p])
    BY DEF AcksBounded
  <1>1. /\ currentTerm[p] \in Nat /\ currentTerm'[p] \in Nat /\ currentTerm[p] <= currentTerm'[p]
        /\ a[p][t] \in Nat /\ b[p][t] \in Nat
        /\ h[t] \in Seq(EntryType) /\ g[t] \in Seq(EntryType) /\ Len(h[t]) <= Len(g[t])
    <2>1. currentTerm[p] \in Nat /\ currentTerm'[p] \in Nat /\ currentTerm[p] <= currentTerm'[p]
      BY DEF TypeInv, TypeOK, Monotone
    <2>2. a[p][t] \in Nat /\ b[p][t] \in Nat
      BY AcksGrow
    <2>3. h[t] \in Seq(EntryType) /\ g[t] \in Seq(EntryType) /\ Len(h[t]) <= Len(g[t])
      BY DEF RecordStep, LeaderLogs, Grows, SamePrefix
    <2> QED
      BY <2>1, <2>2, <2>3
  <1>2. Len(h[t]) \in Nat /\ Len(g[t]) \in Nat
    BY <1>1, LenProperties
  <1>3. a[p][t] <= Len(h[t]) /\ (a[p][t] > 0 => t <= currentTerm[p])
    BY DEF AcksBounded
  <1>4. CASE b[p][t] = a[p][t]
    BY <1>1, <1>2, <1>3, <1>4
  <1>5. CASE b[p][t] # a[p][t]
    <2>1. t = currentTerm'[p]
      BY <1>5 DEF RecordStep
    <2> QED
      BY <1>1, <1>5, <2>1
  <1> QED
    BY <1>4, <1>5

(***************************************************************************)
(* A step that leaves the logs and the records alone keeps the invariant,  *)
(* if the votes, messages, match and commit indexes it adds are as they    *)
(* should be.                                                              *)
(***************************************************************************)
LEMMA CommitQuiet ==
    ASSUME ElectionInv, TypeInv', Monotone, NEW h, LogInv(h), NEW a, CommitInv(h, a),
           UNCHANGED log,
           \A n \in Node : state'[n] = "Leader" =>
              /\ state[n] = "Leader"
              /\ \A p \in Node \ {n} : matchIndex'[n][p] <= a[p][currentTerm[n]],
           \A v \in ballots' : v \in ballots \/ BallotBacked(v, h, a)',
           \A m \in msgs' : m \in msgs \/ MessageHonest(m, h, a)',
           \A n \in Node : \/ commitIndex'[n] = commitIndex[n]
                           \/ Settled(h, a, log[n], commitIndex'[n], currentTerm[n])
    PROVE  CommitInv(h, a)'
  <1>1. TypeInv /\ h \in LeaderLogs /\ a \in Acks /\ StandersIdle(h)
    BY DEF ElectionInv, LogInv, CommitInv, StandersIdle
  <1>2. RecordStep(h, a, h, a)
    BY <1>1, RecordSame
  <1>3. /\ AcksBounded(h, a) /\ AckedNow(h, a) /\ AckedKept(h, a) /\ Complete(h, a)
        /\ BallotsBacked(h, a) /\ MessagesHonest(h, a) /\ MatchTrue(a) /\ CommitsSettled(h, a)
    BY DEF CommitInv
  <1>4. AcksBounded(h, a)'
    BY <1>1, <1>2, <1>3, AcksBoundedOn
  <1>5. AckedNow(h, a)' /\ AckedKept(h, a)'
    <2>1. ASSUME NEW p \in Node
          PROVE  /\ SamePrefix(log'[p], h[currentTerm'[p]], a[p][currentTerm'[p]])
                 /\ \A t \in Nat, i \in Nat :
                       Live(h, a, t, i)' /\ i <= a[p][t] => SamePrefix(log'[p], h[t], i)
      BY <1>1, <1>2, <1>3, NodeOn
    <2> QED
      BY <2>1 DEF AckedNow, AckedKept
  <1>6. Complete(h, a)'
    <2> SUFFICES ASSUME NEW t \in Nat, NEW u \in Nat, NEW i \in Nat,
                        t < u, h[u] # << >>, Live(h, a, t, i)'
                 PROVE  SamePrefix(h[u], h[t], i)
      BY DEF Complete
    <2>1. i <= Len(h[t])
      BY DEF Live, Own
    <2> QED
      BY <1>1, <1>2, <1>3, <2>1, CompleteOn
  <1>7. BallotsBacked(h, a)'
    <2> SUFFICES ASSUME NEW v \in ballots' PROVE BallotBacked(v, h, a)'
      BY DEF BallotsBacked
    <2>1. CASE v \in ballots
      BY <1>1, <1>2, <1>3, <2>1, BallotOn DEF BallotsBacked
    <2> QED
      BY <2>1
  <1>8. MessagesHonest(h, a)'
    <2> SUFFICES ASSUME NEW m \in msgs' PROVE MessageHonest(m, h, a)'
      BY DEF MessagesHonest
    <2>1. CASE m \in msgs
      <3>1. m \in Message /\ MessageHonest(m, h, a)
        BY <1>1, <1>3, <2>1 DEF TypeInv, TypeOK, MessagesHonest
      <3> QED
        BY <1>1, <1>2, <3>1, MessageOn
    <2> QED
      BY <2>1
  <1>9. MatchTrue(a)'
    <2> SUFFICES ASSUME NEW n \in Node, state'[n] = "Leader"
                 PROVE  /\ a[n][currentTerm'[n]] = Len(log[n])
                        /\ \A p \in Node \ {n} : matchIndex'[n][p] <= a[p][currentTerm'[n]]
      BY DEF MatchTrue
    <2>1. currentTerm'[n] = currentTerm[n] /\ state[n] = "Leader"
      BY DEF Monotone
    <2> QED
      BY <1>3, <2>1 DEF MatchTrue
  <1>10. CommitsSettled(h, a)'
    <2> SUFFICES ASSUME NEW n \in Node
                 PROVE  Settled(h, a, log[n], commitIndex'[n], currentTerm'[n])
      BY DEF CommitsSettled, Settled, Fixed, Own, Quorum
    <2>1. /\ log[n] \in Seq(EntryType) /\ commitIndex'[n] \in Nat
          /\ currentTerm[n] \in Nat /\ currentTerm'[n] \in Nat /\ currentTerm[n] <= currentTerm'[n]
      BY <1>1 DEF TypeInv, TypeOK, Monotone
    <2>2. Settled(h, a, log[n], commitIndex'[n], currentTerm[n])
      BY <1>3 DEF CommitsSettled
    <2>3. SamePrefix(log[n], log[n], commitIndex'[n])
      <3>1. commitIndex'[n] <= Len(log[n]) /\ Len(log[n]) \in Nat
        BY <1>1, <2>1, <2>2, SettledBound, LenProperties
      <3> QED
        BY <2>1, <3>1, SamePrefixSelf, SamePrefixLess
    <2> QED
      BY <1>1, <1>2, <2>1, <2>2, <2>3, SettledOn
  <1> QED
    BY <1>1, <1>4, <1>5, <1>6, <1>7, <1>8, <1>9, <1>10 DEF CommitInv

\* The record after p has confirmed term t up to k.
Confirmed(a, p, t, k) ==
    [a EXCEPT ![p][t] = IF k > a[p][t] THEN k ELSE a[p][t]]

\* Recording a confirmation is a step of the record, for one node and one term.
LEMMA ConfirmedStep ==
    ASSUME NEW h \in LeaderLogs, NEW g, Grows(h, g), NEW a \in Acks,
           NEW p \in Node, NEW t \in Nat, NEW k \in Nat, currentTerm'[p] = t,
           NEW b, b = Confirmed(a, p, t, k)
    PROVE  /\ RecordStep(h, a, g, b)
           /\ b[p][t] \in Nat /\ k <= b[p][t] /\ b[p][t] \in {k, a[p][t]}
           /\ a[p][t] <= b[p][t]
           /\ \A q \in Node, u \in Nat : q # p \/ u # t => b[q][u] = a[q][u]
           /\ \A q \in Node \ {p} : b[q] = a[q]
  <1> DEFINE x == IF k > a[p][t] THEN k ELSE a[p][t]
  <1>1. a[p][t] \in Nat /\ a \in [Node -> [Nat -> Nat]]
    BY DEF Acks
  <1>2. x \in Nat /\ k <= x /\ a[p][t] <= x /\ x \in {k, a[p][t]}
    BY <1>1
  <1>3. b = [a EXCEPT ![p][t] = x]
    BY DEF Confirmed
  <1> HIDE DEF x
  <1>4. b \in Acks /\ b[p][t] = x
    BY <1>1, <1>2, <1>3 DEF Acks
  <1>6. \A q \in Node \ {p} : b[q] = a[q]
    BY <1>1, <1>3
  <1>5. ASSUME NEW q \in Node, NEW u \in Nat, q # p \/ u # t PROVE b[q][u] = a[q][u]
    <2>1. CASE q # p
      BY <1>6, <2>1
    <2>2. CASE q = p /\ u # t
      <3>1. b[p] = [a[p] EXCEPT ![t] = x] /\ a[p] \in [Nat -> Nat]
        BY <1>1, <1>3
      <3> QED
        BY <2>2, <3>1
    <2> QED
      BY <1>5, <2>1, <2>2
  <1>7. RecordStep(h, a, g, b)
    BY <1>2, <1>4, <1>5 DEF RecordStep
  <1> QED
    BY <1>2, <1>4, <1>5, <1>6, <1>7

(***************************************************************************)
(* What AppendEntries does to the commit index.  leaderCommit lies within  *)
(* the entries of the call, so the minimum in the code is leaderCommit.    *)
(***************************************************************************)
LEMMA FollowerCommitIs ==
    ASSUME NEW ci \in Nat, NEW lc \in Nat, NEW last \in Nat, lc <= last
    PROVE  FollowerCommit(ci, lc, last) = IF lc > ci THEN lc ELSE ci
  <1>1. Min({lc, last}) \in {lc, last} /\ \A y \in {lc, last} : Min({lc, last}) <= y
    BY MinOfNaturals
  <1>2. Min({lc, last}) = lc
    BY <1>1
  <1> QED
    BY <1>2 DEF FollowerCommit

(***************************************************************************)
(* A successful AppendEntries: the receiver confirms the log of the call's *)
(* term up to the last entry of the call.  Nothing that is committed or    *)
(* may become so is lost, and the new commit index is settled.             *)
(***************************************************************************)
LEMMA CommitMerge ==
    ASSUME ElectionInv, TypeInv', Monotone, NEW h, LogInv(h), NEW a, CommitInv(h, a),
           NEW m \in msgs, AppendEntries(m), Consistent(log[m.to], m),
           NEW b, b = Confirmed(a, m.to, m.term, m.prevLogIndex + Len(m.entries))
    PROVE  /\ CommitInv(h, b)'
           /\ SamePrefix(log[m.to], log'[m.to], commitIndex[m.to])
           /\ commitIndex[m.to] <= commitIndex'[m.to]
  <1> DEFINE n == m.to
             T == m.term
             k == m.prevLogIndex + Len(m.entries)
  <1>1. TypeInv /\ h \in LeaderLogs /\ a \in Acks /\ Grows(h, h)
    <2>1. TypeInv /\ h \in LeaderLogs /\ a \in Acks
      BY DEF ElectionInv, LogInv, CommitInv
    <2> QED
      BY <2>1, RecordSame DEF RecordStep
  <1>2. /\ n \in Node /\ m \in AppendCallType /\ k \in Nat /\ 1 <= k /\ k <= Len(h[T])
        /\ \A q \in Node \ {n} : log'[q] = log[q]
        /\ log'[n] \in Seq(EntryType)
        /\ SamePrefix(log'[n], h[T], k)
        /\ \A j \in Nat : SamePrefix(log[n], h[T], j) => SamePrefix(log'[n], h[T], j)
        /\ state[n] = "Leader" /\ currentTerm[n] = T => log'[n] = log[n]
    BY <1>1, MergeStep
  <1>3. T \in Nat /\ currentTerm'[n] = T /\ UNCHANGED << matchIndex, ballots >>
    BY <1>1, <1>2 DEF AppendEntries, BecomeFollower, leader, TypeInv, TypeOK, AppendCallType
  <1>4. /\ msgs' \subseteq msgs \cup {AppendReply(m, T, TRUE)}
        /\ commitIndex' = [commitIndex EXCEPT ![n] =
                             FollowerCommit(commitIndex[n], m.leaderCommit, Len(log'[n]))]
    BY <1>1, <1>2 DEF AppendEntries, Reply, LastIndex, TypeInv, TypeOK
  <1>5. \A q \in Node : state'[q] = "Leader" =>
            state[q] = "Leader" /\ currentTerm'[q] = currentTerm[q]
    BY <1>1, <1>2 DEF AppendEntries, BecomeFollower, TypeInv, TypeOK, Monotone
  <1>6. MessageHonest(m, h, a) /\ m.type = "AppendEntries" /\ m.leaderCommit \in Nat
    BY <1>2 DEF CommitInv, MessagesHonest, AppendCallType
  <1>7. b = Confirmed(a, n, T, k)
    OBVIOUS
  <1> HIDE DEF n, T, k
  <1>8. /\ RecordStep(h, a, h, b)
        /\ b[n][T] \in Nat /\ k <= b[n][T] /\ b[n][T] \in {k, a[n][T]} /\ a[n][T] <= b[n][T]
        /\ \A q \in Node, u \in Nat : q # n \/ u # T => b[q][u] = a[q][u]
        /\ \A q \in Node \ {n} : b[q] = a[q]
    BY <1>1, <1>2, <1>3, <1>7, ConfirmedStep
  <1>9. /\ AcksBounded(h, a) /\ AckedNow(h, a) /\ AckedKept(h, a) /\ Complete(h, a)
        /\ BallotsBacked(h, a) /\ MessagesHonest(h, a) /\ MatchTrue(a) /\ CommitsSettled(h, a)
    BY DEF CommitInv
  <1>10. h[T] # << >> /\ h[T] \in Seq(EntryType) /\ Len(h[T]) \in Nat
    <2>1. h[T] \in Seq(EntryType) /\ Len(h[T]) \in Nat
      BY <1>1, <1>3, LenProperties DEF LeaderLogs
    <2>2. Len(<< >>) = 0
      BY EmptySeq
    <2> QED
      BY <1>2, <2>1, <2>2
  <1>11. StandersIdle(h)
    BY <1>2, <1>3, <1>10 DEF StandersIdle
  <1>12. /\ currentTerm[n] \in Nat /\ currentTerm[n] <= T
         /\ log[n] \in Seq(EntryType) /\ commitIndex[n] \in Nat
    BY <1>1, <1>2, <1>3 DEF TypeInv, TypeOK, Monotone
  <1>13. AcksBounded(h, b)'
    <2>1. \A p \in Node, t \in Nat : b[p][t] = a[p][t] \/ b[p][t] <= Len(h[t])
      BY <1>2, <1>8
    <2> QED
      BY <1>1, <1>8, <1>9, <2>1, AcksBoundedOn
  <1>14. SamePrefix(log'[n], h[T], b[n][T])
    <2>1. CASE b[n][T] = k
      BY <1>2, <2>1
    <2>2. CASE b[n][T] # k
      <3>1. b[n][T] = a[n][T] /\ a[n][T] > 0 /\ a[n][T] \in Nat
        BY <1>2, <1>8, <2>2
      <3>2. T = currentTerm[n]
        BY <1>2, <1>3, <1>9, <1>12, <3>1 DEF AcksBounded
      <3>3. SamePrefix(log[n], h[T], a[n][T])
        BY <1>2, <1>9, <3>2 DEF AckedNow
      <3> QED
        BY <1>2, <3>1, <3>3
    <2> QED
      BY <2>1, <2>2
  <1>15. ASSUME NEW t \in Nat, NEW i \in Nat, t < T, Live(h, a, t, i), SamePrefix(log[n], h[t], i)
         PROVE  SamePrefix(log'[n], h[t], i)
    <2>1. SamePrefix(h[T], h[t], i)
      BY <1>3, <1>9, <1>10, <1>15 DEF Complete
    <2>2. SamePrefix(log[n], h[T], i)
      BY <1>15, <2>1, SamePrefixSym, SamePrefixTrans
    <2>3. SamePrefix(log'[n], h[T], i)
      BY <1>2, <2>2
    <2> QED
      BY <2>1, <2>3, SamePrefixTrans
  <1>16. ASSUME NEW t \in Nat, NEW i \in Nat, Live(h, b, t, i)', i <= b[n][t]
         PROVE  SamePrefix(log'[n], h[t], i)
    <2>1. CASE t = T
      BY <1>2, <1>8, <1>10, <1>14, <1>16, <2>1, SamePrefixLess
    <2>2. CASE t # T
      <3>1. i <= a[n][t] /\ a[n][t] \in Nat
        BY <1>1, <1>2, <1>8, <1>16, <2>2 DEF Acks
      <3>2. i \in 1..Len(h[t]) /\ i <= Len(h[t])
        BY <1>16 DEF Live, Own
      <3>3. Live(h, a, t, i)
        BY <1>1, <1>8, <1>16, <3>2, LiveBack
      <3>4. t <= currentTerm[n]
        BY <1>2, <1>9, <3>1, <3>2 DEF AcksBounded
      <3>5. t < T
        BY <1>3, <1>12, <2>2, <3>4
      <3>6. SamePrefix(log[n], h[t], i)
        BY <1>2, <1>9, <3>1, <3>3 DEF AckedKept
      <3> QED
        BY <1>15, <3>3, <3>5, <3>6
    <2> QED
      BY <2>1, <2>2
  <1>17. ASSUME NEW p \in Node, p # n
         PROVE  /\ SamePrefix(log'[p], h[currentTerm'[p]], b[p][currentTerm'[p]])
                /\ \A t \in Nat, i \in Nat :
                      Live(h, b, t, i)' /\ i <= b[p][t] => SamePrefix(log'[p], h[t], i)
    BY <1>1, <1>2, <1>8, <1>9, <1>17, NodeOn
  <1>18. AckedNow(h, b)' /\ AckedKept(h, b)'
    <2>1. AckedNow(h, b)'
      BY <1>3, <1>14, <1>17 DEF AckedNow
    <2>2. AckedKept(h, b)'
      BY <1>16, <1>17 DEF AckedKept
    <2> QED
      BY <2>1, <2>2
  <1>19. Complete(h, b)'
    <2> SUFFICES ASSUME NEW t \in Nat, NEW u \in Nat, NEW i \in Nat,
                        t < u, h[u] # << >>, Live(h, b, t, i)'
                 PROVE  SamePrefix(h[u], h[t], i)
      BY DEF Complete
    <2>1. i <= Len(h[t])
      BY DEF Live, Own
    <2> QED
      BY <1>1, <1>8, <1>9, <2>1, CompleteOn
  <1>20. BallotsBacked(h, b)'
    <2> SUFFICES ASSUME NEW v \in ballots PROVE BallotBacked(v, h, b)'
      BY <1>3 DEF BallotsBacked
    <2> QED
      BY <1>1, <1>8, <1>9, <1>11, BallotOn DEF BallotsBacked
  <1>21. MessagesHonest(h, b)'
    <2> SUFFICES ASSUME NEW r \in msgs' PROVE MessageHonest(r, h, b)'
      BY DEF MessagesHonest
    <2>1. CASE r \in msgs
      <3>1. r \in Message /\ MessageHonest(r, h, a)
        BY <1>1, <1>9, <2>1 DEF TypeInv, TypeOK, MessagesHonest
      <3> QED
        BY <1>1, <1>8, <1>11, <3>1, MessageOn
    <2>2. CASE r = AppendReply(m, T, TRUE)
      <3>1. r.type = "AppendEntriesReply" /\ r.from = n /\ r.sentTerm = T /\ r.newMatch = k
        BY <2>2 DEF AppendReply, n, T, k
      <3> QED
        BY <1>8, <3>1 DEF MessageHonest
    <2> QED
      BY <1>4, <2>1, <2>2
  <1>22. MatchTrue(b)'
    <2> SUFFICES ASSUME NEW q \in Node, state'[q] = "Leader"
                 PROVE  /\ b[q][currentTerm'[q]] = Len(log'[q])
                        /\ \A p \in Node \ {q} : matchIndex[q][p] <= b[p][currentTerm'[q]]
      BY <1>3 DEF MatchTrue
    <2>1. state[q] = "Leader" /\ currentTerm'[q] = currentTerm[q] /\ currentTerm[q] \in Nat
      BY <1>1, <1>5 DEF TypeInv, TypeOK
    <2>2. /\ a[q][currentTerm[q]] = Len(log[q])
          /\ \A p \in Node \ {q} : matchIndex[q][p] <= a[p][currentTerm[q]]
      BY <1>9, <2>1 DEF MatchTrue
    <2>3. b[q][currentTerm'[q]] = Len(log'[q])
      <3>1. CASE q # n
        BY <1>2, <1>8, <2>1, <2>2, <3>1
      <3>2. CASE q = n
        <4>1. currentTerm[n] = T /\ log'[n] = log[n] /\ h[T] = log[n]
          BY <1>2, <1>3, <2>1, <3>2 DEF LogInv, LeaderLog
        <4>2. k <= a[n][T] /\ a[n][T] \in Nat
          BY <1>2, <1>10, <2>2, <3>2, <4>1
        <4>3. b[n][T] = a[n][T]
          BY <1>2, <1>8, <4>2
        <4> QED
          BY <1>3, <2>2, <3>2, <4>1, <4>3
      <3> QED
        BY <3>1, <3>2
    <2>4. ASSUME NEW p \in Node \ {q} PROVE matchIndex[q][p] <= b[p][currentTerm'[q]]
      <3>1. /\ a[p][currentTerm[q]] \in Nat /\ b[p][currentTerm[q]] \in Nat
            /\ a[p][currentTerm[q]] <= b[p][currentTerm[q]]
        BY <1>1, <1>8, <2>1, AcksGrow
      <3>2. matchIndex[q][p] \in Nat
        BY <1>1 DEF TypeInv, TypeOK
      <3> QED
        BY <2>1, <2>2, <3>1, <3>2
    <2> QED
      BY <2>3, <2>4
  <1>23. SamePrefix(log'[n], log[n], commitIndex[n])
    <2>1. Settled(h, a, log[n], commitIndex[n], currentTerm[n])
      BY <1>2, <1>9 DEF CommitsSettled
    <2>2. SamePrefix(log[n], h[T], commitIndex[n])
      BY <1>1, <1>3, <1>9, <1>10, <1>12, <2>1, SettledLeader
    <2>3. SamePrefix(log'[n], h[T], commitIndex[n])
      BY <1>2, <1>12, <2>2
    <2> QED
      BY <2>2, <2>3, SamePrefixSym, SamePrefixTrans
  <1>24. m.leaderCommit <= k /\ k <= Len(log'[n]) /\ Len(log'[n]) \in Nat
    BY <1>2, <1>6, LenProperties DEF MessageHonest, SamePrefix, k
  <1>25. commitIndex'[n] = IF m.leaderCommit > commitIndex[n] THEN m.leaderCommit ELSE commitIndex[n]
    <2>1. m.leaderCommit <= Len(log'[n])
      BY <1>2, <1>6, <1>24
    <2>2. commitIndex'[n] = FollowerCommit(commitIndex[n], m.leaderCommit, Len(log'[n]))
      BY <1>1, <1>2, <1>4 DEF TypeInv, TypeOK
    <2> QED
      BY <1>6, <1>12, <1>24, <2>1, <2>2, FollowerCommitIs
  <1>26. CommitsSettled(h, b)'
    <2> SUFFICES ASSUME NEW q \in Node
                 PROVE  Settled(h, b, log'[q], commitIndex'[q], currentTerm'[q])
      BY DEF CommitsSettled, Settled, Fixed, Own, Quorum
    <2>0. /\ log[q] \in Seq(EntryType) /\ commitIndex[q] \in Nat
          /\ currentTerm[q] \in Nat /\ currentTerm'[q] \in Nat /\ currentTerm[q] <= currentTerm'[q]
      BY <1>1 DEF TypeInv, TypeOK, Monotone
    <2>1. Settled(h, a, log[q], commitIndex[q], currentTerm[q])
      BY <1>9 DEF CommitsSettled
    <2>2. CASE q # n
      <3>1. commitIndex'[q] = commitIndex[q] /\ log'[q] = log[q]
        BY <1>1, <1>2, <1>4, <2>2 DEF TypeInv, TypeOK
      <3>2. commitIndex[q] <= Len(log[q]) /\ Len(log[q]) \in Nat
        BY <1>1, <2>0, <2>1, SettledBound, LenProperties
      <3>3. SamePrefix(log[q], log[q], commitIndex[q])
        BY <2>0, <3>2, SamePrefixSelf, SamePrefixLess
      <3> QED
        BY <1>1, <1>8, <2>0, <2>1, <3>1, <3>3, SettledOn
    <2>3. CASE q = n /\ commitIndex'[n] = commitIndex[n]
      <3>1. SamePrefix(log[n], log'[n], commitIndex[n])
        BY <1>23, SamePrefixSym
      <3> QED
        BY <1>1, <1>8, <2>0, <2>1, <2>3, <3>1, SettledOn
    <2>4. CASE q = n /\ commitIndex'[n] = m.leaderCommit
      <3>1. Settled(h, a, h[T], m.leaderCommit, T)
        BY <1>6 DEF MessageHonest, T
      <3>2. SamePrefix(h[T], log'[n], m.leaderCommit)
        <4>1. SamePrefix(log'[n], h[T], m.leaderCommit)
          BY <1>2, <1>6, <1>10, <1>24, SamePrefixLess
        <4> QED
          BY <4>1, SamePrefixSym
      <3>3. T <= T
        BY <1>3
      <3>4. Settled(h, b, log'[n], m.leaderCommit, T)
        BY <1>1, <1>3, <1>6, <1>8, <1>10, <3>1, <3>2, <3>3, SettledOn
      <3> QED
        BY <1>3, <2>4, <3>4
    <2> QED
      BY <1>25, <2>2, <2>3, <2>4
  <1>27. commitIndex[n] <= commitIndex'[n]
    BY <1>6, <1>12, <1>25
  <1>28. b \in Acks
    BY <1>8 DEF RecordStep
  <1>29. CommitInv(h, b)'
    BY <1>13, <1>18, <1>19, <1>20, <1>21, <1>22, <1>26, <1>28 DEF CommitInv
  <1>30. SamePrefix(log[n], log'[n], commitIndex[n])
    BY <1>23, SamePrefixSym
  <1> QED
    BY <1>27, <1>29, <1>30 DEF n

\* The two records after leader n has appended entry e.
LEMMA AppendRecords ==
    ASSUME TypeInv, TypeInv', NEW h \in LeaderLogs, NEW n \in Node, NEW e \in EntryType,
           Appends(n, e, h), NEW g, g = Extended(h, n, e), Grows(h, g),
           NEW a \in Acks, NEW b, b = Confirmed(a, n, currentTerm[n], Len(log[n]) + 1),
           AcksBounded(h, a)
    PROVE  LET T == currentTerm[n] IN
           /\ T \in Nat /\ currentTerm' = currentTerm
           /\ RecordStep(h, a, g, b)
           /\ b[n][T] = Len(log[n]) + 1 /\ Len(log[n]) \in Nat
           /\ \A q \in Node, u \in Nat : q # n \/ u # T => b[q][u] = a[q][u]
           /\ \A q \in Node \ {n} : b[q] = a[q]
           /\ log'[n] = Append(log[n], e) /\ g[T] = log'[n] /\ log'[n] \in Seq(EntryType)
           /\ Len(log'[n]) = Len(log[n]) + 1 /\ SamePrefix(log[n], log'[n], Len(log[n]))
           /\ \A q \in Node \ {n} : log'[q] = log[q]
           /\ \A t \in Nat \ {T} : g[t] = h[t]
           /\ h[T] \in {<< >>, log[n]} /\ Len(h[T]) \in Nat /\ Len(h[T]) <= Len(log[n])
  <1> DEFINE T == currentTerm[n]
             k == Len(log[n]) + 1
  <1>1. /\ T \in Nat /\ log \in [Node -> Seq(EntryType)] /\ log[n] \in Seq(EntryType)
        /\ Len(log[n]) \in Nat /\ h \in [Nat -> Seq(EntryType)]
    BY LogTypes DEF TypeInv, TypeOK, LeaderLogs
  <1>2. /\ currentTerm' = currentTerm /\ log' = [log EXCEPT ![n] = Append(log[n], e)]
        /\ h[T] \in {<< >>, log[n]}
    BY DEF Appends
  <1>3. log'[n] = Append(log[n], e) /\ \A q \in Node \ {n} : log'[q] = log[q]
    BY <1>1, <1>2
  <1>4. /\ log'[n] \in Seq(EntryType) /\ Len(log'[n]) = k
        /\ SamePrefix(log[n], log'[n], Len(log[n]))
    BY <1>1, <1>3, AppendKeeps
  <1>5. g[T] = log'[n] /\ \A t \in Nat \ {T} : g[t] = h[t]
    BY <1>1, <1>3 DEF Extended
  <1>6. Len(h[T]) \in Nat /\ Len(h[T]) <= Len(log[n])
    <2>1. Len(<< >>) = 0
      BY EmptySeq
    <2>2. CASE h[T] = << >>
      BY <1>1, <2>1, <2>2
    <2>3. CASE h[T] = log[n]
      BY <1>1, <2>3
    <2> QED
      BY <1>2, <2>2, <2>3
  <1>7. k \in Nat /\ currentTerm'[n] = T /\ b = Confirmed(a, n, T, k)
    BY <1>1, <1>2
  <1>0. T \in Nat /\ Len(log[n]) \in Nat /\ k = Len(log[n]) + 1
    BY <1>1
  <1> HIDE DEF T, k
  <1>8. /\ RecordStep(h, a, g, b)
        /\ b[n][T] \in Nat /\ k <= b[n][T] /\ b[n][T] \in {k, a[n][T]}
        /\ \A q \in Node, u \in Nat : q # n \/ u # T => b[q][u] = a[q][u]
        /\ \A q \in Node \ {n} : b[q] = a[q]
    BY <1>0, <1>7, ConfirmedStep
  <1>9. b[n][T] = k
    <2>1. a[n][T] \in Nat /\ a[n][T] <= Len(h[T])
      BY <1>0 DEF Acks, AcksBounded
    <2>2. a[n][T] < k
      BY <1>0, <1>6, <2>1
    <2> QED
      BY <1>7, <1>8, <2>1, <2>2
  <1> QED
    BY <1>1, <1>2, <1>3, <1>4, <1>5, <1>6, <1>8, <1>9 DEF T, k

(***************************************************************************)
(* The new leader of a term has every entry that is or may become          *)
(* committed: a majority voted for it, and one of them had confirmed the   *)
(* entry before it voted.                                                  *)
(***************************************************************************)
LEMMA WinnerComplete ==
    ASSUME ElectionInv, NEW h, NEW a, BallotsBacked(h, a), NEW n \in Node,
           NEW T \in Nat, Elected(n, T), Standing(h, n, T),
           NEW t \in Nat, NEW i \in Nat, t < T, Live(h, a, t, i)
    PROVE  SamePrefix(log[n], h[t], i)
  <1>1. PICK Q \in SUBSET Node :
          Cardinality(Q) >= Quorum /\ \A v \in Q : Ballot(v, T, n) \in ballots
    BY DEF Elected
  <1> DEFINE R == {p \in Node : currentTerm[p] <= t \/ i <= a[p][t]}
  <1>2. R \subseteq Node /\ Cardinality(R) >= Quorum
    BY DEF Live, MayCommit
  <1>3. PICK v \in Node : v \in Q /\ v \in R
    <2> HIDE DEF R
    <2> QED
      BY <1>1, <1>2, QuorumsMeet
  <1>4. Ballot(v, T, n) \in ballots /\ T <= currentTerm[v]
    BY <1>1, <1>3 DEF ElectionInv, VoteRemembered, Ballot
  <1>5. i <= a[v][t]
    <2>1. currentTerm[v] \in Nat
      BY <1>3 DEF ElectionInv, TypeInv, TypeOK
    <2> QED
      BY <1>3, <1>4, <2>1
  <1>6. BallotBacked(Ballot(v, T, n), h, a)
    BY <1>4 DEF BallotsBacked
  <1> QED
    BY <1>5, <1>6 DEF BallotBacked, Ballot

\* A leader that has been voted out by a majority commits nothing new.
LEMMA OusterBlocks ==
    ASSUME ElectionInv, NEW b, NEW q \in Node, NEW u \in Nat, Elected(q, u),
           NEW t \in Nat, NEW i \in Nat, t < u, MayCommit(b, t, i)
    PROVE  \E v \in Node : currentTerm[v] > t /\ i <= b[v][t]
  <1>1. PICK Q \in SUBSET Node :
          Cardinality(Q) >= Quorum /\ \A v \in Q : Ballot(v, u, q) \in ballots
    BY DEF Elected
  <1> DEFINE R == {p \in Node : currentTerm[p] <= t \/ i <= b[p][t]}
  <1>2. R \subseteq Node /\ Cardinality(R) >= Quorum
    BY DEF MayCommit
  <1>3. PICK v \in Node : v \in Q /\ v \in R
    <2> HIDE DEF R
    <2> QED
      BY <1>1, <1>2, QuorumsMeet
  <1>4. u <= currentTerm[v] /\ currentTerm[v] \in Nat
    BY <1>1, <1>3 DEF ElectionInv, VoteRemembered, Ballot, TypeInv, TypeOK
  <1>5. currentTerm[v] > t /\ i <= b[v][t]
    BY <1>3, <1>4
  <1> QED
    BY <1>5

(***************************************************************************)
(* Appending: a leader confirms its own new entry.  The entry becomes      *)
(* committable only if no majority has moved on, and a leader just elected *)
(* has everything that is or may become committed.                         *)
(***************************************************************************)
LEMMA CommitAppend ==
    ASSUME ElectionInv, ElectionInv', Monotone, NEW h, LogInv(h), NEW a, CommitInv(h, a),
           NEW n \in Node, NEW e \in EntryType, Appends(n, e, h),
           NEW g, g = Extended(h, n, e),
           NEW b, b = Confirmed(a, n, currentTerm[n], Len(log[n]) + 1)
    PROVE  CommitInv(g, b)'
  <1> DEFINE T == currentTerm[n]
             k == Len(log[n]) + 1
  <1>1. TypeInv /\ TypeInv' /\ h \in LeaderLogs /\ a \in Acks
    BY DEF ElectionInv, LogInv, CommitInv
  <1>2. LogInv(g)' /\ Grows(h, g)
    BY LogExtend
  <1>3. /\ AcksBounded(h, a) /\ AckedNow(h, a) /\ AckedKept(h, a) /\ Complete(h, a)
        /\ BallotsBacked(h, a) /\ MessagesHonest(h, a) /\ MatchTrue(a) /\ CommitsSettled(h, a)
    BY DEF CommitInv
  <1>4. /\ T \in Nat /\ currentTerm' = currentTerm
        /\ RecordStep(h, a, g, b)
        /\ b[n][T] = k /\ Len(log[n]) \in Nat /\ k \in Nat
        /\ \A q \in Node, u \in Nat : q # n \/ u # T => b[q][u] = a[q][u]
        /\ \A q \in Node \ {n} : b[q] = a[q]
        /\ g[T] = log'[n] /\ log'[n] \in Seq(EntryType)
        /\ Len(log'[n]) = k /\ SamePrefix(log[n], log'[n], Len(log[n]))
        /\ \A q \in Node \ {n} : log'[q] = log[q]
        /\ \A t \in Nat \ {T} : g[t] = h[t]
        /\ Len(h[T]) \in Nat /\ Len(h[T]) <= Len(log[n])
    BY <1>1, <1>2, <1>3, AppendRecords
  <1>5. /\ UNCHANGED << commitIndex, ballots >> /\ state'[n] = "Leader" /\ msgs' \subseteq msgs
        /\ \/ /\ state[n] = "Leader" /\ h[T] = log[n] /\ matchIndex'[n] = matchIndex[n]
           \/ /\ state[n] = "Candidate" /\ h[T] = << >>
              /\ matchIndex'[n] = [p \in Node |-> 0]
        /\ \A q \in Node \ {n} : state'[q] = state[q] /\ matchIndex'[q] = matchIndex[q]
    BY DEF Appends
  <1>6. b \in Acks
    BY <1>4 DEF RecordStep
  <1>7. StandersIdle(g)
    BY <1>4, <1>5 DEF StandersIdle
  <1>8. log[n] \in Seq(EntryType)
    BY <1>1, LogTypes
  <1> HIDE DEF T, k
  <1>9. SamePrefix(log'[n], g[T], k)
    BY <1>4, SamePrefixSelf
  <1>10. AcksBounded(g, b)'
    <2>1. k <= k
      BY <1>4
    <2>2. \A p \in Node, t \in Nat : b[p][t] = a[p][t] \/ b[p][t] <= Len(g[t])
      BY <1>4, <2>1
    <2> QED
      BY <1>1, <1>3, <1>4, <2>2, AcksBoundedOn
  <1>11. ASSUME NEW t \in Nat, NEW i \in Nat, Live(g, b, t, i)', i <= b[n][t]
         PROVE  SamePrefix(log'[n], g[t], i)
    <2>1. CASE t = T
      BY <1>4, <1>9, <1>11, <2>1, SamePrefixLess
    <2>2. CASE t # T
      <3>1. i <= a[n][t] /\ a[n][t] \in Nat /\ a[n][t] <= Len(h[t])
        BY <1>1, <1>3, <1>4, <1>11, <2>2 DEF Acks, AcksBounded
      <3>2. Len(h[t]) \in Nat
        BY <1>1, LenProperties DEF LeaderLogs
      <3>3. i <= Len(h[t])
        BY <3>1, <3>2
      <3>4. Live(h, a, t, i)
        BY <1>1, <1>4, <1>11, <3>3, LiveBack
      <3>5. SamePrefix(log[n], h[t], i)
        BY <1>3, <3>1, <3>4 DEF AckedKept
      <3>6. SamePrefix(log[n], g[t], i) /\ i <= Len(log[n])
        <4>1. SamePrefix(log[n], g[t], i)
          BY <1>1, <1>2, <3>5, PrefixOn
        <4> QED
          BY <4>1 DEF SamePrefix
      <3>7. SamePrefix(log[n], log'[n], i)
        BY <1>4, <1>8, <3>6, SamePrefixLess
      <3> QED
        BY <3>6, <3>7, SamePrefixSym, SamePrefixTrans
    <2> QED
      BY <2>1, <2>2
  <1>12. ASSUME NEW p \in Node, p # n
         PROVE  /\ SamePrefix(log'[p], g[currentTerm'[p]], b[p][currentTerm'[p]])
                /\ \A t \in Nat, i \in Nat :
                      Live(g, b, t, i)' /\ i <= b[p][t] => SamePrefix(log'[p], g[t], i)
    BY <1>1, <1>3, <1>4, <1>12, NodeOn
  <1>13. AckedNow(g, b)' /\ AckedKept(g, b)'
    <2>1. SamePrefix(log'[n], g[currentTerm'[n]], b[n][currentTerm'[n]])
      BY <1>4, <1>9 DEF T
    <2>2. AckedNow(g, b)'
      BY <1>12, <2>1 DEF AckedNow
    <2>3. AckedKept(g, b)'
      BY <1>11, <1>12 DEF AckedKept
    <2> QED
      BY <2>2, <2>3
  <1>14. Elected(n, T)
    <2>1. /\ votes'[n] \in SUBSET Node /\ Cardinality(votes'[n]) >= Quorum
          /\ \A v \in votes'[n] : Ballot(v, currentTerm'[n], n) \in ballots'
      BY <1>1, <1>5 DEF ElectionInv, LeaderElected, CountedCast, TypeInv, TypeOK, Quorum, Ballot
    <2>2. \A v \in votes'[n] : Ballot(v, T, n) \in ballots
      BY <1>4, <1>5, <2>1 DEF T
    <2> QED
      BY <2>1, <2>2 DEF Elected
  <1>15. Complete(g, b)'
    <2> SUFFICES ASSUME NEW t \in Nat, NEW u \in Nat, NEW i \in Nat,
                        t < u, g[u] # << >>, Live(g, b, t, i)'
                 PROVE  SamePrefix(g[u], g[t], i)
      BY DEF Complete
    <2>1. CASE i <= Len(h[t]) /\ h[u] # << >>
      BY <1>1, <1>3, <1>4, <2>1, CompleteOn
    <2>2. CASE i <= Len(h[t]) /\ h[u] = << >>
      <3>1. u = T
        BY <1>4, <2>2
      <3>2. Standing(h, n, T)
        <4>1. log[n] # << >> \/ state[n] # "Leader"
          BY DEF LogInv, LeaderLog
        <4> QED
          BY <1>5, <2>2, <3>1, <4>1 DEF Standing, T
      <3>3. Live(h, a, t, i)
        BY <1>1, <1>4, <2>2, LiveBack
      <3>4. SamePrefix(log[n], h[t], i)
        BY <1>3, <1>4, <1>14, <3>1, <3>2, <3>3, WinnerComplete
      <3>5. SamePrefix(log[n], g[t], i) /\ i <= Len(log[n])
        <4>1. SamePrefix(log[n], g[t], i)
          BY <1>1, <1>2, <3>4, PrefixOn
        <4> QED
          BY <4>1 DEF SamePrefix
      <3>6. SamePrefix(log[n], log'[n], i)
        BY <1>4, <1>8, <3>5, SamePrefixLess
      <3> QED
        BY <1>4, <3>1, <3>5, <3>6, SamePrefixSym, SamePrefixTrans
    <2>3. CASE ~(i <= Len(h[t]))
      <3>1. i \in 1..Len(g[t]) /\ Len(h[t]) \in Nat
        BY <1>1, LenProperties DEF Live, Own, LeaderLogs
      <3>2. t = T
        BY <1>4, <2>3, <3>1
      <3>3. h[u] # << >>
        BY <1>4, <3>2
      <3>4. PICK q \in Node : Elected(q, u)
        BY <3>3 DEF LogInv, TermOwner
      <3>5. MayCommit(b, t, i)
        BY <1>4 DEF Live, MayCommit, Quorum
      <3>6. PICK v \in Node : currentTerm[v] > t /\ i <= b[v][t]
        BY <3>4, <3>5, OusterBlocks
      <3>7. v # n
        BY <1>4, <3>2, <3>6 DEF T
      <3>8. b[v][t] = a[v][t] /\ a[v][t] \in Nat /\ a[v][t] <= Len(h[t])
        BY <1>1, <1>3, <1>4, <3>7 DEF AcksBounded, Acks
      <3> QED
        BY <2>3, <3>1, <3>6, <3>8
    <2> QED
      BY <2>1, <2>2, <2>3
  <1>16. BallotsBacked(g, b)'
    <2> SUFFICES ASSUME NEW v \in ballots PROVE BallotBacked(v, g, b)'
      BY <1>5 DEF BallotsBacked
    <2> QED
      BY <1>1, <1>3, <1>4, <1>7, BallotOn DEF BallotsBacked
  <1>17. MessagesHonest(g, b)'
    <2> SUFFICES ASSUME NEW m \in msgs PROVE MessageHonest(m, g, b)'
      BY <1>5 DEF MessagesHonest
    <2>1. m \in Message /\ MessageHonest(m, h, a)
      BY <1>1, <1>3 DEF TypeInv, TypeOK, MessagesHonest
    <2> QED
      BY <1>1, <1>4, <1>7, <2>1, MessageOn
  <1>18. MatchTrue(b)'
    <2> SUFFICES ASSUME NEW q \in Node, state'[q] = "Leader"
                 PROVE  /\ b[q][currentTerm[q]] = Len(log'[q])
                        /\ \A p \in Node \ {q} : matchIndex'[q][p] <= b[p][currentTerm[q]]
      BY <1>4 DEF MatchTrue
    <2>0. currentTerm[q] \in Nat
      BY <1>1 DEF TypeInv, TypeOK
    <2>1. \A p \in Node : a[p][currentTerm[q]] \in Nat /\ b[p][currentTerm[q]] \in Nat
                          /\ a[p][currentTerm[q]] <= b[p][currentTerm[q]]
      BY <1>1, <1>4, <2>0, AcksGrow
    <2>2. \A p \in Node : matchIndex[q][p] \in Nat
      BY <1>1 DEF TypeInv, TypeOK
    <2>3. b[q][currentTerm[q]] = Len(log'[q])
      <3>1. CASE q = n
        BY <1>4, <3>1 DEF T
      <3>2. CASE q # n
        BY <1>3, <1>4, <1>5, <3>2 DEF MatchTrue
      <3> QED
        BY <3>1, <3>2
    <2>4. ASSUME NEW p \in Node \ {q} PROVE matchIndex'[q][p] <= b[p][currentTerm[q]]
      <3>1. CASE state[q] = "Leader" /\ matchIndex'[q] = matchIndex[q]
        <4>1. matchIndex[q][p] <= a[p][currentTerm[q]]
          BY <1>3, <3>1 DEF MatchTrue
        <4> QED
          BY <2>1, <2>2, <3>1, <4>1
      <3>2. CASE matchIndex'[q] = [r \in Node |-> 0]
        BY <2>1, <3>2
      <3> QED
        BY <1>5, <3>1, <3>2
    <2> QED
      BY <2>3, <2>4
  <1>19. CommitsSettled(g, b)'
    <2> SUFFICES ASSUME NEW q \in Node
                 PROVE  Settled(g, b, log'[q], commitIndex[q], currentTerm[q])
      BY <1>4, <1>5 DEF CommitsSettled, Settled, Fixed, Own, Quorum
    <2>0. /\ log[q] \in Seq(EntryType) /\ commitIndex[q] \in Nat
          /\ currentTerm[q] \in Nat /\ currentTerm[q] <= currentTerm[q]
      BY <1>1 DEF TypeInv, TypeOK
    <2>1. Settled(h, a, log[q], commitIndex[q], currentTerm[q])
      BY <1>3 DEF CommitsSettled
    <2>2. commitIndex[q] <= Len(log[q]) /\ Len(log[q]) \in Nat
      BY <1>1, <2>0, <2>1, SettledBound, LenProperties
    <2>3. SamePrefix(log[q], log'[q], commitIndex[q])
      <3>1. CASE q = n
        BY <1>4, <1>8, <2>0, <2>2, <3>1, SamePrefixLess
      <3>2. CASE q # n
        <4>1. SamePrefix(log[q], log[q], commitIndex[q])
          BY <2>0, <2>2, SamePrefixSelf, SamePrefixLess
        <4> QED
          BY <1>4, <3>2, <4>1
      <3> QED
        BY <3>1, <3>2
    <2> QED
      BY <1>1, <1>4, <2>0, <2>1, <2>3, SettledOn
  <1> QED
    BY <1>6, <1>10, <1>13, <1>15, <1>16, <1>17, <1>18, <1>19 DEF CommitInv

-----------------------------------------------------------------------------
(* The steps that leave the logs alone *)

(***************************************************************************)
(* Why the election restriction suffices.  A voter whose log holds a live  *)
(* entry grants its vote only to a candidate whose log does, too: the      *)
(* candidate's last term is the entry's, and then its log is at least as   *)
(* long, or later, and then it comes from a leader that had the entry.     *)
(***************************************************************************)
LEMMA GrantBacked ==
    ASSUME TypeInv, NEW h, LogInv(h), NEW a, Complete(h, a),
           NEW n \in Node, NEW c \in Node, NEW m,
           m.lastLogIndex = Len(log[c]), m.lastLogTerm = LastTerm(log[c]), LogOK(m, log[n]),
           NEW t \in Nat, NEW i \in Nat, Live(h, a, t, i), SamePrefix(log[n], h[t], i)
    PROVE  SamePrefix(log[c], h[t], i)
  <1> DEFINE d == Len(log[c])
             u == log[c][d].term
  <1>1. /\ h \in LeaderLogs /\ TermLogs(h) /\ Grounded(log[n], h) /\ Grounded(log[c], h)
        /\ h[t] \in Seq(EntryType)
    BY DEF LogInv, NodeLogs, LeaderLogs
  <1>2. /\ log[n] \in Seq(EntryType) /\ Len(log[n]) \in Nat
        /\ log[c] \in Seq(EntryType) /\ d \in Nat
        /\ \A j \in 1..Len(log[n]) : log[n][j] \in EntryType
        /\ \A j \in 1..d : log[c][j] \in EntryType
    BY LogTypes
  <1>3. i \in 1..Len(h[t]) /\ h[t][i].term = t
    BY DEF Live, Own
  <1>4. i \in 1..Len(log[n]) /\ log[n][i] = h[t][i]
    BY <1>1, <1>2, <1>3, LenProperties DEF SamePrefix
  <1>5. t >= 1 /\ log[n] # << >> /\ t <= LastTerm(log[n]) /\ LastTerm(log[n]) \in Nat
    <2>1. log[n][i].term = t /\ t >= 1
      BY <1>2, <1>3, <1>4 DEF EntryType
    <2>2. log[n] # << >>
      BY <1>4, EmptySeq
    <2>3. Len(log[n]) \in 1..Len(log[n]) /\ i \in 1..Len(log[n])
      BY <1>2, <1>4
    <2>4. log[n][i].term <= log[n][Len(log[n])].term /\ log[n][Len(log[n])].term \in Nat
      BY <1>1, <1>2, <2>3, GroundedOrdered
    <2> QED
      BY <2>1, <2>2, <2>4 DEF LastTerm
  <1>6. log[c] # << >> /\ d \in 1..d /\ u = LastTerm(log[c])
    <2>1. log[c] # << >>
      <3> SUFFICES ASSUME log[c] = << >> PROVE FALSE
        OBVIOUS
      <3>1. LastTerm(log[c]) = 0
        BY DEF LastTerm
      <3> QED
        BY <1>5, <3>1 DEF LogOK
    <2>2. d # 0
      BY <1>2, <2>1, EmptySeq
    <2> QED
      BY <1>2, <2>1, <2>2 DEF LastTerm
  <1>7. u \in Nat /\ SamePrefix(log[c], h[u], d) /\ h[u] \in Seq(EntryType)
    <2>1. log[c][d] \in EntryType
      BY <1>2, <1>6
    <2>2. u \in Nat
      BY <2>1 DEF EntryType
    <2> QED
      BY <1>1, <1>6, <2>2 DEF Grounded, LeaderLogs
  <1>8. u >= LastTerm(log[n]) /\ (u = LastTerm(log[n]) => d >= Len(log[n]))
    BY <1>5, <1>6, <1>7 DEF LogOK, LastIndex
  <1>9. u = log[c][d].term
    OBVIOUS
  <1> HIDE DEF d, u
  <1>10. CASE u = t
    <2>1. i <= d
      BY <1>2, <1>4, <1>5, <1>8, <1>10
    <2> QED
      BY <1>1, <1>2, <1>7, <1>10, <2>1, SamePrefixLess
  <1>11. CASE u > t
    <2>1. d \in 1..Len(h[u]) /\ log[c][d] = h[u][d]
      BY <1>6, <1>7, LenProperties DEF SamePrefix
    <2>2. h[u] # << >>
      BY <2>1, EmptySeq
    <2>3. SamePrefix(h[u], h[t], i)
      BY <1>7, <1>11, <2>2 DEF Complete
    <2>4. i <= d
      <3> SUFFICES ASSUME ~(i <= d) PROVE FALSE
        OBVIOUS
      <3>1. d \in 1..i
        BY <1>2, <1>4, <1>6
      <3>2. h[u][d] = h[t][d]
        BY <2>3, <3>1 DEF SamePrefix
      <3>3. h[t][d].term <= h[t][i].term
        BY <1>1, <1>3, <3>1 DEF TermLogs
      <3>4. h[t][d].term = u
        BY <1>9, <2>1, <3>2
      <3> QED
        BY <1>3, <1>7, <1>11, <3>3, <3>4
    <2>5. SamePrefix(log[c], h[u], i)
      BY <1>2, <1>7, <2>4, SamePrefixLess
    <2> QED
      BY <2>3, <2>5, SamePrefixTrans
  <1> QED
    BY <1>5, <1>7, <1>8, <1>10, <1>11

\* The commit index a leader computes is settled.
LEMMA AdvanceSettled ==
    ASSUME TypeInv, NEW h, LogInv(h), NEW a \in Acks, NEW n \in Node, state[n] = "Leader",
           a[n][currentTerm[n]] = Len(log[n]),
           NEW match, match \in [Node -> Nat],
           \A p \in Node \ {n} : match[p] <= a[p][currentTerm[n]],
           AdvanceCommitIndex(n, match) # commitIndex[n]
    PROVE  Settled(h, a, log[n], AdvanceCommitIndex(n, match), currentTerm[n])
  <1> DEFINE T == currentTerm[n]
             k == AdvanceCommitIndex(n, match)
             copies(x) == {n} \cup {p \in Node \ {n} : match[p] >= x}
             C == {x \in commitIndex[n] + 1 .. LastIndex(log[n]) :
                     TermAt(log[n], x) = T /\ Cardinality(copies(x)) >= Quorum}
  <1>1. /\ log[n] \in Seq(EntryType) /\ Len(log[n]) \in Nat /\ T \in Nat
        /\ commitIndex[n] \in Nat /\ h[T] = log[n]
    BY LogTypes DEF TypeInv, TypeOK, LogInv, LeaderLog
  <1>2. k = IF C = {} THEN commitIndex[n] ELSE Max(C)
    BY DEF AdvanceCommitIndex
  <1>3. C \subseteq 0..Len(log[n])
    BY <1>1 DEF LastIndex
  <1>4. k \in C
    <2> HIDE DEF C
    <2>1. C # {} /\ k = Max(C)
      BY <1>2
    <2> QED
      BY <1>1, <1>3, <2>1, MaxOfNaturals
  <1>5. /\ k \in 1..Len(log[n]) /\ TermAt(log[n], k) = T
        /\ Cardinality(copies(k)) >= Quorum
    BY <1>1, <1>4 DEF LastIndex
  <1> DEFINE R == {p \in Node : k <= a[p][T]}
  <1>6. ASSUME NEW p \in copies(k) PROVE p \in R
    <2>1. CASE p = n
      BY <1>1, <1>5, <2>1
    <2>2. CASE p \in Node \ {n} /\ match[p] >= k
      <3>1. k \in Nat
        BY <1>1, <1>5
      <3>2. match[p] <= a[p][T] /\ match[p] \in Nat /\ a[p][T] \in Nat
        BY <1>1, <2>2 DEF Acks
      <3> HIDE DEF k, T
      <3> QED
        BY <2>2, <3>1, <3>2
    <2> QED
      BY <1>6, <2>1, <2>2
  <1>7. Cardinality(R) >= Quorum
    <2>1. copies(k) \subseteq R /\ R \subseteq Node
      BY <1>6
    <2> HIDE DEF R, copies, k
    <2> QED
      BY <1>5, <2>1, QuorumMore
  <1>8. Own(h, T, k)
    BY <1>1, <1>5 DEF Own, TermAt, Has
  <1>9. SamePrefix(log[n], h[T], k) /\ k \in Nat /\ k <= k
    <2>1. k \in Nat /\ k <= Len(log[n]) /\ k <= k
      BY <1>1, <1>5
    <2> HIDE DEF k
    <2> QED
      BY <1>1, <2>1, SamePrefixSelf, SamePrefixLess
  <1>10. Fixed(h, a, T, k)
    BY <1>7, <1>8 DEF Fixed
  <1>11. T \in 0..T
    BY <1>1
  <1> HIDE DEF k, T
  <1>12. Settled(h, a, log[n], k, T)
    BY <1>9, <1>10, <1>11 DEF Settled
  <1> QED
    BY <1>12 DEF k, T

\* No-op for votes, messages, match and commit indexes.
LEMMA CommitIdle ==
    ASSUME ElectionInv, TypeInv', Monotone, NEW h, LogInv(h), NEW a, CommitInv(h, a),
           UNCHANGED << log, matchIndex, commitIndex, ballots >>,
           \A n \in Node : state'[n] = "Leader" => state[n] = "Leader",
           \A m \in msgs' : m \in msgs \/ MessageHonest(m, h, a)'
    PROVE  CommitInv(h, a)'
  <1>1. \A n \in Node : state'[n] = "Leader" =>
           /\ state[n] = "Leader"
           /\ \A p \in Node \ {n} : matchIndex'[n][p] <= a[p][currentTerm[n]]
    BY DEF CommitInv, MatchTrue
  <1> QED
    BY <1>1, CommitQuiet

\* A step keeps the invariant, with the records as they are, unless a leader
\* appends or a node accepts a call: those change the records.
LEMMA NextCommitInv ==
    ASSUME ElectionInv, ElectionInv', NEW h, LogInv(h), LogInv(h)', NEW a, CommitInv(h, a),
           [Next]_vars
    PROVE  \/ \E n \in Node : \E e \in EntryType : Appends(n, e, h)
           \/ CommitInv(h, a)'
           \/ \E m \in msgs : AppendEntries(m) /\ Consistent(log[m.to], m)
  <1>t. TypeInv /\ TypeInv' /\ Monotone /\ h \in LeaderLogs /\ a \in Acks
    BY NextMonotone DEF ElectionInv, LogInv, CommitInv
  <1>r. /\ state \in [Node -> {"Follower", "Candidate", "Leader"}]
        /\ currentTerm \in [Node -> Nat] /\ commitIndex \in [Node -> Nat]
        /\ matchIndex \in [Node -> [Node -> Nat]]
    BY <1>t DEF TypeInv, TypeOK
  <1>m. \A m \in msgs : /\ m \in Message /\ m.to \in Node /\ m.from \in Node /\ m.term \in Nat
                        /\ MessageHonest(m, h, a)
    BY <1>t, MessageKinds DEF TypeInv, TypeOK, CommitInv, MessagesHonest
  <1>f. \A n \in Node, t \in Nat : BecomeFollower(n, t) =>
            \A p \in Node : state'[p] = "Leader" => state[p] = "Leader"
    BY <1>r DEF BecomeFollower
  <1>v. \A m : \/ m.type = "RequestVoteReply"
               \/ m.type = "AppendEntriesReply" /\ ~m.success
               => MessageHonest(m, h, a)'
    BY DEF MessageHonest
  <1>1. ASSUME NEW n \in Node, StartElection(n) PROVE CommitInv(h, a)'
    <2>0. PICK T \in Nat : T = currentTerm[n] + 1
      BY <1>r
    <2>1. /\ UNCHANGED << log, matchIndex, commitIndex >> /\ currentTerm'[n] = T /\ T \in Nat
          /\ ballots' = ballots \cup {Ballot(n, T, n)}
          /\ state' = [state EXCEPT ![n] = "Candidate"]
      BY <1>1, <1>r, <2>0 DEF StartElection, leader, Ballot
    <2>2. ASSUME NEW m \in msgs' PROVE m \in msgs \/ MessageHonest(m, h, a)'
      <3>1. CASE m \in msgs
        BY <3>1
      <3>2. CASE m \notin msgs
        <4>1. PICK p \in Node \ {n} : m = VoteCall(n, p, T, Len(log[n]), LastTerm(log[n]))
          BY <1>1, <2>0, <3>2 DEF StartElection, LastIndex
        <4>2. /\ m.type = "RequestVote" /\ m.from = n /\ m.term = T
              /\ m.lastLogIndex = Len(log[n]) /\ m.lastLogTerm = LastTerm(log[n])
          BY <4>1 DEF VoteCall
        <4>3. T <= T
          BY <2>1
        <4> QED
          BY <2>1, <4>2, <4>3 DEF MessageHonest
      <3> QED
        BY <3>1, <3>2
    <2>3. BallotBacked(Ballot(n, T, n), h, a)'
      <3>1. /\ Ballot(n, T, n).term = T /\ Ballot(n, T, n).voter = n /\ Ballot(n, T, n).cand = n
            /\ T <= currentTerm'[n]
        BY <2>1 DEF Ballot
      <3>2. ASSUME NEW t \in Nat, NEW i \in Nat, Live(h, a, t, i)', i <= a[n][t]
            PROVE  SamePrefix(log'[n], h[t], i)
        <4>1. RecordStep(h, a, h, a)
          BY <1>t, RecordSame
        <4>2. AcksBounded(h, a) /\ AckedNow(h, a) /\ AckedKept(h, a) /\ log'[n] = log[n]
          BY <2>1 DEF CommitInv
        <4> QED
          BY <1>t, <3>2, <4>1, <4>2, NodeOn
      <3> QED
        BY <3>1, <3>2 DEF BallotBacked
    <2>4. \A p \in Node : state'[p] = "Leader" =>
             /\ state[p] = "Leader"
             /\ \A q \in Node \ {p} : matchIndex'[p][q] <= a[q][currentTerm[p]]
      BY <1>r, <2>1 DEF CommitInv, MatchTrue
    <2>5. \A v \in ballots' : v \in ballots \/ BallotBacked(v, h, a)'
      BY <2>1, <2>3
    <2> QED
      BY <1>t, <2>1, <2>2, <2>4, <2>5, CommitQuiet
  <1>2. ASSUME NEW n \in Node, TimerIdle(n) PROVE CommitInv(h, a)'
    BY <1>2, <1>t, CommitIdle DEF TimerIdle, leader
  <1>3. ASSUME NEW n \in Node, Kill(n) PROVE CommitInv(h, a)'
    BY <1>3, <1>t, CommitIdle DEF Kill, role, leader
  <1>4. ASSUME NEW n \in Node, NEW c \in Command, Start(n, c)
        PROVE  \E e \in EntryType : Appends(n, e, h)
    BY <1>4, <1>t, StartAppends
  <1>5. ASSUME NEW n \in Node, NEW p \in Node, SendAppendEntries(n, p) PROVE CommitInv(h, a)'
    <2>1. ASSUME NEW m \in msgs', m \notin msgs PROVE MessageHonest(m, h, a)'
      <3>1. /\ m.type = "AppendEntries" /\ m.term = currentTerm[n]
            /\ m.leaderCommit = commitIndex[n]
            /\ m.prevLogIndex + Len(m.entries) = Len(log[n])
        BY <1>5, <1>t, <2>1, SendTrue
      <3>2. /\ Settled(h, a, log[n], commitIndex[n], currentTerm[n]) /\ h[currentTerm[n]] = log[n]
            /\ log[n] \in Seq(EntryType) /\ commitIndex[n] \in Nat /\ currentTerm[n] \in Nat
        BY <1>5, <1>t, <1>r, LogTypes
           DEF SendAppendEntries, LogInv, LeaderLog, CommitInv, CommitsSettled
      <3>3. commitIndex[n] <= Len(log[n])
        BY <1>t, <3>2, SettledBound
      <3>4. Settled(h, a, h[m.term], m.leaderCommit, m.term)
        BY <3>1, <3>2
      <3> QED
        BY <3>1, <3>3, <3>4 DEF MessageHonest, Settled, Fixed, Own, Quorum
    <2> QED
      BY <1>5, <1>t, <2>1, CommitIdle DEF SendAppendEntries, role, leader
  <1>6. ASSUME NEW m \in msgs, Lose(m) PROVE CommitInv(h, a)'
    BY <1>6, <1>t, CommitIdle DEF Lose, role, leader
  <1>7. ASSUME NEW m \in msgs, GrantVote(m) PROVE CommitInv(h, a)'
    <2> DEFINE n == m.to
               c == m.from
    <2>1. /\ UNCHANGED << log, matchIndex, commitIndex >> /\ currentTerm'[n] = m.term
          /\ m.term >= currentTerm[n] /\ LogOK(m, log[n]) /\ m.type = "RequestVote"
          /\ ballots' = ballots \cup {Ballot(n, m.term, c)}
          /\ \A p \in Node : state'[p] = "Leader" => state[p] = "Leader"
      BY <1>7, <1>r, <1>m DEF GrantVote, leader, Ballot
    <2>2. \A r \in msgs' : r \in msgs \/ MessageHonest(r, h, a)'
      BY <1>7, <1>v DEF GrantVote, Reply, VoteReply
    <2>3. /\ n \in Node /\ c \in Node /\ m.term \in Nat /\ m \in Message
          /\ m.term <= currentTerm[c]
          /\ Standing(h, c, m.term) =>
               m.lastLogIndex = Len(log[c]) /\ m.lastLogTerm = LastTerm(log[c])
      BY <1>m, <2>1 DEF MessageHonest
    <2> HIDE DEF n, c
    <2>4. BallotBacked(Ballot(n, m.term, c), h, a)'
      <3>1. /\ Ballot(n, m.term, c).term = m.term /\ Ballot(n, m.term, c).voter = n
            /\ Ballot(n, m.term, c).cand = c
        BY DEF Ballot
      <3>2. m.term <= currentTerm'[c]
        <4>1. currentTerm[c] \in Nat /\ currentTerm'[c] \in Nat /\ currentTerm[c] <= currentTerm'[c]
          BY <1>t, <2>3 DEF TypeInv, TypeOK, Monotone
        <4> QED
          BY <2>3, <4>1
      <3>3. ASSUME Standing(h, c, m.term)', NEW t \in Nat, NEW i \in Nat,
                   Live(h, a, t, i)', i <= a[n][t]
            PROVE  SamePrefix(log'[c], h[t], i)
        <4>1. RecordStep(h, a, h, a) /\ StandersIdle(h) /\ Grows(h, h)
          BY <1>t, <2>1, RecordSame DEF StandersIdle, RecordStep
        <4>2. Standing(h, c, m.term)
          BY <1>t, <2>3, <3>3, <4>1, StandingBack
        <4>3. Live(h, a, t, i)
          <5>1. i <= Len(h[t])
            BY <3>3 DEF Live, Own
          <5> QED
            BY <1>t, <3>3, <4>1, <5>1, LiveBack
        <4>4. SamePrefix(log[n], h[t], i) /\ Complete(h, a)
          BY <2>3, <3>3, <4>3 DEF CommitInv, AckedKept
        <4>5. SamePrefix(log[c], h[t], i)
          BY <1>t, <2>1, <2>3, <4>2, <4>3, <4>4, GrantBacked
        <4> QED
          BY <2>1, <4>5
      <3> QED
        BY <3>1, <3>2, <3>3 DEF BallotBacked
    <2>5. \A p \in Node : state'[p] = "Leader" =>
             /\ state[p] = "Leader"
             /\ \A q \in Node \ {p} : matchIndex'[p][q] <= a[q][currentTerm[p]]
      BY <2>1 DEF CommitInv, MatchTrue
    <2>6. \A v \in ballots' : v \in ballots \/ BallotBacked(v, h, a)'
      BY <2>1, <2>4
    <2> QED
      BY <1>t, <2>1, <2>2, <2>5, <2>6, CommitQuiet
  <1>8. ASSUME NEW m \in msgs, DenyVote(m) PROVE CommitInv(h, a)'
    <2>1. \A r \in msgs' : r \in msgs \/ MessageHonest(r, h, a)'
      BY <1>8, <1>v DEF DenyVote, Reply, VoteReply
    <2>2. \A p \in Node : state'[p] = "Leader" => state[p] = "Leader"
      BY <1>8, <1>f, <1>m DEF DenyVote, role
    <2> QED
      BY <1>8, <1>t, <2>1, <2>2, CommitIdle DEF DenyVote, leader
  <1>9. ASSUME NEW m \in msgs, StepDown(m) PROVE CommitInv(h, a)'
    <2>1. \A p \in Node : state'[p] = "Leader" => state[p] = "Leader"
      BY <1>9, <1>f, <1>m DEF StepDown
    <2> QED
      BY <1>9, <1>t, <2>1, CommitIdle DEF StepDown, Done, leader
  <1>10. ASSUME NEW m \in msgs, CountVote(m)
         PROVE  (\E n \in Node : \E e \in EntryType : Appends(n, e, h)) \/ CommitInv(h, a)'
    <2>1. CASE Cardinality(votes[m.to] \cup {m.from}) >= Quorum
      BY <1>10, <2>1, WinAppends
    <2>2. CASE ~(Cardinality(votes[m.to] \cup {m.from}) >= Quorum)
      BY <1>10, <1>t, <2>2, CommitIdle DEF CountVote, Done, leader
    <2> QED
      BY <2>1, <2>2
  <1>11. ASSUME NEW m \in msgs, IgnoreVote(m) PROVE CommitInv(h, a)'
    BY <1>11, <1>t, CommitIdle DEF IgnoreVote, Done, role, leader
  <1>12. ASSUME NEW m \in msgs, AppendEntries(m), ~Consistent(log[m.to], m)
         PROVE  CommitInv(h, a)'
    <2>1. /\ AppendReply(m, m.term, Consistent(log[m.to], m)).type = "AppendEntriesReply"
          /\ ~AppendReply(m, m.term, Consistent(log[m.to], m)).success
      BY <1>12 DEF AppendReply
    <2>2. \A r \in msgs' : r \in msgs \/ MessageHonest(r, h, a)'
      BY <1>12, <1>v, <2>1 DEF AppendEntries, Reply
    <2>3. \A p \in Node : state'[p] = "Leader" => state[p] = "Leader"
      BY <1>12, <1>f, <1>m DEF AppendEntries
    <2> QED
      BY <1>12, <1>t, <2>2, <2>3, CommitIdle DEF AppendEntries, leader
  <1>13. ASSUME NEW m \in msgs, RefuseAppend(m) PROVE CommitInv(h, a)'
    <2>1. \A r \in msgs' : r \in msgs \/ MessageHonest(r, h, a)'
      BY <1>13, <1>v DEF RefuseAppend, Reply, AppendReply
    <2> QED
      BY <1>13, <1>t, <2>1, CommitIdle DEF RefuseAppend, role, leader
  <1>14. ASSUME NEW m \in msgs, AppendSucceeded(m) PROVE CommitInv(h, a)'
    <2> DEFINE n == m.to
               match == IF m.newMatch > matchIndex[n][m.from]
                        THEN [matchIndex[n] EXCEPT ![m.from] = m.newMatch] ELSE matchIndex[n]
    <2>1. /\ m.type = "AppendEntriesReply" /\ m.success /\ state[n] = "Leader"
          /\ m.sentTerm = currentTerm[n] /\ UNCHANGED << log, state, ballots >>
          /\ msgs' \subseteq msgs
          /\ matchIndex' = [matchIndex EXCEPT ![n] = match]
          /\ commitIndex' = [commitIndex EXCEPT ![n] = AdvanceCommitIndex(n, match)]
      BY <1>14 DEF AppendSucceeded, Current, Done, role
    <2>2. /\ n \in Node /\ m.from \in Node /\ m.newMatch \in Nat /\ currentTerm[n] \in Nat
          /\ m.newMatch <= a[m.from][currentTerm[n]]
      BY <1>m, <1>r, <2>1, MessageKinds DEF AppendReplyType, MessageHonest
    <2>3. /\ a[n][currentTerm[n]] = Len(log[n])
          /\ \A p \in Node \ {n} : matchIndex[n][p] <= a[p][currentTerm[n]]
      BY <2>1, <2>2 DEF CommitInv, MatchTrue
    <2>4. match \in [Node -> Nat] /\ \A p \in Node \ {n} : match[p] <= a[p][currentTerm[n]]
      BY <1>r, <2>2, <2>3
    <2> HIDE DEF n, match
    <2>5. \A q \in Node : state'[q] = "Leader" =>
             /\ state[q] = "Leader"
             /\ \A p \in Node \ {q} : matchIndex'[q][p] <= a[p][currentTerm[q]]
      <3> SUFFICES ASSUME NEW q \in Node, state[q] = "Leader"
                   PROVE  \A p \in Node \ {q} : matchIndex'[q][p] <= a[p][currentTerm[q]]
        BY <2>1
      <3>1. CASE q = n
        BY <1>r, <2>1, <2>2, <2>4, <3>1
      <3>2. CASE q # n
        BY <1>r, <2>1, <3>2 DEF CommitInv, MatchTrue
      <3> QED
        BY <3>1, <3>2
    <2>6. \A q \in Node : \/ commitIndex'[q] = commitIndex[q]
                          \/ Settled(h, a, log[q], commitIndex'[q], currentTerm[q])
      <3>1. AdvanceCommitIndex(n, match) = commitIndex[n]
            \/ Settled(h, a, log[n], AdvanceCommitIndex(n, match), currentTerm[n])
        BY <1>t, <2>1, <2>2, <2>3, <2>4, AdvanceSettled
      <3> QED
        BY <1>r, <2>1, <2>2, <3>1
    <2> QED
      BY <1>t, <2>1, <2>5, <2>6, CommitQuiet
  <1>15. ASSUME NEW m \in msgs, AppendRejected(m) PROVE CommitInv(h, a)'
    BY <1>15, <1>t, CommitIdle DEF AppendRejected, Done, role
  <1>16. CASE UNCHANGED vars
    BY <1>16, <1>t, CommitIdle DEF vars
  <1> QED
    BY <1>1, <1>2, <1>3, <1>4, <1>5, <1>6, <1>7, <1>8, <1>9, <1>10, <1>11,
       <1>12, <1>13, <1>14, <1>15, <1>16 DEF Next, Receive

\* Nothing has been confirmed at the start.
LEMMA InitCommitInv ==
    ASSUME Init, NEW h, h = [t \in Nat |-> << >>],
           NEW a, a = [p \in Node |-> [t \in Nat |-> 0]]
    PROVE  CommitInv(h, a)
  <1>1. a \in Acks
    BY DEF Acks
  <1>2. /\ \A t \in Nat : h[t] = << >>
        /\ \A p \in Node : \A t \in Nat : a[p][t] = 0
    OBVIOUS
  <1>3. \A t \in Nat, i \in Nat : ~Live(h, a, t, i)
    BY <1>2, EmptySeq DEF Live, Own
  <1>4. \A n \in Node : /\ currentTerm[n] = 0 /\ log[n] = << >> /\ commitIndex[n] = 0
                        /\ state[n] = "Follower"
    BY DEF Init, NewLog
  <1>5. << >> \in Seq(EntryType) /\ SamePrefix(<< >>, << >>, 0)
    <2>1. << >> \in Seq(EntryType)
      OBVIOUS
    <2> QED
      BY <2>1, SamePrefixSelf
  <1>6. AcksBounded(h, a)
    BY <1>2, EmptySeq DEF AcksBounded
  <1>7. AckedNow(h, a)
    BY <1>2, <1>4, <1>5 DEF AckedNow
  <1>8. AckedKept(h, a) /\ Complete(h, a)
    BY <1>3 DEF AckedKept, Complete
  <1>9. BallotsBacked(h, a) /\ MessagesHonest(h, a)
    BY DEF Init, BallotsBacked, MessagesHonest
  <1>10. MatchTrue(a) /\ CommitsSettled(h, a)
    BY <1>4 DEF MatchTrue, CommitsSettled, Settled
  <1> QED
    BY <1>1, <1>6, <1>7, <1>8, <1>9, <1>10 DEF CommitInv

-----------------------------------------------------------------------------
(* The invariant of the specification *)

CommitRecord ==
    /\ ElectionInv
    /\ \E h \in LeaderLogs, a \in Acks : LogInv(h) /\ CommitInv(h, a)

\* What a step does to a log below the commit index, and to a leader's log.
Kept(n) ==
    /\ commitIndex[n] <= commitIndex'[n]
    /\ SamePrefix(log[n], log'[n], commitIndex[n])
    /\ state[n] = "Leader" /\ state'[n] = "Leader"
          => SamePrefix(log[n], log'[n], Len(log[n]))

(***************************************************************************)
(* Every step keeps what is committed, and the records exist afterwards.   *)
(***************************************************************************)
LEMMA NextCommitRecord ==
    ASSUME ElectionInv, ElectionInv', NEW h, LogInv(h), NEW a, CommitInv(h, a), [Next]_vars
    PROVE  CommitRecord'
  <1>t. TypeInv /\ TypeInv' /\ Monotone /\ h \in LeaderLogs /\ a \in Acks
    BY NextMonotone DEF ElectionInv, LogInv, CommitInv
  <1>1. ASSUME NEW n \in Node, NEW e \in EntryType, Appends(n, e, h) PROVE CommitRecord'
    <2>1. PICK g : g = Extended(h, n, e)
      OBVIOUS
    <2>2. PICK b : b = Confirmed(a, n, currentTerm[n], Len(log[n]) + 1)
      OBVIOUS
    <2>3. LogInv(g)'
      BY <1>t, <1>1, <2>1, LogExtend
    <2>4. CommitInv(g, b)'
      BY <1>t, <1>1, <2>1, <2>2, CommitAppend
    <2>5. g \in LeaderLogs /\ b \in Acks
      BY <2>3, <2>4 DEF LogInv, CommitInv
    <2> QED
      BY <2>3, <2>4, <2>5 DEF CommitRecord
  <1>2. ASSUME NEW m \in msgs, AppendEntries(m), Consistent(log[m.to], m) PROVE CommitRecord'
    <2>1. PICK b : b = Confirmed(a, m.to, m.term, m.prevLogIndex + Len(m.entries))
      OBVIOUS
    <2>2. LogInv(h)'
      BY <1>t, <1>2, LogMerge
    <2>3. CommitInv(h, b)'
      BY <1>t, <1>2, <2>1, CommitMerge
    <2>4. b \in Acks
      BY <2>3 DEF CommitInv
    <2> QED
      BY <1>t, <2>2, <2>3, <2>4 DEF CommitRecord
  <1>3. CASE LogInv(h)' /\ CommitInv(h, a)'
    BY <1>t, <1>3 DEF CommitRecord
  <1>4. (\E n \in Node : \E e \in EntryType : Appends(n, e, h)) \/ LogInv(h)'
    BY NextLogInv
  <1>5. CASE LogInv(h)'
    BY <1>1, <1>2, <1>3, <1>5, NextCommitInv
  <1> QED
    BY <1>1, <1>4, <1>5

\* On every run there are records for which the invariant holds.
LEMMA CommitInvariant == Spec => []CommitRecord
  <1>1. Init => CommitRecord
    <2> SUFFICES ASSUME Init PROVE CommitRecord
      OBVIOUS
    <2>1. PICK h : h = [t \in Nat |-> << >>]
      OBVIOUS
    <2>2. PICK a : a = [p \in Node |-> [t \in Nat |-> 0]]
      OBVIOUS
    <2>3. LogInv(h)
      BY <2>1, InitLogInv
    <2>4. CommitInv(h, a)
      BY <2>1, <2>2, InitCommitInv
    <2>5. h \in LeaderLogs /\ a \in Acks
      BY <2>3, <2>4 DEF LogInv, CommitInv
    <2> QED
      BY <2>3, <2>4, <2>5, InitElectionInv DEF CommitRecord
  <1>2. CommitRecord /\ [Next]_vars => CommitRecord'
    <2> SUFFICES ASSUME CommitRecord, [Next]_vars PROVE CommitRecord'
      OBVIOUS
    <2>1. PICK h \in LeaderLogs, a \in Acks : LogInv(h) /\ CommitInv(h, a)
      BY DEF CommitRecord
    <2>2. ElectionInv /\ ElectionInv'
      BY NextElectionInv DEF CommitRecord
    <2> QED
      BY <2>1, <2>2, NextCommitRecord
  <1> QED
    BY <1>1, <1>2, PTL DEF Spec

-----------------------------------------------------------------------------
(* What a step may do to logs and commit indexes *)

\* One node's commit index moves, forward, and no log changes.
OnlyCommits ==
    /\ UNCHANGED log
    /\ \/ UNCHANGED commitIndex
       \/ \E n \in Node, k \in Nat :
             commitIndex[n] <= k /\ commitIndex' = [commitIndex EXCEPT ![n] = k]

\* Every step appends to a leader's log, merges a call, or does neither.
LEMMA StepKinds ==
    ASSUME ElectionInv, NEW h, LogInv(h), [Next]_vars
    PROVE  \/ \E n \in Node : \E e \in EntryType : Appends(n, e, h)
           \/ \E m \in msgs : AppendEntries(m) /\ Consistent(log[m.to], m)
           \/ OnlyCommits
  <1>t. TypeInv
    BY DEF ElectionInv
  <1>1. ASSUME NEW n \in Node, NEW c \in Command, Start(n, c)
        PROVE  \E e \in EntryType : Appends(n, e, h)
    BY <1>1, <1>t, StartAppends
  <1>2. ASSUME NEW m \in msgs, CountVote(m)
        PROVE  (\E n \in Node : \E e \in EntryType : Appends(n, e, h)) \/ OnlyCommits
    <2>1. CASE Cardinality(votes[m.to] \cup {m.from}) >= Quorum
      BY <1>2, <2>1, WinAppends
    <2>2. CASE ~(Cardinality(votes[m.to] \cup {m.from}) >= Quorum)
      BY <1>2, <2>2 DEF CountVote, OnlyCommits
    <2> QED
      BY <2>1, <2>2
  <1>3. ASSUME NEW m \in msgs, AppendSucceeded(m) PROVE OnlyCommits
    <2> DEFINE n == m.to
               match == IF m.newMatch > matchIndex[n][m.from]
                        THEN [matchIndex[n] EXCEPT ![m.from] = m.newMatch] ELSE matchIndex[n]
               k == AdvanceCommitIndex(n, match)
    <2>1. UNCHANGED log /\ commitIndex' = [commitIndex EXCEPT ![n] = k]
      BY <1>3 DEF AppendSucceeded
    <2>2. n \in Node /\ k \in Nat /\ commitIndex[n] <= k
      <3>1. /\ m \in Message /\ m.type = "AppendEntriesReply"
            /\ matchIndex \in [Node -> [Node -> Nat]]
            /\ commitIndex \in [Node -> Nat] /\ log \in [Node -> Seq(EntryType)]
        BY <1>3, <1>t DEF AppendSucceeded, TypeInv, TypeOK
      <3>2. n \in Node /\ m.from \in Node /\ m.newMatch \in Nat
        BY <3>1, MessageKinds DEF AppendReplyType
      <3> HIDE DEF match
      <3>3. AdvanceCommitIndex(n, match) \in Nat /\ AdvanceCommitIndex(n, match) >= commitIndex[n]
        BY <3>1, <3>2, AdvanceCommitIndexType
      <3> QED
        BY <3>1, <3>2, <3>3
    <2> QED
      BY <2>1, <2>2 DEF OnlyCommits
  <1>4. \A n \in Node : /\ StartElection(n) \/ TimerIdle(n) \/ Kill(n) => OnlyCommits
                        /\ \A p \in Node : SendAppendEntries(n, p) => OnlyCommits
    BY DEF StartElection, TimerIdle, Kill, SendAppendEntries, OnlyCommits
  <1>5. \A m \in msgs :
           \/ Lose(m) \/ GrantVote(m) \/ DenyVote(m) \/ StepDown(m) \/ IgnoreVote(m)
           \/ RefuseAppend(m) \/ AppendRejected(m)
           \/ AppendEntries(m) /\ ~Consistent(log[m.to], m)
           => OnlyCommits
    BY DEF Lose, GrantVote, DenyVote, StepDown, IgnoreVote, RefuseAppend,
                AppendRejected, AppendEntries, OnlyCommits
  <1>6. CASE UNCHANGED vars
    BY <1>6 DEF vars, OnlyCommits
  <1> QED
    BY <1>1, <1>2, <1>3, <1>4, <1>5, <1>6 DEF Next, Receive

\* No step takes back what is committed, or an entry of a leader's log.
LEMMA StepKeeps ==
    ASSUME ElectionInv, ElectionInv', NEW h, LogInv(h), NEW a, CommitInv(h, a), [Next]_vars,
           NEW n \in Node
    PROVE  Kept(n)
  <1>t. TypeInv /\ TypeInv' /\ Monotone /\ h \in LeaderLogs /\ a \in Acks
    BY NextMonotone DEF ElectionInv, LogInv, CommitInv
  <1>1. /\ log[n] \in Seq(EntryType) /\ Len(log[n]) \in Nat /\ commitIndex[n] \in Nat
        /\ commitIndex'[n] \in Nat /\ commitIndex \in [Node -> Nat]
        /\ log \in [Node -> Seq(EntryType)]
    BY <1>t, LogTypes DEF TypeInv, TypeOK
  <1>2. commitIndex[n] <= Len(log[n])
    <2>1. Settled(h, a, log[n], commitIndex[n], currentTerm[n]) /\ currentTerm[n] \in Nat
      BY <1>t DEF CommitInv, CommitsSettled, TypeInv, TypeOK
    <2> QED
      BY <1>t, <1>1, <2>1, SettledBound
  <1>3. SamePrefix(log[n], log[n], Len(log[n]))
    BY <1>1, SamePrefixSelf
  <1>4. SamePrefix(log[n], log[n], commitIndex[n])
    BY <1>1, <1>2, <1>3, SamePrefixLess
  <1>5. ASSUME NEW p \in Node, NEW e \in EntryType, Appends(p, e, h) PROVE Kept(n)
    <2>1. commitIndex' = commitIndex /\ log' = [log EXCEPT ![p] = Append(log[p], e)]
      BY <1>5 DEF Appends
    <2>2. CASE n = p
      <3>1. log'[n] = Append(log[n], e)
        BY <1>1, <2>1, <2>2
      <3>2. log'[n] \in Seq(EntryType) /\ SamePrefix(log[n], log'[n], Len(log[n]))
        BY <1>1, <3>1, AppendKeeps
      <3>3. SamePrefix(log[n], log'[n], commitIndex[n])
        BY <1>1, <1>2, <3>2, SamePrefixLess
      <3> QED
        BY <1>1, <2>1, <3>2, <3>3 DEF Kept
    <2>3. CASE n # p
      <3>1. log'[n] = log[n]
        BY <1>1, <2>1, <2>3
      <3> QED
        BY <1>1, <1>3, <1>4, <2>1, <3>1 DEF Kept
    <2> QED
      BY <2>2, <2>3
  <1>6. ASSUME NEW m \in msgs, AppendEntries(m), Consistent(log[m.to], m) PROVE Kept(n)
    <2>1. PICK b : b = Confirmed(a, m.to, m.term, m.prevLogIndex + Len(m.entries))
      OBVIOUS
    <2>2. /\ SamePrefix(log[m.to], log'[m.to], commitIndex[m.to])
          /\ commitIndex[m.to] <= commitIndex'[m.to]
      BY <1>t, <1>6, <2>1, CommitMerge
    <2>3. /\ m.to \in Node
          /\ \A q \in Node \ {m.to} : log'[q] = log[q]
          /\ state[m.to] = "Leader" /\ currentTerm[m.to] = m.term => log'[m.to] = log[m.to]
      BY <1>t, <1>6, MergeStep
    <2>4. \A q \in Node \ {m.to} : commitIndex'[q] = commitIndex[q]
      BY <1>1, <1>6 DEF AppendEntries
    <2>5. state[m.to] = "Leader" /\ state'[m.to] = "Leader" => currentTerm[m.to] = m.term
      <3>1. m.term >= currentTerm[m.to]
            /\ (m.term > currentTerm[m.to] => BecomeFollower(m.to, m.term))
        BY <1>6 DEF AppendEntries
      <3>2. m.term \in Nat /\ currentTerm[m.to] \in Nat
            /\ state \in [Node -> {"Follower", "Candidate", "Leader"}]
        BY <1>6, <1>t, <2>3, MessageKinds DEF TypeInv, TypeOK
      <3>3. BecomeFollower(m.to, m.term) => state'[m.to] = "Follower"
        BY <2>3, <3>2 DEF BecomeFollower
      <3> QED
        BY <3>1, <3>2, <3>3
    <2>6. CASE n = m.to
      BY <1>3, <2>2, <2>3, <2>5, <2>6 DEF Kept
    <2>7. CASE n # m.to
      BY <1>1, <1>3, <1>4, <2>3, <2>4, <2>7 DEF Kept
    <2> QED
      BY <2>6, <2>7
  <1>7. CASE OnlyCommits
    <2>1. log'[n] = log[n]
      BY <1>7 DEF OnlyCommits
    <2>2. commitIndex[n] <= commitIndex'[n]
      <3>1. CASE UNCHANGED commitIndex
        BY <1>1, <3>1
      <3>2. ASSUME NEW p \in Node, NEW k \in Nat, commitIndex[p] <= k,
                   commitIndex' = [commitIndex EXCEPT ![p] = k]
            PROVE  commitIndex[n] <= commitIndex'[n]
        BY <1>1, <3>2
      <3> QED
        BY <1>7, <3>1, <3>2 DEF OnlyCommits
    <2> QED
      BY <1>3, <1>4, <2>1, <2>2 DEF Kept
  <1> QED
    BY <1>5, <1>6, <1>7, StepKinds

(***************************************************************************)
(* No step lowers a term or a commit index, rewrites an entry below the    *)
(* commit index, or takes an entry from the log of a leader that goes on   *)
(* leading: in particular the truncation in AppendEntries, also of a call  *)
(* that was delayed past newer ones, cuts off nothing that is committed.   *)
(***************************************************************************)
THEOREM NothingIsUndone == Spec => NothingUndone
  <1> DEFINE A == \A n \in Node :
                     /\ currentTerm[n] <= currentTerm'[n]
                     /\ commitIndex[n] <= commitIndex'[n]
                     /\ SamePrefix(log[n], log'[n], commitIndex[n])
                     /\ state[n] = "Leader" /\ state'[n] = "Leader"
                           => SamePrefix(log[n], log'[n], Len(log[n]))
  <1>1. CommitRecord /\ [Next]_vars => A
    <2> SUFFICES ASSUME CommitRecord, [Next]_vars PROVE A
      OBVIOUS
    <2>1. PICK h \in LeaderLogs, a \in Acks : LogInv(h) /\ CommitInv(h, a)
      BY DEF CommitRecord
    <2>2. ElectionInv /\ ElectionInv' /\ Monotone
      BY NextElectionInv, NextMonotone DEF CommitRecord, ElectionInv
    <2>3. \A n \in Node : Kept(n)
      BY <2>1, <2>2, StepKeeps
    <2>4. \A n \in Node : currentTerm[n] <= currentTerm'[n]
      BY <2>2 DEF Monotone
    <2> QED
      BY <2>3, <2>4 DEF Kept
  <1>2. CommitRecord /\ [Next]_vars => [A]_vars
    BY <1>1
  <1> HIDE DEF A
  <1>3. [][A]_vars => NothingUndone
    BY PTL DEF NothingUndone, A
  <1> QED
    BY <1>2, <1>3, CommitInvariant, PTL DEF Spec

-----------------------------------------------------------------------------
(* Safety *)

\* The facts about one node that the theorems below start from.
LEMMA CommitFacts ==
    ASSUME ElectionInv, NEW h, LogInv(h), NEW a, CommitInv(h, a), NEW n \in Node
    PROVE  /\ h \in LeaderLogs /\ a \in Acks /\ Complete(h, a)
           /\ log[n] \in Seq(EntryType) /\ Len(log[n]) \in Nat
           /\ currentTerm[n] \in Nat /\ commitIndex[n] \in Nat
           /\ Settled(h, a, log[n], commitIndex[n], currentTerm[n])
           /\ commitIndex[n] <= Len(log[n])
           /\ state[n] = "Leader" => h[currentTerm[n]] = log[n] /\ log[n] # << >>
  <1>1. TypeInv /\ h \in LeaderLogs /\ a \in Acks /\ Complete(h, a)
    BY DEF ElectionInv, LogInv, CommitInv
  <1>2. log[n] \in Seq(EntryType) /\ Len(log[n]) \in Nat /\ currentTerm[n] \in Nat
    BY <1>1, LogTypes
  <1>3. commitIndex[n] \in Nat
    BY <1>1 DEF TypeInv, TypeOK
  <1>4. Settled(h, a, log[n], commitIndex[n], currentTerm[n])
    BY DEF CommitInv, CommitsSettled
  <1>5. state[n] = "Leader" => h[currentTerm[n]] = log[n] /\ log[n] # << >>
    BY DEF LogInv, LeaderLog
  <1> QED
    BY <1>1, <1>2, <1>3, <1>4, <1>5, SettledBound

\* Of two nodes' committed entries the shorter run is a prefix of the longer.
LEMMA CommitsAgree ==
    ASSUME CommitRecord, NEW n \in Node, NEW p \in Node, commitIndex[n] <= commitIndex[p]
    PROVE  SamePrefix(log[n], log[p], commitIndex[n])
  <1>1. PICK h \in LeaderLogs, a \in Acks : LogInv(h) /\ CommitInv(h, a)
    BY DEF CommitRecord
  <1>2. ElectionInv
    BY DEF CommitRecord
  <1> QED
    BY <1>1, <1>2, CommitFacts, SettledAgree

(***************************************************************************)
(* No two nodes disagree on an entry both consider committed, so applyLoop *)
(* hands the same commands to every server in the same order: for every    *)
(* cluster size, every number of elections and every loss, delay and       *)
(* reordering of calls and replies.                                        *)
(***************************************************************************)
THEOREM CommitsNeverConflict == Spec => []StateMachineSafety
  <1>1. CommitRecord => StateMachineSafety
    <2> SUFFICES ASSUME CommitRecord, NEW n \in Node, NEW p \in Node
                 PROVE  SamePrefix(log[n], log[p], Min({commitIndex[n], commitIndex[p]}))
      BY DEF StateMachineSafety
    <2> DEFINE k == Min({commitIndex[n], commitIndex[p]})
    <2>1. commitIndex[n] \in Nat /\ commitIndex[p] \in Nat
      BY DEF CommitRecord, ElectionInv, TypeInv, TypeOK
    <2>2. k \in {commitIndex[n], commitIndex[p]} /\ k <= commitIndex[n] /\ k <= commitIndex[p]
      <3>1. /\ k \in {commitIndex[n], commitIndex[p]}
            /\ \A y \in {commitIndex[n], commitIndex[p]} : k <= y
        BY <2>1, MinOfNaturals
      <3> QED
        BY <3>1
    <2> HIDE DEF k
    <2>3. CASE k = commitIndex[n]
      BY <2>2, <2>3, CommitsAgree DEF k
    <2>4. CASE k = commitIndex[p]
      <3>1. SamePrefix(log[p], log[n], commitIndex[p])
        BY <2>2, <2>4, CommitsAgree
      <3> QED
        BY <2>4, <3>1, SamePrefixSym DEF k
    <2> QED
      BY <2>2, <2>3, <2>4
  <1> QED
    BY <1>1, CommitInvariant, PTL

(***************************************************************************)
(* A leader holds every entry that any node of its term or an earlier one  *)
(* considers committed: the log comparison in RequestVote keeps out every  *)
(* candidate that lacks one.                                               *)
(***************************************************************************)
THEOREM LeadersAreComplete == Spec => []LeaderCompleteness
  <1>1. CommitRecord => LeaderCompleteness
    <2> SUFFICES ASSUME CommitRecord, NEW n \in Node, NEW p \in Node,
                        state[n] = "Leader", currentTerm[p] <= currentTerm[n]
                 PROVE  SamePrefix(log[n], log[p], commitIndex[p])
      BY DEF LeaderCompleteness
    <2>1. PICK h \in LeaderLogs, a \in Acks : LogInv(h) /\ CommitInv(h, a)
      BY DEF CommitRecord
    <2>2. ElectionInv
      BY DEF CommitRecord
    <2>3. /\ Complete(h, a) /\ h[currentTerm[n]] = log[n] /\ log[n] # << >>
          /\ currentTerm[n] \in Nat
      BY <2>1, <2>2, CommitFacts
    <2>4. /\ log[p] \in Seq(EntryType) /\ currentTerm[p] \in Nat /\ commitIndex[p] \in Nat
          /\ Settled(h, a, log[p], commitIndex[p], currentTerm[p])
      BY <2>1, <2>2, CommitFacts
    <2>5. SamePrefix(log[p], h[currentTerm[n]], commitIndex[p])
      BY <2>3, <2>4, SettledLeader
    <2> QED
      BY <2>3, <2>5, SamePrefixSym
  <1> QED
    BY <1>1, CommitInvariant, PTL

(***************************************************************************)
(* At all times a majority of the logs holds every entry that some node    *)
(* considers committed: no election, truncation or stale call takes it     *)
(* from so many that it could be lost.                                     *)
(***************************************************************************)
THEOREM CommitsStayOnQuorum == Spec => []CommittedOnQuorum
  <1>1. CommitRecord => CommittedOnQuorum
    <2> SUFFICES ASSUME CommitRecord, NEW n \in Node
                 PROVE  Cardinality({p \in Node : SamePrefix(log[n], log[p], commitIndex[n])})
                            >= Quorum
      BY DEF CommittedOnQuorum
    <2> DEFINE k == commitIndex[n]
               R == {p \in Node : SamePrefix(log[n], log[p], k)}
    <2>1. PICK h \in LeaderLogs, a \in Acks : LogInv(h) /\ CommitInv(h, a)
      BY DEF CommitRecord
    <2>2. ElectionInv
      BY DEF CommitRecord
    <2>3. /\ log[n] \in Seq(EntryType) /\ currentTerm[n] \in Nat /\ k \in Nat
          /\ Settled(h, a, log[n], k, currentTerm[n])
      BY <2>1, <2>2, CommitFacts
    <2>4. \A p \in Node : log[p] \in Seq(EntryType)
      BY <2>1, <2>2, CommitFacts
    <2>5. CASE k = 0
      <3>1. R = Node
        BY <2>3, <2>4, <2>5, SamePrefixSelf
      <3>2. Cardinality(Node) \in Nat /\ Cardinality(Node) # 0
        BY NodeAssumption, FS_CardinalityType, FS_EmptySet
      <3>3. Cardinality(Node) >= Quorum
        BY <3>2 DEF Quorum
      <3> QED
        BY <3>1, <3>3
    <2>6. CASE k > 0
      <3>1. PICK t \in Nat, i \in Nat :
                /\ Fixed(h, a, t, i) /\ Live(h, a, t, i) /\ k <= i
                /\ h[t] \in Seq(EntryType) /\ SamePrefix(log[n], h[t], k)
        BY <2>3, <2>6, SettledAt
      <3>2. ASSUME NEW p \in Node, i <= a[p][t] PROVE SamePrefix(log[n], log[p], k)
        <4>1. SamePrefix(log[p], h[t], i)
          BY <2>1, <3>1, <3>2 DEF CommitInv, AckedKept
        <4>2. SamePrefix(log[p], h[t], k)
          BY <2>3, <2>4, <3>1, <4>1, SamePrefixLess
        <4> QED
          BY <3>1, <4>2, SamePrefixSym, SamePrefixTrans
      <3> DEFINE Q == {p \in Node : i <= a[p][t]}
      <3>3. Q \subseteq R /\ R \subseteq Node
        BY <3>2
      <3> HIDE DEF R
      <3>4. Cardinality(Q) >= Quorum
        BY <3>1 DEF Fixed
      <3> HIDE DEF Q
      <3>5. Cardinality(R) >= Quorum
        BY <3>3, <3>4, QuorumMore
      <3> QED
        BY <3>5 DEF R
    <2> QED
      BY <2>3, <2>5, <2>6
  <1> QED
    BY <1>1, CommitInvariant, PTL

(***************************************************************************)
(* What a leader believes of a peer is true, however late or out of order  *)
(* the replies arrive: a peer that has not moved to a later term holds the *)
(* leader's log up to matchIndex, and nextIndex stays within reach.        *)
(***************************************************************************)
THEOREM PeersAreTracked == Spec => []PeerTracking
  <1>1. CommitRecord => PeerTracking
    <2> SUFFICES ASSUME CommitRecord, NEW n \in Node, state[n] = "Leader",
                        NEW p \in Node \ {n}
                 PROVE  /\ nextIndex[n][p] <= Len(log[n]) + 1
                        /\ currentTerm[p] <= currentTerm[n]
                             => SamePrefix(log[n], log[p], matchIndex[n][p])
      BY DEF PeerTracking
    <2> DEFINE T == currentTerm[n]
    <2>1. PICK h \in LeaderLogs, a \in Acks : LogInv(h) /\ CommitInv(h, a)
      BY DEF CommitRecord
    <2>2. ElectionInv
      BY DEF CommitRecord
    <2>3. h[T] = log[n] /\ log[n] \in Seq(EntryType) /\ T \in Nat
      BY <2>1, <2>2, CommitFacts
    <2>4. /\ log[p] \in Seq(EntryType) /\ currentTerm[p] \in Nat /\ matchIndex[n][p] \in Nat
          /\ a[p][T] \in Nat
      <3>1. log[p] \in Seq(EntryType) /\ currentTerm[p] \in Nat
        BY <2>1, <2>2, CommitFacts
      <3>2. matchIndex[n][p] \in Nat
        BY <2>2 DEF ElectionInv, TypeInv, TypeOK
      <3>3. a[p][T] \in Nat
        BY <2>3 DEF Acks
      <3> QED
        BY <3>1, <3>2, <3>3
    <2>5. nextIndex[n][p] <= Len(log[n]) + 1
      BY <2>1 DEF LogInv, LeaderLog
    <2>6. /\ matchIndex[n][p] <= a[p][T]
          /\ a[p][T] > 0 => T <= currentTerm[p]
          /\ SamePrefix(log[p], h[currentTerm[p]], a[p][currentTerm[p]])
      BY <2>1, <2>3 DEF CommitInv, MatchTrue, AcksBounded, AckedNow
    <2>7. ASSUME currentTerm[p] <= T PROVE SamePrefix(log[n], log[p], matchIndex[n][p])
      <3>1. CASE a[p][T] = 0
        <4>1. matchIndex[n][p] = 0
          BY <2>4, <2>6, <3>1
        <4> QED
          BY <2>3, <2>4, <4>1, SamePrefixSelf
      <3>2. CASE a[p][T] > 0
        <4>1. currentTerm[p] = T
          BY <2>3, <2>4, <2>6, <2>7, <3>2
        <4>2. SamePrefix(log[p], log[n], a[p][T])
          BY <2>3, <2>6, <4>1
        <4> HIDE DEF T
        <4> QED
          BY <2>3, <2>4, <2>6, <4>2, SamePrefixLess, SamePrefixSym
      <3> QED
        BY <2>4, <3>1, <3>2
    <2> QED
      BY <2>5, <2>7
  <1> QED
    BY <1>1, CommitInvariant, PTL

-----------------------------------------------------------------------------
(* The node the refinement mapping looks at *)

\* A function on the nodes has a greatest value.
LEMMA GreatestOfNode ==
    ASSUME NEW f \in [Node -> Nat]
    PROVE  \E n \in Node : \A p \in Node : f[p] <= f[n]
  <1> DEFINE Above(n) == {p \in Node : f[p] >= f[n]}
             S == {Cardinality(Above(n)) : n \in Node}
  <1>1. \A n \in Node : IsFiniteSet(Above(n)) /\ Cardinality(Above(n)) \in Nat
    BY NodeAssumption, FS_Subset, FS_CardinalityType
  <1>2. S \subseteq Nat /\ S # {}
    <2>1. PICK n : n \in Node
      BY NodeAssumption
    <2>2. Cardinality(Above(n)) \in S
      BY <2>1
    <2> QED
      BY <1>1, <2>2
  <1>3. Min(S) \in S /\ \A y \in S : Min(S) <= y
    BY <1>2, MinOfNaturals
  <1>4. PICK n \in Node : \A p \in Node : Cardinality(Above(n)) <= Cardinality(Above(p))
    BY <1>3
  <1>5. ASSUME NEW p \in Node, f[p] > f[n] PROVE FALSE
    <2>1. Above(p) \subseteq Above(n) /\ n \in Above(n) /\ n \notin Above(p)
      BY <1>5
    <2> HIDE DEF Above
    <2>2. Cardinality(Above(p)) <= Cardinality(Above(n)) /\ Cardinality(Above(p)) # Cardinality(Above(n))
      BY <1>1, <2>1, FS_Subset
    <2> QED
      BY <1>1, <1>4, <2>2
  <1> QED
    BY <1>5

Top == CHOOSE n \in Node : \A p \in Node : commitIndex[p] <= commitIndex[n]

\* The chosen entries are those the most advanced node considers committed,
\* and they include what any other node does.
ChosenFacts ==
    /\ Top \in Node /\ \A p \in Node : commitIndex[p] <= commitIndex[Top]
    /\ Committed = SubSeq(log[Top], 1, commitIndex[Top])
    /\ log[Top] \in Seq(EntryType) /\ commitIndex[Top] \in Nat
    /\ commitIndex[Top] <= Len(log[Top]) /\ Len(log[Top]) \in Nat
    /\ \A n \in Node : /\ log[n] \in Seq(EntryType) /\ commitIndex[n] \in Nat
                      /\ SamePrefix(log[n], log[Top], commitIndex[n])

\* Every node's committed entries are a prefix of those of the node the
\* mapping looks at.
LEMMA CommittedIs == CommitRecord => ChosenFacts
  <1> SUFFICES ASSUME CommitRecord PROVE ChosenFacts
    OBVIOUS
  <1>1. PICK h \in LeaderLogs, a \in Acks : LogInv(h) /\ CommitInv(h, a)
    BY DEF CommitRecord
  <1>2. ElectionInv /\ commitIndex \in [Node -> Nat]
    BY DEF CommitRecord, ElectionInv, TypeInv, TypeOK
  <1>3. Top \in Node /\ \A p \in Node : commitIndex[p] <= commitIndex[Top]
    BY <1>2, GreatestOfNode DEF Top
  <1>4. \A n \in Node : /\ log[n] \in Seq(EntryType) /\ commitIndex[n] \in Nat
                        /\ commitIndex[n] <= Len(log[n]) /\ Len(log[n]) \in Nat
    BY <1>1, <1>2, CommitFacts
  <1>5. Committed = SubSeq(log[Top], 1, commitIndex[Top])
    BY DEF Committed, Top, Prefix
  <1>6. \A n \in Node : SamePrefix(log[n], log[Top], commitIndex[n])
    BY <1>3, CommitsAgree
  <1> QED
    BY <1>3, <1>4, <1>5, <1>6 DEF ChosenFacts

\* Prefixes of logs, as sequences.
LEMMA PrefixIs ==
    ASSUME NEW S, NEW l \in Seq(S), NEW m \in Seq(S), NEW k \in Nat, NEW j \in Nat,
           k <= j, j <= Len(m), SamePrefix(l, m, k)
    PROVE  /\ Len(SubSeq(l, 1, k)) = k /\ Len(SubSeq(m, 1, j)) = j
           /\ SubSeq(SubSeq(l, 1, k), 1, k) = SubSeq(SubSeq(m, 1, j), 1, k)
           /\ k = j => SubSeq(l, 1, k) = SubSeq(m, 1, j)
  <1>0. Len(l) \in Nat /\ Len(m) \in Nat /\ k <= Len(l)
    BY LenProperties DEF SamePrefix
  <1>1. /\ SubSeq(l, 1, k) \in Seq(S) /\ Len(SubSeq(l, 1, k)) = k
        /\ \A i \in 1..k : SubSeq(l, 1, k)[i] = l[i]
    BY <1>0
  <1>2. /\ SubSeq(m, 1, j) \in Seq(S) /\ Len(SubSeq(m, 1, j)) = j
        /\ \A i \in 1..j : SubSeq(m, 1, j)[i] = m[i]
    BY <1>0
  <1>3. \A i \in 1..k : l[i] = m[i]
    BY DEF SamePrefix
  <1>4. ASSUME NEW x \in Seq(S), NEW y \in Seq(S), Len(x) = k, k <= Len(y),
               \A i \in 1..k : x[i] = y[i]
        PROVE  SubSeq(x, 1, k) = SubSeq(y, 1, k)
    <2>1. SubSeq(x, 1, k) \in Seq(S) /\ SubSeq(y, 1, k) \in Seq(S) /\ Len(y) \in Nat
      BY <1>4, LenProperties
    <2>2. Len(SubSeq(x, 1, k)) = k /\ Len(SubSeq(y, 1, k)) = k
      BY <1>4, <2>1
    <2>3. \A i \in 1..k : SubSeq(x, 1, k)[i] = SubSeq(y, 1, k)[i]
      BY <1>4, <2>1
    <2> QED
      BY <2>1, <2>2, <2>3, SeqEqual
  <1>5. SubSeq(SubSeq(l, 1, k), 1, k) = SubSeq(SubSeq(m, 1, j), 1, k)
    BY <1>1, <1>2, <1>3, <1>4
  <1>6. ASSUME k = j PROVE SubSeq(l, 1, k) = SubSeq(m, 1, j)
    BY <1>1, <1>2, <1>3, <1>6, SeqEqual
  <1> QED
    BY <1>1, <1>2, <1>5, <1>6

-----------------------------------------------------------------------------
(* The refinement *)

\* A step moves at most one node's commit index, and only forward.
LEMMA OneCommits ==
    ASSUME CommitRecord, CommitRecord', [Next]_vars
    PROVE  \/ commitIndex' = commitIndex
           \/ \E n \in Node, k \in Nat :
                 commitIndex[n] < k /\ commitIndex' = [commitIndex EXCEPT ![n] = k]
  <1>1. PICK h \in LeaderLogs, a \in Acks : LogInv(h) /\ CommitInv(h, a)
    BY DEF CommitRecord
  <1>2. ElectionInv /\ ElectionInv' /\ TypeInv
    BY DEF CommitRecord, ElectionInv
  <1>3. commitIndex \in [Node -> Nat] /\ commitIndex' \in [Node -> Nat]
    BY <1>2 DEF ElectionInv, TypeInv, TypeOK
  <1>4. ASSUME NEW n \in Node, NEW k, commitIndex' = [commitIndex EXCEPT ![n] = k]
        PROVE  \/ commitIndex' = commitIndex
               \/ k \in Nat /\ commitIndex[n] < k
    <2>1. k = commitIndex'[n]
      BY <1>3, <1>4
    <2>2. k \in Nat /\ commitIndex[n] \in Nat
      BY <1>3, <2>1
    <2>3. commitIndex[n] <= k
      BY <1>1, <1>2, <2>1, StepKeeps DEF Kept
    <2>4. CASE k = commitIndex[n]
      BY <1>3, <1>4, <2>4
    <2> QED
      BY <2>2, <2>3, <2>4
  <1>5. ASSUME NEW n \in Node, NEW e \in EntryType, Appends(n, e, h)
        PROVE  commitIndex' = commitIndex
    BY <1>5 DEF Appends
  <1>6. ASSUME NEW m \in msgs, AppendEntries(m), Consistent(log[m.to], m)
        PROVE  m.to \in Node /\ \E k : commitIndex' = [commitIndex EXCEPT ![m.to] = k]
    BY <1>1, <1>2, <1>6, MergeStep DEF AppendEntries
  <1>7. CASE OnlyCommits
    BY <1>4, <1>7 DEF OnlyCommits
  <1> QED
    BY <1>1, <1>2, <1>4, <1>5, <1>6, <1>7, StepKinds

\* The chosen entries grow, or stay as they are.
LEMMA ChosenGrow ==
    ASSUME CommitRecord, CommitRecord', [Next]_vars
    PROVE  /\ Len(Committed) = commitIndex[Top] /\ Len(Committed') = commitIndex'[Top']
           /\ commitIndex[Top] <= commitIndex'[Top']
           /\ SubSeq(Committed, 1, Len(Committed)) = SubSeq(Committed', 1, Len(Committed))
           /\ commitIndex[Top] = commitIndex'[Top'] => Committed' = Committed
  <1>1. PICK h \in LeaderLogs, a \in Acks : LogInv(h) /\ CommitInv(h, a)
    BY DEF CommitRecord
  <1>2. ElectionInv /\ ElectionInv' /\ ChosenFacts
    BY CommittedIs DEF CommitRecord
  <1>3. ChosenFacts'
    BY CommittedIs, PTL
  <1>4. PICK c \in Node : c = Top
    BY <1>2 DEF ChosenFacts
  <1>5. PICK d \in Node : d = Top'
    BY <1>3 DEF ChosenFacts
  <1>6. /\ Committed = SubSeq(log[c], 1, commitIndex[c]) /\ log[c] \in Seq(EntryType)
        /\ commitIndex[c] \in Nat
    BY <1>2, <1>4 DEF ChosenFacts
  <1>7. /\ Committed' = SubSeq(log'[d], 1, commitIndex'[d]) /\ log'[d] \in Seq(EntryType)
        /\ commitIndex'[d] \in Nat /\ commitIndex'[d] <= Len(log'[d])
    BY <1>3, <1>5 DEF ChosenFacts
  <1>8. /\ log'[c] \in Seq(EntryType) /\ commitIndex'[c] \in Nat
        /\ commitIndex'[c] <= commitIndex'[d] /\ SamePrefix(log'[c], log'[d], commitIndex'[c])
    BY <1>3, <1>5 DEF ChosenFacts
  <1>9. commitIndex[c] <= commitIndex'[c] /\ SamePrefix(log[c], log'[c], commitIndex[c])
    BY <1>1, <1>2, StepKeeps DEF Kept
  <1>10. commitIndex[c] <= commitIndex'[d] /\ SamePrefix(log[c], log'[d], commitIndex[c])
    <2>1. SamePrefix(log'[c], log'[d], commitIndex[c])
      BY <1>6, <1>7, <1>8, <1>9, SamePrefixLess
    <2>2. commitIndex[c] <= commitIndex'[d]
      BY <1>6, <1>7, <1>8, <1>9
    <2> QED
      BY <1>9, <2>1, <2>2, SamePrefixTrans
  <1>11. /\ Len(SubSeq(log[c], 1, commitIndex[c])) = commitIndex[c]
         /\ Len(SubSeq(log'[d], 1, commitIndex'[d])) = commitIndex'[d]
         /\ SubSeq(SubSeq(log[c], 1, commitIndex[c]), 1, commitIndex[c])
               = SubSeq(SubSeq(log'[d], 1, commitIndex'[d]), 1, commitIndex[c])
         /\ commitIndex[c] = commitIndex'[d]
               => SubSeq(log[c], 1, commitIndex[c]) = SubSeq(log'[d], 1, commitIndex'[d])
    <2>1. PICK l \in Seq(EntryType), k \in Nat : l = log[c] /\ k = commitIndex[c]
      BY <1>6
    <2>2. PICK w \in Seq(EntryType), j \in Nat : w = log'[d] /\ j = commitIndex'[d]
      BY <1>7
    <2>3. k <= j /\ j <= Len(w) /\ SamePrefix(l, w, k)
      BY <1>7, <1>10, <2>1, <2>2
    <2>4. /\ Len(SubSeq(l, 1, k)) = k /\ Len(SubSeq(w, 1, j)) = j
          /\ SubSeq(SubSeq(l, 1, k), 1, k) = SubSeq(SubSeq(w, 1, j), 1, k)
          /\ k = j => SubSeq(l, 1, k) = SubSeq(w, 1, j)
      BY <2>3, PrefixIs
    <2> QED
      BY <2>1, <2>2, <2>4, Zenon
  <1> QED
    BY <1>4, <1>5, <1>6, <1>7, <1>10, <1>11

(***************************************************************************)
(* Every step of the core is a step of the replicated log or leaves it as  *)
(* it is: when a commit index moves, that node learns of chosen entries,   *)
(* or it is the one that chooses new ones.                                 *)
(***************************************************************************)
LEMMA StepImplements ==
    ASSUME CommitRecord, CommitRecord', [Next]_vars
    PROVE  [Abstract!Next]_<< Committed, commitIndex >>
  <1> DEFINE K == commitIndex[Top]
             J == commitIndex'[Top']
  <1>1. /\ Len(Committed) = K /\ Len(Committed') = J /\ K <= J
        /\ SubSeq(Committed, 1, Len(Committed)) = SubSeq(Committed', 1, Len(Committed))
        /\ K = J => Committed' = Committed
    BY ChosenGrow
  <1>2. ChosenFacts /\ ChosenFacts'
    BY CommittedIs, PTL
  <1>3. /\ K \in Nat /\ J \in Nat /\ commitIndex \in [Node -> Nat]
        /\ Top' \in Node /\ \A p \in Node : commitIndex[p] <= K /\ commitIndex'[p] <= J
    BY <1>2 DEF ChosenFacts, CommitRecord, ElectionInv, TypeInv, TypeOK
  <1>4. CASE commitIndex' = commitIndex
    <2>1. J <= K
      BY <1>3, <1>4
    <2> HIDE DEF K, J
    <2> QED
      BY <1>1, <1>3, <1>4, <2>1
  <1>5. ASSUME NEW n \in Node, NEW k \in Nat, commitIndex[n] < k,
               commitIndex' = [commitIndex EXCEPT ![n] = k]
        PROVE  Abstract!Learn(n)
    <2>1. commitIndex'[n] = k /\ \A p \in Node \ {n} : commitIndex'[p] = commitIndex[p]
      BY <1>3, <1>5
    <2>2. k <= J
      BY <1>3, <2>1
    <2>3. k = J \/ J <= K
      <3>1. CASE Top' = n
        BY <2>1, <3>1
      <3>2. CASE Top' # n
        <4>1. J = commitIndex[Top']
          BY <1>3, <2>1, <3>2
        <4> QED
          BY <1>3, <4>1
      <3> QED
        BY <3>1, <3>2
    <2> HIDE DEF K, J
    <2>4. IF Committed' = Committed THEN k <= Len(Committed) ELSE k = Len(Committed')
      <3>1. CASE Committed' = Committed
        BY <1>1, <2>2, <3>1
      <3>2. CASE Committed' # Committed
        <4>1. K # J
          BY <1>1, <3>2
        <4>2. k = J
          BY <1>1, <1>3, <2>3, <4>1
        <4> QED
          BY <1>1, <3>2, <4>2
      <3> QED
        BY <3>1, <3>2
    <2>5. Abstract!IsPrefix(Committed, Committed')
      <3>1. Len(Committed) <= Len(Committed')
        BY <1>1
      <3> QED
        BY <1>1, <3>1 DEF Abstract!IsPrefix
    <2>6. commitIndex' = [commitIndex EXCEPT ![n] = commitIndex'[n]]
      BY <1>5, <2>1
    <2> QED
      BY <1>5, <2>1, <2>4, <2>5, <2>6 DEF Abstract!Learn
  <1> QED
    BY <1>4, <1>5, OneCommits DEF Abstract!Next

(***************************************************************************)
(* The core implements the replicated log it promises to the servers: the  *)
(* committed entries of all nodes together are one sequence that only      *)
(* grows, and every node's commit index moves forward along it.            *)
(***************************************************************************)
THEOREM RaftImplementsReplicatedLog == Spec => ImplementsReplicatedLog
  <1>1. Init => Abstract!Init
    <2> SUFFICES ASSUME Init PROVE Abstract!Init
      OBVIOUS
    <2>1. commitIndex = [n \in Node |-> 0] /\ \A n \in Node : log[n] = << >>
      BY DEF Init, NewLog
    <2>2. PICK n \in Node : n = CHOOSE c \in Node : \A p \in Node : commitIndex[p] <= commitIndex[c]
      BY <2>1, NodeAssumption
    <2>3. Committed = SubSeq(<< >>, 1, 0)
      BY <2>1, <2>2 DEF Committed, Prefix
    <2>4. SubSeq(<< >>, 1, 0) = << >>
      OBVIOUS
    <2> QED
      BY <2>1, <2>3, <2>4 DEF Abstract!Init
  <1>2. CommitRecord /\ CommitRecord' /\ [Next]_vars
          => [Abstract!Next]_<< Committed, commitIndex >>
    BY StepImplements
  <1> QED
    BY <1>1, <1>2, CommitInvariant, PTL DEF Spec, ImplementsReplicatedLog, Abstract!Spec
=============================================================================
