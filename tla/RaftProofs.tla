----------------------------- MODULE RaftProofs -----------------------------
(***************************************************************************)
(* Proofs about elections and logs in module Raft, for every cluster and   *)
(* every bound: type correctness, one vote per term, one leader per term,  *)
(* the election timer; logs are gapless and ordered by term, and two logs  *)
(* that share an entry share everything before it.                         *)
(*                                                                         *)
(* The argument about logs needs the log of every leader there has ever    *)
(* been, also after that leader has stepped down and its log was           *)
(* overwritten.  The model does not keep it.  The invariant therefore says *)
(* that such a record exists: a function h that gives for each term the    *)
(* log of its leader, as far as it got.                                    *)
(***************************************************************************)
EXTENDS Raft, FiniteSetTheorems, SequenceTheorems, WellFoundedInduction, TLAPS

-----------------------------------------------------------------------------
(* The least and the greatest element, as the code's downward and upward   *)
(* scans find them.                                                        *)

\* A non-empty set of naturals has a least element, and Min is it.
LEMMA MinOfNaturals ==
    ASSUME NEW S, S \subseteq Nat, S # {}
    PROVE  Min(S) \in S /\ \A y \in S : Min(S) <= y
  <1>1. IsWellFoundedOn(OpToRel(<, Nat), Nat)
    BY NatLessThanWellFounded
  <1>2. PICK x \in S : \A y \in S : ~ (<< y, x >> \in OpToRel(<, Nat))
    BY <1>1, WFMin
  <1>3. ASSUME NEW y \in S, y < x PROVE FALSE
    <2>1. << y, x >> \in Nat \X Nat /\ << y, x >>[1] < << y, x >>[2]
      BY <1>3
    <2>2. << y, x >> \in OpToRel(<, Nat)
      BY <2>1 DEF OpToRel
    <2> QED
      BY <2>2, <1>2
  <1>4. \A y \in S : x <= y
    BY <1>3
  <1> QED
    BY <1>4 DEF Min

\* A non-empty set of naturals with a bound has a greatest element.
LEMMA MaxOfNaturals ==
    ASSUME NEW S, NEW b \in Nat, S \subseteq 0..b, S # {}
    PROVE  Max(S) \in S /\ \A y \in S : Max(S) >= y
  <1> DEFINE T == {k \in Nat : b - k \in S}
  <1>1. T # {}
    <2>1. PICK x \in S : TRUE
      OBVIOUS
    <2>2. b - x \in Nat /\ b - (b - x) = x
      OBVIOUS
    <2> QED
      BY <2>1, <2>2
  <1>2. Min(T) \in T /\ \A y \in T : Min(T) <= y
    BY <1>1, MinOfNaturals
  <1> DEFINE x == b - Min(T)
  <1>3. x \in S
    BY <1>2
  <1>4. ASSUME NEW y \in S PROVE x >= y
    <2>1. b - y \in T
      <3>1. b - y \in Nat /\ b - (b - y) = y
        OBVIOUS
      <3> QED
        BY <3>1
    <2>2. Min(T) <= b - y /\ Min(T) \in Nat
      BY <1>2, <2>1
    <2> QED
      BY <2>2
  <1>5. \E z \in S : \A y \in S : z >= y
    BY <1>3, <1>4
  <1> QED
    BY <1>5 DEF Max

-----------------------------------------------------------------------------
(* What the log operations return *)

\* Truncate returns a log.
LEMMA TruncateType ==
    ASSUME NEW S, NEW l \in Seq(S), NEW k \in Int
    PROVE  Truncate(l, k) \in Seq(S)
  <1>1. CASE Has(l, k)
    <2>1. \A i \in 1 .. k - 1 : l[i] \in S
      BY <1>1, ElementOfSeq DEF Has
    <2>2. SubSeq(l, 1, k - 1) \in Seq(S)
      BY <2>1, SubSeqProperties
    <2> QED
      BY <1>1, <2>2 DEF Truncate
  <1> QED
    BY <1>1 DEF Truncate

\* Entries returns a log whatever the bounds.
LEMMA EntriesType ==
    ASSUME NEW S, NEW l \in Seq(S), NEW from \in Int, NEW to \in Int
    PROVE  Entries(l, from, to) \in Seq(S)
  <1> DEFINE lo == IF from <= 0 THEN 1 ELSE from
             hi == IF to > Len(l) + 1 THEN Len(l) + 1 ELSE to
  <1>1. Len(l) \in Nat
    BY LenProperties
  <1>2. lo \in Int /\ hi \in Int /\ lo >= 1 /\ hi <= Len(l) + 1
    BY <1>1
  <1>3. \A i \in lo .. hi - 1 : l[i] \in S
    BY <1>1, <1>2, ElementOfSeq
  <1>4. SubSeq(l, lo, hi - 1) \in Seq(S)
    BY <1>2, <1>3, SubSeqProperties
  <1>5. << >> \in Seq(S)
    BY EmptySeq
  <1> QED
    BY <1>4, <1>5 DEF Entries

\* The merge loop returns a log.
LEMMA MergeType ==
    ASSUME NEW S, NEW l \in Seq(S), NEW prev \in Nat, NEW es \in Seq(S)
    PROVE  Merge(l, prev, es) \in Seq(S)
  <1> DEFINE fresh == {i \in 1..Len(es) :
                         ~(Has(l, prev + i) /\ TermAt(l, prev + i) = es[i].term)}
  <1>1. CASE fresh = {}
    BY <1>1 DEF Merge
  <1>2. CASE fresh # {}
    <2>1. fresh \subseteq Nat /\ Len(es) \in Nat
      BY LenProperties
    <2>2. Min(fresh) \in fresh
      BY <1>2, <2>1, MinOfNaturals
    <2>3. Min(fresh) \in 1..Len(es)
      BY <2>2
    <2>4. Truncate(l, prev + Min(fresh)) \in Seq(S)
      BY <2>1, <2>3, TruncateType
    <2>5. SubSeq(es, Min(fresh), Len(es)) \in Seq(S)
      <3>1. \A i \in Min(fresh) .. Len(es) : es[i] \in S
        BY <2>1, <2>3, ElementOfSeq
      <3> QED
        BY <3>1, <2>1, <2>3, SubSeqProperties
    <2>6. Truncate(l, prev + Min(fresh)) \o SubSeq(es, Min(fresh), Len(es)) \in Seq(S)
      BY <2>4, <2>5, ConcatProperties
    <2> QED
      BY <1>2, <2>6 DEF Merge
  <1> QED
    BY <1>1, <1>2

\* A follower's commit index stays a natural number.
LEMMA FollowerCommitType ==
    ASSUME NEW ci \in Nat, NEW lc \in Nat, NEW last \in Nat
    PROVE  FollowerCommit(ci, lc, last) \in Nat
  <1>1. Min({lc, last}) \in {lc, last}
    BY MinOfNaturals
  <1> QED
    BY <1>1 DEF FollowerCommit

\* The leader's scan never lowers the commit index or leaves its log.
LEMMA AdvanceCommitIndexType ==
    ASSUME NEW n \in Node, commitIndex \in [Node -> Nat],
           log \in [Node -> Seq(EntryType)], NEW match
    PROVE  /\ AdvanceCommitIndex(n, match) \in Nat
           /\ AdvanceCommitIndex(n, match) >= commitIndex[n]
  <1> DEFINE copies(k) == {n} \cup {p \in Node \ {n} : match[p] >= k}
             C == {k \in commitIndex[n] + 1 .. LastIndex(log[n]) :
                     /\ TermAt(log[n], k) = currentTerm[n]
                     /\ Cardinality(copies(k)) >= Quorum}
  <1>1. LastIndex(log[n]) \in Nat /\ commitIndex[n] \in Nat
    BY LenProperties DEF LastIndex
  <1>2. C \subseteq 0..LastIndex(log[n])
    BY <1>1
  <1>3. C # {} => Max(C) \in C
    <2> HIDE DEF C
    <2> QED
      BY <1>1, <1>2, MaxOfNaturals
  <1>4. \A k \in C : k \in Nat /\ k >= commitIndex[n]
    BY <1>1
  <1>5. AdvanceCommitIndex(n, match) = IF C = {} THEN commitIndex[n] ELSE Max(C)
    BY DEF AdvanceCommitIndex
  <1> HIDE DEF C
  <1> QED
    BY <1>1, <1>3, <1>4, <1>5

-----------------------------------------------------------------------------
(* Type correctness *)

(***************************************************************************)
(* TypeOK is not inductive alone: an entry's term is positive because only *)
(* a node that has stood for election, in a positive term, appends one.    *)
(***************************************************************************)
StandsInTerm == \A n \in Node : state[n] # "Follower" => currentTerm[n] >= 1

TypeInv == TypeOK /\ StandsInTerm

\* The kind of a message determines its fields.
LEMMA MessageKinds ==
    ASSUME NEW m \in Message
    PROVE  /\ m.type = "RequestVote" => m \in VoteCallType
           /\ m.type = "RequestVoteReply" => m \in VoteReplyType
           /\ m.type = "AppendEntries" => m \in AppendCallType
           /\ m.type = "AppendEntriesReply" => m \in AppendReplyType
           /\ m.to \in Node /\ m.from \in Node /\ m.term \in Nat
  BY DEF Message, VoteCallType, VoteReplyType, AppendCallType, AppendReplyType

\* A reply in flight does not spoil the type of the network.
LEMMA ReplyType ==
    ASSUME msgs \subseteq Message, NEW call, NEW reply \in Message,
           Reply(call, reply)
    PROVE  msgs' \subseteq Message
  BY DEF Reply

\* Nor does handling one.
LEMMA DoneType ==
    ASSUME msgs \subseteq Message, NEW m, Done(m)
    PROVE  msgs' \subseteq Message
  BY DEF Done

\* NewPaused starts every field within its type.
LEMMA InitTypeInv == Init => TypeInv
  <1> SUFFICES ASSUME Init PROVE TypeInv
    OBVIOUS
  <1>1. << >> \in Seq(EntryType)
    BY EmptySeq
  <1> QED
    BY <1>1 DEF Init, TypeInv, TypeOK, StandsInTerm, NewLog

\* Every step keeps the types: one case for each action.
LEMMA NextTypeInv == TypeInv /\ [Next]_vars => TypeInv'
  <1> SUFFICES ASSUME TypeInv, [Next]_vars PROVE TypeInv'
    OBVIOUS
  <1> USE DEF TypeInv
  <1>r. /\ currentTerm \in [Node -> Nat]
        /\ votedFor \in [Node -> Node \cup {Nil}]
        /\ state \in [Node -> {"Follower", "Candidate", "Leader"}]
        /\ armed \in [Node -> BOOLEAN]
    BY DEF TypeOK
  <1>l. log \in [Node -> Seq(EntryType)] /\ commitIndex \in [Node -> Nat]
    BY DEF TypeOK
  <1>p. /\ nextIndex \in [Node -> [Node -> Nat]]
        /\ matchIndex \in [Node -> [Node -> Nat]]
        /\ \A n \in Node : state[n] = "Leader" =>
              \A p \in Node : nextIndex[n][p] >= 1
    BY DEF TypeOK
  <1>s. ASSUME NEW n \in Node, state[n] # "Follower" PROVE currentTerm[n] \in Nat \ {0}
    BY <1>r, <1>s DEF StandsInTerm
  <1>1. ASSUME NEW n \in Node, StartElection(n) PROVE TypeInv'
    <2>1. LastIndex(log[n]) \in Nat /\ LastTerm(log[n]) \in Nat
      <3>1. log[n] \in Seq(EntryType) /\ Len(log[n]) \in Nat
        BY LenProperties DEF TypeOK
      <3>2. log[n] # << >> => log[n][Len(log[n])] \in EntryType
        BY <3>1, EmptySeq, ElementOfSeq
      <3> QED
        BY <3>1, <3>2 DEF LastIndex, LastTerm, EntryType
    <2>2. currentTerm[n] + 1 \in Nat
      BY DEF TypeOK
    <2>3. msgs' \subseteq Message
      <3>1. \A p \in Node : VoteCall(n, p, currentTerm[n] + 1, LastIndex(log[n]),
                                      LastTerm(log[n])) \in VoteCallType
        BY <2>1, <2>2 DEF VoteCall, VoteCallType
      <3> QED
        BY <1>1, <3>1 DEF StartElection, TypeOK, Message
    <2>4. ballots' \subseteq [voter : Node, term : Nat, cand : Node]
      BY <1>1, <2>2 DEF StartElection, TypeOK
    <2>5. StandsInTerm'
      BY <1>1 DEF StartElection, TypeOK, StandsInTerm
    <2> QED
      BY <1>1, <2>3, <2>4, <2>5 DEF StartElection, TypeOK, leader
  <1>2. ASSUME NEW n \in Node, TimerIdle(n) PROVE TypeInv'
    BY <1>2 DEF TimerIdle, TypeOK, StandsInTerm, leader
  <1>3. ASSUME NEW n \in Node, Kill(n) PROVE TypeInv'
    BY <1>3 DEF Kill, TypeOK, StandsInTerm, leader, role
  <1>4. ASSUME NEW n \in Node, NEW c \in Command, Start(n, c) PROVE TypeInv'
    <2>1. log[n] \in Seq(EntryType) /\ LastIndex(log[n]) + 1 \in Nat \ {0}
      BY LenProperties DEF TypeOK, LastIndex
    <2>2. Entry(LastIndex(log[n]) + 1, currentTerm[n], c) \in EntryType
      <3>1. currentTerm[n] \in Nat \ {0}
        BY <1>4, <1>s DEF Start
      <3> QED
        BY <2>1, <3>1 DEF Entry, EntryType
    <2>3. Append(log[n], Entry(LastIndex(log[n]) + 1, currentTerm[n], c)) \in Seq(EntryType)
      BY <2>1, <2>2, AppendProperties
    <2>4. log' \in [Node -> Seq(EntryType)]
      BY <1>4, <2>3 DEF Start, TypeOK
    <2> QED
      BY <1>4, <2>4 DEF Start, TypeOK, StandsInTerm, leader, role
  <1>5. ASSUME NEW n \in Node, NEW p \in Node, SendAppendEntries(n, p) PROVE TypeInv'
    <2> DEFINE prev == nextIndex[n][p] - 1
               es == Entries(log[n], nextIndex[n][p], LastIndex(log[n]) + 1)
    <2>1. prev \in Nat /\ nextIndex[n][p] \in Nat
      BY <1>5 DEF SendAppendEntries, TypeOK
    <2>2. log[n] \in Seq(EntryType) /\ LastIndex(log[n]) + 1 \in Int
      BY LenProperties DEF TypeOK, LastIndex
    <2>3. es \in Seq(EntryType)
      BY <2>1, <2>2, EntriesType
    <2>4. TermAt(log[n], prev) \in Nat
      <3>1. Has(log[n], prev) => log[n][prev] \in EntryType
        BY <2>2, ElementOfSeq DEF Has
      <3> HIDE DEF prev
      <3> QED
        BY <3>1 DEF TermAt, EntryType
    <2>5. currentTerm[n] \in Nat /\ commitIndex[n] \in Nat
      BY DEF TypeOK
    <2>6. AppendCall(n, p, currentTerm[n], prev, TermAt(log[n], prev), es, commitIndex[n])
            \in AppendCallType
      <3> HIDE DEF prev, es
      <3> QED
        BY <2>1, <2>3, <2>4, <2>5 DEF AppendCall, AppendCallType
    <2>7. msgs' \subseteq Message
      BY <1>5, <2>6 DEF SendAppendEntries, TypeOK, Message
    <2> QED
      BY <1>5, <2>7 DEF SendAppendEntries, TypeOK, StandsInTerm, leader, role
  <1>6. ASSUME NEW m \in msgs, Lose(m) PROVE TypeInv'
    BY <1>6 DEF Lose, TypeOK, StandsInTerm, leader, role
  <1>7. ASSUME NEW m \in msgs, GrantVote(m) PROVE TypeInv'
    <2>1. m \in VoteCallType
      BY <1>7, MessageKinds DEF GrantVote, TypeOK
    <2>2. VoteReply(m, m.term, TRUE) \in Message
      BY <2>1 DEF VoteReply, VoteCallType, VoteReplyType, Message
    <2>3. msgs' \subseteq Message
      BY <1>7, <2>2, ReplyType DEF GrantVote, TypeOK
    <2>4. m.to \in Node /\ m.from \in Node /\ m.term \in Nat
      BY <2>1 DEF VoteCallType
    <2>5. StandsInTerm'
      BY <1>7, <1>r, <2>4 DEF GrantVote, StandsInTerm
    <2>6. ballots' \subseteq [voter : Node, term : Nat, cand : Node]
      <3>1. [voter |-> m.to, term |-> m.term, cand |-> m.from]
              \in [voter : Node, term : Nat, cand : Node]
        BY <2>4
      <3> QED
        BY <1>7, <3>1 DEF GrantVote, TypeOK
    <2>7. \A q \in Node : state'[q] = "Leader" => state[q] = "Leader"
      BY <1>7, <1>r, <2>4 DEF GrantVote
    <2> QED
      BY <1>7, <2>3, <2>4, <2>5, <2>6, <2>7 DEF GrantVote, TypeOK, leader
  <1>8. ASSUME NEW m \in msgs, DenyVote(m) PROVE TypeInv'
    <2>1. m \in VoteCallType
      BY <1>8, MessageKinds DEF DenyVote, TypeOK
    <2>2. /\ VoteReply(m, m.term, FALSE) \in Message
          /\ VoteReply(m, currentTerm[m.to], FALSE) \in Message
      BY <2>1 DEF VoteReply, VoteCallType, VoteReplyType, Message, TypeOK
    <2>3. msgs' \subseteq Message
      BY <1>8, <2>2, ReplyType DEF DenyVote, TypeOK
    <2>4. m.to \in Node /\ m.term \in Nat
      BY <2>1 DEF VoteCallType
    <2>5. /\ currentTerm' \in [Node -> Nat]
          /\ votedFor' \in [Node -> Node \cup {Nil}]
          /\ state' \in [Node -> {"Follower", "Candidate", "Leader"}]
          /\ armed' \in [Node -> BOOLEAN]
          /\ StandsInTerm'
          /\ \A q \in Node : state'[q] = "Leader" => state[q] = "Leader"
      <3>1. CASE UNCHANGED role
        BY <3>1, <1>r DEF role, StandsInTerm
      <3>2. CASE BecomeFollower(m.to, m.term)
        BY <3>2, <1>r, <2>4 DEF BecomeFollower, StandsInTerm
      <3> QED
        BY <1>8, <3>1, <3>2 DEF DenyVote
    <2> QED
      BY <1>8, <2>3, <2>5 DEF DenyVote, TypeOK, leader
  <1>9. ASSUME NEW m \in msgs, StepDown(m) PROVE TypeInv'
    <2>1. m.to \in Node /\ m.term \in Nat
      BY MessageKinds DEF TypeOK
    <2>2. msgs' \subseteq Message
      BY <1>9, DoneType DEF StepDown, TypeOK
    <2> QED
      BY <1>9, <2>1, <2>2 DEF StepDown, BecomeFollower, TypeOK, StandsInTerm, leader
  <1>10. ASSUME NEW m \in msgs, CountVote(m) PROVE TypeInv'
    <2> DEFINE n == m.to
               noop == Entry(LastIndex(log[n]) + 1, currentTerm[n], "noop")
    <2>1. m \in VoteReplyType /\ n \in Node /\ m.from \in Node
      BY <1>10, MessageKinds DEF CountVote, TypeOK
    <2>2. msgs' \subseteq Message
      BY <1>10, DoneType DEF CountVote, TypeOK
    <2>3. votes' \in [Node -> SUBSET Node]
      BY <1>10, <2>1 DEF CountVote, TypeOK
    <2>4. log[n] \in Seq(EntryType) /\ LastIndex(log[n]) + 1 \in Nat \ {0}
      BY <2>1, LenProperties DEF TypeOK, LastIndex
    <2>5. state[n] = "Candidate" /\ currentTerm[n] \in Nat \ {0}
      <3>1. state[n] = "Candidate"
        BY <1>10 DEF CountVote, Current
      <3> QED
        BY <2>1, <3>1, <1>s
    <2>6. noop \in EntryType
      BY <2>4, <2>5 DEF Entry, EntryType
    <2>7. Append(log[n], noop) \in Seq(EntryType)
      <3> HIDE DEF noop
      <3> QED
        BY <2>4, <2>6, AppendProperties
    <2>8. CASE UNCHANGED << state, log, leader >>
      BY <1>10, <2>2, <2>3, <2>8 DEF CountVote, TypeOK, StandsInTerm, leader
    <2>9. CASE BecomeLeader(n)
      <3>1. log' \in [Node -> Seq(EntryType)]
        BY <2>1, <2>7, <2>9 DEF BecomeLeader, TypeOK
      <3>2. StandsInTerm'
        BY <1>10, <2>1, <2>5, <2>9 DEF CountVote, BecomeLeader, TypeOK, StandsInTerm
      <3>3. /\ nextIndex' \in [Node -> [Node -> Nat]]
            /\ matchIndex' \in [Node -> [Node -> Nat]]
            /\ state' \in [Node -> {"Follower", "Candidate", "Leader"}]
        BY <2>1, <2>4, <2>9 DEF BecomeLeader, TypeOK
      <3>4. \A q \in Node : state'[q] = "Leader" =>
               \A p \in Node : nextIndex'[q][p] >= 1
        <4>1. \A p \in Node : nextIndex'[n][p] = LastIndex(log[n]) + 1
          BY <1>p, <2>1, <2>9 DEF BecomeLeader
        <4>2. \A q \in Node \ {n} : state'[q] = state[q] /\ nextIndex'[q] = nextIndex[q]
          BY <1>r, <1>p, <2>1, <2>9 DEF BecomeLeader
        <4>3. \A p \in Node : nextIndex'[n][p] >= 1
          BY <2>4, <4>1
        <4>4. \A q \in Node \ {n} : state'[q] = "Leader" =>
                 \A p \in Node : nextIndex'[q][p] >= 1
          BY <1>p, <4>2
        <4> QED
          BY <4>3, <4>4
      <3> QED
        BY <1>10, <2>2, <2>3, <3>1, <3>2, <3>3, <3>4 DEF CountVote, TypeOK
    <2> QED
      BY <1>10, <2>8, <2>9 DEF CountVote
  <1>11. ASSUME NEW m \in msgs, IgnoreVote(m) PROVE TypeInv'
    <2>1. msgs' \subseteq Message
      BY <1>11, DoneType DEF IgnoreVote, TypeOK
    <2> QED
      BY <1>11, <2>1 DEF IgnoreVote, TypeOK, StandsInTerm, leader, role
  <1>12. ASSUME NEW m \in msgs, AppendEntries(m) PROVE TypeInv'
    <2> DEFINE n == m.to
               merged == Merge(log[n], m.prevLogIndex, m.entries)
    <2>1. m \in AppendCallType /\ n \in Node
      BY <1>12, MessageKinds DEF AppendEntries, TypeOK
    <2>2. AppendReply(m, m.term, Consistent(log[n], m)) \in Message
      <3>1. Len(m.entries) \in Nat
        BY <2>1, LenProperties DEF AppendCallType
      <3>2. Consistent(log[n], m) \in BOOLEAN
        BY DEF Consistent
      <3> QED
        BY <2>1, <3>1, <3>2 DEF AppendReply, AppendCallType, AppendReplyType, Message
    <2>3. msgs' \subseteq Message
      BY <1>12, <2>2, ReplyType DEF AppendEntries, TypeOK
    <2>4. merged \in Seq(EntryType)
      BY <2>1, MergeType DEF AppendCallType, TypeOK
    <2>5. FollowerCommit(commitIndex[n], m.leaderCommit, LastIndex(merged)) \in Nat
      <3>1. LastIndex(merged) \in Nat
        BY <2>4, LenProperties DEF LastIndex
      <3> HIDE DEF merged
      <3> QED
        BY <2>1, <3>1, FollowerCommitType DEF AppendCallType, TypeOK
    <2>6. log' \in [Node -> Seq(EntryType)] /\ commitIndex' \in [Node -> Nat]
      <3> HIDE DEF merged
      <3>1. CASE UNCHANGED << log, commitIndex >>
        BY <3>1, <1>l
      <3>2. CASE /\ log' = [log EXCEPT ![n] = merged]
                 /\ commitIndex' = [commitIndex EXCEPT ![n] =
                      FollowerCommit(@, m.leaderCommit, LastIndex(merged))]
        BY <3>2, <1>l, <2>1, <2>4, <2>5
      <3> QED
        BY <1>12, <3>1, <3>2 DEF AppendEntries, merged
    <2>7. /\ currentTerm' \in [Node -> Nat]
          /\ votedFor' \in [Node -> Node \cup {Nil}]
          /\ state' \in [Node -> {"Follower", "Candidate", "Leader"}]
          /\ armed' \in [Node -> BOOLEAN]
          /\ StandsInTerm'
          /\ \A q \in Node : state'[q] = "Leader" => state[q] = "Leader"
      <3>1. m.term \in Nat
        BY <2>1 DEF AppendCallType
      <3>2. CASE BecomeFollower(n, m.term)
        BY <3>1, <3>2, <1>r, <2>1 DEF BecomeFollower, StandsInTerm
      <3>3. CASE /\ armed' = [armed EXCEPT ![n] = TRUE]
                 /\ UNCHANGED << currentTerm, votedFor, state >>
        BY <3>3, <1>r, <2>1 DEF StandsInTerm
      <3> QED
        BY <1>12, <3>2, <3>3 DEF AppendEntries
    <2> QED
      BY <1>12, <2>3, <2>6, <2>7 DEF AppendEntries, TypeOK, leader
  <1>13. ASSUME NEW m \in msgs, RefuseAppend(m) PROVE TypeInv'
    <2>1. m \in AppendCallType
      BY <1>13, MessageKinds DEF RefuseAppend, TypeOK
    <2>2. AppendReply(m, currentTerm[m.to], FALSE) \in Message
      <3>1. Len(m.entries) \in Nat
        BY <2>1, LenProperties DEF AppendCallType
      <3> QED
        BY <1>r, <2>1, <3>1 DEF AppendReply, AppendCallType, AppendReplyType, Message
    <2>3. msgs' \subseteq Message
      BY <1>13, <2>2, ReplyType DEF RefuseAppend, TypeOK
    <2> QED
      BY <1>13, <2>3 DEF RefuseAppend, TypeOK, StandsInTerm, leader, role
  <1>14. ASSUME NEW m \in msgs, AppendSucceeded(m) PROVE TypeInv'
    <2> DEFINE n == m.to
               ahead == m.newMatch > matchIndex[n][m.from]
               match == IF ahead THEN [matchIndex[n] EXCEPT ![m.from] = m.newMatch]
                                 ELSE matchIndex[n]
    <2>1. m \in AppendReplyType /\ n \in Node /\ m.from \in Node /\ m.newMatch \in Nat
      BY <1>14, MessageKinds DEF AppendSucceeded, AppendReplyType, TypeOK
    <2>2. msgs' \subseteq Message
      BY <1>14, DoneType DEF AppendSucceeded, TypeOK
    <2>3. match \in [Node -> Nat]
      BY <2>1 DEF TypeOK
    <2>4. matchIndex' \in [Node -> [Node -> Nat]]
      BY <1>14, <2>1, <2>3 DEF AppendSucceeded, TypeOK
    <2>5. nextIndex' \in [Node -> [Node -> Nat]]
      BY <1>14, <1>p, <2>1 DEF AppendSucceeded
    <2>6. \A q \in Node : state[q] = "Leader" => \A p \in Node : nextIndex'[q][p] >= 1
      BY <1>14, <1>p, <2>1 DEF AppendSucceeded
    <2>7. commitIndex' \in [Node -> Nat]
      <3>1. AdvanceCommitIndex(n, match) \in Nat
        BY <2>1, AdvanceCommitIndexType DEF TypeOK
      <3> QED
        BY <1>14, <2>1, <3>1 DEF AppendSucceeded, TypeOK
    <2> QED
      BY <1>14, <2>2, <2>4, <2>5, <2>6, <2>7 DEF AppendSucceeded, TypeOK, StandsInTerm, role
  <1>15. ASSUME NEW m \in msgs, AppendRejected(m) PROVE TypeInv'
    <2>1. m.to \in Node /\ m.from \in Node
      BY MessageKinds DEF TypeOK
    <2>2. msgs' \subseteq Message
      BY <1>15, DoneType DEF AppendRejected, TypeOK
    <2>3. \A k \in Nat : Backed(k) \in Nat /\ (k >= 1 => Backed(k) >= 1)
      BY DEF Backed
    <2>4. nextIndex' \in [Node -> [Node -> Nat]]
      BY <1>15, <2>1, <2>3 DEF AppendRejected, TypeOK
    <2>5. \A q \in Node : state[q] = "Leader" => \A p \in Node : nextIndex'[q][p] >= 1
      BY <1>15, <2>1, <2>3 DEF AppendRejected, TypeOK
    <2> QED
      BY <1>15, <2>2, <2>4, <2>5 DEF AppendRejected, TypeOK, StandsInTerm, role
  <1>16. CASE UNCHANGED vars
    BY <1>16 DEF vars, TypeOK, StandsInTerm
  <1> QED
    BY <1>1, <1>2, <1>3, <1>4, <1>5, <1>6, <1>7, <1>8, <1>9, <1>10, <1>11,
       <1>12, <1>13, <1>14, <1>15, <1>16 DEF Next, Receive

(***************************************************************************)
(* Every behaviour of the core is type correct, whatever is lost, delayed  *)
(* or reordered, and a leader's nextIndex is never below 1.                *)
(***************************************************************************)
THEOREM TypeCorrect == Spec => []TypeOK
  <1>1. Spec => []TypeInv
    BY InitTypeInv, NextTypeInv, PTL DEF Spec
  <1>2. TypeInv => TypeOK
    BY DEF TypeInv
  <1> QED
    BY <1>1, <1>2, PTL

-----------------------------------------------------------------------------
(* One vote per term, one leader per term *)

IsGrant(m) == m.type = "RequestVoteReply" /\ m.granted

Ballot(voter, term, cand) == [voter |-> voter, term |-> term, cand |-> cand]

(***************************************************************************)
(* A node remembers its vote of its current term, and has cast none in a   *)
(* later one: votedFor is cleared only together with a step to a newer     *)
(* term.                                                                   *)
(***************************************************************************)
VoteRemembered ==
    \A b \in ballots :
        /\ b.term <= currentTerm[b.voter]
        /\ b.term = currentTerm[b.voter] => votedFor[b.voter] = b.cand

\* A granting reply in flight stands for a vote of the call's term.
GrantsCast ==
    \A m \in msgs : IsGrant(m) => Ballot(m.from, m.sentTerm, m.to) \in ballots

\* So does every vote that a candidate or a leader has counted.
CountedCast ==
    \A n \in Node : state[n] # "Follower" =>
        \A v \in votes[n] : Ballot(v, currentTerm[n], n) \in ballots

\* A leader counted a majority.
LeaderElected ==
    \A n \in Node : state[n] = "Leader" => Cardinality(votes[n]) >= Quorum

ElectionInv ==
    /\ TypeInv
    /\ VoteRemembered
    /\ VoteOncePerTerm
    /\ GrantsCast
    /\ CountedCast
    /\ LeaderElected

\* What the five parts read of the state.
ElectionParts == << currentTerm, votedFor, state, votes, ballots >>

\* A step that touches no vote and sends no grant keeps the parts.
LEMMA QuietStep ==
    ASSUME ElectionInv, TypeInv', UNCHANGED ElectionParts,
           \A m \in msgs' : IsGrant(m) => m \in msgs
    PROVE  ElectionInv'
  BY DEF ElectionInv, ElectionParts, VoteRemembered, VoteOncePerTerm, GrantsCast,
         CountedCast, LeaderElected, Quorum, IsGrant, Ballot

\* Nor does stepping down to a newer term disturb them.
LEMMA StepDownStep ==
    ASSUME ElectionInv, TypeInv', NEW n \in Node, NEW t \in Nat, t > currentTerm[n],
           BecomeFollower(n, t), UNCHANGED << votes, ballots >>,
           \A m \in msgs' : IsGrant(m) => m \in msgs
    PROVE  ElectionInv'
  <1>1. /\ currentTerm \in [Node -> Nat] /\ currentTerm' = [currentTerm EXCEPT ![n] = t]
        /\ votedFor \in [Node -> Node \cup {Nil}] /\ votedFor' = [votedFor EXCEPT ![n] = Nil]
        /\ state \in [Node -> {"Follower", "Candidate", "Leader"}]
        /\ state' = [state EXCEPT ![n] = "Follower"]
    BY DEF ElectionInv, TypeInv, TypeOK, BecomeFollower
  <1>2. \A b \in ballots : b.voter \in Node /\ b.term \in Nat
    BY DEF ElectionInv, TypeInv, TypeOK
  <1>3. VoteRemembered'
    <2> SUFFICES ASSUME NEW b \in ballots
                 PROVE  /\ b.term <= currentTerm'[b.voter]
                        /\ b.term = currentTerm'[b.voter] => votedFor'[b.voter] = b.cand
      BY DEF VoteRemembered
    <2>1. b.term <= currentTerm[b.voter]
      BY DEF ElectionInv, VoteRemembered
    <2>2. CASE b.voter = n
      BY <1>1, <1>2, <2>1, <2>2
    <2>3. CASE b.voter # n
      <3>1. currentTerm'[b.voter] = currentTerm[b.voter] /\ votedFor'[b.voter] = votedFor[b.voter]
        BY <1>1, <1>2, <2>3
      <3> QED
        BY <3>1 DEF ElectionInv, VoteRemembered
    <2> QED
      BY <2>2, <2>3
  <1>4. VoteOncePerTerm' /\ GrantsCast'
    BY DEF ElectionInv, VoteOncePerTerm, GrantsCast, IsGrant, Ballot
  <1>5. CountedCast' /\ LeaderElected'
    BY <1>1 DEF ElectionInv, CountedCast, LeaderElected, Quorum, Ballot
  <1> QED
    BY <1>3, <1>4, <1>5 DEF ElectionInv

(***************************************************************************)
(* A vote is cast: voter v enters term t, not older than its own, for c,   *)
(* after voting for nobody else in t.                                      *)
(***************************************************************************)
LEMMA BallotStep ==
    ASSUME ElectionInv, NEW v \in Node, NEW t \in Nat, NEW c \in Node,
           t >= currentTerm[v],
           t = currentTerm[v] => votedFor[v] \in {Nil, c},
           currentTerm' = [currentTerm EXCEPT ![v] = t],
           votedFor' = [votedFor EXCEPT ![v] = c],
           ballots' = ballots \cup {Ballot(v, t, c)}
    PROVE  VoteRemembered' /\ VoteOncePerTerm'
  <1>1. /\ currentTerm \in [Node -> Nat]
        /\ votedFor \in [Node -> Node \cup {Nil}]
    BY DEF ElectionInv, TypeInv, TypeOK
  <1>2. \A b \in ballots : b.voter \in Node /\ b.term \in Nat /\ b.cand \in Node
    BY DEF ElectionInv, TypeInv, TypeOK
  <1>3. ASSUME NEW b \in ballots, b.voter = v
        PROVE  b.term <= t /\ (b.term = t => b.cand = c)
    <2>1. /\ b.term <= currentTerm[v]
          /\ b.term = currentTerm[v] => votedFor[v] = b.cand
      BY <1>3 DEF ElectionInv, VoteRemembered
    <2>2. b.term <= t
      BY <1>1, <1>2, <2>1
    <2>3. ASSUME b.term = t PROVE b.cand = c
      <3>1. t = currentTerm[v]
        BY <1>1, <1>2, <2>1, <2>3
      <3> QED
        BY <1>2, <2>1, <2>3, <3>1, NodeAssumption
    <2> QED
      BY <2>2, <2>3
  <1>4. VoteRemembered'
    <2> SUFFICES ASSUME NEW b \in ballots'
                 PROVE  /\ b.term <= currentTerm'[b.voter]
                        /\ b.term = currentTerm'[b.voter] => votedFor'[b.voter] = b.cand
      BY DEF VoteRemembered
    <2>1. CASE b = Ballot(v, t, c)
      BY <1>1, <2>1 DEF Ballot
    <2>2. CASE b \in ballots /\ b.voter = v
      BY <1>1, <1>3, <2>2
    <2>3. CASE b \in ballots /\ b.voter # v
      <3>1. currentTerm'[b.voter] = currentTerm[b.voter] /\ votedFor'[b.voter] = votedFor[b.voter]
        BY <1>1, <1>2, <2>3
      <3> QED
        BY <2>3, <3>1 DEF ElectionInv, VoteRemembered
    <2> QED
      BY <2>1, <2>2, <2>3
  <1>5. VoteOncePerTerm'
    <2> SUFFICES ASSUME NEW a \in ballots', NEW b \in ballots',
                        a.voter = b.voter, a.term = b.term
                 PROVE  a.cand = b.cand
      BY DEF VoteOncePerTerm
    <2>1. CASE a \in ballots /\ b \in ballots
      BY <2>1 DEF ElectionInv, VoteOncePerTerm
    <2>2. CASE a = Ballot(v, t, c) /\ b \in ballots
      BY <1>3, <2>2 DEF Ballot
    <2>3. CASE b = Ballot(v, t, c) /\ a \in ballots
      BY <1>3, <2>3 DEF Ballot
    <2> QED
      BY <2>1, <2>2, <2>3
  <1> QED
    BY <1>4, <1>5

\* Before the first election nobody has voted, counted or won.
LEMMA InitElectionInv == Init => ElectionInv
  BY InitTypeInv
     DEF Init, ElectionInv, VoteRemembered, VoteOncePerTerm, GrantsCast,
         CountedCast, LeaderElected

\* Every step keeps the election invariant.
LEMMA NextElectionInv == ElectionInv /\ [Next]_vars => ElectionInv'
  <1> SUFFICES ASSUME ElectionInv, [Next]_vars PROVE ElectionInv'
    OBVIOUS
  <1>t. TypeInv /\ TypeInv'
    BY NextTypeInv DEF ElectionInv
  <1>r. /\ currentTerm \in [Node -> Nat]
        /\ votedFor \in [Node -> Node \cup {Nil}]
        /\ state \in [Node -> {"Follower", "Candidate", "Leader"}]
        /\ votes \in [Node -> SUBSET Node]
    BY <1>t DEF TypeInv, TypeOK
  <1>m. \A m \in msgs : m.to \in Node /\ m.from \in Node /\ m.term \in Nat
    BY <1>t, MessageKinds DEF TypeInv, TypeOK
  <1>1. ASSUME NEW n \in Node, StartElection(n) PROVE ElectionInv'
    <2> DEFINE t == currentTerm[n] + 1
    <2>1. t \in Nat /\ t > currentTerm[n]
      BY <1>r
    <2>2. /\ currentTerm' = [currentTerm EXCEPT ![n] = t]
          /\ votedFor' = [votedFor EXCEPT ![n] = n]
          /\ ballots' = ballots \cup {Ballot(n, t, n)}
          /\ votes' = [votes EXCEPT ![n] = {n}]
          /\ state' = [state EXCEPT ![n] = "Candidate"]
      BY <1>1 DEF StartElection, Ballot
    <2> HIDE DEF t
    <2>3. VoteRemembered' /\ VoteOncePerTerm'
      <3>1. t >= currentTerm[n] /\ t # currentTerm[n]
        BY <1>r, <2>1
      <3> QED
        BY <2>1, <2>2, <3>1, BallotStep
    <2>4. GrantsCast'
      <3>1. \A m \in msgs' : IsGrant(m) => m \in msgs
        BY <1>1 DEF StartElection, VoteCall, IsGrant
      <3> QED
        BY <2>2, <3>1 DEF ElectionInv, GrantsCast
    <2>5. CountedCast'
      <3> SUFFICES ASSUME NEW p \in Node, state'[p] # "Follower", NEW v \in votes'[p]
                   PROVE  Ballot(v, currentTerm'[p], p) \in ballots'
        BY DEF CountedCast
      <3>1. CASE p = n
        BY <1>r, <2>2, <3>1
      <3>2. CASE p # n
        BY <1>r, <2>2, <3>2 DEF ElectionInv, CountedCast
      <3> QED
        BY <3>1, <3>2
    <2>6. LeaderElected'
      BY <1>r, <2>2 DEF ElectionInv, LeaderElected, Quorum
    <2> QED
      BY <1>t, <2>3, <2>4, <2>5, <2>6 DEF ElectionInv
  <1>2. ASSUME NEW n \in Node, TimerIdle(n) PROVE ElectionInv'
    BY <1>2, <1>t, QuietStep DEF TimerIdle, ElectionParts
  <1>3. ASSUME NEW n \in Node, Kill(n) PROVE ElectionInv'
    BY <1>3, <1>t, QuietStep DEF Kill, ElectionParts, role
  <1>4. ASSUME NEW n \in Node, NEW c \in Command, Start(n, c) PROVE ElectionInv'
    BY <1>4, <1>t, QuietStep DEF Start, ElectionParts, role
  <1>5. ASSUME NEW n \in Node, NEW p \in Node, SendAppendEntries(n, p) PROVE ElectionInv'
    <2>1. \A m \in msgs' : IsGrant(m) => m \in msgs
      BY <1>5 DEF SendAppendEntries, AppendCall, IsGrant
    <2> QED
      BY <1>5, <1>t, <2>1, QuietStep DEF SendAppendEntries, ElectionParts, role
  <1>6. ASSUME NEW m \in msgs, Lose(m) PROVE ElectionInv'
    BY <1>6, <1>t, QuietStep DEF Lose, ElectionParts, role
  <1>7. ASSUME NEW m \in msgs, GrantVote(m) PROVE ElectionInv'
    <2>1. m.to \in Node /\ m.from \in Node /\ m.term \in Nat
      BY <1>m
    <2>2. /\ m.term >= currentTerm[m.to]
          /\ m.term = currentTerm[m.to] => votedFor[m.to] \in {Nil, m.from}
          /\ currentTerm' = [currentTerm EXCEPT ![m.to] = m.term]
          /\ votedFor' = [votedFor EXCEPT ![m.to] = m.from]
          /\ ballots' = ballots \cup {Ballot(m.to, m.term, m.from)}
          /\ UNCHANGED votes
      BY <1>7, <1>r, <2>1 DEF GrantVote, MayVote, Ballot
    <2>3. VoteRemembered' /\ VoteOncePerTerm'
      BY <2>1, <2>2, BallotStep
    <2>4. GrantsCast'
      <3> SUFFICES ASSUME NEW g \in msgs', IsGrant(g)
                   PROVE  Ballot(g.from, g.sentTerm, g.to) \in ballots'
        BY DEF GrantsCast
      <3>1. CASE g \in msgs
        BY <2>2, <3>1 DEF ElectionInv, GrantsCast
      <3>2. CASE g = VoteReply(m, m.term, TRUE)
        <4>1. g.from = m.to /\ g.sentTerm = m.term /\ g.to = m.from
          BY <3>2 DEF VoteReply
        <4> QED
          BY <2>2, <4>1
      <3> QED
        BY <1>7, <3>1, <3>2 DEF GrantVote, Reply
    <2>5. ASSUME NEW p \in Node, state'[p] # "Follower"
          PROVE  state'[p] = state[p] /\ currentTerm'[p] = currentTerm[p]
      BY <1>7, <1>r, <2>1, <2>2, <2>5 DEF GrantVote
    <2>6. CountedCast' /\ LeaderElected'
      BY <2>2, <2>5 DEF ElectionInv, CountedCast, LeaderElected, Quorum
    <2> QED
      BY <1>t, <2>3, <2>4, <2>6 DEF ElectionInv
  <1>8. ASSUME NEW m \in msgs, DenyVote(m) PROVE ElectionInv'
    <2>1. \A g \in msgs' : IsGrant(g) => g \in msgs
      BY <1>8 DEF DenyVote, Reply, VoteReply, IsGrant
    <2>2. CASE UNCHANGED role
      BY <1>8, <1>t, <2>1, <2>2, QuietStep DEF DenyVote, ElectionParts, role
    <2>3. CASE m.term > currentTerm[m.to] /\ BecomeFollower(m.to, m.term)
      BY <1>8, <1>t, <1>m, <2>1, <2>3, StepDownStep DEF DenyVote
    <2> QED
      BY <1>8, <2>2, <2>3 DEF DenyVote
  <1>9. ASSUME NEW m \in msgs, StepDown(m) PROVE ElectionInv'
    <2>1. \A g \in msgs' : IsGrant(g) => g \in msgs
      BY <1>9 DEF StepDown, Done
    <2> QED
      BY <1>9, <1>t, <1>m, <2>1, StepDownStep DEF StepDown
  <1>10. ASSUME NEW m \in msgs, CountVote(m) PROVE ElectionInv'
    <2> DEFINE n == m.to
               granted == votes[n] \cup {m.from}
    <2>1. n \in Node /\ m.from \in Node
      BY <1>m
    <2>2. /\ UNCHANGED << currentTerm, votedFor, ballots >>
          /\ votes' = [votes EXCEPT ![n] = granted]
          /\ state[n] = "Candidate"
          /\ IsGrant(m) /\ m.sentTerm = currentTerm[n]
      BY <1>10 DEF CountVote, Current, IsGrant
    <2>3. \A g \in msgs' : g \in msgs
      BY <1>10 DEF CountVote, Done
    <2>4. VoteRemembered' /\ VoteOncePerTerm' /\ GrantsCast'
      BY <2>2, <2>3 DEF ElectionInv, VoteRemembered, VoteOncePerTerm, GrantsCast,
                        IsGrant, Ballot
    <2>5. \A v \in granted : Ballot(v, currentTerm[n], n) \in ballots
      BY <2>1, <2>2 DEF ElectionInv, CountedCast, GrantsCast
    <2> HIDE DEF granted
    <2>6. \A p \in Node \ {n} : state'[p] = state[p] /\ votes'[p] = votes[p]
      BY <1>10, <1>r, <2>1, <2>2 DEF CountVote, BecomeLeader
    <2>7. CountedCast'
      <3> SUFFICES ASSUME NEW p \in Node, state'[p] # "Follower", NEW v \in votes'[p]
                   PROVE  Ballot(v, currentTerm[p], p) \in ballots
        BY <2>2 DEF CountedCast
      <3>1. CASE p = n
        BY <1>r, <2>1, <2>2, <2>5, <3>1
      <3>2. CASE p # n
        BY <2>6, <3>2 DEF ElectionInv, CountedCast
      <3> QED
        BY <3>1, <3>2
    <2>8. LeaderElected'
      <3> SUFFICES ASSUME NEW p \in Node, state'[p] = "Leader"
                   PROVE  Cardinality(votes'[p]) >= Quorum
        BY DEF LeaderElected, Quorum
      <3>1. CASE p # n
        BY <2>6, <3>1 DEF ElectionInv, LeaderElected
      <3>2. CASE p = n
        <4>1. Cardinality(granted) >= Quorum
          BY <1>10, <2>2, <3>2 DEF CountVote, granted
        <4> QED
          BY <1>r, <2>1, <2>2, <3>2, <4>1
      <3> QED
        BY <3>1, <3>2
    <2> QED
      BY <1>t, <2>4, <2>7, <2>8 DEF ElectionInv
  <1>11. ASSUME NEW m \in msgs, IgnoreVote(m) PROVE ElectionInv'
    BY <1>11, <1>t, QuietStep DEF IgnoreVote, Done, ElectionParts, role
  <1>12. ASSUME NEW m \in msgs, AppendEntries(m) PROVE ElectionInv'
    <2>1. \A g \in msgs' : IsGrant(g) => g \in msgs
      BY <1>12 DEF AppendEntries, Reply, AppendReply, IsGrant
    <2>2. CASE UNCHANGED << currentTerm, votedFor, state >>
      BY <1>12, <1>t, <2>1, <2>2, QuietStep DEF AppendEntries, ElectionParts
    <2>3. CASE m.term > currentTerm[m.to] /\ BecomeFollower(m.to, m.term)
      BY <1>12, <1>t, <1>m, <2>1, <2>3, StepDownStep DEF AppendEntries
    <2> QED
      BY <1>12, <2>2, <2>3 DEF AppendEntries
  <1>13. ASSUME NEW m \in msgs, RefuseAppend(m) PROVE ElectionInv'
    <2>1. \A g \in msgs' : IsGrant(g) => g \in msgs
      BY <1>13 DEF RefuseAppend, Reply, AppendReply, IsGrant
    <2> QED
      BY <1>13, <1>t, <2>1, QuietStep DEF RefuseAppend, ElectionParts, role
  <1>14. ASSUME NEW m \in msgs, AppendSucceeded(m) PROVE ElectionInv'
    BY <1>14, <1>t, QuietStep DEF AppendSucceeded, Done, ElectionParts, role
  <1>15. ASSUME NEW m \in msgs, AppendRejected(m) PROVE ElectionInv'
    BY <1>15, <1>t, QuietStep DEF AppendRejected, Done, ElectionParts, role
  <1>16. CASE UNCHANGED vars
    BY <1>16, <1>t, QuietStep DEF vars, ElectionParts
  <1> QED
    BY <1>1, <1>2, <1>3, <1>4, <1>5, <1>6, <1>7, <1>8, <1>9, <1>10, <1>11,
       <1>12, <1>13, <1>14, <1>15, <1>16 DEF Next, Receive

\* The election invariant holds throughout every behaviour.
LEMMA ElectionInvariant == Spec => []ElectionInv
  BY InitElectionInv, NextElectionInv, PTL DEF Spec

(***************************************************************************)
(* No server ever votes for two candidates of one term, in any cluster and *)
(* under any schedule of elections, replies and losses: the INVARIANT that *)
(* raft.go states for votedFor.                                            *)
(***************************************************************************)
THEOREM OneVotePerTerm == Spec => []VoteOncePerTerm
  <1>1. ElectionInv => VoteOncePerTerm
    BY DEF ElectionInv
  <1> QED
    BY <1>1, ElectionInvariant, PTL

\* Two majorities of one cluster have a node in common.
LEMMA QuorumsMeet ==
    ASSUME NEW Q, Q \subseteq Node, NEW R, R \subseteq Node,
           Cardinality(Q) >= Quorum, Cardinality(R) >= Quorum
    PROVE  \E v \in Node : v \in Q /\ v \in R
  <1>1. IsFiniteSet(Q) /\ IsFiniteSet(R)
    BY NodeAssumption, FS_Subset
  <1>2. Cardinality(Node) \in Nat /\ Cardinality(Q) \in Nat /\ Cardinality(R) \in Nat
    BY <1>1, NodeAssumption, FS_CardinalityType
  <1>3. Cardinality(Q) + Cardinality(R) > Cardinality(Node)
    BY <1>2 DEF Quorum
  <1>4. Q \cap R # {}
    BY <1>1, <1>3, NodeAssumption, FS_MajoritiesIntersect
  <1> QED
    BY <1>4

\* Two majorities of counted votes share a voter, who voted for one node only.
LEMMA ElectionInvSafe == ElectionInv => ElectionSafety
  <1> SUFFICES ASSUME ElectionInv, NEW n \in Node, NEW p \in Node,
                      state[n] = "Leader", state[p] = "Leader",
                      currentTerm[n] = currentTerm[p]
               PROVE  n = p
    BY DEF ElectionSafety
  <1>1. /\ votes[n] \subseteq Node /\ votes[p] \subseteq Node
        /\ Cardinality(votes[n]) >= Quorum /\ Cardinality(votes[p]) >= Quorum
    BY DEF ElectionInv, TypeInv, TypeOK, LeaderElected
  <1>2. PICK v \in votes[n] : v \in votes[p]
    BY <1>1, QuorumsMeet
  <1>3. /\ Ballot(v, currentTerm[n], n) \in ballots
        /\ Ballot(v, currentTerm[n], p) \in ballots
    BY <1>2 DEF ElectionInv, CountedCast
  <1> QED
    BY <1>3 DEF ElectionInv, VoteOncePerTerm, Ballot

(***************************************************************************)
(* There is at most one leader per term, for every cluster size.           *)
(***************************************************************************)
THEOREM AtMostOneLeader == Spec => []ElectionSafety
  BY ElectionInvariant, ElectionInvSafe, PTL

-----------------------------------------------------------------------------
(* The election timer *)

\* Only becomeLeader and Kill let a timer lapse; stepping down re-arms it.
LEMMA NextTimerArmed == TypeInv /\ TimerArmed /\ [Next]_vars => TimerArmed'
  <1> SUFFICES ASSUME TypeInv, TimerArmed, [Next]_vars PROVE TimerArmed'
    OBVIOUS
  <1>r. /\ currentTerm \in [Node -> Nat]
        /\ state \in [Node -> {"Follower", "Candidate", "Leader"}]
        /\ armed \in [Node -> BOOLEAN] /\ dead \in [Node -> BOOLEAN]
    BY DEF TypeInv, TypeOK
  <1>m. \A m \in msgs : m.to \in Node
    BY MessageKinds DEF TypeInv, TypeOK
  <1>f. ASSUME NEW n \in Node, NEW t, BecomeFollower(n, t), UNCHANGED dead
        PROVE  TimerArmed'
    BY <1>f, <1>r DEF BecomeFollower, TimerArmed
  <1>u. ASSUME UNCHANGED << state, armed, dead >> PROVE TimerArmed'
    BY <1>u DEF TimerArmed
  <1>1. ASSUME NEW n \in Node, StartElection(n) PROVE TimerArmed'
    BY <1>1, <1>r DEF StartElection, TimerArmed
  <1>2. ASSUME NEW n \in Node, TimerIdle(n) PROVE TimerArmed'
    BY <1>2, <1>r DEF TimerIdle, TimerArmed
  <1>3. ASSUME NEW n \in Node, Kill(n) PROVE TimerArmed'
    BY <1>3, <1>r DEF Kill, TimerArmed, role
  <1>4. ASSUME NEW m \in msgs, GrantVote(m) PROVE TimerArmed'
    BY <1>4, <1>r, <1>m DEF GrantVote, TimerArmed
  <1>5. ASSUME NEW m \in msgs, DenyVote(m) PROVE TimerArmed'
    BY <1>5, <1>m, <1>f, <1>u DEF DenyVote, role
  <1>6. ASSUME NEW m \in msgs, StepDown(m) PROVE TimerArmed'
    BY <1>6, <1>m, <1>f DEF StepDown
  <1>7. ASSUME NEW m \in msgs, CountVote(m) PROVE TimerArmed'
    BY <1>7, <1>r, <1>m DEF CountVote, BecomeLeader, TimerArmed
  <1>8. ASSUME NEW m \in msgs, AppendEntries(m) PROVE TimerArmed'
    <2>1. CASE BecomeFollower(m.to, m.term)
      BY <1>8, <2>1, <1>m, <1>f DEF AppendEntries
    <2>2. CASE armed' = [armed EXCEPT ![m.to] = TRUE] /\ UNCHANGED state
      BY <1>8, <2>2, <1>r, <1>m DEF AppendEntries, TimerArmed
    <2> QED
      BY <1>8, <2>1, <2>2 DEF AppendEntries
  <1>9. CASE \/ \E n \in Node, c \in Command : Start(n, c)
             \/ \E n, p \in Node : SendAppendEntries(n, p)
             \/ \E m \in msgs : \/ Lose(m) \/ IgnoreVote(m) \/ RefuseAppend(m)
                                \/ AppendSucceeded(m) \/ AppendRejected(m)
             \/ UNCHANGED vars
    BY <1>9, <1>u DEF Start, SendAppendEntries, Lose, IgnoreVote, RefuseAppend,
                      AppendSucceeded, AppendRejected, role, vars
  <1> QED
    BY <1>1, <1>2, <1>3, <1>4, <1>5, <1>6, <1>7, <1>8, <1>9 DEF Next, Receive

(***************************************************************************)
(* A live node that does not lead always has a running election timer, so  *)
(* no sequence of role changes leaves the cluster unable to elect.         *)
(***************************************************************************)
THEOREM TimerAlwaysArmed == Spec => []TimerArmed
  <1>1. Init => TimerArmed
    BY DEF Init, TimerArmed
  <1> QED
    BY <1>1, InitTypeInv, NextTypeInv, NextTimerArmed, PTL DEF Spec

-----------------------------------------------------------------------------
(* Common prefixes *)

\* Agreeing up to an index is symmetric.
LEMMA SamePrefixSym ==
    ASSUME NEW l, NEW m, NEW k, SamePrefix(l, m, k)
    PROVE  SamePrefix(m, l, k)
  BY DEF SamePrefix

\* Agreeing is transitive.
LEMMA SamePrefixTrans ==
    ASSUME NEW l, NEW m, NEW r, NEW k, SamePrefix(l, m, k), SamePrefix(m, r, k)
    PROVE  SamePrefix(l, r, k)
  BY DEF SamePrefix

\* Agreeing up to an index is agreeing up to a smaller one.
LEMMA SamePrefixLess ==
    ASSUME NEW S, NEW l \in Seq(S), NEW m \in Seq(S), NEW k \in Nat, NEW j \in Nat,
           j <= k, SamePrefix(l, m, k)
    PROVE  SamePrefix(l, m, j)
  <1>1. Len(l) \in Nat /\ Len(m) \in Nat
    BY LenProperties
  <1> QED
    BY <1>1 DEF SamePrefix

\* Every log agrees with itself, and with any log on nothing.
LEMMA SamePrefixSelf ==
    ASSUME NEW S, NEW l \in Seq(S), NEW m \in Seq(S)
    PROVE  SamePrefix(l, l, Len(l)) /\ SamePrefix(l, m, 0)
  <1>1. Len(l) \in Nat /\ Len(m) \in Nat
    BY LenProperties
  <1> QED
    BY <1>1 DEF SamePrefix

\* Appending an entry keeps what was there.
LEMMA AppendKeeps ==
    ASSUME NEW S, NEW l \in Seq(S), NEW e \in S
    PROVE  /\ Append(l, e) \in Seq(S) /\ Append(l, e) # << >>
           /\ Len(Append(l, e)) = Len(l) + 1 /\ Len(l) \in Nat
           /\ Append(l, e)[Len(l) + 1] = e
           /\ SamePrefix(l, Append(l, e), Len(l))
  <1>1. Len(l) \in Nat
    BY LenProperties
  <1>2. /\ Append(l, e) \in Seq(S) /\ Append(l, e) # << >>
        /\ Len(Append(l, e)) = Len(l) + 1
        /\ \A i \in 1..Len(l) : Append(l, e)[i] = l[i]
        /\ Append(l, e)[Len(l) + 1] = e
    BY AppendProperties
  <1> QED
    BY <1>1, <1>2 DEF SamePrefix

-----------------------------------------------------------------------------
(* The invariant *)

LeaderLogs == [Nat -> Seq(EntryType)]

\* Every entry of l came, with all before it, from the leader of its term.
Grounded(l, h) == \A i \in 1..Len(l) : SamePrefix(l, h[l[i].term], i)

\* So did the leaders' own logs, which are gapless and ordered by term.
TermLogs(h) ==
    \A t \in Nat :
        /\ Grounded(h[t], h)
        /\ \A i \in 1..Len(h[t]) :
              /\ h[t][i].index = i /\ h[t][i].term <= t
              /\ \A j \in 1..i : h[t][j].term <= h[t][i].term

NodeLogs(h) ==
    \A n \in Node :
        /\ Grounded(log[n], h)
        /\ \A i \in 1..Len(log[n]) : log[n][i].term <= currentTerm[n]

\* A majority voted for n in term t.
Elected(n, t) ==
    \E Q \in SUBSET Node :
        Cardinality(Q) >= Quorum /\ \A v \in Q : Ballot(v, t, n) \in ballots

\* A term has a log only if somebody won it, who leads or has moved on.
TermOwner(h) ==
    \A t \in Nat : h[t] # << >> =>
        \E n \in Node : /\ Elected(n, t) /\ t <= currentTerm[n]
                        /\ currentTerm[n] = t => state[n] = "Leader"

\* A leader's log is the log of its term, and no peer is sent more.
LeaderLog(h) ==
    \A n \in Node : state[n] = "Leader" =>
        /\ h[currentTerm[n]] = log[n] /\ log[n] # << >>
        /\ \A p \in Node : nextIndex[n][p] <= Len(log[n]) + 1

\* An AppendEntries call is a piece of the log of its term; a reply speaks of
\* an index of that log.
MessageTrue(m, h) ==
    /\ m.type = "AppendEntries" =>
         /\ 1 <= m.prevLogIndex + Len(m.entries)
         /\ m.prevLogIndex + Len(m.entries) <= Len(h[m.term])
         /\ \A k \in 1..Len(m.entries) : m.entries[k] = h[m.term][m.prevLogIndex + k]
         /\ m.prevLogIndex > 0 => m.prevLogTerm = h[m.term][m.prevLogIndex].term
    /\ m.type = "AppendEntriesReply" => m.newMatch <= Len(h[m.sentTerm])

MessagesTrue(h) == \A m \in msgs : MessageTrue(m, h)

LogInv(h) ==
    /\ h \in LeaderLogs
    /\ TermLogs(h) /\ NodeLogs(h) /\ TermOwner(h) /\ LeaderLog(h) /\ MessagesTrue(h)

-----------------------------------------------------------------------------
(* What grounded logs have in common *)

\* Two grounded logs with the same term at an index agree up to there.
LEMMA GroundedAgree ==
    ASSUME NEW h, NEW l, NEW m, Grounded(l, h), Grounded(m, h),
           NEW i \in 1..Len(l), i \in 1..Len(m), l[i].term = m[i].term
    PROVE  SamePrefix(l, m, i)
  <1>1. SamePrefix(l, h[l[i].term], i) /\ SamePrefix(m, h[l[i].term], i)
    BY DEF Grounded
  <1> QED
    BY <1>1, SamePrefixSym, SamePrefixTrans

\* A grounded log is gapless and ordered by term.
LEMMA GroundedOrdered ==
    ASSUME NEW h \in LeaderLogs, TermLogs(h), NEW l \in Seq(EntryType), Grounded(l, h),
           NEW i \in 1..Len(l)
    PROVE  /\ l[i].index = i /\ l[i].term \in Nat
           /\ \A j \in 1..i : l[j].term \in Nat /\ l[j].term <= l[i].term
  <1> DEFINE t == l[i].term
  <1>1. l[i] \in EntryType /\ Len(l) \in Nat
    BY ElementOfSeq, LenProperties
  <1>2. t \in Nat /\ h[t] \in Seq(EntryType)
    BY <1>1 DEF EntryType, LeaderLogs
  <1>3. i \in 1..Len(h[t]) /\ \A j \in 1..i : l[j] = h[t][j]
    <2>1. SamePrefix(l, h[t], i)
      BY DEF Grounded
    <2> QED
      BY <1>1, <2>1 DEF SamePrefix
  <1>4. h[t][i].index = i /\ \A j \in 1..i : h[t][j].term <= h[t][i].term
    BY <1>2, <1>3 DEF TermLogs
  <1>5. \A j \in 1..i : l[j].term \in Nat
    <2>1. \A j \in 1..i : l[j] \in EntryType
      BY <1>1, ElementOfSeq
    <2> QED
      BY <2>1 DEF EntryType
  <1> HIDE DEF t
  <1>6. l[i] = h[t][i]
    BY <1>1, <1>3
  <1>7. \A j \in 1..i : l[j].term <= l[i].term
    BY <1>3, <1>4, <1>6
  <1> QED
    BY <1>2, <1>4, <1>5, <1>6, <1>7 DEF t

\* h becomes g: the logs of some terms grow.
Grows(h, g) ==
    /\ g \in LeaderLogs
    /\ \A t \in Nat : SamePrefix(h[t], g[t], Len(h[t]))

\* Growing leaves grounded logs grounded.
LEMMA GroundedGrows ==
    ASSUME NEW h \in LeaderLogs, NEW g, Grows(h, g),
           NEW l \in Seq(EntryType), Grounded(l, h)
    PROVE  Grounded(l, g)
  <1> SUFFICES ASSUME NEW i \in 1..Len(l) PROVE SamePrefix(l, g[l[i].term], i)
    BY DEF Grounded
  <1> DEFINE t == l[i].term
  <1>1. l[i] \in EntryType /\ i \in Nat
    BY ElementOfSeq, LenProperties
  <1>2. t \in Nat /\ h[t] \in Seq(EntryType) /\ g[t] \in Seq(EntryType)
    BY <1>1 DEF EntryType, LeaderLogs, Grows
  <1>3. SamePrefix(l, h[t], i)
    BY DEF Grounded
  <1>4. Len(h[t]) \in Nat /\ i <= Len(h[t])
    BY <1>2, <1>3, LenProperties DEF SamePrefix
  <1> HIDE DEF t
  <1>5. SamePrefix(h[t], g[t], i)
    <2>1. SamePrefix(h[t], g[t], Len(h[t]))
      BY <1>2 DEF Grows
    <2> QED
      BY <1>1, <1>2, <1>4, <2>1, SamePrefixLess
  <1>6. SamePrefix(l, g[t], i)
    BY <1>3, <1>5, SamePrefixTrans
  <1> QED
    BY <1>6 DEF t

\* And messages true.
LEMMA MessageGrows ==
    ASSUME NEW h \in LeaderLogs, NEW g, Grows(h, g), NEW m \in Message, MessageTrue(m, h)
    PROVE  MessageTrue(m, g)
  <1>1. CASE m.type = "AppendEntries"
    <2>1. m \in AppendCallType
      BY <1>1, MessageKinds
    <2>2. m.term \in Nat /\ m.prevLogIndex \in Nat /\ Len(m.entries) \in Nat
      BY <2>1, LenProperties DEF AppendCallType
    <2>3. h[m.term] \in Seq(EntryType) /\ g[m.term] \in Seq(EntryType)
      BY <2>2 DEF LeaderLogs, Grows
    <2>4. Len(h[m.term]) \in Nat /\ Len(g[m.term]) \in Nat
      BY <2>3, LenProperties
    <2>5. SamePrefix(h[m.term], g[m.term], Len(h[m.term]))
      BY <2>2 DEF Grows
    <2>6. Len(h[m.term]) <= Len(g[m.term])
          /\ \A i \in 1..Len(h[m.term]) : h[m.term][i] = g[m.term][i]
      BY <2>5 DEF SamePrefix
    <2>7. \A k \in 1..Len(m.entries) : m.prevLogIndex + k \in 1..Len(h[m.term])
      BY <1>1, <2>2, <2>4 DEF MessageTrue
    <2>8. m.prevLogIndex > 0 => m.prevLogIndex \in 1..Len(h[m.term])
      BY <1>1, <2>2, <2>4 DEF MessageTrue
    <2>9. /\ 1 <= m.prevLogIndex + Len(m.entries)
          /\ m.prevLogIndex + Len(m.entries) <= Len(g[m.term])
      BY <1>1, <2>2, <2>4, <2>6 DEF MessageTrue
    <2>10. \A k \in 1..Len(m.entries) : m.entries[k] = g[m.term][m.prevLogIndex + k]
      BY <1>1, <2>6, <2>7 DEF MessageTrue
    <2>11. m.prevLogIndex > 0 => m.prevLogTerm = g[m.term][m.prevLogIndex].term
      BY <1>1, <2>6, <2>8 DEF MessageTrue
    <2> QED
      BY <1>1, <2>9, <2>10, <2>11 DEF MessageTrue
  <1>2. CASE m.type = "AppendEntriesReply"
    <2>1. m.newMatch \in Nat /\ m.sentTerm \in Nat
      BY <1>2, MessageKinds DEF AppendReplyType
    <2>2. Len(h[m.sentTerm]) \in Nat /\ Len(g[m.sentTerm]) \in Nat
      BY <2>1, LenProperties DEF LeaderLogs, Grows
    <2>3. Len(h[m.sentTerm]) <= Len(g[m.sentTerm])
      BY <2>1 DEF Grows, SamePrefix
    <2> QED
      BY <1>2, <2>1, <2>2, <2>3 DEF MessageTrue
  <1> QED
    BY <1>1, <1>2 DEF MessageTrue

\* The part of a log that Truncate keeps.
LEMMA TruncateKeeps ==
    ASSUME NEW S, NEW l \in Seq(S), NEW x \in Nat, x <= Len(l)
    PROVE  /\ Truncate(l, x + 1) \in Seq(S) /\ Len(Truncate(l, x + 1)) = x
           /\ \A i \in 1..x : Truncate(l, x + 1)[i] = l[i]
  <1>1. Len(l) \in Nat
    BY LenProperties
  <1>2. CASE Has(l, x + 1)
    <2>1. Truncate(l, x + 1) = SubSeq(l, 1, x)
      <3>1. x + 1 - 1 = x
        OBVIOUS
      <3> QED
        BY <1>2, <3>1 DEF Truncate
    <2>2. \A i \in 1..x : l[i] \in S
      BY <1>1, ElementOfSeq
    <2>3. /\ SubSeq(l, 1, x) \in Seq(S) /\ Len(SubSeq(l, 1, x)) = x
          /\ \A i \in 1..x : SubSeq(l, 1, x)[i] = l[i]
      BY <2>2, SubSeqProperties
    <2> QED
      BY <2>1, <2>3
  <1>3. CASE ~Has(l, x + 1)
    BY <1>1, <1>3 DEF Has, Truncate
  <1> QED
    BY <1>2, <1>3

\* The entries es are the piece of r after prev, and l matches r: up to prev,
\* and up to any index where the terms are the same.
Continues(es, prev, r, l) ==
    /\ prev + Len(es) <= Len(r)
    /\ \A i \in 1..Len(es) : es[i] = r[prev + i]
    /\ SamePrefix(l, r, prev)
    /\ \A i \in 1..Len(l) : i <= Len(r) /\ l[i].term = r[i].term => SamePrefix(l, r, i)

(***************************************************************************)
(* The merge loop, for a log l and a call whose entries es are the piece   *)
(* after prev of some log r that l matches: afterwards l agrees with r up  *)
(* to the last entry of the call, it either is as before or ends there,    *)
(* and no entry it had in common with r is dropped.                        *)
(***************************************************************************)
LEMMA MergeMatches ==
    ASSUME NEW l \in Seq(EntryType), NEW r \in Seq(EntryType), NEW es \in Seq(EntryType),
           NEW prev \in Nat, Continues(es, prev, r, l)
    PROVE  LET w == Merge(l, prev, es)
               k == prev + Len(es)
           IN  /\ w \in Seq(EntryType)
               /\ SamePrefix(w, r, k)
               /\ w = l \/ Len(w) = k
               /\ \A j \in Nat : SamePrefix(l, r, j) => SamePrefix(w, r, j)
  <1> DEFINE w == Merge(l, prev, es)
             fresh == {i \in 1..Len(es) :
                         ~(Has(l, prev + i) /\ TermAt(l, prev + i) = es[i].term)}
  <1>1. Len(es) \in Nat /\ Len(l) \in Nat /\ Len(r) \in Nat
    BY LenProperties
  <1>2. w \in Seq(EntryType)
    BY MergeType
  <1>3. w = IF fresh = {} THEN l
            ELSE Truncate(l, prev + Min(fresh)) \o SubSeq(es, Min(fresh), Len(es))
    BY DEF Merge
  <1> HIDE DEF w
  <1>4. ASSUME NEW i \in 1..Len(es), i \notin fresh
        PROVE  SamePrefix(l, r, prev + i)
    BY <1>1, <1>4 DEF Continues, Has, TermAt
  <1>5. CASE fresh = {}
    <2>1. w = l
      BY <1>3, <1>5
    <2>2. SamePrefix(l, r, prev + Len(es))
      <3>1. CASE Len(es) = 0
        BY <3>1 DEF Continues
      <3>2. CASE Len(es) > 0
        <4>1. Len(es) \in 1..Len(es) /\ Len(es) \notin fresh
          BY <1>1, <1>5, <3>2
        <4> QED
          BY <1>4, <4>1
      <3> QED
        BY <1>1, <3>1, <3>2
    <2> QED
      BY <1>2, <2>1, <2>2 DEF w
  <1>6. CASE fresh # {}
    <2> DEFINE f == Min(fresh)
               x == prev + f - 1
               T == Truncate(l, x + 1)
               S == SubSeq(es, f, Len(es))
    <2>1. fresh \subseteq Nat
      BY <1>1
    <2>2. f \in fresh /\ \A y \in fresh : f <= y
      BY <1>6, <2>1, MinOfNaturals
    <2>3. f \in 1..Len(es) /\ f \in Nat
      BY <1>1, <2>2
    <2>4. f \in Nat /\ x \in Nat /\ x + 1 = prev + f
      BY <1>1, <2>3
    <2>5. w = T \o S
      <3> HIDE DEF fresh
      <3>1. w = Truncate(l, prev + f) \o S
        BY <1>3, <1>6
      <3> QED
        BY <2>4, <3>1
    <2>6. ~(Has(l, prev + f) /\ TermAt(l, prev + f) = es[f].term)
      BY <2>2
    <2>7. \A i \in 1 .. f - 1 : i \in 1..Len(es) /\ i \notin fresh
      BY <1>1, <2>2, <2>3
    <2> HIDE DEF f, fresh
    <2>8. SamePrefix(l, r, x)
      <3>1. CASE f = 1
        BY <3>1 DEF Continues
      <3>2. CASE f > 1
        <4>1. f - 1 \in 1 .. f - 1 /\ prev + (f - 1) = x
          BY <2>4, <3>2
        <4>2. SamePrefix(l, r, prev + (f - 1))
          BY <1>4, <2>7, <4>1
        <4> QED
          BY <4>1, <4>2
      <3> QED
        BY <1>1, <2>3, <3>1, <3>2
    <2>9. x <= Len(l) /\ \A i \in 1..x : l[i] = r[i]
      BY <2>8 DEF SamePrefix
    <2>10. x + 1 <= prev + Len(es)
      BY <1>1, <2>3, <2>4
    <2> HIDE DEF x
    <2>11. T \in Seq(EntryType) /\ Len(T) = x /\ \A i \in 1..x : T[i] = l[i]
      BY <2>4, <2>9, TruncateKeeps
    <2>12. /\ S \in Seq(EntryType) /\ Len(S) = Len(es) - f + 1
           /\ \A i \in 1 .. Len(es) - f + 1 : S[i] = es[f + i - 1]
      <3>1. \A i \in f .. Len(es) : es[i] \in EntryType
        BY <1>1, <2>3, ElementOfSeq
      <3>2. /\ S \in Seq(EntryType)
            /\ Len(S) = IF f <= Len(es) THEN Len(es) - f + 1 ELSE 0
            /\ \A i \in 1 .. Len(es) - f + 1 : S[i] = es[f + i - 1]
        BY <1>1, <2>4, <3>1, SubSeqProperties
      <3> QED
        BY <1>1, <2>3, <3>2
    <2> HIDE DEF T, S
    <2>13. /\ Len(w) = Len(T) + Len(S)
           /\ \A i \in 1 .. Len(T) + Len(S) :
                 w[i] = IF i <= Len(T) THEN T[i] ELSE S[i - Len(T)]
      <3>1. /\ Len(T \o S) = Len(T) + Len(S)
            /\ \A i \in 1 .. Len(T) + Len(S) :
                  (T \o S)[i] = IF i <= Len(T) THEN T[i] ELSE S[i - Len(T)]
        BY <2>11, <2>12, ConcatProperties
      <3> QED
        BY <2>5, <3>1
    <2>14. x + (Len(es) - f + 1) = prev + Len(es)
      <3>1. \A a, b, c, d \in Nat : a + 1 = b + c => a + (d - c + 1) = b + d
        OBVIOUS
      <3> QED
        BY <1>1, <2>4, <3>1
    <2>15. Len(w) = prev + Len(es)
      BY <2>11, <2>12, <2>13, <2>14
    <2>16. ASSUME NEW i \in 1 .. prev + Len(es) PROVE w[i] = r[i]
      <3>1. w[i] = IF i <= x THEN T[i] ELSE S[i - x]
        BY <2>11, <2>12, <2>13, <2>14
      <3>2. CASE i <= x
        BY <2>9, <2>11, <3>1, <3>2
      <3>3. CASE i > x
        <4> DEFINE j == i - x
        <4>1. j \in 1 .. Len(es) - f + 1 /\ f + j - 1 \in 1..Len(es) /\ prev + (f + j - 1) = i
          BY <1>1, <2>4, <2>3, <3>3
        <4>2. w[i] = S[j]
          BY <2>4, <3>1, <3>3
        <4> HIDE DEF j
        <4>3. S[j] = es[f + j - 1] /\ es[f + j - 1] = r[prev + (f + j - 1)]
          BY <2>12, <4>1 DEF Continues
        <4> QED
          BY <4>1, <4>2, <4>3
      <3> QED
        BY <2>4, <3>2, <3>3
    <2>17. SamePrefix(w, r, prev + Len(es))
      BY <1>1, <2>15, <2>16 DEF SamePrefix, Continues
    <2>18. ASSUME NEW j \in Nat, SamePrefix(l, r, j) PROVE SamePrefix(w, r, j)
      <3>1. j < prev + f
        <4> SUFFICES ASSUME j >= prev + f PROVE FALSE
          BY <2>4
        <4>1. prev + f \in 1..j /\ j <= Len(l)
          BY <1>1, <2>3, <2>18 DEF SamePrefix
        <4>2. l[prev + f] = r[prev + f] /\ Has(l, prev + f)
          BY <1>1, <2>18, <4>1 DEF SamePrefix, Has
        <4>3. es[f] = r[prev + f]
          BY <2>3 DEF Continues
        <4> QED
          BY <2>6, <4>2, <4>3 DEF TermAt
      <3>2. j <= prev + Len(es) /\ prev + Len(es) \in Nat
        BY <1>1, <2>3, <2>4, <3>1
      <3> QED
        BY <1>2, <2>17, <3>2, SamePrefixLess
    <2> QED
      BY <1>2, <2>15, <2>17, <2>18 DEF w
  <1> QED
    BY <1>5, <1>6

\* AppendEntries, when the consistency check succeeds: the same of the log of
\* the call's leader.
LEMMA MergeAgrees ==
    ASSUME NEW h \in LeaderLogs, TermLogs(h),
           NEW l \in Seq(EntryType), Grounded(l, h),
           NEW m \in AppendCallType, MessageTrue(m, h), Consistent(l, m)
    PROVE  LET w == Merge(l, m.prevLogIndex, m.entries)
               k == m.prevLogIndex + Len(m.entries)
           IN  /\ w \in Seq(EntryType)
               /\ SamePrefix(w, h[m.term], k)
               /\ w = l \/ Len(w) = k
               /\ \A j \in Nat : SamePrefix(l, h[m.term], j) => SamePrefix(w, h[m.term], j)
  <1> DEFINE es == m.entries
             prev == m.prevLogIndex
             L == h[m.term]
  <1>1. m.term \in Nat /\ prev \in Nat /\ es \in Seq(EntryType) /\ m.type = "AppendEntries"
    BY DEF AppendCallType
  <1>2. L \in Seq(EntryType) /\ Grounded(L, h)
    BY <1>1 DEF LeaderLogs, TermLogs
  <1>3. Len(es) \in Nat /\ Len(l) \in Nat /\ Len(L) \in Nat
    BY <1>1, <1>2, LenProperties
  <1>4. /\ prev + Len(es) <= Len(L)
        /\ \A i \in 1..Len(es) : es[i] = L[prev + i]
        /\ prev > 0 => m.prevLogTerm = L[prev].term
    BY <1>1 DEF MessageTrue
  <1>5. prev > 0 => Has(l, prev) /\ TermAt(l, prev) = m.prevLogTerm
    BY DEF Consistent
  <1> HIDE DEF es, prev, L
  <1>6. ASSUME NEW i \in 1..Len(l), i <= Len(L), l[i].term = L[i].term
        PROVE  SamePrefix(l, L, i)
    <2>1. i \in 1..Len(L)
      BY <1>3, <1>6
    <2> QED
      BY <1>2, <1>6, <2>1, GroundedAgree
  <1>7. SamePrefix(l, L, prev)
    <2>1. CASE prev = 0
      BY <1>2, <2>1, SamePrefixSelf
    <2>2. CASE prev > 0
      <3>1. prev \in 1..Len(l) /\ prev <= Len(L) /\ l[prev].term = L[prev].term
        BY <1>1, <1>3, <1>4, <1>5, <2>2 DEF Has, TermAt
      <3> QED
        BY <1>6, <3>1
    <2> QED
      BY <1>1, <2>1, <2>2
  <1>8. LET w == Merge(l, prev, es)
            k == prev + Len(es)
        IN  /\ w \in Seq(EntryType)
            /\ SamePrefix(w, L, k)
            /\ w = l \/ Len(w) = k
            /\ \A j \in Nat : SamePrefix(l, L, j) => SamePrefix(w, L, j)
    BY <1>1, <1>2, <1>4, <1>6, <1>7, MergeMatches DEF Continues
  <1> QED
    BY <1>8 DEF es, prev, L

-----------------------------------------------------------------------------
(* Steps *)

\* No step takes back a vote, a term, or the leadership of a term; nobody
\* leads a term without having stood in it first.
Monotone ==
    /\ ballots \subseteq ballots'
    /\ \A n \in Node :
          /\ currentTerm[n] <= currentTerm'[n]
          /\ state'[n] = "Leader" => currentTerm'[n] = currentTerm[n]
          /\ currentTerm'[n] = currentTerm[n] =>
               /\ state[n] = "Leader" => state'[n] = "Leader"
               /\ state'[n] = "Candidate" => state[n] = "Candidate"

\* Every step is like that.
LEMMA NextMonotone == TypeInv /\ [Next]_vars => Monotone
  <1> SUFFICES ASSUME TypeInv, [Next]_vars PROVE Monotone
    OBVIOUS
  <1>r. /\ currentTerm \in [Node -> Nat]
        /\ state \in [Node -> {"Follower", "Candidate", "Leader"}]
    BY DEF TypeInv, TypeOK
  <1>m. \A m \in msgs : m.to \in Node /\ m.from \in Node /\ m.term \in Nat
    BY MessageKinds DEF TypeInv, TypeOK
  <1>u. ASSUME UNCHANGED << currentTerm, state, ballots >> PROVE Monotone
    BY <1>r, <1>u DEF Monotone
  <1>f. ASSUME NEW n \in Node, NEW t \in Nat, t > currentTerm[n], BecomeFollower(n, t),
               UNCHANGED ballots
        PROVE  Monotone
    BY <1>r, <1>f DEF Monotone, BecomeFollower
  <1>1. ASSUME NEW n \in Node, StartElection(n) PROVE Monotone
    BY <1>r, <1>1 DEF StartElection, Monotone
  <1>2. ASSUME NEW n \in Node, TimerIdle(n) PROVE Monotone
    BY <1>2, <1>u DEF TimerIdle
  <1>3. ASSUME NEW n \in Node, Kill(n) PROVE Monotone
    BY <1>3, <1>u DEF Kill, role
  <1>4. ASSUME NEW n \in Node, NEW c \in Command, Start(n, c) PROVE Monotone
    BY <1>4, <1>u DEF Start, role
  <1>5. ASSUME NEW n \in Node, NEW p \in Node, SendAppendEntries(n, p) PROVE Monotone
    BY <1>5, <1>u DEF SendAppendEntries, role
  <1>6. ASSUME NEW m \in msgs, Lose(m) PROVE Monotone
    BY <1>6, <1>u DEF Lose, role
  <1>7. ASSUME NEW m \in msgs, GrantVote(m) PROVE Monotone
    BY <1>r, <1>m, <1>7 DEF GrantVote, Monotone
  <1>8. ASSUME NEW m \in msgs, DenyVote(m) PROVE Monotone
    <2>1. CASE UNCHANGED role
      BY <1>8, <1>u, <2>1 DEF DenyVote, role
    <2>2. CASE m.term > currentTerm[m.to] /\ BecomeFollower(m.to, m.term)
      BY <1>8, <1>f, <1>m, <2>2 DEF DenyVote
    <2> QED
      BY <1>8, <2>1, <2>2 DEF DenyVote
  <1>9. ASSUME NEW m \in msgs, StepDown(m) PROVE Monotone
    BY <1>9, <1>f, <1>m DEF StepDown
  <1>10. ASSUME NEW m \in msgs, CountVote(m) PROVE Monotone
    <2>1. CASE UNCHANGED state
      BY <1>10, <1>u, <2>1 DEF CountVote
    <2>2. CASE state' = [state EXCEPT ![m.to] = "Leader"]
      BY <1>r, <1>m, <1>10, <2>2 DEF CountVote, Monotone, Current
    <2> QED
      BY <1>10, <2>1, <2>2 DEF CountVote, BecomeLeader
  <1>11. ASSUME NEW m \in msgs, IgnoreVote(m) PROVE Monotone
    BY <1>11, <1>u DEF IgnoreVote, role
  <1>12. ASSUME NEW m \in msgs, AppendEntries(m) PROVE Monotone
    <2>1. CASE UNCHANGED << currentTerm, votedFor, state >>
      BY <1>12, <1>u, <2>1 DEF AppendEntries
    <2>2. CASE m.term > currentTerm[m.to] /\ BecomeFollower(m.to, m.term)
      BY <1>12, <1>f, <1>m, <2>2 DEF AppendEntries
    <2> QED
      BY <1>12, <2>1, <2>2 DEF AppendEntries
  <1>13. ASSUME NEW m \in msgs, RefuseAppend(m) PROVE Monotone
    BY <1>13, <1>u DEF RefuseAppend, role
  <1>14. ASSUME NEW m \in msgs, AppendSucceeded(m) PROVE Monotone
    BY <1>14, <1>u DEF AppendSucceeded, role
  <1>15. ASSUME NEW m \in msgs, AppendRejected(m) PROVE Monotone
    BY <1>15, <1>u DEF AppendRejected, role
  <1>16. CASE UNCHANGED vars
    BY <1>16, <1>u DEF vars
  <1> QED
    BY <1>1, <1>2, <1>3, <1>4, <1>5, <1>6, <1>7, <1>8, <1>9, <1>10, <1>11,
       <1>12, <1>13, <1>14, <1>15, <1>16 DEF Next, Receive

\* The entries of a node's log.
LEMMA LogTypes ==
    ASSUME TypeInv, NEW n \in Node
    PROVE  /\ log[n] \in Seq(EntryType) /\ Len(log[n]) \in Nat
           /\ \A i \in 1..Len(log[n]) :
                 log[n][i] \in EntryType /\ log[n][i].term \in Nat
           /\ currentTerm[n] \in Nat
  <1>1. log[n] \in Seq(EntryType) /\ currentTerm[n] \in Nat
    BY DEF TypeInv, TypeOK
  <1>2. \A i \in 1..Len(log[n]) : log[n][i] \in EntryType
    BY <1>1, ElementOfSeq
  <1>3. Len(log[n]) \in Nat
    BY <1>1, LenProperties
  <1> QED
    BY <1>1, <1>2, <1>3 DEF EntryType

\* Whoever owns a term's log goes on owning it.
LEMMA TermOwnerStep ==
    ASSUME TypeInv, TypeInv', Monotone, NEW h, TermOwner(h)
    PROVE  TermOwner(h)'
  <1> SUFFICES ASSUME NEW t \in Nat, h[t] # << >>
               PROVE  \E n \in Node : /\ Elected(n, t)' /\ t <= currentTerm'[n]
                                      /\ currentTerm'[n] = t => state'[n] = "Leader"
    BY DEF TermOwner
  <1>1. PICK n \in Node : /\ Elected(n, t) /\ t <= currentTerm[n]
                          /\ currentTerm[n] = t => state[n] = "Leader"
    BY DEF TermOwner
  <1>2. Elected(n, t)'
    <2>1. PICK Q \in SUBSET Node :
            Cardinality(Q) >= Quorum /\ \A v \in Q : Ballot(v, t, n) \in ballots
      BY <1>1 DEF Elected
    <2>2. \A v \in Q : Ballot(v, t, n) \in ballots'
      BY <2>1 DEF Monotone
    <2> QED
      BY <2>1, <2>2 DEF Elected, Quorum, Ballot
  <1>3. currentTerm[n] \in Nat /\ currentTerm'[n] \in Nat /\ currentTerm[n] <= currentTerm'[n]
    BY DEF TypeInv, TypeOK, Monotone
  <1>4. currentTerm'[n] = t => state'[n] = "Leader"
    BY <1>1, <1>3 DEF Monotone
  <1> QED
    BY <1>1, <1>2, <1>3, <1>4

(***************************************************************************)
(* A step that leaves the logs alone and makes no leader keeps the         *)
(* invariant, if what it sends is true and it points at no entry beyond a  *)
(* leader's log.                                                           *)
(***************************************************************************)
LEMMA LogQuiet ==
    ASSUME TypeInv, TypeInv', Monotone, NEW h, LogInv(h), UNCHANGED log,
           \A n \in Node : state'[n] = "Leader" =>
              state[n] = "Leader" /\ \A p \in Node : nextIndex'[n][p] <= Len(log[n]) + 1,
           \A m \in msgs' : m \in msgs \/ MessageTrue(m, h)
    PROVE  LogInv(h)'
  <1>1. h \in LeaderLogs /\ TermLogs(h)
    BY DEF LogInv
  <1>2. NodeLogs(h)'
    <2>0. \A n \in Node : Grounded(log[n], h)
      BY DEF LogInv, NodeLogs
    <2> SUFFICES ASSUME NEW n \in Node, NEW i \in 1..Len(log[n])
                 PROVE  log[n][i].term <= currentTerm'[n]
      BY <2>0 DEF NodeLogs
    <2>1. log[n][i].term <= currentTerm[n]
      BY DEF LogInv, NodeLogs
    <2>2. log[n][i].term \in Nat
      BY LogTypes
    <2>3. currentTerm[n] \in Nat /\ currentTerm'[n] \in Nat /\ currentTerm[n] <= currentTerm'[n]
      BY DEF TypeInv, TypeOK, Monotone
    <2> QED
      BY <2>1, <2>2, <2>3
  <1>3. TermOwner(h)'
    BY TermOwnerStep DEF LogInv
  <1>4. LeaderLog(h)'
    <2> SUFFICES ASSUME NEW n \in Node, state'[n] = "Leader"
                 PROVE  /\ h[currentTerm'[n]] = log[n] /\ log[n] # << >>
                        /\ \A p \in Node : nextIndex'[n][p] <= Len(log[n]) + 1
      BY DEF LeaderLog
    <2>1. state[n] = "Leader" /\ currentTerm'[n] = currentTerm[n]
      BY DEF Monotone
    <2> QED
      BY <2>1 DEF LogInv, LeaderLog
  <1>5. MessagesTrue(h)'
    BY DEF LogInv, MessagesTrue, MessageTrue
  <1> QED
    BY <1>1, <1>2, <1>3, <1>4, <1>5 DEF LogInv

\* A grounded log stays so with an entry that is now the last of its term.
LEMMA GroundedAppend ==
    ASSUME NEW g, NEW l \in Seq(EntryType), Grounded(l, g),
           NEW e \in EntryType, g[e.term] = Append(l, e)
    PROVE  Grounded(Append(l, e), g)
  <1> DEFINE w == Append(l, e)
  <1>1. /\ w \in Seq(EntryType) /\ Len(w) = Len(l) + 1 /\ Len(l) \in Nat
        /\ w[Len(l) + 1] = e /\ SamePrefix(l, w, Len(l))
    BY AppendKeeps
  <1>2. g[e.term] = w
    OBVIOUS
  <1> HIDE DEF w
  <1>3. ASSUME NEW i \in 1..Len(w) PROVE SamePrefix(w, g[w[i].term], i)
    <2>1. CASE i = Len(l) + 1
      <3>1. SamePrefix(w, w, Len(w))
        BY <1>1, SamePrefixSelf
      <3> QED
        BY <1>1, <1>2, <2>1, <3>1
    <2>2. CASE i # Len(l) + 1
      <3>1. i \in 1..Len(l) /\ i \in Nat /\ i <= Len(l)
        BY <1>1, <2>2
      <3>2. SamePrefix(l, w, i)
        BY <1>1, <3>1, SamePrefixLess
      <3>3. w[i] = l[i]
        BY <1>1, <3>1 DEF SamePrefix
      <3>4. SamePrefix(l, g[l[i].term], i)
        BY <3>1 DEF Grounded
      <3> QED
        BY <3>2, <3>3, <3>4, SamePrefixSym, SamePrefixTrans
    <2> QED
      BY <2>1, <2>2
  <1> QED
    BY <1>3 DEF Grounded, w

\* The record h after leader n of the current state has appended an entry e.
Extended(h, n, e) == [h EXCEPT ![currentTerm[n]] = Append(log[n], e)]

(***************************************************************************)
(* The steps that append: a leader, or the candidate that becomes one,     *)
(* appends an entry e of its term to its log.                              *)
(***************************************************************************)
Appends(n, e, h) ==
    /\ e.index = Len(log[n]) + 1 /\ e.term = currentTerm[n]
    /\ log' = [log EXCEPT ![n] = Append(log[n], e)]
    /\ UNCHANGED << currentTerm, commitIndex, ballots >> /\ state'[n] = "Leader"
    /\ \/ /\ state[n] = "Leader" /\ h[currentTerm[n]] = log[n]
          /\ matchIndex'[n] = matchIndex[n]
       \/ /\ state[n] = "Candidate" /\ h[currentTerm[n]] = << >>
          /\ matchIndex'[n] = [p \in Node |-> 0]
    /\ \A p \in Node : nextIndex'[n][p] <= Len(log[n]) + 2
    /\ \A q \in Node \ {n} : /\ state'[q] = state[q] /\ nextIndex'[q] = nextIndex[q]
                              /\ matchIndex'[q] = matchIndex[q]
    /\ msgs' \subseteq msgs

\* The record grows with them.
LEMMA LogExtend ==
    ASSUME ElectionInv, ElectionInv', Monotone, NEW h, LogInv(h),
           NEW n \in Node, NEW e \in EntryType, Appends(n, e, h),
           NEW g, g = Extended(h, n, e)
    PROVE  LogInv(g)' /\ Grows(h, g)
  <1> SUFFICES ASSUME e.index = Len(log[n]) + 1, e.term = currentTerm[n],
                      log' = [log EXCEPT ![n] = Append(log[n], e)],
                      UNCHANGED currentTerm, state'[n] = "Leader",
                      h[currentTerm[n]] \in {<< >>, log[n]},
                      \A p \in Node : nextIndex'[n][p] <= Len(log[n]) + 2,
                      \A q \in Node \ {n} :
                         state'[q] = state[q] /\ nextIndex'[q] = nextIndex[q],
                      msgs' \subseteq msgs
               PROVE  LogInv(g)' /\ Grows(h, g)
    BY DEF Appends
  <1> DEFINE T == currentTerm[n]
             w == Append(log[n], e)
  <1>1. TypeInv /\ TypeInv' /\ ElectionSafety'
    <2>1. ElectionInv' => ElectionSafety'
      BY ElectionInvSafe, PTL
    <2> QED
      BY <2>1 DEF ElectionInv
  <1>2. /\ log[n] \in Seq(EntryType) /\ Len(log[n]) \in Nat /\ T \in Nat
        /\ h \in LeaderLogs /\ TermLogs(h)
    BY <1>1, LogTypes DEF LogInv
  <1>3. /\ w \in Seq(EntryType) /\ w # << >> /\ Len(w) = Len(log[n]) + 1
        /\ w[Len(log[n]) + 1] = e /\ SamePrefix(log[n], w, Len(log[n]))
    BY <1>2, AppendKeeps
  <1>4. /\ g \in LeaderLogs /\ g[T] = w /\ g[e.term] = w
        /\ \A t \in Nat \ {T} : g[t] = h[t]
    BY <1>2, <1>3 DEF LeaderLogs, Extended
  <1>5. log'[n] = w /\ \A q \in Node \ {n} : log'[q] = log[q]
    BY <1>1 DEF TypeInv, TypeOK
  <1> HIDE DEF w, T
  <1>6. Grows(h, g)
    <2> SUFFICES ASSUME NEW t \in Nat PROVE SamePrefix(h[t], g[t], Len(h[t]))
      BY <1>4 DEF Grows
    <2>1. h[t] \in Seq(EntryType)
      BY <1>2 DEF LeaderLogs
    <2>2. CASE t # T
      BY <1>4, <2>1, <2>2, SamePrefixSelf
    <2>3. CASE t = T /\ h[t] = << >>
      <3>1. Len(h[t]) = 0
        BY <2>3
      <3>2. g[t] \in Seq(EntryType)
        BY <1>3, <1>4, <2>3
      <3>3. SamePrefix(h[t], g[t], 0)
        BY <2>1, <3>2, SamePrefixSelf
      <3> QED
        BY <3>1, <3>3
    <2>4. CASE t = T /\ h[t] = log[n]
      BY <1>3, <1>4, <2>4
    <2> QED
      BY <2>2, <2>3, <2>4 DEF T
  <1>7. \A l \in Seq(EntryType) : Grounded(l, h) => Grounded(l, g)
    BY <1>2, <1>6, GroundedGrows
  <1>8. Grounded(w, g)
    <2>1. Grounded(log[n], g)
      BY <1>2, <1>7 DEF LogInv, NodeLogs
    <2> QED
      BY <1>2, <1>4, <2>1, GroundedAppend DEF w
  <1>9. ASSUME NEW i \in 1..Len(w)
        PROVE  /\ w[i].index = i /\ w[i].term <= T
               /\ \A j \in 1..i : w[j].term <= w[i].term
    <2>1. \A j \in 1..Len(log[n]) :
            w[j] = log[n][j] /\ w[j].term \in Nat /\ w[j].term <= T
      <3>1. \A j \in 1..Len(log[n]) : log[n][j].term \in Nat /\ log[n][j].term <= T
        BY <1>1, LogTypes DEF LogInv, NodeLogs, T
      <3>2. \A j \in 1..Len(log[n]) : w[j] = log[n][j]
        BY <1>3 DEF SamePrefix
      <3> QED
        BY <3>1, <3>2
    <2>2. CASE i \in 1..Len(log[n])
      <3>1. Grounded(log[n], h)
        BY DEF LogInv, NodeLogs
      <3>2. log[n][i].index = i /\ \A j \in 1..i : log[n][j].term <= log[n][i].term
        BY <1>2, <2>2, <3>1, GroundedOrdered
      <3>3. \A j \in 1..i : j \in 1..Len(log[n])
        BY <1>2, <2>2
      <3> QED
        BY <2>1, <2>2, <3>2, <3>3
    <2>3. CASE i = Len(log[n]) + 1
      <3>1. w[i] = e /\ w[i].term = T /\ w[i].index = i
        BY <1>3, <2>3 DEF T
      <3>2. \A j \in 1..i : j \in 1..Len(log[n]) \/ j = i
        BY <1>2, <2>3
      <3> QED
        BY <1>2, <2>1, <3>1, <3>2
    <2> QED
      BY <1>2, <1>3, <2>2, <2>3
  <1>10. TermLogs(g)
    <2> SUFFICES ASSUME NEW t \in Nat
                 PROVE  /\ Grounded(g[t], g)
                        /\ \A i \in 1..Len(g[t]) :
                              /\ g[t][i].index = i /\ g[t][i].term <= t
                              /\ \A j \in 1..i : g[t][j].term <= g[t][i].term
      BY DEF TermLogs
    <2>1. CASE t = T
      BY <1>4, <1>8, <1>9, <2>1
    <2>2. CASE t # T
      <3>1. g[t] = h[t] /\ h[t] \in Seq(EntryType) /\ Grounded(h[t], h)
        BY <1>2, <1>4, <2>2 DEF LeaderLogs, TermLogs
      <3>2. Grounded(g[t], g)
        BY <1>7, <3>1
      <3> QED
        BY <1>2, <3>1, <3>2 DEF TermLogs
    <2> QED
      BY <2>1, <2>2
  <1>11. NodeLogs(g)'
    <2> SUFFICES ASSUME NEW q \in Node
                 PROVE  /\ Grounded(log'[q], g)
                        /\ \A i \in 1..Len(log'[q]) : log'[q][i].term <= currentTerm[q]
      BY DEF NodeLogs
    <2>1. CASE q = n
      BY <1>5, <1>8, <1>9, <2>1 DEF T
    <2>2. CASE q # n
      BY <1>1, <1>5, <1>7, <2>2, LogTypes DEF LogInv, NodeLogs
    <2> QED
      BY <2>1, <2>2
  <1>12. TermOwner(g)'
    <2>1. TermOwner(h)'
      BY <1>1, TermOwnerStep DEF LogInv
    <2> SUFFICES ASSUME NEW t \in Nat, g[t] # << >>
                 PROVE  \E q \in Node : /\ Elected(q, t)' /\ t <= currentTerm'[q]
                                        /\ currentTerm'[q] = t => state'[q] = "Leader"
      BY DEF TermOwner
    <2>2. CASE t # T
      BY <1>4, <2>1, <2>2 DEF TermOwner
    <2>3. CASE t = T
      <3>1. currentTerm'[n] = t
        BY <2>3 DEF T
      <3>2. Elected(n, t)'
        <4>1. /\ votes'[n] \in SUBSET Node /\ Cardinality(votes'[n]) >= Quorum
              /\ \A v \in votes'[n] : Ballot(v, currentTerm'[n], n) \in ballots'
          BY <1>1 DEF ElectionInv, LeaderElected, CountedCast, TypeInv, TypeOK, Quorum, Ballot
        <4> QED
          BY <3>1, <4>1 DEF Elected, Quorum, Ballot
      <3>3. t <= currentTerm'[n] /\ state'[n] = "Leader"
        BY <1>2, <2>3, <3>1
      <3> QED
        BY <3>2, <3>3
    <2> QED
      BY <2>2, <2>3
  <1>13. LeaderLog(g)'
    <2> SUFFICES ASSUME NEW q \in Node, state'[q] = "Leader"
                 PROVE  /\ g[currentTerm[q]] = log'[q] /\ log'[q] # << >>
                        /\ \A p \in Node : nextIndex'[q][p] <= Len(log'[q]) + 1
      BY DEF LeaderLog
    <2>1. CASE q = n
      <3>1. Len(log'[q]) + 1 = Len(log[n]) + 2
        BY <1>2, <1>3, <1>5, <2>1
      <3> QED
        BY <1>3, <1>4, <1>5, <2>1, <3>1 DEF T
    <2>2. CASE q # n
      <3>1. currentTerm[q] # T /\ currentTerm[q] \in Nat
        BY <1>1, <2>2, LogTypes DEF ElectionSafety, T
      <3> QED
        BY <1>4, <1>5, <2>2, <3>1 DEF LogInv, LeaderLog
    <2> QED
      BY <2>1, <2>2
  <1>14. MessagesTrue(g)'
    <2> SUFFICES ASSUME NEW m \in msgs PROVE MessageTrue(m, g)
      BY DEF MessagesTrue, MessageTrue
    <2>1. m \in Message /\ MessageTrue(m, h)
      BY <1>1 DEF TypeInv, TypeOK, LogInv, MessagesTrue
    <2> QED
      BY <1>2, <1>6, <2>1, MessageGrows
  <1> QED
    BY <1>4, <1>6, <1>10, <1>11, <1>12, <1>13, <1>14 DEF LogInv

\* A piece of a grounded log is grounded.
LEMMA GroundedPiece ==
    ASSUME NEW h \in LeaderLogs, NEW l \in Seq(EntryType), Grounded(l, h),
           NEW w \in Seq(EntryType), SamePrefix(w, l, Len(w))
    PROVE  Grounded(w, h)
  <1> SUFFICES ASSUME NEW i \in 1..Len(w) PROVE SamePrefix(w, h[w[i].term], i)
    BY DEF Grounded
  <1>1. Len(w) \in Nat /\ Len(l) \in Nat
    BY LenProperties
  <1>2. i \in 1..Len(l) /\ w[i] = l[i] /\ i \in Nat /\ i <= Len(w)
    BY <1>1 DEF SamePrefix
  <1>3. SamePrefix(w, l, i)
    BY <1>1, <1>2, SamePrefixLess
  <1>4. SamePrefix(l, h[l[i].term], i)
    BY <1>2 DEF Grounded
  <1> QED
    BY <1>2, <1>3, <1>4, SamePrefixTrans

\* Two logs of one length that agree all along are one.
LEMMA SamePrefixEqual ==
    ASSUME NEW S, NEW l \in Seq(S), NEW w \in Seq(S), Len(l) = Len(w),
           SamePrefix(l, w, Len(l))
    PROVE  l = w
  BY SeqEqual DEF SamePrefix

(***************************************************************************)
(* What a successful AppendEntries does to the log of the receiver n: it   *)
(* stays grounded and within the call's term and, if n leads that term,    *)
(* does not change.                                                        *)
(***************************************************************************)
LEMMA MergeStep ==
    ASSUME TypeInv, NEW h, LogInv(h), NEW m \in msgs, AppendEntries(m),
           Consistent(log[m.to], m)
    PROVE  LET n == m.to
               k == m.prevLogIndex + Len(m.entries)
           IN  /\ n \in Node /\ m \in AppendCallType /\ k \in Nat
               /\ 1 <= k /\ k <= Len(h[m.term])
               /\ \A q \in Node \ {n} : log'[q] = log[q]
               /\ log'[n] \in Seq(EntryType) /\ Grounded(log'[n], h)
               /\ SamePrefix(log'[n], h[m.term], k)
               /\ \A j \in Nat : SamePrefix(log[n], h[m.term], j)
                                    => SamePrefix(log'[n], h[m.term], j)
               /\ \A i \in 1..Len(log'[n]) : log'[n][i].term <= m.term
               /\ state[n] = "Leader" /\ currentTerm[n] = m.term => log'[n] = log[n]
  <1> DEFINE n == m.to
             k == m.prevLogIndex + Len(m.entries)
             L == h[m.term]
  <1>1. m \in Message /\ n \in Node /\ m \in AppendCallType /\ m.term >= currentTerm[n]
    BY MessageKinds DEF TypeInv, TypeOK, AppendEntries
  <1>2. h \in LeaderLogs /\ TermLogs(h) /\ MessageTrue(m, h) /\ Grounded(log[n], h)
    BY <1>1 DEF LogInv, MessagesTrue, NodeLogs
  <1>3. log[n] \in Seq(EntryType) /\ Len(log[n]) \in Nat /\ currentTerm[n] \in Nat
    BY <1>1, LogTypes
  <1>4. /\ log' = [log EXCEPT ![n] = Merge(log[n], m.prevLogIndex, m.entries)]
        /\ log'[n] = Merge(log[n], m.prevLogIndex, m.entries)
    BY <1>1 DEF AppendEntries, TypeInv, TypeOK
  <1>5. /\ log'[n] \in Seq(EntryType)
        /\ SamePrefix(log'[n], L, k)
        /\ log'[n] = log[n] \/ Len(log'[n]) = k
        /\ \A j \in Nat : SamePrefix(log[n], L, j) => SamePrefix(log'[n], L, j)
    BY <1>1, <1>2, <1>3, <1>4, MergeAgrees
  <1>6. k \in Nat /\ 1 <= k /\ k <= Len(L) /\ m.term \in Nat
    BY <1>1, <1>2, LenProperties DEF AppendCallType, MessageTrue
  <1>7. \A q \in Node \ {n} : log'[q] = log[q]
    BY <1>4 DEF TypeInv, TypeOK
  <1>8. L \in Seq(EntryType) /\ Grounded(L, h) /\ \A i \in 1..Len(L) : L[i].term <= m.term
    BY <1>2, <1>6 DEF LeaderLogs, TermLogs
  <1>9. Len(L) \in Nat
    BY <1>8, LenProperties
  <1> HIDE DEF n, k, L
  <1>10. Grounded(log'[n], h) /\ \A i \in 1..Len(log'[n]) : log'[n][i].term <= m.term
    <2>1. CASE log'[n] = log[n]
      <3>1. \A i \in 1..Len(log[n]) : log[n][i].term <= currentTerm[n] /\ log[n][i].term \in Nat
        BY <1>1, LogTypes DEF LogInv, NodeLogs
      <3> QED
        BY <1>1, <1>2, <1>3, <1>6, <2>1, <3>1
    <2>2. CASE Len(log'[n]) = k
      <3>1. Grounded(log'[n], h)
        BY <1>2, <1>5, <1>8, <2>2, GroundedPiece
      <3>2. \A i \in 1..Len(log'[n]) : i \in 1..Len(L) /\ log'[n][i] = L[i]
        BY <1>5, <1>6, <1>9, <2>2 DEF SamePrefix
      <3> QED
        BY <1>8, <3>1, <3>2
    <2> QED
      BY <1>5, <2>1, <2>2
  <1>11. ASSUME state[n] = "Leader", currentTerm[n] = m.term PROVE log'[n] = log[n]
    <2>1. L = log[n]
      BY <1>1, <1>11 DEF LogInv, LeaderLog, L
    <2>2. SamePrefix(log'[n], L, Len(L))
      BY <1>5, <1>8, <1>9, <2>1, SamePrefixSelf
    <2>3. Len(L) <= Len(log'[n])
      BY <2>2 DEF SamePrefix
    <2>4. CASE Len(log'[n]) = k
      <3>1. Len(log'[n]) = Len(L)
        BY <1>6, <1>9, <2>3, <2>4
      <3> QED
        BY <1>5, <1>8, <2>1, <2>2, <3>1, SamePrefixEqual
    <2> QED
      BY <1>5, <2>4
  <1> QED
    BY <1>1, <1>5, <1>6, <1>7, <1>10, <1>11 DEF n, k, L

\* What is sent to a peer that is known to be at index k - 1.
LEMMA EntriesFrom ==
    ASSUME NEW S, NEW l \in Seq(S), NEW k \in 1 .. Len(l) + 1
    PROVE  /\ Len(Entries(l, k, Len(l) + 1)) = Len(l) + 1 - k
           /\ \A i \in 1 .. Len(l) + 1 - k : Entries(l, k, Len(l) + 1)[i] = l[(k - 1) + i]
  <1>1. Len(l) \in Nat /\ k \in Nat /\ k >= 1
    BY LenProperties
  <1>2. CASE k = Len(l) + 1
    <2>1. Entries(l, k, Len(l) + 1) = << >>
      <3>1. k >= Len(l) + 1 /\ ~(k <= 0) /\ ~(Len(l) + 1 > Len(l) + 1)
        BY <1>1, <1>2
      <3> QED
        BY <3>1 DEF Entries
    <2> QED
      BY <1>1, <1>2, <2>1
  <1>3. CASE k # Len(l) + 1
    <2>1. k <= Len(l)
      BY <1>1, <1>3
    <2>2. Entries(l, k, Len(l) + 1) = SubSeq(l, k, Len(l))
      <3>1. (Len(l) + 1) - 1 = Len(l) /\ ~(k <= 0) /\ ~(Len(l) + 1 > Len(l) + 1)
            /\ ~(k >= Len(l) + 1)
        BY <1>1, <2>1
      <3> QED
        BY <3>1 DEF Entries
    <2>3. \A i \in k..Len(l) : l[i] \in S
      BY <1>1, ElementOfSeq
    <2>4. /\ Len(SubSeq(l, k, Len(l))) = Len(l) - k + 1
          /\ \A i \in 1 .. Len(l) - k + 1 : SubSeq(l, k, Len(l))[i] = l[k + i - 1]
      BY <1>1, <2>1, <2>3, SubSeqProperties
    <2>5. Len(l) - k + 1 = Len(l) + 1 - k /\ \A i \in Nat : k + i - 1 = (k - 1) + i
      BY <1>1
    <2>6. \A i \in 1 .. Len(l) + 1 - k : i \in Nat
      BY <1>1
    <2> QED
      BY <2>2, <2>4, <2>5, <2>6
  <1> QED
    BY <1>2, <1>3

\* What a leader sends is a piece of its log.
LEMMA SendTrue ==
    ASSUME TypeInv, NEW h, LogInv(h), NEW n \in Node, NEW p \in Node,
           SendAppendEntries(n, p), NEW m \in msgs'
    PROVE  \/ m \in msgs
           \/ /\ MessageTrue(m, h) /\ m.type = "AppendEntries" /\ m.from = n
              /\ m.term = currentTerm[n] /\ m.leaderCommit = commitIndex[n]
              /\ m.prevLogIndex + Len(m.entries) = Len(log[n])
  <1> SUFFICES ASSUME m \notin msgs
               PROVE  /\ MessageTrue(m, h) /\ m.type = "AppendEntries" /\ m.from = n
                      /\ m.term = currentTerm[n] /\ m.leaderCommit = commitIndex[n]
                      /\ m.prevLogIndex + Len(m.entries) = Len(log[n])
    OBVIOUS
  <1> DEFINE k == nextIndex[n][p]
             l == log[n]
  <1>1. /\ l \in Seq(EntryType) /\ Len(l) \in Nat
        /\ k \in 1 .. Len(l) + 1 /\ l # << >> /\ h[currentTerm[n]] = l
    <2>1. /\ state[n] = "Leader" /\ nextIndex[n][p] \in Nat /\ nextIndex[n][p] >= 1
          /\ nextIndex[n][p] <= Len(l) + 1 /\ l # << >> /\ h[currentTerm[n]] = l
      BY DEF SendAppendEntries, TypeInv, TypeOK, LogInv, LeaderLog
    <2> QED
      BY <2>1, LogTypes
  <1>2. m = AppendCall(n, p, currentTerm[n], k - 1, TermAt(l, k - 1),
                       Entries(l, k, Len(l) + 1), commitIndex[n])
    BY DEF SendAppendEntries, LastIndex
  <1>3. /\ m.type = "AppendEntries" /\ m.from = n /\ m.term = currentTerm[n]
        /\ m.prevLogIndex = k - 1 /\ m.prevLogTerm = TermAt(l, k - 1)
        /\ m.entries = Entries(l, k, Len(l) + 1) /\ m.leaderCommit = commitIndex[n]
    BY <1>2 DEF AppendCall
  <1> HIDE DEF k, l
  <1>4. /\ Len(m.entries) = Len(l) + 1 - k
        /\ \A i \in 1 .. Len(l) + 1 - k : m.entries[i] = l[(k - 1) + i]
    <2>1. /\ Len(Entries(l, k, Len(l) + 1)) = Len(l) + 1 - k
          /\ \A i \in 1 .. Len(l) + 1 - k : Entries(l, k, Len(l) + 1)[i] = l[(k - 1) + i]
      BY <1>1, EntriesFrom
    <2> QED
      BY <1>3, <2>1
  <1>5. Len(l) >= 1
    <2>1. Len(l) # 0
      BY <1>1, EmptySeq
    <2> QED
      BY <1>1, <2>1
  <1>6. m.prevLogIndex + Len(m.entries) = Len(l)
    BY <1>1, <1>3, <1>4
  <1>7. m.prevLogIndex > 0 => m.prevLogTerm = l[m.prevLogIndex].term
    BY <1>1, <1>3 DEF TermAt, Has
  <1>8. MessageTrue(m, h)
    <2>1. h[m.term] = l
      BY <1>1, <1>3
    <2>2. \A i \in 1..Len(m.entries) : m.entries[i] = l[m.prevLogIndex + i]
      BY <1>3, <1>4
    <2> QED
      BY <1>1, <1>3, <1>5, <1>6, <1>7, <2>1, <2>2 DEF MessageTrue
  <1> QED
    BY <1>3, <1>6, <1>8 DEF l

\* A majority elects one node per term.
LEMMA ElectedOnce ==
    ASSUME ElectionInv, NEW n \in Node, NEW p \in Node, NEW t \in Nat,
           Elected(n, t), Elected(p, t)
    PROVE  n = p
  <1>1. PICK Q \in SUBSET Node :
          Cardinality(Q) >= Quorum /\ \A v \in Q : Ballot(v, t, n) \in ballots
    BY DEF Elected
  <1>2. PICK R \in SUBSET Node :
          Cardinality(R) >= Quorum /\ \A v \in R : Ballot(v, t, p) \in ballots
    BY DEF Elected
  <1>3. PICK v \in Node : v \in Q /\ v \in R
    BY <1>1, <1>2, QuorumsMeet
  <1> QED
    BY <1>1, <1>2, <1>3 DEF ElectionInv, VoteOncePerTerm, Ballot

\* Start appends the command.
LEMMA StartAppends ==
    ASSUME TypeInv, NEW h, LogInv(h), NEW n \in Node, NEW c \in Command, Start(n, c)
    PROVE  \E e \in EntryType : Appends(n, e, h)
  <1> DEFINE e == Entry(Len(log[n]) + 1, currentTerm[n], c)
  <1>1. /\ state[n] = "Leader"
        /\ log' = [log EXCEPT ![n] = Append(log[n], e)]
        /\ UNCHANGED << currentTerm, state, commitIndex, nextIndex, matchIndex, msgs, ballots >>
    BY DEF Start, LastIndex, role, leader
  <1>2. /\ Len(log[n]) \in Nat /\ currentTerm[n] \in Nat /\ currentTerm[n] >= 1
        /\ nextIndex \in [Node -> [Node -> Nat]]
    BY <1>1, LogTypes DEF TypeInv, StandsInTerm, TypeOK
  <1>3. e \in EntryType /\ e.index = Len(log[n]) + 1 /\ e.term = currentTerm[n]
    BY <1>2 DEF Entry, EntryType
  <1> HIDE DEF e
  <1>4. h[currentTerm[n]] = log[n] /\ \A p \in Node : nextIndex'[n][p] <= Len(log[n]) + 2
    BY <1>1, <1>2 DEF LogInv, LeaderLog
  <1>5. Appends(n, e, h)
    BY <1>1, <1>3, <1>4 DEF Appends
  <1> QED
    BY <1>3, <1>5

\* becomeLeader appends a no-op, and nobody led the term before.
LEMMA WinAppends ==
    ASSUME ElectionInv, NEW h, LogInv(h), NEW m \in msgs, CountVote(m),
           Cardinality(votes[m.to] \cup {m.from}) >= Quorum
    PROVE  m.to \in Node /\ \E e \in EntryType : Appends(m.to, e, h)
  <1> DEFINE n == m.to
             T == currentTerm[n]
             e == Entry(Len(log[n]) + 1, T, "noop")
             granted == votes[n] \cup {m.from}
  <1>1. TypeInv /\ n \in Node /\ m.from \in Node
    BY MessageKinds DEF ElectionInv, TypeInv, TypeOK
  <1>2. /\ state[n] = "Candidate" /\ state' = [state EXCEPT ![n] = "Leader"]
        /\ log' = [log EXCEPT ![n] = Append(log[n], e)]
        /\ nextIndex' = [nextIndex EXCEPT ![n] = [p \in Node |-> Len(log[n]) + 1]]
        /\ matchIndex' = [matchIndex EXCEPT ![n] = [p \in Node |-> 0]]
        /\ UNCHANGED << currentTerm, commitIndex, ballots >>
    BY DEF CountVote, Current, BecomeLeader, LastIndex
  <1>3. msgs' \subseteq msgs
    BY DEF CountVote, Done
  <1>4. /\ Len(log[n]) \in Nat /\ T \in Nat /\ T >= 1
        /\ state \in [Node -> {"Follower", "Candidate", "Leader"}]
        /\ nextIndex \in [Node -> [Node -> Nat]]
        /\ matchIndex \in [Node -> [Node -> Nat]]
    BY <1>1, <1>2, LogTypes DEF TypeInv, StandsInTerm, TypeOK
  <1>5. e \in EntryType /\ e.index = Len(log[n]) + 1 /\ e.term = T
    BY <1>4 DEF Entry, EntryType
  <1>6. h[T] = << >>
    <2> SUFFICES ASSUME h[T] # << >> PROVE FALSE
      OBVIOUS
    <2>1. PICK p \in Node : Elected(p, T) /\ (currentTerm[p] = T => state[p] = "Leader")
      BY <1>4 DEF LogInv, TermOwner
    <2>2. Elected(n, T)
      <3>1. granted \in SUBSET Node /\ Cardinality(granted) >= Quorum
        BY <1>1 DEF TypeInv, TypeOK
      <3>2. \A v \in votes[n] : Ballot(v, T, n) \in ballots
        BY <1>1, <1>2 DEF ElectionInv, CountedCast
      <3>3. Ballot(m.from, T, n) \in ballots
        BY DEF CountVote, Current, ElectionInv, GrantsCast, IsGrant
      <3> QED
        BY <3>1, <3>2, <3>3 DEF Elected
    <2>3. p = n
      BY <1>1, <1>4, <2>1, <2>2, ElectedOnce
    <2> QED
      BY <1>2, <2>1, <2>3
  <1> HIDE DEF e, n
  <1>7. /\ state'[n] = "Leader" /\ matchIndex'[n] = [p \in Node |-> 0]
        /\ \A p \in Node : nextIndex'[n][p] <= Len(log[n]) + 2
        /\ \A q \in Node \ {n} : /\ state'[q] = state[q] /\ nextIndex'[q] = nextIndex[q]
                                 /\ matchIndex'[q] = matchIndex[q]
    BY <1>1, <1>2, <1>4
  <1>8. Appends(n, e, h)
    BY <1>2, <1>3, <1>5, <1>6, <1>7 DEF Appends
  <1> QED
    BY <1>1, <1>5, <1>8 DEF n

\* The invariant holds initially, of the record in which nobody led yet.
LEMMA InitLogInv == Init => LogInv([t \in Nat |-> << >>])
  <1> SUFFICES ASSUME Init PROVE LogInv([t \in Nat |-> << >>])
    OBVIOUS
  <1> DEFINE h == [t \in Nat |-> << >>]
  <1>1. << >> \in Seq(EntryType) /\ Len(<< >>) = 0
    BY EmptySeq
  <1>2. h \in LeaderLogs /\ \A t \in Nat : h[t] = << >>
    BY <1>1 DEF LeaderLogs
  <1>3. \A n \in Node : log[n] = << >> /\ state[n] = "Follower"
    BY DEF Init, NewLog
  <1>4. msgs = {}
    BY DEF Init
  <1> HIDE DEF h
  <1>5. \A l : l = << >> => Grounded(l, h) /\ 1..Len(l) = {}
    BY <1>1 DEF Grounded
  <1>6. TermLogs(h) /\ NodeLogs(h)
    BY <1>2, <1>3, <1>5 DEF TermLogs, NodeLogs
  <1>7. TermOwner(h) /\ LeaderLog(h) /\ MessagesTrue(h)
    BY <1>2, <1>3, <1>4 DEF TermOwner, LeaderLog, MessagesTrue
  <1>8. LogInv(h)
    BY <1>2, <1>6, <1>7 DEF LogInv
  <1> QED
    BY <1>8 DEF h

\* A step that is not quiet and appends nothing: AppendEntries with a
\* consistent log merges the call into it.
LEMMA LogMerge ==
    ASSUME TypeInv, TypeInv', Monotone, NEW h, LogInv(h), NEW m \in msgs,
           AppendEntries(m), Consistent(log[m.to], m)
    PROVE  LogInv(h)'
  <1> DEFINE n == m.to
             k == m.prevLogIndex + Len(m.entries)
  <1>1. /\ n \in Node /\ m \in AppendCallType /\ k \in Nat /\ k <= Len(h[m.term])
        /\ \A q \in Node \ {n} : log'[q] = log[q]
        /\ log'[n] \in Seq(EntryType) /\ Grounded(log'[n], h)
        /\ \A i \in 1..Len(log'[n]) : log'[n][i].term <= m.term
        /\ state[n] = "Leader" /\ currentTerm[n] = m.term => log'[n] = log[n]
    BY MergeStep
  <1>2. h \in LeaderLogs /\ TermLogs(h) /\ TermOwner(h)'
    BY TermOwnerStep DEF LogInv
  <1>3. currentTerm'[n] = m.term /\ UNCHANGED nextIndex
    BY <1>1 DEF AppendEntries, BecomeFollower, leader, TypeInv, TypeOK, AppendCallType
  <1>4. /\ \A q \in Node : currentTerm[q] \in Nat /\ currentTerm'[q] \in Nat
        /\ \A q \in Node : currentTerm[q] <= currentTerm'[q]
    BY DEF TypeInv, TypeOK, Monotone
  <1>5. \A q \in Node : state'[q] = "Leader" =>
            state[q] = "Leader" /\ currentTerm'[q] = currentTerm[q]
    <2>1. \A q \in Node : state'[q] = "Leader" => currentTerm'[q] = currentTerm[q]
      BY DEF Monotone
    <2>2. state' = [state EXCEPT ![n] = "Follower"] \/ UNCHANGED state
      BY DEF AppendEntries, BecomeFollower
    <2>3. \A q \in Node : state'[q] = "Leader" => state[q] = "Leader"
      BY <2>2 DEF TypeInv, TypeOK
    <2> QED
      BY <2>1, <2>3
  <1>6. msgs' \subseteq msgs \cup {AppendReply(m, m.term, TRUE)}
    BY DEF AppendEntries, Reply
  <1> HIDE DEF n, k
  <1>7. NodeLogs(h)'
    <2> SUFFICES ASSUME NEW q \in Node
                 PROVE  /\ Grounded(log'[q], h)
                        /\ \A i \in 1..Len(log'[q]) : log'[q][i].term <= currentTerm'[q]
      BY DEF NodeLogs
    <2>1. CASE q = n
      BY <1>1, <1>3, <2>1
    <2>2. CASE q # n
      <3>1. Grounded(log[q], h) /\ \A i \in 1..Len(log[q]) : log[q][i].term <= currentTerm[q]
        BY DEF LogInv, NodeLogs
      <3>2. \A i \in 1..Len(log[q]) : log[q][i].term \in Nat
        BY LogTypes
      <3>3. \A i \in 1..Len(log[q]) : log[q][i].term <= currentTerm'[q]
        BY <1>4, <3>1, <3>2
      <3> QED
        BY <1>1, <2>2, <3>1, <3>3
    <2> QED
      BY <2>1, <2>2
  <1>8. LeaderLog(h)'
    <2> SUFFICES ASSUME NEW q \in Node, state'[q] = "Leader"
                 PROVE  /\ h[currentTerm'[q]] = log'[q] /\ log'[q] # << >>
                        /\ \A p \in Node : nextIndex'[q][p] <= Len(log'[q]) + 1
      BY DEF LeaderLog
    <2>1. state[q] = "Leader" /\ currentTerm'[q] = currentTerm[q]
      BY <1>5
    <2>2. log'[q] = log[q]
      BY <1>1, <1>3, <2>1
    <2> QED
      BY <1>3, <2>1, <2>2 DEF LogInv, LeaderLog
  <1>9. MessagesTrue(h)'
    <2> SUFFICES ASSUME NEW r \in msgs' PROVE MessageTrue(r, h)
      BY DEF MessagesTrue, MessageTrue
    <2>1. CASE r \in msgs
      BY <2>1 DEF LogInv, MessagesTrue
    <2>2. CASE r = AppendReply(m, m.term, TRUE)
      BY <1>1, <2>2 DEF AppendReply, MessageTrue, k
    <2> QED
      BY <1>6, <2>1, <2>2
  <1> QED
    BY <1>2, <1>7, <1>8, <1>9 DEF LogInv

\* Every step appends to a log or keeps the invariant for the same record.
LEMMA NextLogInv ==
    ASSUME ElectionInv, ElectionInv', NEW h, LogInv(h), [Next]_vars
    PROVE  (\E n \in Node : \E e \in EntryType : Appends(n, e, h)) \/ LogInv(h)'
  <1>t. TypeInv /\ TypeInv' /\ Monotone
    BY NextMonotone DEF ElectionInv
  <1>k. \A n \in Node : state[n] = "Leader" =>
           \A p \in Node : nextIndex[n][p] <= Len(log[n]) + 1
    BY DEF LogInv, LeaderLog
  <1>r. state \in [Node -> {"Follower", "Candidate", "Leader"}]
        /\ nextIndex \in [Node -> [Node -> Nat]]
    BY <1>t DEF TypeInv, TypeOK
  <1>m. \A m \in msgs : m \in Message /\ m.to \in Node /\ m.from \in Node /\ MessageTrue(m, h)
    BY <1>t, MessageKinds DEF TypeInv, TypeOK, LogInv, MessagesTrue
  <1>q. ASSUME UNCHANGED << log, nextIndex >>,
               \A n \in Node : state'[n] = "Leader" => state[n] = "Leader",
               \A m \in msgs' : m \in msgs \/ MessageTrue(m, h)
        PROVE  LogInv(h)'
    BY <1>t, <1>k, <1>q, LogQuiet
  <1>f. \A n \in Node, t \in Nat : BecomeFollower(n, t) =>
            \A p \in Node : state'[p] = "Leader" => state[p] = "Leader"
    BY <1>r DEF BecomeFollower
  <1>v. \A m : m.type \in {"RequestVote", "RequestVoteReply"} => MessageTrue(m, h)
    BY DEF MessageTrue
  <1>1. ASSUME NEW n \in Node, StartElection(n) PROVE LogInv(h)'
    <2>1. \A m \in msgs' : m \in msgs \/ MessageTrue(m, h)
      BY <1>1, <1>v DEF StartElection, VoteCall
    <2>2. \A p \in Node : state'[p] = "Leader" => state[p] = "Leader"
      BY <1>1, <1>r DEF StartElection
    <2> QED
      BY <1>1, <1>q, <2>1, <2>2 DEF StartElection, leader
  <1>2. ASSUME NEW n \in Node, TimerIdle(n) PROVE LogInv(h)'
    BY <1>2, <1>q DEF TimerIdle, leader
  <1>3. ASSUME NEW n \in Node, Kill(n) PROVE LogInv(h)'
    BY <1>3, <1>q DEF Kill, role, leader
  <1>4. ASSUME NEW n \in Node, NEW c \in Command, Start(n, c)
        PROVE  \E e \in EntryType : Appends(n, e, h)
    BY <1>4, <1>t, StartAppends
  <1>5. ASSUME NEW n \in Node, NEW p \in Node, SendAppendEntries(n, p) PROVE LogInv(h)'
    <2>1. \A m \in msgs' : m \in msgs \/ MessageTrue(m, h)
      BY <1>5, <1>t, SendTrue
    <2> QED
      BY <1>5, <1>q, <2>1 DEF SendAppendEntries, role, leader
  <1>6. ASSUME NEW m \in msgs, Lose(m) PROVE LogInv(h)'
    BY <1>6, <1>q DEF Lose, role, leader
  <1>7. ASSUME NEW m \in msgs, GrantVote(m) PROVE LogInv(h)'
    <2>1. \A r \in msgs' : r \in msgs \/ MessageTrue(r, h)
      BY <1>7, <1>v DEF GrantVote, Reply, VoteReply
    <2>2. \A p \in Node : state'[p] = "Leader" => state[p] = "Leader"
      BY <1>7, <1>r, <1>m DEF GrantVote
    <2> QED
      BY <1>7, <1>q, <2>1, <2>2 DEF GrantVote, leader
  <1>8. ASSUME NEW m \in msgs, DenyVote(m) PROVE LogInv(h)'
    <2>1. \A r \in msgs' : r \in msgs \/ MessageTrue(r, h)
      BY <1>8, <1>v DEF DenyVote, Reply, VoteReply
    <2>2. \A p \in Node : state'[p] = "Leader" => state[p] = "Leader"
      <3>1. m.term \in Nat
        BY <1>t, MessageKinds DEF TypeInv, TypeOK
      <3> QED
        BY <1>8, <1>f, <1>m, <3>1 DEF DenyVote, role
    <2> QED
      BY <1>8, <1>q, <2>1, <2>2 DEF DenyVote, leader
  <1>9. ASSUME NEW m \in msgs, StepDown(m) PROVE LogInv(h)'
    <2>1. \A p \in Node : state'[p] = "Leader" => state[p] = "Leader"
      <3>1. m.term \in Nat
        BY <1>t, MessageKinds DEF TypeInv, TypeOK
      <3> QED
        BY <1>9, <1>f, <1>m, <3>1 DEF StepDown
    <2> QED
      BY <1>9, <1>q, <2>1 DEF StepDown, Done, leader
  <1>10. ASSUME NEW m \in msgs, CountVote(m)
         PROVE  (\E n \in Node : \E e \in EntryType : Appends(n, e, h)) \/ LogInv(h)'
    <2>1. CASE Cardinality(votes[m.to] \cup {m.from}) >= Quorum
      BY <1>10, <2>1, WinAppends
    <2>2. CASE ~(Cardinality(votes[m.to] \cup {m.from}) >= Quorum)
      BY <1>10, <1>q, <2>2 DEF CountVote, Done, leader
    <2> QED
      BY <2>1, <2>2
  <1>11. ASSUME NEW m \in msgs, IgnoreVote(m) PROVE LogInv(h)'
    BY <1>11, <1>q DEF IgnoreVote, Done, role, leader
  <1>12. ASSUME NEW m \in msgs, AppendEntries(m) PROVE LogInv(h)'
    <2>1. CASE Consistent(log[m.to], m)
      BY <1>12, <1>t, <2>1, LogMerge
    <2>2. CASE ~Consistent(log[m.to], m)
      <3>1. m.type = "AppendEntries" /\ m.term \in Nat
        BY <1>12, <1>t, MessageKinds DEF AppendEntries, TypeInv, TypeOK
      <3>2. MessageTrue(AppendReply(m, m.term, Consistent(log[m.to], m)), h)
        BY <1>m, <3>1 DEF AppendReply, MessageTrue
      <3>3. \A r \in msgs' : r \in msgs \/ MessageTrue(r, h)
        BY <1>12, <3>2 DEF AppendEntries, Reply
      <3>4. \A p \in Node : state'[p] = "Leader" => state[p] = "Leader"
        BY <1>12, <1>f, <1>m, <3>1 DEF AppendEntries
      <3> QED
        BY <1>12, <1>q, <2>2, <3>3, <3>4 DEF AppendEntries, leader
    <2> QED
      BY <2>1, <2>2
  <1>13. ASSUME NEW m \in msgs, RefuseAppend(m) PROVE LogInv(h)'
    <2>1. MessageTrue(AppendReply(m, currentTerm[m.to], FALSE), h)
      BY <1>13, <1>m DEF RefuseAppend, AppendReply, MessageTrue
    <2> QED
      BY <1>13, <1>q, <2>1 DEF RefuseAppend, Reply, role, leader
  <1>14. ASSUME NEW m \in msgs, AppendSucceeded(m) PROVE LogInv(h)'
    <2> DEFINE n == m.to
    <2>1. /\ m.type = "AppendEntriesReply" /\ state[n] = "Leader" /\ m.sentTerm = currentTerm[n]
          /\ UNCHANGED << log, state >> /\ msgs' \subseteq msgs
      BY <1>14 DEF AppendSucceeded, Current, Done, role
    <2>2. m.newMatch \in Nat /\ m.newMatch <= Len(log[n])
      <3>1. m.newMatch \in Nat
        BY <1>m, <2>1, MessageKinds DEF AppendReplyType
      <3> QED
        BY <1>m, <2>1, <3>1 DEF MessageTrue, LogInv, LeaderLog
    <2>3. nextIndex' = nextIndex \/ nextIndex' = [nextIndex EXCEPT ![n][m.from] = m.newMatch + 1]
      BY <1>14 DEF AppendSucceeded
    <2>4. Len(log[n]) \in Nat /\ n \in Node /\ m.from \in Node
      BY <1>t, <1>m, LogTypes
    <2> HIDE DEF n
    <2>5. \A q \in Node : state[q] = "Leader" =>
              \A p \in Node : nextIndex'[q][p] <= Len(log[q]) + 1
      <3> SUFFICES ASSUME NEW q \in Node, state[q] = "Leader", NEW p \in Node
                   PROVE  nextIndex'[q][p] <= Len(log[q]) + 1
        OBVIOUS
      <3>1. CASE nextIndex'[q][p] = nextIndex[q][p]
        BY <1>k, <3>1
      <3>2. CASE q = n /\ nextIndex'[q][p] = m.newMatch + 1
        BY <2>2, <2>4, <3>2
      <3>3. ASSUME nextIndex' = [nextIndex EXCEPT ![n][m.from] = m.newMatch + 1]
            PROVE  nextIndex'[q][p] = IF q = n /\ p = m.from
                                      THEN m.newMatch + 1 ELSE nextIndex[q][p]
        BY <1>r, <2>4, <3>3
      <3> QED
        BY <2>3, <3>1, <3>2, <3>3
    <2> QED
      BY <1>t, <2>1, <2>5, LogQuiet
  <1>15. ASSUME NEW m \in msgs, AppendRejected(m) PROVE LogInv(h)'
    <2>1. UNCHANGED << log, state >> /\ msgs' \subseteq msgs
      BY <1>15 DEF AppendRejected, Done, role
    <2>2. \A q \in Node : state[q] = "Leader" =>
              \A p \in Node : nextIndex'[q][p] <= Len(log[q]) + 1
      <3> SUFFICES ASSUME NEW q \in Node, state[q] = "Leader", NEW p \in Node
                   PROVE  nextIndex'[q][p] <= Len(log[q]) + 1
        OBVIOUS
      <3>1. nextIndex[q][p] \in Nat /\ Len(log[q]) \in Nat /\ nextIndex[q][p] <= Len(log[q]) + 1
        BY <1>t, <1>k, <1>r, LogTypes
      <3>2. nextIndex'[q][p] = nextIndex[q][p] \/ nextIndex'[q][p] = Backed(nextIndex[q][p])
        BY <1>15, <1>r, <1>m DEF AppendRejected
      <3> QED
        BY <3>1, <3>2 DEF Backed
    <2> QED
      BY <1>t, <2>1, <2>2, LogQuiet
  <1>16. CASE UNCHANGED vars
    BY <1>16, <1>q DEF vars
  <1> QED
    BY <1>1, <1>2, <1>3, <1>4, <1>5, <1>6, <1>7, <1>8, <1>9, <1>10, <1>11,
       <1>12, <1>13, <1>14, <1>15, <1>16 DEF Next, Receive

-----------------------------------------------------------------------------
(* The theorems *)

\* There is a record of the leaders' logs for which the invariant holds.
LogRecord == ElectionInv /\ \E h \in LeaderLogs : LogInv(h)

\* On every run there is a record of the leaders' logs for which the
\* invariant holds.
LEMMA LogInvariant == Spec => []LogRecord
  <1>1. Init => LogRecord
    <2> SUFFICES ASSUME Init PROVE LogRecord
      OBVIOUS
    <2>1. LogInv([t \in Nat |-> << >>])
      BY InitLogInv
    <2> QED
      BY <2>1, InitElectionInv DEF LogRecord, LogInv
  <1>2. LogRecord /\ [Next]_vars => LogRecord'
    <2> SUFFICES ASSUME LogRecord, [Next]_vars PROVE LogRecord'
      OBVIOUS
    <2>1. ElectionInv /\ ElectionInv' /\ Monotone
      BY NextElectionInv, NextMonotone DEF LogRecord, ElectionInv
    <2>2. PICK h \in LeaderLogs : LogInv(h)
      BY DEF LogRecord
    <2>3. CASE LogInv(h)'
      BY <2>1, <2>3 DEF LogRecord
    <2>4. ASSUME NEW n \in Node, NEW e \in EntryType, Appends(n, e, h) PROVE LogRecord'
      <3>1. PICK g : g = Extended(h, n, e)
        OBVIOUS
      <3>2. LogInv(g)'
        BY <2>1, <2>2, <2>4, <3>1, LogExtend
      <3>3. g \in LeaderLogs
        BY <3>2 DEF LogInv
      <3> QED
        BY <2>1, <3>2, <3>3 DEF LogRecord
    <2> QED
      BY <2>1, <2>2, <2>3, <2>4, NextLogInv
  <1> QED
    BY <1>1, <1>2, PTL DEF Spec

(***************************************************************************)
(* Every log is gapless (the panic in Log.Append is unreachable) and its   *)
(* terms neither decrease along it nor pass the node's own: for every      *)
(* cluster, every schedule and every number of elections.                  *)
(***************************************************************************)
THEOREM LogsWellFormed == Spec => []LogWellFormed
  <1>1. LogRecord => LogWellFormed
    <2> SUFFICES ASSUME LogRecord, NEW n \in Node, NEW i \in 1..Len(log[n])
                 PROVE  /\ log[n][i].index = i
                        /\ log[n][i].term <= currentTerm[n]
                        /\ i > 1 => log[n][i - 1].term <= log[n][i].term
      BY DEF LogWellFormed
    <2>1. PICK h \in LeaderLogs : LogInv(h)
      BY DEF LogRecord
    <2>2. log[n] \in Seq(EntryType) /\ Len(log[n]) \in Nat
      BY LogTypes DEF LogRecord, ElectionInv
    <2>3. TermLogs(h) /\ Grounded(log[n], h) /\ log[n][i].term <= currentTerm[n]
      BY <2>1 DEF LogInv, NodeLogs
    <2>4. log[n][i].index = i /\ \A j \in 1..i : log[n][j].term <= log[n][i].term
      BY <2>2, <2>3, GroundedOrdered
    <2> QED
      BY <2>2, <2>3, <2>4
  <1> QED
    BY <1>1, LogInvariant, PTL

(***************************************************************************)
(* Two logs with an entry of the same index and term are the same up to    *)
(* there: what the consistency check and the merge loop of AppendEntries   *)
(* are for.                                                                *)
(***************************************************************************)
THEOREM LogsMatch == Spec => []LogMatching
  <1>1. LogRecord => LogMatching
    <2> SUFFICES ASSUME LogRecord, NEW n \in Node, NEW p \in Node,
                        NEW i \in 1..Len(log[n]),
                        Has(log[p], i), TermAt(log[p], i) = log[n][i].term
                 PROVE  SamePrefix(log[n], log[p], i)
      BY DEF LogMatching
    <2>1. PICK h \in LeaderLogs : LogInv(h)
      BY DEF LogRecord
    <2>2. Grounded(log[n], h) /\ Grounded(log[p], h)
      BY <2>1 DEF LogInv, NodeLogs
    <2>3. i \in 1..Len(log[p]) /\ log[n][i].term = log[p][i].term
      BY DEF Has, TermAt
    <2> QED
      BY <2>2, <2>3, GroundedAgree
  <1> QED
    BY <1>1, LogInvariant, PTL
=============================================================================
