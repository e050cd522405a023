-------------------------------- MODULE Raft --------------------------------
(***************************************************************************)
(* The consensus core of the replicated key-value store: raft/raft.go.     *)
(*                                                                         *)
(* Every action is one critical section of rf.mu: an RPC handler, the part *)
(* of a sender goroutine before its call, the part after the call, the     *)
(* election timer's callback, or a method the server or a test calls.      *)
(* What happens between two critical sections of one goroutine is another  *)
(* node's, or another goroutine's, step.  The network is a set of calls    *)
(* and replies in flight, delivered in any order or not at all.            *)
(***************************************************************************)
EXTENDS RaftLog, FiniteSetsExt

CONSTANTS
    Node,         \* the cluster (rf.peers, self included)
    Nil,          \* votedFor = -1
    Command,      \* the commands clients submit through Start
    Killable,     \* the nodes a test may Kill
    Lapses,       \* bound: the nodes whose timer may fire to no effect
    Contests,     \* bound: the << node, term >> elections that may start
    MaxLog,       \* bound: no Start beyond this log length
    MaxInFlight   \* bound: AppendEntries calls and live replies in flight

ASSUME NodeAssumption == IsFiniteSet(Node) /\ Node # {} /\ Nil \notin Node
ASSUME KillableAssumption == Killable \subseteq Node /\ Lapses \subseteq Node
ASSUME BoundAssumption ==
    /\ Contests \subseteq Node \X Nat
    /\ MaxLog \in Nat /\ MaxInFlight \in Nat

VARIABLES
    currentTerm,  \* [Node -> Nat]
    votedFor,     \* [Node -> Node \cup {Nil}]
    log,          \* [Node -> Seq(entry)]
    state,        \* [Node -> {"Follower", "Candidate", "Leader"}]
    armed,        \* [Node -> BOOLEAN]: electionTimer will fire
    votes,        \* [Node -> SUBSET Node]: granted in the node's latest election
    commitIndex,  \* [Node -> Nat]
    nextIndex,    \* [Node -> [Node -> Nat]]
    matchIndex,   \* [Node -> [Node -> Nat]]
    dead,         \* [Node -> BOOLEAN]
    msgs,         \* RPCs and replies in flight
    ballots       \* history: every vote cast, [voter, term, cand]

vars == << currentTerm, votedFor, log, state, armed, votes, commitIndex,
           nextIndex, matchIndex, dead, msgs, ballots >>

role   == << currentTerm, votedFor, state, armed >>
leader == << nextIndex, matchIndex >>

-----------------------------------------------------------------------------
(* Messages.  A reply carries what the calling goroutine still knows of    *)
(* its call when the reply arrives: the term the call was made in and, for *)
(* AppendEntries, the index it would have replicated up to.                *)

VoteCall(from, to, term, lastLogIndex, lastLogTerm) ==
    [type |-> "RequestVote", from |-> from, to |-> to, term |-> term,
     lastLogIndex |-> lastLogIndex, lastLogTerm |-> lastLogTerm]

VoteReply(call, term, granted) ==
    [type |-> "RequestVoteReply", from |-> call.to, to |-> call.from,
     term |-> term, granted |-> granted, sentTerm |-> call.term]

AppendCall(from, to, term, prevLogIndex, prevLogTerm, entries, leaderCommit) ==
    [type |-> "AppendEntries", from |-> from, to |-> to, term |-> term,
     prevLogIndex |-> prevLogIndex, prevLogTerm |-> prevLogTerm,
     entries |-> entries, leaderCommit |-> leaderCommit]

\* Mutant: the match index is read from the leader's log as it is by now.
AppendReply_LateMatch(call, term, success) ==
    [type |-> "AppendEntriesReply", from |-> call.to, to |-> call.from,
     term |-> term, success |-> success, sentTerm |-> call.term,
     newMatch |-> Len(log[call.from])]

AppendReply(call, term, success) ==
    [type |-> "AppendEntriesReply", from |-> call.to, to |-> call.from,
     term |-> term, success |-> success, sentTerm |-> call.term,
     newMatch |-> call.prevLogIndex + Len(call.entries)]

IsAppend(m) == m.type \in {"AppendEntries", "AppendEntriesReply"}

(***************************************************************************)
(* A vote request is sent once per peer and election and gRPC delivers a   *)
(* unary call at most once, so handling it consumes it.  AppendEntries     *)
(* calls repeat: the heartbeat loop and the goroutines of Start send equal *)
(* calls while the leader's state stands still.  The set holds one element *)
(* for all equal calls, so handling one leaves it there and Lose takes it  *)
(* away.                                                                   *)
(***************************************************************************)
Reply(call, reply) ==
    msgs' = (IF IsAppend(call) THEN msgs ELSE msgs \ {call}) \cup {reply}

Done(m) == msgs' = IF IsAppend(m) THEN msgs ELSE msgs \ {m}

-----------------------------------------------------------------------------
Init ==
    /\ currentTerm = [n \in Node |-> 0]
    /\ votedFor = [n \in Node |-> Nil]
    /\ log = [n \in Node |-> NewLog]
    /\ state = [n \in Node |-> "Follower"]
    /\ armed = [n \in Node |-> TRUE]
    /\ votes = [n \in Node |-> {}]
    /\ commitIndex = [n \in Node |-> 0]
    /\ nextIndex = [n \in Node |-> [p \in Node |-> 0]]
    /\ matchIndex = [n \in Node |-> [p \in Node |-> 0]]
    /\ dead = [n \in Node |-> FALSE]
    /\ msgs = {}
    /\ ballots = {}

\* rf.quorum(): the votes or copies, own included, that make a majority.
Quorum == Cardinality(Node) \div 2 + 1

\* Mutant: stepping down does not restart the election timer.
BecomeFollower_NoTimer(n, term) ==
    /\ currentTerm' = [currentTerm EXCEPT ![n] = term]
    /\ state' = [state EXCEPT ![n] = "Follower"]
    /\ votedFor' = [votedFor EXCEPT ![n] = Nil]
    /\ UNCHANGED armed

BecomeFollower(n, term) ==
    /\ currentTerm' = [currentTerm EXCEPT ![n] = term]
    /\ state' = [state EXCEPT ![n] = "Follower"]
    /\ votedFor' = [votedFor EXCEPT ![n] = Nil]
    /\ armed' = [armed EXCEPT ![n] = TRUE]

-----------------------------------------------------------------------------
(* Elections *)

(***************************************************************************)
(* The election timer fires.  A leader or a killed node returns before     *)
(* re-arming the timer (TimerIdle); everyone else becomes a candidate of   *)
(* the next term, votes for itself and calls every peer.                   *)
(***************************************************************************)
StartElection(n) ==
    /\ armed[n]
    /\ state[n] # "Leader" /\ ~dead[n]
    /\ << n, currentTerm[n] + 1 >> \in Contests
    /\ currentTerm' = [currentTerm EXCEPT ![n] = @ + 1]
    /\ state' = [state EXCEPT ![n] = "Candidate"]
    /\ votedFor' = [votedFor EXCEPT ![n] = n]
    /\ votes' = [votes EXCEPT ![n] = {n}]
    /\ msgs' = msgs \cup
         {VoteCall(n, p, currentTerm[n] + 1, LastIndex(log[n]), LastTerm(log[n]))
            : p \in Node \ {n}}
    /\ ballots' = ballots \cup
         {[voter |-> n, term |-> currentTerm[n] + 1, cand |-> n]}
    /\ UNCHANGED << log, armed, commitIndex, leader, dead >>

TimerIdle(n) ==
    /\ n \in Lapses /\ armed[n]
    /\ state[n] = "Leader" \/ dead[n]
    /\ armed' = [armed EXCEPT ![n] = FALSE]
    /\ UNCHANGED << currentTerm, votedFor, log, state, votes, commitIndex,
                    leader, dead, msgs, ballots >>

\* Mutants: no election restriction; one that looks at the length only.
LogOK_None(m, l) == TRUE
LogOK_LengthOnly(m, l) == m.lastLogIndex >= LastIndex(l)

\* The election restriction of RequestVote.
LogOK(m, l) ==
    \/ m.lastLogTerm > LastTerm(l)
    \/ m.lastLogTerm = LastTerm(l) /\ m.lastLogIndex >= LastIndex(l)

\* Mutant: the vote already cast in this term is not looked at.
MayVote_Again(n, m) == TRUE

\* Whether n, on its vote of the request's term, may vote for the candidate.
MayVote(n, m) ==
    m.term > currentTerm[n] \/ votedFor[n] \in {Nil, m.from}

GrantVote(m) ==
    LET n == m.to IN
    /\ m.type = "RequestVote"
    /\ m.term >= currentTerm[n] /\ MayVote(n, m) /\ LogOK(m, log[n])
    /\ currentTerm' = [currentTerm EXCEPT ![n] = m.term]
    /\ state' = IF m.term > currentTerm[n]
                THEN [state EXCEPT ![n] = "Follower"] ELSE state
    /\ votedFor' = [votedFor EXCEPT ![n] = m.from]
    /\ armed' = [armed EXCEPT ![n] = TRUE]
    /\ Reply(m, VoteReply(m, m.term, TRUE))
    /\ ballots' = ballots \cup {[voter |-> n, term |-> m.term, cand |-> m.from]}
    /\ UNCHANGED << log, votes, commitIndex, leader, dead >>

\* A refusal still steps down when the request's term is newer.
DenyVote(m) ==
    LET n == m.to IN
    /\ m.type = "RequestVote"
    /\ \/ /\ m.term < currentTerm[n]
          /\ UNCHANGED role
          /\ Reply(m, VoteReply(m, currentTerm[n], FALSE))
       \/ /\ m.term >= currentTerm[n]
          /\ ~(MayVote(n, m) /\ LogOK(m, log[n]))
          /\ IF m.term > currentTerm[n] THEN BecomeFollower(n, m.term)
                                        ELSE UNCHANGED role
          /\ Reply(m, VoteReply(m, m.term, FALSE))
    /\ UNCHANGED << log, votes, commitIndex, leader, dead, ballots >>

BecomeLeader(n) ==
    /\ state' = [state EXCEPT ![n] = "Leader"]
    /\ nextIndex' = [nextIndex EXCEPT ![n] = [p \in Node |-> LastIndex(log[n]) + 1]]
    /\ matchIndex' = [matchIndex EXCEPT ![n] = [p \in Node |-> 0]]
    /\ log' = [log EXCEPT ![n] =
                 Append(@, Entry(LastIndex(@) + 1, currentTerm[n], "noop"))]

\* A reply of a higher term, whatever the call, makes the caller a follower.
StepDown(m) ==
    /\ m.type \in {"RequestVoteReply", "AppendEntriesReply"}
    /\ m.term > currentTerm[m.to]
    /\ BecomeFollower(m.to, m.term)
    /\ Done(m)
    /\ UNCHANGED << log, votes, commitIndex, leader, dead, ballots >>

\* Mutant: a reply to an earlier term's call counts.
Current_AnyTerm(m, st) ==
    /\ m.term <= currentTerm[m.to]
    /\ state[m.to] = st

\* The reply reaches the election, or the leadership, that made the call.
Current(m, st) ==
    /\ m.term <= currentTerm[m.to]
    /\ state[m.to] = st
    /\ currentTerm[m.to] = m.sentTerm

\* A reply to an election or a leadership that is over: nothing acts on it.
Inert(m) ==
    \/ /\ m.type = "RequestVoteReply"
       /\ m.term <= currentTerm[m.to]
       /\ ~(Current(m, "Candidate") /\ m.granted)
    \/ /\ m.type = "AppendEntriesReply"
       /\ m.term <= currentTerm[m.to]
       /\ ~Current(m, "Leader")

CountVote(m) ==
    LET n == m.to
        granted == votes[n] \cup {m.from}
    IN
    /\ m.type = "RequestVoteReply"
    /\ Current(m, "Candidate") /\ m.granted
    /\ votes' = [votes EXCEPT ![n] = granted]
    /\ IF Cardinality(granted) >= Quorum THEN BecomeLeader(n)
                                         ELSE UNCHANGED << state, log, leader >>
    /\ Done(m)
    /\ UNCHANGED << currentTerm, votedFor, armed, commitIndex, dead, ballots >>

\* A vote reply that is stale or a refusal changes nothing.
IgnoreVote(m) ==
    /\ m.type = "RequestVoteReply"
    /\ Inert(m)
    /\ Done(m)
    /\ UNCHANGED << role, log, votes, commitIndex, leader, dead, ballots >>

-----------------------------------------------------------------------------
(* Replication *)

\* Start on the leader; on any other node it returns without a change.
Start(n, command) ==
    /\ state[n] = "Leader"
    /\ Len(log[n]) < MaxLog
    /\ log' = [log EXCEPT ![n] =
                 Append(@, Entry(LastIndex(@) + 1, currentTerm[n], command))]
    /\ UNCHANGED << role, votes, commitIndex, leader, dead, msgs, ballots >>

(***************************************************************************)
(* The first half of sendAppendEntries, up to the call.  It runs for the   *)
(* heartbeat loop, for Start and for the retries of an earlier call, so it *)
(* is enabled whenever the node leads; a killed node's loop has stopped    *)
(* but the goroutines it started, and those of Start, still send.          *)
(***************************************************************************)
SendAppendEntries(n, p) ==
    LET prev == nextIndex[n][p] - 1 IN
    /\ state[n] = "Leader" /\ p # n
    /\ Cardinality({m \in msgs : IsAppend(m) /\ ~Inert(m)}) < MaxInFlight
    /\ msgs' = msgs \cup
         {AppendCall(n, p, currentTerm[n], prev, TermAt(log[n], prev),
                     Entries(log[n], nextIndex[n][p], LastIndex(log[n]) + 1),
                     commitIndex[n])}
    /\ UNCHANGED << role, log, votes, commitIndex, leader, dead, ballots >>

\* Mutant: the follower only checks that it has an entry at prevLogIndex.
Consistent_AnyTerm(l, m) == m.prevLogIndex > 0 => Has(l, m.prevLogIndex)

\* The consistency check at prevLogIndex.
Consistent(l, m) ==
    m.prevLogIndex > 0 => /\ Has(l, m.prevLogIndex)
                          /\ TermAt(l, m.prevLogIndex) = m.prevLogTerm

\* Mutants: a conflict does not truncate; every call overwrites the tail.
Merge_NoTruncate(l, prev, es) ==
    LET fresh == {i \in 1..Len(es) :
                    ~(Has(l, prev + i) /\ TermAt(l, prev + i) = es[i].term)}
    IN  IF fresh = {} THEN l ELSE l \o SubSeq(es, Min(fresh), Len(es))
Merge_Overwrite(l, prev, es) == Truncate(l, prev + 1) \o es

(***************************************************************************)
(* The merge loop: entries that are present with the same term are         *)
(* skipped, the first one that is not truncates the log there, and it and  *)
(* all entries after it are appended.                                      *)
(***************************************************************************)
Merge(l, prev, es) ==
    LET fresh == {i \in 1..Len(es) :
                    ~(Has(l, prev + i) /\ TermAt(l, prev + i) = es[i].term)}
    IN  IF fresh = {} THEN l
        ELSE Truncate(l, prev + Min(fresh)) \o SubSeq(es, Min(fresh), Len(es))

\* Mutant: the leader's commit index is taken over as it is.
FollowerCommit_Adopt(ci, leaderCommit, last) == Min({leaderCommit, last})

\* commitIndex becomes min(leaderCommit, lastIndex) when leaderCommit is ahead.
FollowerCommit(ci, leaderCommit, last) ==
    IF leaderCommit > ci THEN Min({leaderCommit, last}) ELSE ci

AppendEntries(m) ==
    LET n == m.to
        merged == Merge(log[n], m.prevLogIndex, m.entries)
    IN
    /\ m.type = "AppendEntries"
    /\ m.term >= currentTerm[n]
    /\ IF m.term > currentTerm[n]
       THEN BecomeFollower(n, m.term)
       ELSE /\ armed' = [armed EXCEPT ![n] = TRUE]
            /\ UNCHANGED << currentTerm, votedFor, state >>
    /\ IF Consistent(log[n], m)
       THEN /\ log' = [log EXCEPT ![n] = merged]
            /\ commitIndex' = [commitIndex EXCEPT ![n] =
                                 FollowerCommit(@, m.leaderCommit, LastIndex(merged))]
       ELSE UNCHANGED << log, commitIndex >>
    /\ Reply(m, AppendReply(m, m.term, Consistent(log[n], m)))
    /\ UNCHANGED << votes, leader, dead, ballots >>

\* A call of an older term is refused before anything is touched.
RefuseAppend(m) ==
    /\ m.type = "AppendEntries"
    /\ m.term < currentTerm[m.to]
    /\ Reply(m, AppendReply(m, currentTerm[m.to], FALSE))
    /\ UNCHANGED << role, log, votes, commitIndex, leader, dead, ballots >>

\* Mutant: the leader's own copy is counted twice.
AdvanceCommitIndex_OneShort(n, match) ==
    LET copies(k) == {n} \cup {p \in Node \ {n} : match[p] >= k}
        committable == {k \in commitIndex[n] + 1 .. LastIndex(log[n]) :
                          /\ TermAt(log[n], k) = currentTerm[n]
                          /\ Cardinality(copies(k)) + 1 >= Quorum}
    IN  IF committable = {} THEN commitIndex[n] ELSE Max(committable)

\* The commit index of leader n, given what it knows of its peers' logs.
AdvanceCommitIndex(n, match) ==
    LET copies(k) == {n} \cup {p \in Node \ {n} : match[p] >= k}
        committable == {k \in commitIndex[n] + 1 .. LastIndex(log[n]) :
                          /\ TermAt(log[n], k) = currentTerm[n]
                          /\ Cardinality(copies(k)) >= Quorum}
    IN  IF committable = {} THEN commitIndex[n] ELSE Max(committable)

AppendSucceeded(m) ==
    LET n == m.to
        ahead == m.newMatch > matchIndex[n][m.from]
        match == IF ahead THEN [matchIndex[n] EXCEPT ![m.from] = m.newMatch]
                          ELSE matchIndex[n]
    IN
    /\ m.type = "AppendEntriesReply"
    /\ Current(m, "Leader") /\ m.success
    /\ matchIndex' = [matchIndex EXCEPT ![n] = match]
    /\ nextIndex' = IF ahead
                    THEN [nextIndex EXCEPT ![n][m.from] = m.newMatch + 1]
                    ELSE nextIndex
    /\ commitIndex' = [commitIndex EXCEPT ![n] = AdvanceCommitIndex(n, match)]
    /\ Done(m)
    /\ UNCHANGED << role, log, votes, dead, ballots >>

\* Mutant: nextIndex backs up past the first entry.
Backed_Unguarded(next) == next - 1

\* nextIndex backs up one entry and stays at 1.
Backed(next) == IF next > 1 THEN next - 1 ELSE next

\* The follower's log did not match: retry from one entry earlier.
AppendRejected(m) ==
    LET n == m.to IN
    /\ m.type = "AppendEntriesReply"
    /\ Current(m, "Leader") /\ ~m.success
    /\ nextIndex' = [nextIndex EXCEPT ![n][m.from] = Backed(@)]
    /\ Done(m)
    /\ UNCHANGED << role, log, votes, commitIndex, matchIndex, dead, ballots >>

-----------------------------------------------------------------------------
(* The environment *)

\* Kill only raises the flag: the RPC handlers of a killed node still answer.
Kill(n) ==
    /\ n \in Killable /\ ~dead[n]
    /\ dead' = [dead EXCEPT ![n] = TRUE]
    /\ UNCHANGED << role, log, votes, commitIndex, leader, msgs, ballots >>

\* A call or a reply is lost, or its caller has timed out (RPCTimeout), or a
\* stale AppendEntries reply is discarded.
Lose(m) ==
    /\ msgs' = msgs \ {m}
    /\ UNCHANGED << role, log, votes, commitIndex, leader, dead, ballots >>

Receive(m) ==
    \/ GrantVote(m) \/ DenyVote(m)
    \/ StepDown(m) \/ CountVote(m) \/ IgnoreVote(m)
    \/ AppendEntries(m) \/ RefuseAppend(m)
    \/ AppendSucceeded(m) \/ AppendRejected(m)

Next ==
    \/ \E n \in Node : StartElection(n) \/ TimerIdle(n) \/ Kill(n)
    \/ \E n \in Node, c \in Command : Start(n, c)
    \/ \E n, p \in Node : SendAppendEntries(n, p)
    \/ \E m \in msgs : Receive(m) \/ Lose(m)

Spec == Init /\ [][Next]_vars
-----------------------------------------------------------------------------
(* Types *)

EntryType == [index : Nat \ {0}, term : Nat \ {0}, command : Command \cup {"noop"}]

VoteCallType ==
    [type : {"RequestVote"}, from : Node, to : Node, term : Nat,
     lastLogIndex : Nat, lastLogTerm : Nat]

VoteReplyType ==
    [type : {"RequestVoteReply"}, from : Node, to : Node, term : Nat,
     granted : BOOLEAN, sentTerm : Nat]

AppendCallType ==
    [type : {"AppendEntries"}, from : Node, to : Node, term : Nat,
     prevLogIndex : Nat, prevLogTerm : Nat, entries : Seq(EntryType),
     leaderCommit : Nat]

AppendReplyType ==
    [type : {"AppendEntriesReply"}, from : Node, to : Node, term : Nat,
     success : BOOLEAN, sentTerm : Nat, newMatch : Nat]

Message == VoteCallType \cup VoteReplyType \cup AppendCallType \cup AppendReplyType

(***************************************************************************)
(* Every field of the struct Raft, and every call and reply in flight, has *)
(* its type; in particular no index of the replication state goes negative *)
(* and a leader never asks a peer for an index before the first.           *)
(***************************************************************************)
TypeOK ==
    /\ currentTerm \in [Node -> Nat]
    /\ votedFor \in [Node -> Node \cup {Nil}]
    /\ log \in [Node -> Seq(EntryType)]
    /\ state \in [Node -> {"Follower", "Candidate", "Leader"}]
    /\ armed \in [Node -> BOOLEAN]
    /\ votes \in [Node -> SUBSET Node]
    /\ commitIndex \in [Node -> Nat]
    /\ nextIndex \in [Node -> [Node -> Nat]]
    /\ \A n \in Node : state[n] = "Leader" =>
          \A p \in Node : nextIndex[n][p] >= 1
    /\ matchIndex \in [Node -> [Node -> Nat]]
    /\ dead \in [Node -> BOOLEAN]
    /\ msgs \subseteq Message
    /\ ballots \subseteq [voter : Node, term : Nat, cand : Node]

-----------------------------------------------------------------------------
(* Elections *)

(***************************************************************************)
(* A server votes for at most one candidate per term, whatever it forgot,  *)
(* learned or stood for in between (the INVARIANT at raft.go:77).          *)
(***************************************************************************)
VoteOncePerTerm ==
    \A a, b \in ballots : a.voter = b.voter /\ a.term = b.term => a.cand = b.cand

(***************************************************************************)
(* No two nodes lead in the same term: becomeLeader acts on a majority of  *)
(* votes even when the replies that carry them arrive late.                *)
(***************************************************************************)
ElectionSafety ==
    \A n, p \in Node :
        /\ state[n] = "Leader" /\ state[p] = "Leader"
        /\ currentTerm[n] = currentTerm[p]
        => n = p

(***************************************************************************)
(* A live node that does not lead always has a running election timer: a   *)
(* leader lets its timer lapse (startElection returns before re-arming),   *)
(* and every way out of leadership starts it again.                        *)
(***************************************************************************)
TimerArmed ==
    \A n \in Node : state[n] # "Leader" /\ ~dead[n] => armed[n]

-----------------------------------------------------------------------------
(* Logs *)

(***************************************************************************)
(* The panic in Log.Append is unreachable (an entry sits at its own index, *)
(* whichever calls were merged in whichever order), and terms never        *)
(* decrease along a log (the INVARIANT at raft.go:81) nor pass the node's  *)
(* own term.                                                               *)
(***************************************************************************)
LogWellFormed ==
    \A n \in Node : \A i \in 1..Len(log[n]) :
        /\ log[n][i].index = i
        /\ log[n][i].term <= currentTerm[n]
        /\ i > 1 => log[n][i - 1].term <= log[n][i].term

(***************************************************************************)
(* Two logs with an entry of the same index and term hold the same entries *)
(* up to there: what the consistency check and the merge loop of           *)
(* AppendEntries are for.                                                  *)
(***************************************************************************)
LogMatching ==
    \A n, p \in Node : \A i \in 1..Len(log[n]) :
        Has(log[p], i) /\ TermAt(log[p], i) = log[n][i].term
            => SamePrefix(log[n], log[p], i)

(***************************************************************************)
(* What a leader believes of a peer is true: as long as the peer has not   *)
(* moved to a later term, it holds the leader's log up to matchIndex; and  *)
(* nextIndex never runs past the leader's own log.                         *)
(***************************************************************************)
PeerTracking ==
    \A n \in Node : state[n] = "Leader" =>
        \A p \in Node \ {n} :
            /\ nextIndex[n][p] <= Len(log[n]) + 1
            /\ currentTerm[p] <= currentTerm[n]
                 => SamePrefix(log[n], log[p], matchIndex[n][p])

-----------------------------------------------------------------------------
(* Commitment *)

(***************************************************************************)
(* No two nodes disagree on an entry both consider committed: the entries  *)
(* applyLoop hands to the servers are the same everywhere.                 *)
(***************************************************************************)
StateMachineSafety ==
    \A n, p \in Node :
        SamePrefix(log[n], log[p], Min({commitIndex[n], commitIndex[p]}))

(***************************************************************************)
(* A leader holds every entry that any node of its term or an earlier one  *)
(* considers committed, from the moment becomeLeader returns.              *)
(***************************************************************************)
LeaderCompleteness ==
    \A n, p \in Node :
        state[n] = "Leader" /\ currentTerm[p] <= currentTerm[n]
            => SamePrefix(log[n], log[p], commitIndex[p])

(***************************************************************************)
(* Committed entries survive: at all times a majority of logs holds every  *)
(* entry some node considers committed.                                    *)
(***************************************************************************)
CommittedOnQuorum ==
    \A n \in Node :
        Cardinality({p \in Node : SamePrefix(log[n], log[p], commitIndex[n])}) >= Quorum

(***************************************************************************)
(* No step lowers a term (the INVARIANT at raft.go:72) or a commit index,  *)
(* or rewrites an entry below the commit index; a leader's own log is only *)
(* appended to while it leads.                                             *)
(***************************************************************************)
NothingUndone ==
    [][\A n \in Node :
          /\ currentTerm[n] <= currentTerm'[n]
          /\ commitIndex[n] <= commitIndex'[n]
          /\ SamePrefix(log[n], log'[n], commitIndex[n])
          /\ state[n] = "Leader" /\ state'[n] = "Leader"
                => SamePrefix(log[n], log'[n], Len(log[n]))]_vars

\* The longest committed prefix any node knows of.
Committed ==
    LET n == CHOOSE n \in Node : \A p \in Node : commitIndex[p] <= commitIndex[n]
    IN  Prefix(log[n], commitIndex[n])

Abstract == INSTANCE ReplicatedLog WITH chosen <- Committed, known <- commitIndex

(***************************************************************************)
(* The core implements the replicated log it promises: the committed       *)
(* entries of all nodes together are one sequence that only grows.         *)
(***************************************************************************)
ImplementsReplicatedLog == Abstract!Spec

=============================================================================
