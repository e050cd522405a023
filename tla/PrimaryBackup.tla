--------------------------- MODULE PrimaryBackup ---------------------------
(***************************************************************************)
(* The primary-backup store of hw2: synchronous replication to every peer, *)
(* Lamport clocks, heartbeats and the Lamport-bully election.              *)
(*                                                                         *)
(* Node IDs are numbers, because ties are broken by ID.  There is one key, *)
(* and a Put stands for its value: puts on different keys share only the   *)
(* clocks.  Time shows only in Suspect: a peer that has crashed has been   *)
(* silent for HeartbeatTimeout, also when it is already back.              *)
(***************************************************************************)
EXTENDS Integers, FiniteSets

CONSTANTS
    NumNodes,     \* nodes 0 .. NumNodes - 1; node 0 starts as primary
    Nil,          \* no value
    Puts,         \* the writes clients make
    Doors,        \* the nodes whose address clients are given
    Crashable,    \* the nodes that may crash
    Restartable,  \* the nodes whose process may be started again
    CrashOnce,    \* bound: a process that was started again stays up
    Monitors,     \* bound: the nodes whose monitorPeers gets to run
    Beaters,      \* bound: the nodes whose heartbeat loop gets to run
    MayMisjudge,  \* whether a live primary may be suspected
    MaxClock,     \* bound: no tick beyond this clock value
    MaxBeat,      \* bound: no heartbeat is sent beyond this clock value
    MaxBeats,     \* bound: heartbeats in flight that somebody may handle
    MaxLaunched   \* bound: goroutines of runElection waiting to start

Node == 0 .. NumNodes - 1

ASSUME PrimaryBackupAssumption ==
    /\ NumNodes \in Nat /\ NumNodes >= 3
    /\ MaxClock \in Nat /\ MaxBeat \in Nat /\ MaxBeats \in Nat /\ MaxLaunched \in Nat
    /\ Nil \notin Puts /\ Nil \notin Node /\ Doors \subseteq Node
    /\ Crashable \subseteq Node /\ Restartable \subseteq Node
    /\ Monitors \subseteq Node /\ Beaters \subseteq Node
    /\ MayMisjudge \in BOOLEAN /\ CrashOnce \in BOOLEAN

VARIABLES
    role,        \* [Node -> {"Backup", "Candidate", "Primary"}]
    primaryID,   \* [Node -> Node]: currentPrimaryID
    electionTs,  \* [Node -> Nat]
    clk,         \* [Node -> Nat]
    store,       \* [Node -> [value, ts]]
    lastSeen,    \* [Node -> SUBSET Node]: peers with an entry in lastSeen
    beats,       \* heartbeats in flight
    crashed,     \* nodes that are down
    reborn,      \* history: nodes that have been started again
    launched,    \* [Node -> Nat]: go runElection() not yet begun
    asked,       \* [Node -> Node or Nil]: whose answer the candidate awaits
    msgs,        \* AnnounceLeader calls and replies in flight
    calls,       \* Replicate calls in flight, << put, node >>
    pc,          \* [Puts -> where the client and its handler are]
    at,          \* [Puts -> the node it is sent to, or Nil]
    ts,          \* [Puts -> Nat]: the Lamport timestamp Put took
    await,       \* [Puts -> SUBSET Node]: peers wg.Wait() waits for
    failed,      \* [Puts -> BOOLEAN]: firstErr is set
    before       \* history: [Puts -> SUBSET Puts], over when this one began

election  == << role, primaryID, electionTs, launched, asked, msgs >>
processes == << crashed, reborn >>
detection == << lastSeen, beats, processes >>
writing   == << calls, pc, at, ts, await, failed, before >>
vars      == << election, clk, store, detection, writing >>

\* What newNode gives a node to begin with.
FirstRole(n) == IF n = 0 THEN "Primary" ELSE "Backup"

NoEntry == [value |-> Nil, ts |-> 0]

Init ==
    /\ role = [n \in Node |-> FirstRole(n)]
    /\ primaryID = [n \in Node |-> 0]
    /\ electionTs = [n \in Node |-> 0] /\ clk = [n \in Node |-> 0]
    /\ store = [n \in Node |-> NoEntry]
    /\ lastSeen = [n \in Node |-> {}] /\ beats = {}
    /\ crashed = {} /\ reborn = {}
    /\ launched = [n \in Node |-> 0] /\ asked = [n \in Node |-> Nil] /\ msgs = {}
    /\ calls = {}
    /\ pc = [w \in Puts |-> "new"] /\ at = [w \in Puts |-> Nil]
    /\ ts = [w \in Puts |-> 0] /\ await = [w \in Puts |-> {}]
    /\ failed = [w \in Puts |-> FALSE]
    /\ before = [w \in Puts |-> {}]

Live == Node \ crashed

\* The nodes that may yet handle what is on its way to them.
Reachable == Live \cup Restartable

\* Mutant: reading the clock instead of ticking it.
Tick_Now(n) == clk[n]

\* LamportClock.Tick: the clock after it, which is also what it returns.
Tick(n) == clk[n] + 1

\* LamportClock.Update: the max rule.
Updated(n, received) == 1 + (IF received > clk[n] THEN received ELSE clk[n])

\* Store.Put overwrites, whatever the timestamps.
Write(n, w) == store' = [store EXCEPT ![n] = [value |-> w, ts |-> ts[w]]]

\* Store.Get: the entry, if there is one.
StoreGet(entry) ==
    IF entry.value = Nil THEN [found |-> FALSE]
    ELSE [found |-> TRUE, value |-> entry.value, ts |-> entry.ts]

\* Node.Get answers from the node's own store, on a backup too.
Get(n) == StoreGet(store[n])

-----------------------------------------------------------------------------
(* Put: client and handler *)

\* The client tries the node it was given, then follows one redirect.
Addressed(w, n) ==
    \/ pc[w] = "new" /\ n \in Doors
    \/ pc[w] = "redirected" /\ n = at[w]

\* A node that does not take itself for primary names the one it believes in;
\* a client that is told so twice, or gets no answer, gives up.
Redirect(w, n) ==
    /\ Addressed(w, n)
    /\ n \in Live => role[n] # "Primary"
    /\ IF n \in Live /\ pc[w] = "new"
       THEN /\ pc' = [pc EXCEPT ![w] = "redirected"]
            /\ at' = [at EXCEPT ![w] = primaryID[n]]
       ELSE /\ pc' = [pc EXCEPT ![w] = "unserved"]
            /\ at' = [at EXCEPT ![w] = Nil]
    /\ UNCHANGED << election, clk, store, detection, calls, ts, await, failed, before >>

\* The client's call has come to its end.
Over(w) == pc[w] \in {"ok", "error", "unserved"}

\* The primary ticks and calls Replicate on every peer in parallel.
PutStart(w, n) ==
    /\ Addressed(w, n) /\ n \in Live /\ role[n] = "Primary"
    /\ clk[n] < MaxClock
    /\ clk' = [clk EXCEPT ![n] = Tick(n)]
    /\ ts' = [ts EXCEPT ![w] = Tick(n)]
    /\ at' = [at EXCEPT ![w] = n]
    /\ pc' = [pc EXCEPT ![w] = "sent"]
    /\ await' = [await EXCEPT ![w] = Node \ {n}]
    /\ calls' = calls \cup {<< w, p >> : p \in Node \ {n}}
    /\ before' = [before EXCEPT ![w] = {v \in Puts : Over(v)}]
    /\ UNCHANGED << election, store, detection, failed >>

\* A peer stores the value and its reply reaches the primary in time, or not.
Replicate(w, p) ==
    /\ << w, p >> \in calls /\ p \in Live
    /\ calls' = calls \ {<< w, p >>}
    /\ clk' = [clk EXCEPT ![p] = Updated(p, ts[w])]
    /\ Write(p, w)
    /\ \/ await' = [await EXCEPT ![w] = @ \ {p}]
       \/ UNCHANGED await
    /\ UNCHANGED << election, detection, pc, at, ts, failed, before >>

\* ReplicateTimeout: the primary gives up on p; the call may still arrive, or
\* stay undelivered for good.
ReplicateTimeout(w, p) ==
    /\ pc[w] = "sent" /\ at[w] \in Live /\ p \in await[w]
    /\ await' = [await EXCEPT ![w] = @ \ {p}]
    /\ failed' = [failed EXCEPT ![w] = TRUE]
    /\ UNCHANGED << election, clk, store, detection, calls, pc, at, ts, before >>

\* Mutant: one answer is enough.
Answered_Any(w) == await[w] # Node \ {at[w]}

\* wg.Wait() returns.
Answered(w) == await[w] = {}

\* With no error the primary stores the value itself and answers OK.
PutReturn(w) ==
    /\ pc[w] = "sent" /\ at[w] \in Live /\ Answered(w)
    /\ IF failed[w]
       THEN /\ pc' = [pc EXCEPT ![w] = "error"]
            /\ UNCHANGED store
       ELSE /\ pc' = [pc EXCEPT ![w] = "ok"]
            /\ Write(at[w], w)
    /\ UNCHANGED << election, clk, detection, calls, at, ts, await, failed, before >>

-----------------------------------------------------------------------------
(* Failure detection *)

\* The ticker fires: one tick for each peer, up or down, and a heartbeat with
\* the clock as it is then.
SendHeartbeat(n, p) ==
    /\ n \in Live \cap Beaters /\ p # n
    /\ clk[n] < MaxBeat /\ Cardinality({b \in beats : b.to \in Reachable}) < MaxBeats
    /\ clk' = [clk EXCEPT ![n] = Tick(n)]
    /\ beats' = beats \cup {[from |-> n, to |-> p, ts |-> Tick(n)]}
    /\ UNCHANGED << election, store, lastSeen, processes, writing >>

\* A peer handles it, sooner or later, and has seen the sender.
HandleHeartbeat(b) ==
    /\ b.to \in Live
    /\ lastSeen' = [lastSeen EXCEPT ![b.to] = @ \cup {b.from}]
    /\ clk' = [clk EXCEPT ![b.to] = Updated(b.to, b.ts)]
    /\ beats' = beats \ {b}
    /\ UNCHANGED << election, store, processes, writing >>

\* It runs into its timeout, or into a peer that is down, on its way.
LoseHeartbeat(b) ==
    /\ beats' = beats \ {b}
    /\ UNCHANGED << election, clk, store, lastSeen, processes, writing >>

\* monitorPeers and onPeerDead: a backup suspects its primary, if it has ever
\* heard of it.
Suspect(n) ==
    LET p == primaryID[n] IN
    /\ n \in Live \cap Monitors /\ role[n] = "Backup"
    /\ p \in lastSeen[n] /\ (p \in crashed \cup reborn \/ MayMisjudge)
    /\ launched[n] < MaxLaunched
    /\ launched' = [launched EXCEPT ![n] = @ + 1]
    /\ UNCHANGED << role, primaryID, electionTs, asked, msgs, clk, store, detection, writing >>

Announce(n, p, t, ask) ==
    [type |-> "call", from |-> n, to |-> p, ts |-> t, ask |-> ask]

\* Who waits for the answer.
Caller(m) == IF m.type = "call" THEN m.from ELSE m.to

\* The clients of a node that dies get an error; its own calls may still
\* arrive, but nobody waits for the answers.
Crash(n) ==
    /\ n \in Crashable \cap Live /\ (CrashOnce => n \notin reborn)
    /\ crashed' = crashed \cup {n}
    /\ pc' = [w \in Puts |-> IF pc[w] = "sent" /\ at[w] = n THEN "error" ELSE pc[w]]
    /\ msgs' = {m \in msgs : Caller(m) # n} \cup
         {Announce(n, m.to, m.ts, FALSE) : m \in {k \in msgs : k.type = "call" /\ k.from = n}}
    /\ UNCHANGED << role, primaryID, electionTs, launched, asked, clk, store, lastSeen, beats,
                    reborn, calls, at, ts, await, failed, before >>

\* The process starts again from newNode: nothing has been kept.
Restart(n) ==
    /\ n \in crashed \cap Restartable
    /\ crashed' = crashed \ {n} /\ reborn' = reborn \cup {n}
    /\ role' = [role EXCEPT ![n] = FirstRole(n)]
    /\ primaryID' = [primaryID EXCEPT ![n] = 0]
    /\ electionTs' = [electionTs EXCEPT ![n] = 0] /\ clk' = [clk EXCEPT ![n] = 0]
    /\ store' = [store EXCEPT ![n] = NoEntry]
    /\ lastSeen' = [lastSeen EXCEPT ![n] = {}]
    /\ launched' = [launched EXCEPT ![n] = 0] /\ asked' = [asked EXCEPT ![n] = Nil]
    /\ UNCHANGED << msgs, beats, writing >>

-----------------------------------------------------------------------------
(* Elections *)

(***************************************************************************)
(* runElection up to its first call.  A node that is no backup any more    *)
(* returns at once; otherwise it asks the one peer that is not the primary *)
(* it now believes in, which need not be the one it suspected.             *)
(***************************************************************************)
RunElection(n) ==
    /\ n \in Live /\ launched[n] > 0
    /\ launched' = [launched EXCEPT ![n] = @ - 1]
    /\ IF role[n] = "Backup"
       THEN \E p \in Node \ {n, primaryID[n]} :
              /\ clk[n] < MaxClock
              /\ clk' = [clk EXCEPT ![n] = Tick(n)]
              /\ role' = [role EXCEPT ![n] = "Candidate"]
              /\ electionTs' = [electionTs EXCEPT ![n] = Tick(n)]
              /\ asked' = [asked EXCEPT ![n] = p]
              /\ msgs' = msgs \cup {Announce(n, p, Tick(n), TRUE)}
       ELSE UNCHANGED << clk, role, electionTs, asked, msgs >>
    /\ UNCHANGED << primaryID, store, detection, writing >>

\* Mutant: the node ID does not break a tie.
Stronger_NoTie(m, n, localTs) == m.ts >= localTs

\* The announcement has the stronger claim.
Stronger(m, n, localTs) == m.ts > localTs \/ (m.ts = localTs /\ m.from > n)

\* AnnounceLeader: a candidate compares with its snapshot, others with the
\* live clock, which the announcement itself does not advance.
AnnounceLeader(m) ==
    LET n == m.to
        accept == Stronger(m, n, IF role[n] = "Candidate" THEN electionTs[n] ELSE clk[n])
    IN
    /\ m.type = "call" /\ n \in Live
    /\ primaryID' = IF accept THEN [primaryID EXCEPT ![n] = m.from] ELSE primaryID
    /\ msgs' = (msgs \ {m}) \cup
         (IF m.ask THEN {[type |-> "reply", from |-> n, to |-> m.from, ts |-> m.ts,
                          accepted |-> accept]} ELSE {})
    /\ UNCHANGED << role, electionTs, launched, asked, clk, store, detection, writing >>

\* The candidate has its answer.
Asking(n, m) ==
    /\ m.type = "reply" /\ m.to = n /\ n \in Live
    /\ role[n] = "Candidate" /\ asked[n] = m.from /\ m.ts = electionTs[n]

\* Accepted: become primary and tell every peer.
Win(n, m) ==
    /\ Asking(n, m) /\ m.accepted
    /\ role' = [role EXCEPT ![n] = "Primary"]
    /\ primaryID' = [primaryID EXCEPT ![n] = n]
    /\ asked' = [asked EXCEPT ![n] = Nil]
    /\ msgs' = (msgs \ {m}) \cup {Announce(n, p, m.ts, FALSE) : p \in Node \ {n}}
    /\ UNCHANGED << electionTs, launched, clk, store, detection, writing >>

\* Mutant: a rejected candidate stays one.
Yield_StaysCandidate(n, m) ==
    /\ Asking(n, m) /\ ~m.accepted
    /\ primaryID' = [primaryID EXCEPT ![n] = m.from]
    /\ asked' = [asked EXCEPT ![n] = Nil]
    /\ msgs' = msgs \ {m}
    /\ UNCHANGED << role, electionTs, launched, clk, store, detection, writing >>

\* Explicitly rejected: the peer is taken for the winner.
Yield(n, m) ==
    /\ Asking(n, m) /\ ~m.accepted
    /\ role' = [role EXCEPT ![n] = "Backup"]
    /\ primaryID' = [primaryID EXCEPT ![n] = m.from]
    /\ asked' = [asked EXCEPT ![n] = Nil]
    /\ msgs' = msgs \ {m}
    /\ UNCHANGED << electionTs, launched, clk, store, detection, writing >>

\* No answer in time: back to backup.  The call or its reply may be late.
Unreachable(n) ==
    /\ n \in Live /\ role[n] = "Candidate"
    /\ role' = [role EXCEPT ![n] = "Backup"]
    /\ asked' = [asked EXCEPT ![n] = Nil]
    /\ UNCHANGED << primaryID, electionTs, launched, msgs, clk, store, detection, writing >>

\* A call or a reply nobody waits for is gone.
Lose(m) ==
    /\ m \in msgs
    /\ msgs' = msgs \ {m}
    /\ UNCHANGED << role, primaryID, electionTs, launched, asked, clk, store, detection, writing >>

-----------------------------------------------------------------------------
Next ==
    \/ \E w \in Puts, n \in Node :
          Redirect(w, n) \/ PutStart(w, n) \/ Replicate(w, n) \/ ReplicateTimeout(w, n)
    \/ \E w \in Puts : PutReturn(w)
    \/ \E n, p \in Node : SendHeartbeat(n, p)
    \/ \E b \in beats : HandleHeartbeat(b) \/ LoseHeartbeat(b)
    \/ \E n \in Node : Suspect(n) \/ RunElection(n) \/ Unreachable(n)
    \/ \E n \in Node : Crash(n) \/ Restart(n)
    \/ \E m \in msgs : AnnounceLeader(m) \/ Lose(m)
    \/ \E n \in Node, m \in msgs : Win(n, m) \/ Yield(n, m)

Spec == Init /\ [][Next]_vars
-----------------------------------------------------------------------------
MessageType ==
    [type : {"call"}, from : Node, to : Node, ts : Nat, ask : BOOLEAN]
    \cup [type : {"reply"}, from : Node, to : Node, ts : Nat, accepted : BOOLEAN]

\* Every field of the nodes and of the writes under way has its type, and a
\* node awaits an answer exactly while it is a candidate.
TypeOK ==
    /\ role \in [Node -> {"Backup", "Candidate", "Primary"}]
    /\ primaryID \in [Node -> Node] /\ electionTs \in [Node -> Nat]
    /\ clk \in [Node -> Nat]
    /\ store \in [Node -> [value : Puts \cup {Nil}, ts : Nat]]
    /\ lastSeen \in [Node -> SUBSET Node] /\ beats \subseteq [from : Node, to : Node, ts : Nat]
    /\ crashed \subseteq Node /\ reborn \subseteq Node /\ launched \in [Node -> 0..MaxLaunched]
    /\ asked \in [Node -> Node \cup {Nil}]
    /\ \A n \in Node : role[n] = "Candidate" <=> asked[n] # Nil
    /\ msgs \subseteq MessageType /\ calls \subseteq Puts \X Node
    /\ pc \in [Puts -> {"new", "redirected", "sent", "ok", "error", "unserved"}]
    /\ at \in [Puts -> Node \cup {Nil}] /\ ts \in [Puts -> Nat]
    /\ await \in [Puts -> SUBSET Node] /\ failed \in [Puts -> BOOLEAN]
    /\ before \in [Puts -> SUBSET Puts]

(***************************************************************************)
(* Two backups that both stand never both win, whether they hear of the    *)
(* crash together or one after the other, whichever announcements are late *)
(* and however heartbeats move their clocks meanwhile: as long as no       *)
(* process has been started again, at most one live node is primary.       *)
(***************************************************************************)
OneWinner ==
    reborn = {} =>
        \A n, p \in Live : role[n] = "Primary" /\ role[p] = "Primary" => n = p

(***************************************************************************)
(* An acknowledged write is there to stay.  On every node that has not     *)
(* lost its memory, the old primary and the one that takes over alike,     *)
(* the key has a value ever after, and not one that had been acknowledged  *)
(* before this write began.                                                *)
(***************************************************************************)
Keeps(n, w) ==
    LET v == store[n].value IN v # Nil /\ ~(v \in before[w] /\ pc[v] = "ok")

AckedStays ==
    \A w \in Puts : pc[w] = "ok" => \A n \in Node \ reborn : Keeps(n, w)

(***************************************************************************)
(* A write that starts after another was acknowledged gets a larger        *)
(* timestamp, on the old primary or on any node that can be elected, but   *)
(* not on one whose clock has started again with its process.              *)
(***************************************************************************)
TimestampsOrdered ==
    [][\A v, w \in Puts :
         pc[v] = "ok" /\ pc[w] # "sent" /\ pc'[w] = "sent" /\ at'[w] \notin reborn
           => ts[v] < ts'[w]]_vars

-----------------------------------------------------------------------------
(***************************************************************************)
(* "Each node applies writes in the same order (the primary fans out       *)
(* synchronously before acking), so the per-key value history is the same  *)
(* on all replicas once replication completes" (REFLECTIONS.md:76): when   *)
(* every Put is over, and was acknowledged or had failed before one that   *)
(* was acknowledged began, a client may read at any replica.               *)
(***************************************************************************)
ReplicasAgree ==
    (\A w \in Puts : Over(w)) /\
    (\E w \in Puts : pc[w] = "ok" /\ \A v \in Puts : pc[v] = "ok" \/ v \in before[w])
      => \A n, p \in Live : Get(n) = Get(p)

(***************************************************************************)
(* The tiebreak "ensures exactly one winner" (REFLECTIONS.md:179): when    *)
(* the elections are over, two backups have not both stepped back for each *)
(* other, in which case neither is suspected and no one ever stands again. *)
(***************************************************************************)
NoStandoff ==
    ~ \E n, p \in Live :
        /\ n # p /\ primaryID[n] = p /\ primaryID[p] = n
        /\ role[n] = "Backup" /\ launched[n] = 0
        /\ role[p] = "Backup" /\ launched[p] = 0
        /\ \A m \in msgs : m.type = "reply"

(***************************************************************************)
(* "No two nodes believe they are both primary at the same time - the      *)
(* election protocol's deterministic comparison prevents split-brain       *)
(* within the election itself" (REFLECTIONS.md:183), said of a node 0 that *)
(* paused and was suspected: of the backups at most one is elected.        *)
(***************************************************************************)
OneElected ==
    \A n, p \in Live \ {0} : role[n] = "Primary" /\ role[p] = "Primary" => n = p
=============================================================================
