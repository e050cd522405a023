------------------------------ MODULE KVServer ------------------------------
(***************************************************************************)
(* The key-value servers of hw3 on top of the consensus core: Put handlers *)
(* that wait for their entry, the two apply loops with the channel between *)
(* them, the store, redirects, and the wire format of a command.           *)
(*                                                                         *)
(* The core appears here as what module Raft shows of it: one leader per   *)
(* term, a new leader whose log holds everything chosen, and one sequence  *)
(* of chosen entries that only the newest leader extends.  Elections and   *)
(* calls are therefore single steps.  A string is the sequence of its      *)
(* colon-separated parts.                                                  *)
(***************************************************************************)
EXTENDS RaftLog, SequencesExt

CONSTANTS
    Node,      \* the servers
    Nil,       \* no node, no put, no message
    Puts,      \* the Put requests clients make
    Request,   \* [Puts -> [key, value : sequence of parts, addr : Node]]
    Appliers,  \* bound: the servers whose apply loops get to run
    ChanCap,   \* capacity of commitCh (100 in the code)
    Contests,  \* bound: the << node, term >> elections that may be won
    MaxLog     \* bound: length of a log

ASSUME KVAssumption ==
    /\ Nil \notin Node /\ Nil \notin Puts
    /\ ChanCap \in Nat \ {0} /\ MaxLog \in Nat
    /\ Contests \subseteq Node \X Nat /\ Appliers \subseteq Node
    /\ \A p \in Puts : /\ Request[p].key # << >> /\ Request[p].value # << >>
                       /\ Request[p].key \in Seq(Range(Request[p].key))
                       /\ Request[p].value \in Seq(Range(Request[p].value))
                       /\ Request[p].addr \in Node

Term == {c[2] : c \in Contests}

VARIABLES
    currentTerm,  \* core: [Node -> Nat]
    leads,        \* core: [Node -> BOOLEAN]
    log,          \* core: [Node -> Seq(entry)]
    chosen,       \* core: the committed entries
    commitIndex,  \* core: [Node -> Nat], how much of chosen a node knows
    lastApplied,  \* core: [Node -> Nat], entries sent on commitCh
    commitCh,     \* [Node -> Seq(entry)]
    applying,     \* [Node -> entry or Nil]: stored, its Put not yet woken
    store,        \* [Node -> [key -> value]]
    pending,      \* [Node -> [index -> put or Nil]]
    leaderID,     \* [Node -> Node or Nil]
    accepted,     \* calls accepted whose wrapper has not set leaderID yet
    pc,           \* [Puts -> where the request is]
    at,           \* [Puts -> the server that has it, or Nil]
    ticket,       \* [Puts -> [index, term]]: what Start returned
    signal        \* [Puts -> Nat]: the term applyLoop left in pp, 0 if open

core    == << currentTerm, leads, log, chosen, commitIndex >>
server  == << lastApplied, commitCh, applying, store >>
hints   == << leaderID, accepted >>
handler == << pc, at, ticket, signal >>
vars    == << core, server, pending, hints, handler >>

Init ==
    /\ currentTerm = [n \in Node |-> 0] /\ leads = [n \in Node |-> FALSE]
    /\ log = [n \in Node |-> NewLog] /\ chosen = << >>
    /\ commitIndex = [n \in Node |-> 0]
    /\ lastApplied = [n \in Node |-> 0] /\ commitCh = [n \in Node |-> << >>]
    /\ applying = [n \in Node |-> Nil] /\ store = [n \in Node |-> << >>]
    /\ pending = [n \in Node |-> [i \in 1..MaxLog |-> Nil]]
    /\ leaderID = [n \in Node |-> Nil] /\ accepted = {}
    /\ pc = [p \in Puts |-> "new"] /\ at = [p \in Puts |-> Nil]
    /\ ticket = [p \in Puts |-> [index |-> 0, term |-> 0]]
    /\ signal = [p \in Puts |-> 0]

-----------------------------------------------------------------------------
(* The wire format *)

encodeCommand(key, value) == << "put" >> \o key \o value

\* Mutant: the command is split at every colon.
decodeCommand_SplitAll(cmd) ==
    IF Len(cmd) < 2 THEN [op |-> "", key |-> << >>, value |-> << >>]
    ELSE [op |-> cmd[1], key |-> << cmd[2] >>, value |-> SubSeq(cmd, 3, 3)]

\* SplitN(cmd, ":", 3): the third part keeps the colons of the value.
decodeCommand(cmd) ==
    IF Len(cmd) < 2 THEN [op |-> "", key |-> << >>, value |-> << >>]
    ELSE [op |-> cmd[1], key |-> << cmd[2] >>, value |-> SubSeq(cmd, 3, Len(cmd))]

\* Store.Put.
StorePut(s, key, value) ==
    [k \in DOMAIN s \cup {key} |-> IF k = key THEN value ELSE s[k]]

\* Store.Get.
StoreGet(s, key) ==
    IF key \in DOMAIN s THEN [found |-> TRUE, value |-> s[key]] ELSE [found |-> FALSE]

\* Server.Get answers from the local store, without the core.
Get(n, key) == StoreGet(store[n], key)

-----------------------------------------------------------------------------
(* The core *)

Newest(n) == \A p \in Node : currentTerm[p] <= currentTerm[n]

\* n wins an election of a new term with a log that holds all of chosen.
Elect(n, t) ==
    /\ << n, t >> \in Contests /\ ~leads[n]
    /\ \A p \in Node : currentTerm[p] < t
    /\ IsPrefix(chosen, log[n]) /\ Len(log[n]) < MaxLog
    /\ currentTerm' = [currentTerm EXCEPT ![n] = t]
    /\ leads' = [leads EXCEPT ![n] = TRUE]
    /\ log' = [log EXCEPT ![n] = Append(@, Entry(Len(@) + 1, t, << "noop" >>))]
    /\ UNCHANGED << chosen, commitIndex, server, pending, hints, handler >>

\* The newest leader commits its log up to an entry of its own term.  An older
\* one may find an entry on a majority after the next is elected: the entry was
\* there before, so that step is this one, taken before Elect.
Choose(n) ==
    /\ leads[n] /\ Newest(n)
    /\ \E k \in Len(chosen) + 1 .. Len(log[n]) :
          /\ log[n][k].term = currentTerm[n]
          /\ chosen' = Prefix(log[n], k)
          /\ commitIndex' = [commitIndex EXCEPT ![n] = k]
    /\ UNCHANGED << currentTerm, leads, log, server, pending, hints, handler >>

(***************************************************************************)
(* n takes the log and the commit index of leader l, whose term it         *)
(* accepts.  The server's wrapper then sets leaderID, after the core has   *)
(* released its lock (LearnLeader), so two wrappers may do so in either    *)
(* order.                                                                  *)
(***************************************************************************)
AppendEntries(n, l) ==
    /\ n # l /\ leads[l] /\ currentTerm[l] >= currentTerm[n]
    /\ currentTerm' = [currentTerm EXCEPT ![n] = currentTerm[l]]
    /\ leads' = [leads EXCEPT ![n] = FALSE]
    /\ log' = [log EXCEPT ![n] = log[l]]
    /\ commitIndex' = [commitIndex EXCEPT ![n] = IF commitIndex[l] > @ THEN commitIndex[l] ELSE @]
    /\ accepted' = accepted \cup {<< n, l >>}
    /\ UNCHANGED << chosen, server, pending, leaderID, handler >>

LearnLeader(n, l) ==
    /\ << n, l >> \in accepted
    /\ accepted' = accepted \ {<< n, l >>}
    /\ leaderID' = [leaderID EXCEPT ![n] = l]
    /\ UNCHANGED << core, server, pending, handler >>

\* The core's applyLoop: the next committed entry goes down the channel.
SendApplied(n) ==
    LET i == lastApplied[n] + 1 IN
    /\ n \in Appliers
    /\ i <= commitIndex[n] /\ Len(commitCh[n]) < ChanCap
    /\ lastApplied' = [lastApplied EXCEPT ![n] = i]
    /\ commitCh' = [commitCh EXCEPT ![n] = Append(@, log[n][i])]
    /\ UNCHANGED << core, applying, store, pending, hints, handler >>

-----------------------------------------------------------------------------
(* The server's applyLoop *)

\* The message is decoded and stored, before the server's lock is taken.
ApplyStore(n) ==
    LET m == Head(commitCh[n])
        d == decodeCommand(m.command)
    IN
    /\ applying[n] = Nil /\ commitCh[n] # << >>
    /\ commitCh' = [commitCh EXCEPT ![n] = Tail(@)]
    /\ store' = IF d.op = "put"
                THEN [store EXCEPT ![n] = StorePut(@, d.key, d.value)] ELSE store
    /\ applying' = [applying EXCEPT ![n] = m]
    /\ UNCHANGED << core, lastApplied, pending, hints, handler >>

\* Mutant: the handler is woken with the term it submitted in.
CommittedTerm_Submitted(m, p) == ticket[p].term

\* The term applyLoop writes into a handler's pp.
CommittedTerm(m, p) == m.term

\* Mutant: the handler is woken before the message is stored.
ApplyWake_Early(n) ==
    LET m == Head(commitCh[n])
        p == pending[n][m.index]
    IN
    /\ commitCh[n] # << >> /\ p # Nil
    /\ pending' = [pending EXCEPT ![n][m.index] = Nil]
    /\ signal' = [signal EXCEPT ![p] = CommittedTerm(m, p)]
    /\ UNCHANGED << core, server, hints, pc, at, ticket >>

\* The Put waiting on that index, if any, gets the committed term and wakes.
ApplyWake(n) ==
    LET m == applying[n]
        p == pending[n][m.index]
    IN
    /\ m # Nil
    /\ applying' = [applying EXCEPT ![n] = Nil]
    /\ pending' = [pending EXCEPT ![n][m.index] = Nil]
    /\ signal' = IF p = Nil THEN signal
                 ELSE [signal EXCEPT ![p] = CommittedTerm(m, p)]
    /\ UNCHANGED << core, lastApplied, commitCh, store, hints, pc, at, ticket >>

-----------------------------------------------------------------------------
(* Put: client and handler *)

\* The client tries its server, then follows the one redirect it is given.
Addressed(p, n) ==
    \/ pc[p] = "new" /\ n = Request[p].addr
    \/ pc[p] = "redirected" /\ n = at[p]

Start(p, n) ==
    LET e == Entry(Len(log[n]) + 1, currentTerm[n],
                   encodeCommand(Request[p].key, Request[p].value))
    IN
    /\ Addressed(p, n) /\ leads[n] /\ Len(log[n]) < MaxLog
    /\ log' = [log EXCEPT ![n] = Append(@, e)]
    /\ ticket' = [ticket EXCEPT ![p] = [index |-> e.index, term |-> e.term]]
    /\ pc' = [pc EXCEPT ![p] = "started"]
    /\ at' = [at EXCEPT ![p] = n]
    /\ UNCHANGED << currentTerm, leads, chosen, commitIndex, server, pending, hints, signal >>

\* Start refuses: not the leader.  A client that has been redirected gives up.
Refused(p, n) ==
    /\ Addressed(p, n) /\ ~leads[n]
    /\ pc' = [pc EXCEPT ![p] = IF @ = "new" THEN "refused" ELSE "failed"]
    /\ at' = [at EXCEPT ![p] = n]
    /\ UNCHANGED << core, server, pending, hints, ticket, signal >>

\* The node a server names in its stead, Nil if it knows of none.
currentLeaderAddr(n) == leaderID[n]

\* Mutant: the server redirects without knowing where to.
Redirect_Unknown(p, n) ==
    /\ pc[p] = "refused" /\ at[p] = n
    /\ pc' = [pc EXCEPT ![p] = "redirected"]
    /\ at' = [at EXCEPT ![p] = currentLeaderAddr(n)]
    /\ UNCHANGED << core, server, pending, hints, ticket, signal >>

\* Later, under the server's own lock, the hint is read; the client follows it
\* if there is one.
Redirect(p, n) ==
    /\ pc[p] = "refused" /\ at[p] = n
    /\ IF currentLeaderAddr(n) # Nil
       THEN /\ pc' = [pc EXCEPT ![p] = "redirected"]
            /\ at' = [at EXCEPT ![p] = currentLeaderAddr(n)]
       ELSE /\ pc' = [pc EXCEPT ![p] = "failed"]
            /\ UNCHANGED at
    /\ UNCHANGED << core, server, pending, hints, ticket, signal >>

\* The handler registers itself, some time after Start has returned.
Register(p) ==
    /\ pc[p] = "started"
    /\ pending' = [pending EXCEPT ![at[p]][ticket[p].index] = p]
    /\ pc' = [pc EXCEPT ![p] = "waiting"]
    /\ UNCHANGED << core, server, hints, at, ticket, signal >>

Woken(p) ==
    /\ pc[p] = "waiting" /\ signal[p] # 0
    /\ pc' = [pc EXCEPT ![p] = IF signal[p] = ticket[p].term THEN "ok" ELSE "aborted"]
    /\ UNCHANGED << core, server, pending, hints, at, ticket, signal >>

\* Five seconds pass: whatever is registered at the index is dropped.
PutTimeout(p) ==
    /\ pc[p] = "waiting"
    /\ pending' = [pending EXCEPT ![at[p]][ticket[p].index] = Nil]
    /\ pc' = [pc EXCEPT ![p] = "timedout"]
    /\ UNCHANGED << core, server, hints, at, ticket, signal >>

-----------------------------------------------------------------------------
Next ==
    \/ \E n \in Node, t \in Term : Elect(n, t)
    \/ \E n \in Node : Choose(n) \/ SendApplied(n) \/ ApplyStore(n) \/ ApplyWake(n)
    \/ \E n, l \in Node : AppendEntries(n, l) \/ LearnLeader(n, l)
    \/ \E p \in Puts, n \in Node : Start(p, n) \/ Refused(p, n) \/ Redirect(p, n)
    \/ \E p \in Puts : Register(p) \/ Woken(p) \/ PutTimeout(p)

Spec == Init /\ [][Next]_vars
-----------------------------------------------------------------------------
Part == UNION {Range(Request[p].key) \cup Range(Request[p].value) : p \in Puts}

EntryType == [index : 1..MaxLog, term : Term, command : Seq(Part \cup {"put", "noop"})]

\* Every field of the servers and of the Put handlers has its type, and a
\* request that is under way is at some server.
TypeOK ==
    /\ currentTerm \in [Node -> Term \cup {0}] /\ leads \in [Node -> BOOLEAN]
    /\ log \in [Node -> Seq(EntryType)] /\ chosen \in Seq(EntryType)
    /\ commitIndex \in [Node -> 0..MaxLog] /\ lastApplied \in [Node -> 0..MaxLog]
    /\ commitCh \in [Node -> Seq(EntryType)]
    /\ applying \in [Node -> EntryType \cup {Nil}]
    /\ \A n \in Node : \A k \in DOMAIN store[n] :
          k \in Seq(Part) /\ store[n][k] \in Seq(Part)
    /\ pending \in [Node -> [1..MaxLog -> Puts \cup {Nil}]]
    /\ leaderID \in [Node -> Node \cup {Nil}] /\ accepted \subseteq Node \X Node
    /\ pc \in [Puts -> {"new", "refused", "redirected", "started", "waiting", "ok",
                        "aborted", "timedout", "failed"}]
    /\ at \in [Puts -> Node \cup {Nil}]
    /\ \A p \in Puts : pc[p] \in {"new", "failed"} \/ at[p] \in Node
    /\ ticket \in [Puts -> [index : 0..MaxLog, term : Term \cup {0}]]
    /\ signal \in [Puts -> Term \cup {0}]

\* The entry Start made for p is committed.
Kept(p) ==
    /\ ticket[p].index \in 1..Len(chosen)
    /\ chosen[ticket[p].index].term = ticket[p].term

\* Another entry is committed in its place.
Lost(p) ==
    /\ ticket[p].index \in 1..Len(chosen)
    /\ chosen[ticket[p].index].term # ticket[p].term

\* How many entries a node's store reflects.
Stored(n) == lastApplied[n] - Len(commitCh[n])

(***************************************************************************)
(* The answer of a Put is the truth, whichever leaders came and went while *)
(* it waited and whoever else waited on the same index: OK means that its  *)
(* entry is committed, "leadership changed" that it never will be.         *)
(***************************************************************************)
AnswerTrue ==
    \A p \in Puts : (pc[p] = "ok" => Kept(p)) /\ (pc[p] = "aborted" => Lost(p))

(***************************************************************************)
(* "the apply loop writes to the store, then signals the waiting RPC"      *)
(* (README.md:58): once a Put has returned OK, a Get at the server that    *)
(* answered it finds the key, with the value put or with that of a Put     *)
(* committed after it, through whatever changes of leader.                 *)
(***************************************************************************)
ReadYourWrites ==
    \A p \in Puts : pc[p] = "ok" =>
        LET answer == Get(at[p], Request[p].key) IN
        /\ answer.found
        /\ \E q \in Puts :
              /\ Request[q].key = Request[p].key /\ Request[q].value = answer.value
              /\ Kept(q) /\ ticket[p].index <= ticket[q].index

\* The puts on key k among the first i chosen entries.
Writes(k, i) == {p \in Puts : Request[p].key = k /\ Kept(p) /\ ticket[p].index <= i}

(***************************************************************************)
(* Every store is what the clients asked for: a key holds the value of the *)
(* last committed Put on it among the entries the node has applied, colons *)
(* and all, and no key is there that nobody put.                           *)
(***************************************************************************)
StoreReplays ==
    \A n \in Node :
        LET keys == {k \in {Request[p].key : p \in Puts} : Writes(k, Stored(n)) # {}} IN
        /\ DOMAIN store[n] = keys
        /\ \A k \in keys : \E p \in Writes(k, Stored(n)) :
              /\ store[n][k] = Request[p].value
              /\ \A q \in Writes(k, Stored(n)) : ticket[q].index <= ticket[p].index

-----------------------------------------------------------------------------
(***************************************************************************)
(* "The call blocks until the entry is committed (or leadership is lost)"  *)
(* (server/main.go:92): a handler that still waits has not been passed by  *)
(* the apply loop of its server.                                           *)
(***************************************************************************)
WaitsForCommit ==
    \A p \in Puts : pc[p] = "waiting" /\ signal[p] = 0 =>
        ticket[p].index > Stored(at[p]) \/ applying[at[p]] # Nil \/ ~leads[at[p]]
=============================================================================
