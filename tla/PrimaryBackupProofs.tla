------------------------ MODULE PrimaryBackupProofs ------------------------
(***************************************************************************)
(* What holds of the primary-backup store for any number of nodes, any set *)
(* of writes and any bounds: the types, that an acknowledged write stays,  *)
(* that timestamps follow acknowledgements; and, for the three nodes of    *)
(* the course's cluster, that only one of two standing backups wins.       *)
(***************************************************************************)
EXTENDS PrimaryBackup, TLAPS

\* The clocks only move forward, and a clock that is updated passes what it
\* received: Tick and Update of LamportClock.
LEMMA ClockRules ==
    ASSUME clk \in [Node -> Nat], NEW n \in Node, NEW received \in Nat
    PROVE  /\ Tick(n) \in Nat /\ clk[n] < Tick(n)
           /\ Updated(n, received) \in Nat
           /\ received < Updated(n, received) /\ clk[n] < Updated(n, received)
  BY DEF Tick, Updated

-----------------------------------------------------------------------------
(* Types *)

\* The fields of the nodes and of the writes that Init sets have their types.
LEMMA InitTypeOK == Init => TypeOK
<1> SUFFICES ASSUME Init PROVE TypeOK
  OBVIOUS
<1>1. 0 \in Node
  BY PrimaryBackupAssumption DEF Node
<1>2. \A n \in Node : role[n] = "Candidate" <=> asked[n] # Nil
  BY DEF Init, FirstRole
<1>3. store \in [Node -> [value : Puts \cup {Nil}, ts : Nat]]
  BY DEF Init, NoEntry
<1>4. launched \in [Node -> 0..MaxLaunched]
  BY PrimaryBackupAssumption DEF Init
<1>5. role \in [Node -> {"Backup", "Candidate", "Primary"}]
  BY DEF Init, FirstRole
<1> QED
  BY <1>1, <1>2, <1>3, <1>4, <1>5 DEF Init, TypeOK

\* A client that follows a redirect, and every step of a Put, leaves the types
\* as they are.
LEMMA WritesKeepTypes ==
    ASSUME TypeOK, NEW w \in Puts, NEW n \in Node,
           \/ Redirect(w, n) \/ PutStart(w, n) \/ Replicate(w, n)
           \/ ReplicateTimeout(w, n) \/ PutReturn(w)
    PROVE  TypeOK'
<1> USE DEF election, detection, processes
<1>1. CASE Redirect(w, n)
  <2>1. at' \in [Puts -> Node \cup {Nil}]
    BY <1>1 DEF Redirect, TypeOK
  <2>2. pc' \in [Puts -> {"new", "redirected", "sent", "ok", "error", "unserved"}]
    <3>1. PICK c \in {"redirected", "unserved"} : pc' = [pc EXCEPT ![w] = c]
      BY <1>1 DEF Redirect
    <3>2. pc \in [Puts -> {"new", "redirected", "sent", "ok", "error", "unserved"}]
      BY DEF TypeOK
    <3> QED
      BY <3>1, <3>2
  <2> QED
    BY <1>1, <2>1, <2>2 DEF Redirect, TypeOK
<1>2. CASE PutStart(w, n)
  <2>1. Tick(n) \in Nat
    BY DEF TypeOK, Tick
  <2>2. calls' \subseteq Puts \X Node
    BY <1>2 DEF PutStart, TypeOK
  <2> QED
    BY <1>2, <2>1, <2>2 DEF PutStart, TypeOK
<1>3. CASE Replicate(w, n)
  <2>1. Updated(n, ts[w]) \in Nat
    BY DEF TypeOK, Updated
  <2>2. store' \in [Node -> [value : Puts \cup {Nil}, ts : Nat]]
    BY <1>3 DEF Replicate, Write, TypeOK
  <2>3. await' \in [Puts -> SUBSET Node]
    <3>1. await \in [Puts -> SUBSET Node]
      BY DEF TypeOK
    <3>2. await' = [await EXCEPT ![w] = @ \ {n}] \/ await' = await
      BY <1>3 DEF Replicate
    <3> QED
      BY <3>1, <3>2
  <2>5. clk' \in [Node -> Nat]
    BY <1>3, <2>1 DEF Replicate, TypeOK
  <2>6. calls' \subseteq Puts \X Node
    BY <1>3 DEF Replicate, TypeOK
  <2> QED
    BY <1>3, <2>2, <2>3, <2>5, <2>6 DEF Replicate, TypeOK
<1>4. CASE ReplicateTimeout(w, n)
  BY <1>4 DEF ReplicateTimeout, TypeOK
<1>5. CASE PutReturn(w)
  <2>1. CASE failed[w]
    <3>1. pc' = [pc EXCEPT ![w] = "error"] /\ store' = store
      BY <1>5, <2>1 DEF PutReturn
    <3> QED
      BY <1>5, <3>1 DEF PutReturn, TypeOK
  <2>2. CASE ~failed[w]
    <3>1. at[w] \in Node
      BY <1>5 DEF PutReturn, Live
    <3>2. pc' = [pc EXCEPT ![w] = "ok"] /\ Write(at[w], w)
      BY <1>5, <2>2 DEF PutReturn
    <3>3. store' \in [Node -> [value : Puts \cup {Nil}, ts : Nat]]
      BY <3>1, <3>2 DEF Write, TypeOK
    <3> QED
      BY <1>5, <3>2, <3>3 DEF PutReturn, TypeOK
  <2> QED
    BY <2>1, <2>2
<1> QED
  BY <1>1, <1>2, <1>3, <1>4, <1>5

\* An announcement is a message.
LEMMA AnnounceType ==
    ASSUME NEW n \in Node, NEW p \in Node, NEW t \in Nat, NEW ask \in BOOLEAN
    PROVE  Announce(n, p, t, ask) \in MessageType
  BY DEF Announce, MessageType

\* What a message in flight carries.
LEMMA MessageFields ==
    ASSUME NEW m \in MessageType
    PROVE  /\ m.type \in {"call", "reply"} /\ m.from \in Node /\ m.to \in Node
           /\ m.ts \in Nat
           /\ m.type = "call" => m.ask \in BOOLEAN
           /\ m.type = "reply" => m.accepted \in BOOLEAN
  BY DEF MessageType

\* Heartbeats that are sent and suspicions leave the types as they are.
LEMMA DetectionKeepsTypes ==
    ASSUME TypeOK, NEW n \in Node, NEW p \in Node, SendHeartbeat(n, p) \/ Suspect(n)
    PROVE  TypeOK'
<1> USE DEF election, detection, processes, writing
<1>1. CASE SendHeartbeat(n, p)
  <2>1. Tick(n) \in Nat
    BY DEF TypeOK, Tick
  <2>2. beats' \subseteq [from : Node, to : Node, ts : Nat]
    BY <1>1, <2>1 DEF SendHeartbeat, TypeOK
  <2> QED
    BY <1>1, <2>1, <2>2 DEF SendHeartbeat, TypeOK
<1>2. CASE Suspect(n)
  <2>1. launched[n] + 1 \in 0..MaxLaunched
    BY <1>2, PrimaryBackupAssumption DEF Suspect, TypeOK
  <2> QED
    BY <1>2, <2>1 DEF Suspect, TypeOK
<1> QED
  BY <1>1, <1>2

\* So do heartbeats that arrive, or do not.
LEMMA ArrivingKeepsTypes ==
    ASSUME TypeOK, NEW b \in beats, HandleHeartbeat(b) \/ LoseHeartbeat(b)
    PROVE  TypeOK'
<1> USE DEF election, detection, processes, writing
<1>1. CASE HandleHeartbeat(b)
  <2>1. b.to \in Node /\ b.from \in Node /\ b.ts \in Nat
    BY DEF TypeOK
  <2>2. Updated(b.to, b.ts) \in Nat
    BY <2>1 DEF TypeOK, Updated
  <2> QED
    BY <1>1, <2>1, <2>2 DEF HandleHeartbeat, TypeOK
<1>2. CASE LoseHeartbeat(b)
  BY <1>2 DEF LoseHeartbeat, TypeOK
<1> QED
  BY <1>1, <1>2

\* The death of a process and its next life leave the types as they are.
LEMMA ProcessesKeepTypes ==
    ASSUME TypeOK, NEW n \in Node, Crash(n) \/ Restart(n)
    PROVE  TypeOK'
<1>1. CASE Crash(n)
  <2>1. \A k \in msgs : k.type = "call" => Announce(n, k.to, k.ts, FALSE) \in MessageType
    BY MessageFields, AnnounceType DEF TypeOK
  <2>2. msgs' \subseteq MessageType
    BY <1>1, <2>1 DEF Crash, TypeOK
  <2>3. pc' \in [Puts -> {"new", "redirected", "sent", "ok", "error", "unserved"}]
    BY <1>1 DEF Crash, TypeOK
  <2>4. crashed' \subseteq Node
    BY <1>1 DEF Crash, TypeOK
  <2> QED
    BY <1>1, <2>2, <2>3, <2>4 DEF Crash, TypeOK
<1>2. CASE Restart(n)
  <2>1. 0 \in Node /\ 0 \in 0..MaxLaunched /\ Nil \notin Node
    BY PrimaryBackupAssumption DEF Node
  <2>2. FirstRole(n) \in {"Backup", "Primary"}
    BY DEF FirstRole
  <2>3. NoEntry \in [value : Puts \cup {Nil}, ts : Nat]
    BY DEF NoEntry
  <2>4. /\ role' \in [Node -> {"Backup", "Candidate", "Primary"}]
        /\ asked' \in [Node -> Node \cup {Nil}]
        /\ \A q \in Node : role'[q] = "Candidate" <=> asked'[q] # Nil
    BY <1>2, <2>2 DEF Restart, TypeOK
  <2>5. /\ primaryID' \in [Node -> Node] /\ electionTs' \in [Node -> Nat]
        /\ clk' \in [Node -> Nat] /\ launched' \in [Node -> 0..MaxLaunched]
    BY <1>2, <2>1 DEF Restart, TypeOK
  <2>6. /\ store' \in [Node -> [value : Puts \cup {Nil}, ts : Nat]]
        /\ lastSeen' \in [Node -> SUBSET Node]
    BY <1>2, <2>3 DEF Restart, TypeOK
  <2>7. crashed' \subseteq Node /\ reborn' \subseteq Node
    BY <1>2 DEF Restart, TypeOK
  <2>8. UNCHANGED << msgs, beats, calls, pc, at, ts, await, failed, before >>
    BY <1>2 DEF Restart, writing
  <2> QED
    BY <2>4, <2>5, <2>6, <2>7, <2>8 DEF TypeOK
<1> QED
  BY <1>1, <1>2

\* A node that stands, or stops standing, leaves the types as they are.
LEMMA StandingKeepsTypes ==
    ASSUME TypeOK, NEW n \in Node, RunElection(n) \/ Unreachable(n)
    PROVE  TypeOK'
<1> USE DEF detection, processes, writing
<1>1. Nil \notin Node
  BY PrimaryBackupAssumption
<1>3. CASE RunElection(n)
  <2>1. launched' \in [Node -> 0..MaxLaunched]
    BY <1>3, PrimaryBackupAssumption DEF RunElection, TypeOK
  <2>2. CASE role[n] = "Backup"
    <3>1. PICK p \in Node \ {n, primaryID[n]} :
            /\ clk' = [clk EXCEPT ![n] = Tick(n)]
            /\ role' = [role EXCEPT ![n] = "Candidate"]
            /\ electionTs' = [electionTs EXCEPT ![n] = Tick(n)]
            /\ asked' = [asked EXCEPT ![n] = p]
            /\ msgs' = msgs \cup {Announce(n, p, Tick(n), TRUE)}
      BY <1>3, <2>2 DEF RunElection
    <3>2. Tick(n) \in Nat
      BY DEF TypeOK, Tick
    <3>3. msgs' \subseteq MessageType
      BY <3>1, <3>2, AnnounceType DEF TypeOK
    <3>4. \A q \in Node : role'[q] = "Candidate" <=> asked'[q] # Nil
      BY <3>1, <1>1 DEF TypeOK
    <3> QED
      BY <1>3, <2>1, <3>1, <3>2, <3>3, <3>4 DEF RunElection, TypeOK
  <2>3. CASE role[n] # "Backup"
    BY <1>3, <2>1, <2>3 DEF RunElection, TypeOK
  <2> QED
    BY <2>2, <2>3
<1>4. CASE Unreachable(n)
  BY <1>4 DEF Unreachable, TypeOK
<1> QED
  BY <1>3, <1>4

\* What a node does with an election's message leaves the types as they are.
LEMMA AnnouncingKeepsTypes ==
    ASSUME TypeOK, NEW n \in Node, NEW m \in msgs,
           AnnounceLeader(m) \/ Lose(m) \/ Win(n, m) \/ Yield(n, m)
    PROVE  TypeOK'
<1> USE DEF detection, processes, writing
<1>2. m \in MessageType
  BY DEF TypeOK
<1>5. CASE AnnounceLeader(m)
  <2>1. PICK accept \in BOOLEAN :
          /\ primaryID' = IF accept THEN [primaryID EXCEPT ![m.to] = m.from] ELSE primaryID
          /\ msgs' = (msgs \ {m}) \cup
               (IF m.ask THEN {[type |-> "reply", from |-> m.to, to |-> m.from,
                                ts |-> m.ts, accepted |-> accept]} ELSE {})
    BY <1>5, <1>2, MessageFields, Zenon DEF AnnounceLeader, Stronger
  <2>2. primaryID' \in [Node -> Node]
    BY <2>1, <1>2, MessageFields DEF TypeOK
  <2>3. [type |-> "reply", from |-> m.to, to |-> m.from, ts |-> m.ts, accepted |-> accept]
          \in MessageType
    BY <1>2, MessageFields DEF MessageType
  <2>4. msgs' \subseteq MessageType
    BY <2>1, <2>3 DEF TypeOK
  <2> QED
    BY <1>5, <2>2, <2>4 DEF AnnounceLeader, TypeOK
<1>6. CASE Lose(m)
  BY <1>6 DEF Lose, TypeOK
<1>7. CASE Win(n, m)
  <2>1. m.ts \in Nat
    BY <1>2, MessageFields
  <2>2. msgs' \subseteq MessageType
    <3>1. \A p \in Node : Announce(n, p, m.ts, FALSE) \in MessageType
      BY <2>1, AnnounceType
    <3>2. msgs' = (msgs \ {m}) \cup {Announce(n, p, m.ts, FALSE) : p \in Node \ {n}}
      BY <1>7 DEF Win
    <3>3. msgs \subseteq MessageType
      BY DEF TypeOK
    <3> QED
      BY <3>1, <3>2, <3>3
  <2> QED
    BY <1>7, <2>2 DEF Win, TypeOK
<1>8. CASE Yield(n, m)
  <2>1. m.from \in Node
    BY <1>2, MessageFields
  <2> QED
    BY <1>8, <2>1 DEF Yield, TypeOK
<1> QED
  BY <1>5, <1>6, <1>7, <1>8

\* Every step leaves the types as they are.
LEMMA NextTypeOK == TypeOK /\ [Next]_vars => TypeOK'
<1> SUFFICES ASSUME TypeOK, [Next]_vars PROVE TypeOK'
  OBVIOUS
<1>1. CASE UNCHANGED vars
  BY <1>1 DEF TypeOK, vars, election, detection, processes, writing
<1>2. CASE Next
  <2>1. 0 \in Node
    BY PrimaryBackupAssumption DEF Node
  <2>2. CASE \E w \in Puts, n \in Node :
               Redirect(w, n) \/ PutStart(w, n) \/ Replicate(w, n) \/ ReplicateTimeout(w, n)
    BY <2>2, WritesKeepTypes
  <2>3. CASE \E w \in Puts : PutReturn(w)
    BY <2>1, <2>3, WritesKeepTypes
  <2>4. CASE \E n, p \in Node : SendHeartbeat(n, p)
    BY <2>4, DetectionKeepsTypes
  <2>5. CASE \E n \in Node : Suspect(n) \/ RunElection(n) \/ Unreachable(n)
    BY <2>5, DetectionKeepsTypes, StandingKeepsTypes
  <2>8. CASE \E b \in beats : HandleHeartbeat(b) \/ LoseHeartbeat(b)
    BY <2>8, ArrivingKeepsTypes
  <2>9. CASE \E n \in Node : Crash(n) \/ Restart(n)
    BY <2>9, ProcessesKeepTypes
  <2>6. CASE \E m \in msgs : AnnounceLeader(m) \/ Lose(m)
    BY <2>1, <2>6, AnnouncingKeepsTypes
  <2>7. CASE \E n \in Node, m \in msgs : Win(n, m) \/ Yield(n, m)
    BY <2>7, AnnouncingKeepsTypes
  <2> QED
    BY <1>2, <2>2, <2>3, <2>4, <2>5, <2>6, <2>7, <2>8, <2>9 DEF Next
<1> QED
  BY <1>1, <1>2

\* The model's fields keep their types on every run, and a node awaits an
\* answer exactly while it is a candidate.
THEOREM TypeCorrect == Spec => []TypeOK
  BY InitTypeOK, NextTypeOK, PTL DEF Spec

-----------------------------------------------------------------------------
(***************************************************************************)
(* Acknowledged writes.  When a peer has answered, its clock has passed    *)
(* the write's timestamp, and what its store holds from then on is this    *)
(* write or one that was not acknowledged before this one began: a call in *)
(* flight belongs to a Put that has not been acknowledged.  So all this is *)
(* true of every node when wg.Wait() returns without an error, and stays   *)
(* true of a node as long as its process lives, or lies dead.              *)
(***************************************************************************)
CallsAwaited ==
    \A w \in Puts, p \in Node : << w, p >> \in calls =>
        pc[w] = "error" \/ (pc[w] = "sent" /\ (p \in await[w] \/ failed[w]))

BeforeOver == \A w \in Puts, v \in Puts : v \in before[w] => Over(v)

Passed(n, w) == Keeps(n, w) /\ ts[w] <= clk[n]

SentPassed ==
    \A w \in Puts : pc[w] = "sent" => at[w] \in Live /\ ts[w] <= clk[at[w]]

AnsweredPassed ==
    \A w \in Puts : pc[w] = "sent" /\ ~failed[w] =>
        \A p \in Node \ reborn : p = at[w] \/ p \in await[w] \/ Passed(p, w)

AckedPassed ==
    \A w \in Puts : pc[w] = "ok" => \A n \in Node \ reborn : Passed(n, w)

WriteInv ==
    /\ TypeOK /\ CallsAwaited /\ BeforeOver /\ SentPassed
    /\ AnsweredPassed /\ AckedPassed

\* What a step that is no part of a Put may do to the writes: only the clocks
\* move, forward.
OnlyClocksMove ==
    /\ \A n \in Node : clk[n] <= clk'[n]
    /\ UNCHANGED << store, processes, writing >>

\* Before any write nothing is stored and nothing is under way.
LEMMA InitWriteInv == Init => WriteInv
  BY InitTypeOK DEF Init, WriteInv, CallsAwaited, BeforeOver, SentPassed,
     AnsweredPassed, AckedPassed

\* A node goes on holding a write, or one to follow it, when its entry stays
\* or is overwritten by a Put that was not acknowledged before.
LEMMA KeepsOn ==
    ASSUME WriteInv, NEW n \in Node, NEW w \in Puts, before'[w] = before[w],
           \A v \in Puts : Over(v) => pc'[v] = pc[v],
           \/ store'[n] = store[n] /\ Keeps(n, w)
           \/ \E u \in Puts : store'[n].value = u /\ (u \notin before[w] \/ pc'[u] # "ok")
    PROVE  Keeps(n, w)'
<1>1. CASE store'[n] = store[n] /\ Keeps(n, w)
  <2> DEFINE v == store[n].value
  <2>1. v # Nil /\ ~(v \in before[w] /\ pc[v] = "ok")
    BY <1>1 DEF Keeps
  <2>2. v \in before[w] => pc'[v] = pc[v]
    BY DEF WriteInv, TypeOK, BeforeOver
  <2> QED
    BY <1>1, <2>1, <2>2 DEF Keeps
<1>2. CASE \E u \in Puts : store'[n].value = u /\ (u \notin before[w] \/ pc'[u] # "ok")
  BY <1>2, PrimaryBackupAssumption DEF Keeps
<1> QED
  BY <1>1, <1>2

\* The same of the clock, which has not been set back.
LEMMA PassedOn ==
    ASSUME WriteInv, TypeOK', NEW n \in Node, NEW w \in Puts, before'[w] = before[w],
           \A v \in Puts : Over(v) => pc'[v] = pc[v],
           ts'[w] = ts[w], clk[n] <= clk'[n], Passed(n, w),
           \/ store'[n] = store[n]
           \/ \E u \in Puts : store'[n].value = u /\ (u \notin before[w] \/ pc'[u] # "ok")
    PROVE  Passed(n, w)'
<1>1. Keeps(n, w)'
  BY KeepsOn DEF Passed
<1>2. ts[w] \in Nat /\ clk[n] \in Nat /\ clk'[n] \in Nat
  BY DEF WriteInv, TypeOK
<1> QED
  BY <1>1, <1>2 DEF Passed

\* Clocks that move forward disturb no write.
LEMMA ClocksKeepWrites ==
    ASSUME WriteInv, TypeOK', OnlyClocksMove
    PROVE  WriteInv'
<1>1. clk \in [Node -> Nat] /\ clk' \in [Node -> Nat] /\ ts \in [Puts -> Nat]
  BY DEF WriteInv, TypeOK
<1>2. \A n \in Node : clk[n] <= clk'[n]
  BY DEF OnlyClocksMove
<1>3. /\ calls' = calls /\ pc' = pc /\ at' = at /\ ts' = ts /\ await' = await
      /\ failed' = failed /\ before' = before /\ store' = store
      /\ crashed' = crashed /\ reborn' = reborn
  BY DEF OnlyClocksMove, writing, processes
<1>4. \A n \in Node, w \in Puts : Passed(n, w) => Passed(n, w)'
  BY <1>2, <1>3, PassedOn
<1>5. SentPassed'
  BY <1>1, <1>2, <1>3 DEF WriteInv, SentPassed, Live
<1>6. AnsweredPassed' /\ AckedPassed'
  BY <1>3, <1>4 DEF WriteInv, AnsweredPassed, AckedPassed
<1> QED
  BY <1>3, <1>5, <1>6 DEF WriteInv, CallsAwaited, BeforeOver, Over

\* Heartbeats, suspicions and elections only move clocks, forward.
LEMMA OtherStepsMoveClocks ==
    ASSUME TypeOK, NEW n \in Node, NEW p \in Node, NEW m,
           \/ SendHeartbeat(n, p) \/ Suspect(n) \/ RunElection(n) \/ Unreachable(n)
           \/ m \in beats /\ (HandleHeartbeat(m) \/ LoseHeartbeat(m))
           \/ AnnounceLeader(m) \/ Lose(m) \/ Win(n, m) \/ Yield(n, m)
    PROVE  OnlyClocksMove
<1> USE DEF detection
<1>1. clk \in [Node -> Nat]
  BY DEF TypeOK
<1>2. CASE SendHeartbeat(n, p) \/ RunElection(n)
  <2>1. clk' = [clk EXCEPT ![n] = Tick(n)] \/ clk' = clk
    BY <1>2 DEF SendHeartbeat, RunElection
  <2>2. Tick(n) \in Nat /\ clk[n] < Tick(n)
    BY <1>1, ClockRules
  <2>3. \A q \in Node : clk[q] <= clk'[q]
    BY <1>1, <2>1, <2>2
  <2>4. UNCHANGED << store, processes, writing >>
    BY <1>2 DEF SendHeartbeat, RunElection
  <2> QED
    BY <2>3, <2>4 DEF OnlyClocksMove
<1>3. CASE m \in beats /\ HandleHeartbeat(m)
  <2>1. m.to \in Node /\ m.ts \in Nat
    BY <1>3 DEF TypeOK
  <2>2. Updated(m.to, m.ts) \in Nat /\ clk[m.to] < Updated(m.to, m.ts)
    BY <1>1, <2>1, ClockRules
  <2>3. clk' = [clk EXCEPT ![m.to] = Updated(m.to, m.ts)]
    BY <1>3 DEF HandleHeartbeat
  <2>4. \A q \in Node : clk[q] <= clk'[q]
    BY <1>1, <2>1, <2>2, <2>3
  <2> QED
    BY <1>3, <2>4 DEF HandleHeartbeat, OnlyClocksMove
<1>4. CASE Suspect(n) \/ Unreachable(n) \/ AnnounceLeader(m) \/ Lose(m)
           \/ Win(n, m) \/ Yield(n, m) \/ LoseHeartbeat(m)
  <2>1. UNCHANGED << clk, store, processes, writing >>
    BY <1>4 DEF Suspect, Unreachable, AnnounceLeader, Lose, Win, Yield, LoseHeartbeat
  <2> QED
    BY <1>1, <2>1 DEF OnlyClocksMove
<1> QED
  BY <1>2, <1>3, <1>4

\* A node that dies takes its own Puts with it, and no other.
LEMMA CrashKeepsWrites ==
    ASSUME WriteInv, NEW n \in Node, Crash(n), TypeOK'
    PROVE  WriteInv'
<1>1. UNCHANGED << clk, store, reborn, calls, at, ts, await, failed, before >>
  BY DEF Crash
<1>2. \A w \in Puts : \/ pc'[w] = pc[w] /\ ~(pc[w] = "sent" /\ at[w] = n)
                      \/ pc[w] = "sent" /\ pc'[w] = "error"
  BY DEF Crash, WriteInv, TypeOK
<1>3. \A w \in Puts : Over(w) => pc'[w] = pc[w]
  BY <1>2 DEF Over
<1>4. CallsAwaited' /\ BeforeOver'
  BY <1>1, <1>2, <1>3 DEF WriteInv, CallsAwaited, BeforeOver, Over
<1>5. \A q \in Node, w \in Puts : Passed(q, w) => Passed(q, w)'
  <2>1. \A q \in Node : clk[q] <= clk'[q]
    BY <1>1 DEF WriteInv, TypeOK
  <2> QED
    BY <1>1, <1>3, <2>1, PassedOn
<1>6. SentPassed'
  <2>1. crashed' = crashed \cup {n}
    BY DEF Crash
  <2> QED
    BY <1>1, <1>2, <2>1 DEF WriteInv, SentPassed, Live
<1>7. AnsweredPassed' /\ AckedPassed'
  BY <1>1, <1>2, <1>5 DEF WriteInv, AnsweredPassed, AckedPassed
<1> QED
  BY <1>4, <1>6, <1>7 DEF WriteInv

\* A node that comes back holds nothing and is not counted on any more.
LEMMA RestartKeepsWrites ==
    ASSUME WriteInv, NEW n \in Node, Restart(n), TypeOK'
    PROVE  WriteInv'
<1>1. /\ calls' = calls /\ pc' = pc /\ at' = at /\ ts' = ts /\ await' = await
      /\ failed' = failed /\ before' = before
      /\ reborn' = reborn \cup {n} /\ crashed' = crashed \ {n} /\ n \in crashed
  BY DEF Restart, writing
<1>2. \A q \in Node : q # n => clk'[q] = clk[q] /\ store'[q] = store[q]
  BY DEF Restart, WriteInv, TypeOK
<1>3. \A q \in Node, w \in Puts : q # n /\ Passed(q, w) => Passed(q, w)'
  <2>1. \A q \in Node : q # n => clk[q] <= clk'[q]
    BY <1>2 DEF WriteInv, TypeOK
  <2> QED
    BY <1>1, <1>2, <2>1, PassedOn
<1>4. SentPassed'
  BY <1>1, <1>2 DEF WriteInv, SentPassed, Live
<1>5. AnsweredPassed' /\ AckedPassed'
  BY <1>1, <1>3 DEF WriteInv, AnsweredPassed, AckedPassed
<1> QED
  BY <1>1, <1>4, <1>5 DEF WriteInv, CallsAwaited, BeforeOver, Over

\* A redirected client has no Put under way.
LEMMA RedirectKeepsWrites ==
    ASSUME WriteInv, NEW w \in Puts, NEW n \in Node, Redirect(w, n), TypeOK'
    PROVE  WriteInv'
<1>1. pc[w] \in {"new", "redirected"}
  BY DEF Redirect, Addressed
<1>2. \A v \in Puts : v # w => pc'[v] = pc[v] /\ at'[v] = at[v]
  BY DEF Redirect, WriteInv, TypeOK
<1>3. pc'[w] \in {"redirected", "unserved"}
  BY DEF Redirect, WriteInv, TypeOK
<1>4. UNCHANGED << clk, store, crashed, reborn, calls, ts, await, failed, before >>
  BY DEF Redirect, detection, processes
<1>5. \A v \in Puts : Over(v) => pc'[v] = pc[v]
  BY <1>1, <1>2 DEF Over
<1>6. CallsAwaited' /\ BeforeOver'
  BY <1>1, <1>2, <1>4, <1>5 DEF WriteInv, CallsAwaited, BeforeOver, Over
<1>7. \A q \in Node, v \in Puts : Passed(q, v) => Passed(q, v)'
  <2>1. \A q \in Node : clk[q] <= clk'[q]
    BY <1>4 DEF WriteInv, TypeOK
  <2> QED
    BY <1>4, <1>5, <2>1, PassedOn
<1>8. SentPassed' /\ AnsweredPassed' /\ AckedPassed'
  BY <1>2, <1>3, <1>4, <1>7 DEF WriteInv, SentPassed, AnsweredPassed, AckedPassed, Live
<1> QED
  BY <1>6, <1>8 DEF WriteInv

\* A Put that starts waits for every peer, and has the primary's new time.
LEMMA PutStartKeepsWrites ==
    ASSUME WriteInv, NEW w \in Puts, NEW n \in Node, PutStart(w, n), TypeOK'
    PROVE  WriteInv'
<1>1. pc[w] \in {"new", "redirected"} /\ n \in Live
  BY DEF PutStart, Addressed
<1>2. clk \in [Node -> Nat] /\ ts \in [Puts -> Nat] /\ Tick(n) \in Nat /\ clk[n] < Tick(n)
  BY ClockRules DEF WriteInv, TypeOK
<1>3. \A v \in Puts : v # w => /\ pc'[v] = pc[v] /\ at'[v] = at[v] /\ ts'[v] = ts[v]
                               /\ await'[v] = await[v] /\ before'[v] = before[v]
  BY DEF PutStart, WriteInv, TypeOK
<1>4. /\ pc'[w] = "sent" /\ at'[w] = n /\ ts'[w] = Tick(n) /\ await'[w] = Node \ {n}
      /\ before'[w] = {v \in Puts : Over(v)}
  BY DEF PutStart, WriteInv, TypeOK
<1>5. /\ clk' = [clk EXCEPT ![n] = Tick(n)] /\ failed' = failed /\ store' = store
      /\ crashed' = crashed /\ reborn' = reborn
      /\ calls' = calls \cup {<< w, p >> : p \in Node \ {n}}
  BY DEF PutStart, detection, processes
<1>6. \A v \in Puts : Over(v) => pc'[v] = pc[v]
  BY <1>1, <1>3 DEF Over
<1>7. CallsAwaited'
  <2> SUFFICES ASSUME NEW v \in Puts, NEW p \in Node, << v, p >> \in calls'
               PROVE  \/ pc'[v] = "error"
                      \/ pc'[v] = "sent" /\ (p \in await'[v] \/ failed'[v])
    BY DEF CallsAwaited
  <2>1. CASE << v, p >> \in calls
    <3>1. v # w
      BY <1>1, <2>1 DEF WriteInv, CallsAwaited
    <3> QED
      BY <1>3, <1>5, <2>1, <3>1 DEF WriteInv, CallsAwaited
  <2>2. CASE v = w /\ p # n
    BY <1>4, <2>2
  <2> QED
    BY <1>5, <2>1, <2>2
<1>8. BeforeOver'
  BY <1>3, <1>4, <1>6 DEF WriteInv, BeforeOver, Over
<1>9. \A q \in Node : clk[q] <= clk'[q]
  BY <1>2, <1>5
<1>10. \A q \in Node, v \in Puts : v # w /\ Passed(q, v) => Passed(q, v)'
  BY <1>3, <1>5, <1>6, <1>9, PassedOn
<1>11. SentPassed'
  <2>1. clk'[n] = Tick(n) /\ \A q \in Node : clk'[q] \in Nat
    BY <1>2, <1>5 DEF TypeOK
  <2> QED
    BY <1>1, <1>2, <1>3, <1>4, <1>5, <1>9, <2>1 DEF WriteInv, SentPassed, Live
<1>12. AnsweredPassed' /\ AckedPassed'
  BY <1>3, <1>4, <1>5, <1>10 DEF WriteInv, AnsweredPassed, AckedPassed
<1> QED
  BY <1>7, <1>8, <1>11, <1>12 DEF WriteInv

\* A peer that answers has stored the write, which has not been acknowledged.
LEMMA ReplicateKeepsWrites ==
    ASSUME WriteInv, NEW w \in Puts, NEW n \in Node, Replicate(w, n), TypeOK'
    PROVE  WriteInv'
<1>1. pc[w] = "error" \/ (pc[w] = "sent" /\ (n \in await[w] \/ failed[w]))
  BY DEF WriteInv, CallsAwaited, Replicate
<1>2. /\ clk \in [Node -> Nat] /\ ts \in [Puts -> Nat] /\ Updated(n, ts[w]) \in Nat
      /\ ts[w] < Updated(n, ts[w]) /\ clk[n] < Updated(n, ts[w])
  BY ClockRules DEF WriteInv, TypeOK
<1>3. /\ pc' = pc /\ at' = at /\ ts' = ts /\ failed' = failed /\ before' = before
      /\ crashed' = crashed /\ reborn' = reborn
      /\ clk' = [clk EXCEPT ![n] = Updated(n, ts[w])]
      /\ store' = [store EXCEPT ![n] = [value |-> w, ts |-> ts[w]]]
      /\ calls' = calls \ {<< w, n >>}
  BY DEF Replicate, Write, detection, processes
<1>4. store'[n].value = w /\ \A q \in Node : q # n => store'[q] = store[q]
  BY <1>3 DEF WriteInv, TypeOK
<1>5. \A v \in Puts, q \in Node : q \in await[v] => q \in await'[v] \/ (v = w /\ q = n)
  <2>1. await' = [await EXCEPT ![w] = @ \ {n}] \/ await' = await
    BY DEF Replicate
  <2> QED
    BY <2>1 DEF WriteInv, TypeOK
<1>6. CallsAwaited' /\ BeforeOver'
  BY <1>3, <1>5 DEF WriteInv, CallsAwaited, BeforeOver, Over
<1>7. \A q \in Node : clk[q] <= clk'[q] /\ clk'[q] \in Nat
  BY <1>2, <1>3 DEF TypeOK
<1>8. \A q \in Node, v \in Puts : Passed(q, v) => Passed(q, v)'
  <2> SUFFICES ASSUME NEW q \in Node, NEW v \in Puts, Passed(q, v) PROVE Passed(q, v)'
    OBVIOUS
  <2>1. \/ store'[q] = store[q]
        \/ \E u \in Puts : store'[q].value = u /\ (u \notin before[v] \/ pc'[u] # "ok")
    BY <1>1, <1>3, <1>4
  <2> QED
    BY <1>3, <1>7, <2>1, PassedOn
<1>9. Passed(n, w)'
  <2>1. Keeps(n, w)'
    <3>1. \E u \in Puts : store'[n].value = u /\ (u \notin before[w] \/ pc'[u] # "ok")
      BY <1>1, <1>3, <1>4
    <3> QED
      BY <1>3, <3>1, KeepsOn
  <2>2. ts'[w] <= clk'[n]
    BY <1>2, <1>3
  <2> QED
    BY <2>1, <2>2 DEF Passed
<1>10. SentPassed'
  BY <1>2, <1>3, <1>7 DEF WriteInv, SentPassed, Live
<1>11. AnsweredPassed' /\ AckedPassed'
  BY <1>3, <1>5, <1>8, <1>9 DEF WriteInv, AnsweredPassed, AckedPassed
<1> QED
  BY <1>6, <1>10, <1>11 DEF WriteInv

\* A peer that is given up on leaves an error behind.
LEMMA TimeoutKeepsWrites ==
    ASSUME WriteInv, NEW w \in Puts, NEW n \in Node, ReplicateTimeout(w, n), TypeOK'
    PROVE  WriteInv'
<1>1. UNCHANGED << clk, store, crashed, reborn, calls, pc, at, ts, before >>
  BY DEF ReplicateTimeout, detection, processes
<1>2. failed'[w] /\ \A v \in Puts : v # w => failed'[v] = failed[v] /\ await'[v] = await[v]
  BY DEF ReplicateTimeout, WriteInv, TypeOK
<1>3. \A q \in Node, v \in Puts : Passed(q, v)' <=> Passed(q, v)
  BY <1>1 DEF Passed, Keeps
<1> QED
  BY <1>1, <1>2, <1>3 DEF WriteInv, CallsAwaited, BeforeOver, Over, SentPassed, Live,
     AnsweredPassed, AckedPassed

\* When wg.Wait() returns without an error every peer has the write, or one to
\* follow it; the primary adds its own copy before it answers.
LEMMA PutReturnKeepsWrites ==
    ASSUME WriteInv, NEW w \in Puts, PutReturn(w), TypeOK'
    PROVE  WriteInv'
<1>1. pc[w] = "sent" /\ await[w] = {} /\ at[w] \in Node /\ ~Over(w)
  BY DEF PutReturn, Answered, Live, Over
<1>2. UNCHANGED << clk, crashed, reborn, calls, at, ts, await, failed, before >>
  BY DEF PutReturn, detection, processes
<1>3. \A v \in Puts : v # w => pc'[v] = pc[v]
  BY DEF PutReturn, WriteInv, TypeOK
<1>4. pc'[w] = IF failed[w] THEN "error" ELSE "ok"
  BY DEF PutReturn, WriteInv, TypeOK
<1>5. \A v \in Puts : Over(v) => pc'[v] = pc[v]
  BY <1>1, <1>3
<1>6. CallsAwaited'
  BY <1>1, <1>2, <1>3, <1>4 DEF WriteInv, CallsAwaited
<1>7. BeforeOver' /\ SentPassed'
  BY <1>2, <1>3, <1>4, <1>5 DEF WriteInv, BeforeOver, Over, SentPassed, Live
<1>8. \A v \in Puts : w \notin before[v]
  BY <1>1 DEF WriteInv, BeforeOver
<1>9. \A q \in Node : store'[q] = store[q] \/ (store'[q].value = w /\ q = at[w])
  <2>1. store' = store \/ store' = [store EXCEPT ![at[w]] = [value |-> w, ts |-> ts[w]]]
    BY DEF PutReturn, Write
  <2> QED
    BY <1>1, <2>1 DEF WriteInv, TypeOK
<1>10. \A q \in Node, v \in Puts : Passed(q, v) => Passed(q, v)'
  <2>1. \A q \in Node : clk[q] <= clk'[q]
    BY <1>2 DEF WriteInv, TypeOK
  <2> QED
    BY <1>2, <1>5, <1>8, <1>9, <2>1, PassedOn
<1>11. AnsweredPassed'
  BY <1>2, <1>3, <1>4, <1>10 DEF WriteInv, AnsweredPassed
<1>12. ASSUME ~failed[w], NEW q \in Node \ reborn PROVE Passed(q, w)'
  <2>1. CASE q # at[w]
    BY <1>1, <1>10, <1>12, <2>1 DEF WriteInv, AnsweredPassed
  <2>2. CASE q = at[w]
    <3>1. store' = [store EXCEPT ![at[w]] = [value |-> w, ts |-> ts[w]]]
      BY <1>12 DEF PutReturn, Write
    <3>2. store'[q].value = w
      BY <2>2, <3>1 DEF WriteInv, TypeOK
    <3>3. Keeps(q, w)'
      BY <1>2, <1>5, <1>8, <3>2, KeepsOn
    <3>4. ts'[w] <= clk'[q]
      BY <1>1, <1>2, <2>2 DEF WriteInv, SentPassed
    <3> QED
      BY <3>3, <3>4 DEF Passed
  <2> QED
    BY <2>1, <2>2
<1>13. AckedPassed'
  BY <1>2, <1>3, <1>4, <1>10, <1>12 DEF WriteInv, AckedPassed
<1> QED
  BY <1>6, <1>7, <1>11, <1>13 DEF WriteInv

\* The invariant about the writes is inductive.
LEMMA NextWriteInv == WriteInv /\ [Next]_vars => WriteInv'
<1> SUFFICES ASSUME WriteInv, [Next]_vars PROVE WriteInv'
  OBVIOUS
<1>1. TypeOK /\ TypeOK'
  BY NextTypeOK DEF WriteInv
<1>2. CASE UNCHANGED vars
  <2>1. clk \in [Node -> Nat] /\ clk' = clk /\ UNCHANGED << store, processes, writing >>
    BY <1>1, <1>2 DEF TypeOK, vars, detection
  <2> QED
    BY <1>1, <2>1, ClocksKeepWrites DEF OnlyClocksMove
<1>3. CASE Next
  <2>1. CASE \E w \in Puts, n \in Node :
               Redirect(w, n) \/ PutStart(w, n) \/ Replicate(w, n) \/ ReplicateTimeout(w, n)
    BY <1>1, <2>1, RedirectKeepsWrites, PutStartKeepsWrites, ReplicateKeepsWrites,
       TimeoutKeepsWrites
  <2>2. CASE \E w \in Puts : PutReturn(w)
    BY <1>1, <2>2, PutReturnKeepsWrites
  <2>3. CASE \E n, p \in Node, m \in msgs \cup beats \cup {Nil} :
               \/ SendHeartbeat(n, p) \/ Suspect(n) \/ RunElection(n) \/ Unreachable(n)
               \/ m \in beats /\ (HandleHeartbeat(m) \/ LoseHeartbeat(m))
               \/ AnnounceLeader(m) \/ Lose(m) \/ Win(n, m) \/ Yield(n, m)
    BY <1>1, <2>3, OtherStepsMoveClocks, ClocksKeepWrites
  <2>4. CASE \E n \in Node : Crash(n) \/ Restart(n)
    BY <1>1, <2>4, CrashKeepsWrites, RestartKeepsWrites
  <2>5. 0 \in Node
    BY PrimaryBackupAssumption DEF Node
  <2> QED
    BY <1>3, <2>1, <2>2, <2>3, <2>4, <2>5 DEF Next
<1> QED
  BY <1>2, <1>3

\* The invariant about the writes holds on every run.
LEMMA WritesInvariant == Spec => []WriteInv
  BY InitWriteInv, NextWriteInv, PTL DEF Spec

\* A Put that was answered OK is stored by every node and stays, but for later
\* writes: the parallel Replicate calls of Put, wg.Wait() and the primary's own
\* Store.Put, with timeouts, late calls, crashes and restarts in between.
THEOREM AckedWritesStay == Spec => []AckedStays
<1>1. WriteInv => AckedStays
  BY DEF WriteInv, AckedPassed, Passed, AckedStays
<1> QED
  BY <1>1, WritesInvariant, PTL

\* A step that starts a Put gives it a timestamp beyond those of all the
\* acknowledged ones: every clock that has not been set back has passed them.
LEMMA StartIsLater ==
    ASSUME WriteInv, [Next]_vars, NEW v \in Puts, NEW w \in Puts,
           pc[v] = "ok", pc[w] # "sent", pc'[w] = "sent", at'[w] \notin reborn
    PROVE  ts[v] < ts'[w]
<1>1. PICK n \in Node : PutStart(w, n)
  <2>1. pc \in [Puts -> {"new", "redirected", "sent", "ok", "error", "unserved"}]
    BY DEF WriteInv, TypeOK
  <2>2. pc' # pc
    OBVIOUS
  <2>3. ASSUME NEW u \in Puts, NEW n \in Node, Redirect(u, n) PROVE FALSE
    BY <2>1, <2>3 DEF Redirect
  <2>4. ASSUME NEW u \in Puts, PutReturn(u) PROVE FALSE
    BY <2>1, <2>4 DEF PutReturn
  <2>5. ASSUME NEW u \in Puts, NEW n \in Node, PutStart(u, n) PROVE u = w
    BY <2>1, <2>5 DEF PutStart
  <2>6. ASSUME NEW u \in Puts, NEW n \in Node, Replicate(u, n) \/ ReplicateTimeout(u, n)
        PROVE FALSE
    BY <2>2, <2>6 DEF Replicate, ReplicateTimeout
  <2>7. ASSUME NEW n \in Node, NEW p \in Node, NEW m,
               \/ SendHeartbeat(n, p) \/ Suspect(n) \/ RunElection(n) \/ Unreachable(n)
               \/ m \in beats /\ (HandleHeartbeat(m) \/ LoseHeartbeat(m))
               \/ AnnounceLeader(m) \/ Lose(m) \/ Win(n, m) \/ Yield(n, m)
        PROVE FALSE
    <3>1. OnlyClocksMove
      BY <2>7, OtherStepsMoveClocks DEF WriteInv
    <3> QED
      BY <2>2, <3>1 DEF OnlyClocksMove, writing
  <2>8. Next
    BY <2>2 DEF vars, writing
  <2>9. 0 \in Node
    BY PrimaryBackupAssumption DEF Node
  <2>10. ASSUME NEW n \in Node, Crash(n) \/ Restart(n) PROVE FALSE
    <3>1. pc'[w] = pc[w] \/ pc'[w] = "error"
      BY <2>1, <2>10 DEF Crash, Restart, writing
    <3> QED
      BY <3>1
  <2> QED
    BY <2>3, <2>4, <2>5, <2>6, <2>7, <2>8, <2>9, <2>10 DEF Next
<1>2. ts'[w] = Tick(n) /\ clk[n] < Tick(n) /\ ts[v] \in Nat /\ clk[n] \in Nat /\ Tick(n) \in Nat
  BY <1>1, ClockRules DEF PutStart, WriteInv, TypeOK
<1>3. ts[v] <= clk[n]
  <2>1. at'[w] = n
    BY <1>1 DEF PutStart, WriteInv, TypeOK
  <2> QED
    BY <2>1 DEF WriteInv, AckedPassed, Passed
<1> QED
  BY <1>2, <1>3

\* A Put that starts after another was acknowledged gets a larger timestamp,
\* whichever node is primary by then: LamportClock.Tick and Update, and the
\* acknowledgement only after every peer has updated its clock.
THEOREM LaterWritesHaveLaterTimestamps == Spec => TimestampsOrdered
<1>1. WriteInv /\ [Next]_vars =>
        [\A v, w \in Puts :
           pc[v] = "ok" /\ pc[w] # "sent" /\ pc'[w] = "sent" /\ at'[w] \notin reborn
             => ts[v] < ts'[w]]_vars
  BY StartIsLater
<1> QED
  BY <1>1, WritesInvariant, PTL DEF Spec, TimestampsOrdered

-----------------------------------------------------------------------------
(***************************************************************************)
(* Elections among the three nodes of the course's cluster, when only a    *)
(* node that has crashed is suspected, and stays down.  Clocks only move   *)
(* forward, but who sends a heartbeat may be far ahead of who gets it, and *)
(* it may arrive in the middle of an election.  Nobody stands before node  *)
(* 0 crashes, which takes no part afterwards, so a candidate can win only  *)
(* by the answer of the other backup.  Ahead(n) says that n has won,       *)
(* or has the answer it needs on its way.  The other backup then believes  *)
(* in n, so that it can stand again only by asking node 0; and if it is    *)
(* standing already, its claim is the weaker one, so that n has refused it *)
(* or will.                                                                *)
(***************************************************************************)
Granted(n) ==
    \E m \in msgs : /\ m.type = "reply" /\ m.to = n /\ m.accepted
                    /\ role[n] = "Candidate" /\ asked[n] = m.from
                    /\ m.ts = electionTs[n]

Ahead(n) == role[n] = "Primary" \/ Granted(n)

Beats(n, p) ==
    electionTs[n] > electionTs[p] \/ (electionTs[n] = electionTs[p] /\ n > p)

QuietBeforeCrash ==
    0 \notin crashed =>
        /\ msgs = {}
        /\ \A n \in Node : /\ launched[n] = 0 /\ primaryID[n] = 0
                           /\ n # 0 => role[n] = "Backup"

ZeroStays ==
    /\ role[0] = "Primary" /\ launched[0] = 0
    /\ \A m \in msgs : m.from # 0 /\ m.from # m.to

ClaimsAreOld ==
    /\ \A n \in Node : electionTs[n] <= clk[n]
    /\ \A m \in msgs : /\ m.type = "call" => m.ts <= electionTs[m.from]
                       /\ m.type = "reply" => m.ts <= electionTs[m.to]

OneAhead ==
    \A n, p \in Node \ {0} : n # p /\ Ahead(n) =>
        /\ role[p] # "Primary" /\ primaryID[p] = n
        /\ role[p] = "Candidate" /\ asked[p] = n => Beats(n, p)

DuelInv == TypeOK /\ QuietBeforeCrash /\ ZeroStays /\ ClaimsAreOld /\ OneAhead

\* The course's cluster and a monitor that only suspects who has crashed.
Trio == NumNodes = 3 /\ MayMisjudge = FALSE

\* The three nodes.
LEMMA TrioNodes == Trio => Node = {0, 1, 2}
  BY DEF Trio, Node

\* Before the first crash nobody stands.
LEMMA InitDuelInv == Init => DuelInv
<1> SUFFICES ASSUME Init PROVE DuelInv
  OBVIOUS
<1>1. 0 \in Node
  BY PrimaryBackupAssumption DEF Node
<1>2. QuietBeforeCrash /\ ZeroStays /\ ClaimsAreOld
  BY <1>1 DEF Init, FirstRole, QuietBeforeCrash, ZeroStays, ClaimsAreOld
<1>3. OneAhead
  BY DEF Init, FirstRole, OneAhead, Ahead, Granted
<1> QED
  BY <1>2, <1>3, InitTypeOK DEF DuelInv

\* Nothing but a candidate's own steps and an accepting answer puts it ahead.
LEMMA AheadBefore ==
    ASSUME NEW n \in Node, role'[n] = role[n], asked'[n] = asked[n],
           electionTs'[n] = electionTs[n],
           \A m \in msgs' : m \in msgs \/ m.type = "call", Ahead(n)'
    PROVE  Ahead(n)
  BY DEF Ahead, Granted

\* The steps of a Put and heartbeats take no part in an election.
LEMMA BystandersKeepDuel ==
    ASSUME DuelInv, TypeOK', UNCHANGED << election, crashed >>,
           \A n \in Node : clk[n] <= clk'[n]
    PROVE  DuelInv'
<1>1. /\ role' = role /\ primaryID' = primaryID /\ electionTs' = electionTs
      /\ launched' = launched /\ asked' = asked /\ msgs' = msgs
  BY DEF election
<1>2. QuietBeforeCrash' /\ ZeroStays'
  BY <1>1 DEF DuelInv, QuietBeforeCrash, ZeroStays
<1>3. ClaimsAreOld'
  BY <1>1 DEF DuelInv, ClaimsAreOld, TypeOK
<1>4. OneAhead'
  BY <1>1 DEF DuelInv, OneAhead, Ahead, Granted, Beats
<1> QED
  BY <1>2, <1>3, <1>4 DEF DuelInv

\* A crash leaves the announcements of the node that dies without an answer.
LEMMA CrashKeepsDuel ==
    ASSUME DuelInv, TypeOK', NEW n \in Node, Crash(n)
    PROVE  DuelInv'
<1>1. UNCHANGED << role, primaryID, electionTs, launched, asked, clk >>
  BY DEF Crash
<1>2. \A m \in msgs' :
        \/ m \in msgs
        \/ /\ m.type = "call"
           /\ \E k \in msgs : /\ k.type = "call" /\ m.from = k.from
                            /\ m.to = k.to /\ m.ts = k.ts
  BY DEF Crash, Announce
<1>3. crashed \subseteq crashed'
  BY DEF Crash
<1>4. QuietBeforeCrash' /\ ZeroStays'
  BY <1>1, <1>2, <1>3 DEF DuelInv, QuietBeforeCrash, ZeroStays
<1>5. ClaimsAreOld'
  BY <1>1, <1>2 DEF DuelInv, ClaimsAreOld
<1>6. \A q \in Node : Ahead(q)' => Ahead(q)
  BY <1>1, <1>2, AheadBefore
<1>7. OneAhead'
  BY <1>1, <1>6 DEF DuelInv, OneAhead, Beats
<1> QED
  BY <1>4, <1>5, <1>7 DEF DuelInv

\* A monitor suspects node 0 only after it has crashed.
LEMMA SuspectKeepsDuel ==
    ASSUME Trio, DuelInv, TypeOK', reborn = {}, NEW n \in Node, Suspect(n)
    PROVE  DuelInv'
<1>1. UNCHANGED << role, primaryID, electionTs, asked, msgs, clk, crashed >>
  BY DEF Suspect, detection, processes
<1>2. primaryID[n] \in crashed /\ role[n] = "Backup"
  BY DEF Suspect, Trio
<1>3. 0 \in crashed
  BY <1>2 DEF DuelInv, QuietBeforeCrash
<1>4. n # 0
  BY <1>2 DEF DuelInv, ZeroStays
<1>5. launched'[0] = launched[0]
  <2>1. 0 \in Node /\ launched' = [launched EXCEPT ![n] = @ + 1]
    BY PrimaryBackupAssumption DEF Suspect, Node
  <2> QED
    BY <1>4, <2>1 DEF DuelInv, TypeOK
<1>6. QuietBeforeCrash' /\ ZeroStays' /\ ClaimsAreOld'
  BY <1>1, <1>3, <1>5 DEF DuelInv, QuietBeforeCrash, ZeroStays, ClaimsAreOld
<1>7. OneAhead'
  BY <1>1 DEF DuelInv, OneAhead, Ahead, Granted, Beats
<1> QED
  BY <1>6, <1>7 DEF DuelInv

\* A candidate that gives up, and a message that is lost, put nobody ahead.
LEMMA GivingUpKeepsDuel ==
    ASSUME DuelInv, TypeOK', NEW n \in Node, NEW m, Unreachable(n) \/ Lose(m)
    PROVE  DuelInv'
<1> USE DEF detection, processes
<1>1. UNCHANGED << primaryID, electionTs, launched, clk, crashed >> /\ msgs' \subseteq msgs
  BY DEF Unreachable, Lose
<1>2. \A q \in Node : \/ role'[q] = role[q] /\ asked'[q] = asked[q]
                      \/ role[q] = "Candidate" /\ role'[q] = "Backup"
  BY DEF Unreachable, Lose, DuelInv, TypeOK
<1>3. 0 \in Node
  BY PrimaryBackupAssumption DEF Node
<1>4. QuietBeforeCrash' /\ ZeroStays' /\ ClaimsAreOld'
  BY <1>1, <1>2, <1>3 DEF DuelInv, QuietBeforeCrash, ZeroStays, ClaimsAreOld
<1>5. \A q \in Node : Ahead(q)' => Ahead(q)
  BY <1>1, <1>2 DEF Ahead, Granted
<1>6. OneAhead'
  BY <1>1, <1>2, <1>5 DEF DuelInv, OneAhead, Beats
<1> QED
  BY <1>4, <1>6 DEF DuelInv

\* A backup that stands makes a new claim, which nobody has answered; when
\* the other one is ahead it asks node 0.
LEMMA RunElectionKeepsDuel ==
    ASSUME Trio, DuelInv, TypeOK', NEW n \in Node, RunElection(n)
    PROVE  DuelInv'
<1> USE DEF detection, processes
<1>1. Node = {0, 1, 2}
  BY TrioNodes
<1>2. n # 0 /\ 0 \in crashed
  BY <1>1 DEF RunElection, DuelInv, QuietBeforeCrash, ZeroStays
<1>3. UNCHANGED << primaryID, crashed >> /\ launched'[0] = launched[0]
  BY <1>1, <1>2 DEF RunElection, DuelInv, TypeOK
<1>4. CASE role[n] # "Backup"
  <2>1. UNCHANGED << clk, role, electionTs, asked, msgs >>
    BY <1>4 DEF RunElection
  <2> QED
    BY <1>2, <1>3, <2>1 DEF DuelInv, QuietBeforeCrash, ZeroStays, ClaimsAreOld,
       OneAhead, Ahead, Granted, Beats
<1>5. CASE role[n] = "Backup"
  <2>1. PICK p \in Node \ {n, primaryID[n]} :
          /\ clk' = [clk EXCEPT ![n] = Tick(n)]
          /\ role' = [role EXCEPT ![n] = "Candidate"]
          /\ electionTs' = [electionTs EXCEPT ![n] = Tick(n)]
          /\ asked' = [asked EXCEPT ![n] = p]
          /\ msgs' = msgs \cup {Announce(n, p, Tick(n), TRUE)}
    BY <1>5 DEF RunElection
  <2>2. /\ clk \in [Node -> Nat] /\ electionTs \in [Node -> Nat]
        /\ Tick(n) \in Nat /\ clk[n] < Tick(n)
    BY ClockRules DEF DuelInv, TypeOK
  <2>3. /\ clk'[n] = Tick(n) /\ electionTs'[n] = Tick(n)
        /\ role'[n] = "Candidate" /\ asked'[n] = p
    BY <2>1, <2>2 DEF DuelInv, TypeOK
  <2>4. \A q \in Node : q # n => /\ clk'[q] = clk[q] /\ electionTs'[q] = electionTs[q]
                                 /\ role'[q] = role[q] /\ asked'[q] = asked[q]
    BY <2>1 DEF DuelInv, TypeOK
  <2>5. \A m \in msgs' : \/ m \in msgs
                         \/ m.type = "call" /\ m.from = n /\ m.to = p /\ m.ts = Tick(n)
    BY <2>1 DEF Announce
  <2>6. \A m \in msgs : m \in MessageType
    BY DEF DuelInv, TypeOK
  <2>7. QuietBeforeCrash' /\ ZeroStays'
    BY <1>1, <1>2, <1>3, <2>4, <2>5 DEF DuelInv, QuietBeforeCrash, ZeroStays
  <2>8. \A q \in Node : electionTs[q] <= electionTs'[q] /\ electionTs[q] <= clk[q]
    BY <2>2, <2>3, <2>4 DEF DuelInv, ClaimsAreOld
  <2>9. ClaimsAreOld'
    <3>1. \A q \in Node : electionTs'[q] <= clk'[q]
      BY <2>2, <2>3, <2>4, <2>8
    <3>2. ASSUME NEW m \in msgs
          PROVE  /\ m.type = "call" => m.ts <= electionTs'[m.from]
                 /\ m.type = "reply" => m.ts <= electionTs'[m.to]
      <4>1. m.from \in Node /\ m.to \in Node /\ m.ts \in Nat
        BY <2>6, MessageFields
      <4>2. electionTs'[m.from] \in Nat /\ electionTs'[m.to] \in Nat
        BY <4>1 DEF TypeOK
      <4> QED
        BY <2>2, <2>8, <4>1, <4>2 DEF DuelInv, ClaimsAreOld
    <3>3. \A m \in msgs' : m.type = "call" => m.ts <= electionTs'[m.from]
      BY <2>2, <2>3, <2>5, <3>2
    <3>4. \A m \in msgs' : m.type = "reply" => m.ts <= electionTs'[m.to]
      BY <2>5, <3>2
    <3> QED
      BY <3>1, <3>3, <3>4 DEF ClaimsAreOld
  <2>10. ~Ahead(n)'
    <3>1. ASSUME NEW m \in msgs', m.type = "reply", m.to = n PROVE m.ts # Tick(n)
      <4>1. m \in msgs
        BY <2>5, <3>1
      <4>2. m.ts \in Nat /\ m.ts <= electionTs[n]
        BY <2>6, <3>1, <4>1, MessageFields DEF DuelInv, ClaimsAreOld
      <4> QED
        BY <2>2, <2>8, <4>2
    <3> QED
      BY <2>3, <3>1 DEF Ahead, Granted
  <2>11. \A q \in Node : q # n /\ Ahead(q)' => Ahead(q)
    BY <2>4, <2>5, AheadBefore
  <2>12. OneAhead'
    <3>1. ASSUME NEW q \in Node \ {0}, NEW r \in Node \ {0}, q # r, Ahead(q)'
          PROVE  /\ role'[r] # "Primary" /\ primaryID'[r] = q
                 /\ role'[r] = "Candidate" /\ asked'[r] = q => Beats(q, r)'
      <4>1. q # n /\ r = n
        BY <1>1, <1>2, <2>10, <3>1
      <4>2. primaryID[n] = q
        BY <2>11, <3>1, <4>1 DEF DuelInv, OneAhead
      <4>3. p = 0
        BY <1>1, <1>2, <3>1, <4>1, <4>2
      <4> QED
        BY <1>3, <2>3, <4>1, <4>2, <4>3
    <3> QED
      BY <3>1 DEF OneAhead
  <2> QED
    BY <2>7, <2>9, <2>12 DEF DuelInv
<1> QED
  BY <1>4, <1>5

\* A node accepts an announcement only from who is ahead of it: a candidate
\* compares with its claim, and a primary's clock has passed its own.
LEMMA AnnounceKeepsDuel ==
    ASSUME Trio, DuelInv, TypeOK', NEW m \in msgs, AnnounceLeader(m)
    PROVE  DuelInv'
<1> USE DEF detection, processes
<1> DEFINE n == m.to
           p == m.from
           localTs == IF role[n] = "Candidate" THEN electionTs[n] ELSE clk[n]
           reply(a) == [type |-> "reply", from |-> n, to |-> p, ts |-> m.ts, accepted |-> a]
<1>1. Node = {0, 1, 2}
  BY TrioNodes
<1>2. n \in Node /\ p \in Node /\ m.ts \in Nat /\ m.type = "call"
  BY MessageFields DEF AnnounceLeader, DuelInv, TypeOK
<1>3. 0 \in crashed /\ n # 0 /\ p # 0 /\ n # p
  BY DEF AnnounceLeader, Live, DuelInv, QuietBeforeCrash, ZeroStays
<1>4. UNCHANGED << role, electionTs, launched, asked, clk, crashed >>
  BY DEF AnnounceLeader
<1>5. PICK accept \in BOOLEAN :
        /\ accept = Stronger(m, n, localTs)
        /\ primaryID' = IF accept THEN [primaryID EXCEPT ![n] = p] ELSE primaryID
        /\ msgs' = (msgs \ {m}) \cup (IF m.ask THEN {reply(accept)} ELSE {})
  BY Zenon DEF AnnounceLeader, Stronger
<1>6. \A k \in msgs' : k \in msgs \/ k = reply(accept)
  BY <1>5
<1> HIDE DEF n, p, localTs
<1>7. m.ts <= electionTs[p]
  BY <1>2 DEF DuelInv, ClaimsAreOld, p
<1>8. /\ electionTs[n] \in Nat /\ electionTs[p] \in Nat /\ clk[n] \in Nat
      /\ electionTs[n] <= clk[n] /\ electionTs[n] <= localTs /\ localTs \in Nat
  BY <1>2 DEF DuelInv, TypeOK, ClaimsAreOld, localTs
<1>9. QuietBeforeCrash' /\ ZeroStays'
  BY <1>3, <1>4, <1>6 DEF DuelInv, QuietBeforeCrash, ZeroStays
<1>10. ClaimsAreOld'
  BY <1>4, <1>6, <1>7 DEF DuelInv, ClaimsAreOld
<1>11. Ahead(n)' => Ahead(n)
  BY <1>3, <1>4, <1>6 DEF Ahead, Granted
<1>12. /\ primaryID'[p] = primaryID[p]
       /\ primaryID'[n] = IF accept THEN p ELSE primaryID[n]
  BY <1>2, <1>3, <1>5 DEF DuelInv, TypeOK
<1>13. ASSUME Ahead(n)'
       PROVE  /\ role[p] # "Primary" /\ primaryID'[p] = n
              /\ role[p] = "Candidate" /\ asked[p] = n => Beats(n, p)
  BY <1>2, <1>3, <1>11, <1>12, <1>13 DEF DuelInv, OneAhead
<1>14. ASSUME Ahead(p)'
       PROVE  /\ role[n] # "Primary" /\ primaryID'[n] = p
              /\ role[n] = "Candidate" /\ asked[n] = p => Beats(p, n)
  <2>1. CASE Ahead(p)
    BY <1>2, <1>3, <1>12, <2>1 DEF DuelInv, OneAhead
  <2>2. CASE ~Ahead(p)
    <3>1. /\ role[p] = "Candidate" /\ asked[p] = n /\ m.ts = electionTs[p]
          /\ reply(accept).accepted
      BY <1>4, <1>6, <1>14, <2>2 DEF Ahead, Granted
    <3>2. accept
      BY <3>1
    <3>3. electionTs[p] > localTs \/ (electionTs[p] = localTs /\ p > n)
      BY <1>5, <3>1, <3>2 DEF Stronger, p
    <3>4. role[n] # "Primary"
      <4> SUFFICES ASSUME role[n] = "Primary" PROVE FALSE
        OBVIOUS
      <4>1. Beats(n, p)
        BY <1>2, <1>3, <3>1 DEF DuelInv, OneAhead, Ahead
      <4> QED
        BY <1>1, <1>2, <1>8, <3>3, <4>1 DEF Beats
    <3>5. role[n] = "Candidate" => Beats(p, n)
      BY <3>3 DEF Beats, localTs
    <3> QED
      BY <1>12, <3>2, <3>4, <3>5
  <2> QED
    BY <2>1, <2>2
<1>15. OneAhead'
  <2>1. \A q, r \in Node \ {0} : q # r => (q = n /\ r = p) \/ (q = p /\ r = n)
    BY <1>1, <1>2, <1>3
  <2>2. \A q, r \in Node : Beats(q, r)' <=> Beats(q, r)
    BY <1>4 DEF Beats
  <2> QED
    BY <1>2, <1>4, <1>13, <1>14, <2>1, <2>2 DEF OneAhead
<1> QED
  BY <1>9, <1>10, <1>15 DEF DuelInv

\* A candidate that wins was ahead, so the other one is not.
LEMMA WinKeepsDuel ==
    ASSUME Trio, DuelInv, TypeOK', NEW n \in Node, NEW m \in msgs, Win(n, m)
    PROVE  DuelInv'
<1> USE DEF detection, processes
<1>1. Node = {0, 1, 2}
  BY TrioNodes
<1>2. /\ m.type = "reply" /\ m.to = n /\ m.accepted /\ role[n] = "Candidate"
      /\ asked[n] = m.from /\ m.ts = electionTs[n]
  BY DEF Win, Asking
<1>3. n # 0 /\ 0 \in crashed
  BY <1>2 DEF DuelInv, QuietBeforeCrash, ZeroStays
<1>4. UNCHANGED << electionTs, launched, clk, crashed >>
  BY DEF Win
<1>5. role'[n] = "Primary" /\ primaryID'[n] = n /\ asked'[n] = Nil
  BY DEF Win, DuelInv, TypeOK
<1>6. \A q \in Node : q # n => /\ role'[q] = role[q] /\ primaryID'[q] = primaryID[q]
                               /\ asked'[q] = asked[q]
  BY DEF Win, DuelInv, TypeOK
<1>7. \A k \in msgs' : \/ k \in msgs
                       \/ /\ k.type = "call" /\ k.from = n /\ k.to # n
                          /\ k.ts = electionTs[n]
  BY <1>2 DEF Win, Announce
<1>8. QuietBeforeCrash' /\ ZeroStays'
  BY <1>1, <1>3, <1>4, <1>6, <1>7 DEF DuelInv, QuietBeforeCrash, ZeroStays
<1>9. ClaimsAreOld'
  BY <1>4, <1>7 DEF DuelInv, ClaimsAreOld, TypeOK
<1>10. Ahead(n)
  BY <1>2 DEF Ahead, Granted
<1>11. ASSUME NEW q \in Node \ {0}, q # n
       PROVE  /\ ~Ahead(q)' /\ role'[q] # "Primary" /\ primaryID'[q] = n
              /\ role'[q] = "Candidate" /\ asked'[q] = n => Beats(n, q)'
  <2>1. /\ role[q] # "Primary" /\ primaryID[q] = n
        /\ role[q] = "Candidate" /\ asked[q] = n => Beats(n, q)
    BY <1>3, <1>10, <1>11 DEF DuelInv, OneAhead
  <2>2. ~Ahead(q)
    <3> SUFFICES ASSUME Ahead(q) PROVE FALSE
      OBVIOUS
    <3>1. role[q] = "Candidate" /\ asked[q] = n
      <4>1. PICK k \in msgs : /\ k.type = "reply" /\ k.to = q
                              /\ role[q] = "Candidate" /\ asked[q] = k.from
        BY <2>1 DEF Ahead, Granted
      <4>2. k.from \in Node /\ k.from # 0 /\ k.from # q
        BY <4>1, MessageFields DEF DuelInv, ZeroStays, TypeOK
      <4> QED
        BY <1>1, <1>3, <1>11, <4>1, <4>2
    <3>2. asked[n] = q
      <4>1. m.from \in Node /\ m.from # 0 /\ m.from # n
        BY <1>2, MessageFields DEF DuelInv, ZeroStays, TypeOK
      <4> QED
        BY <1>1, <1>2, <1>3, <1>11, <4>1
    <3>3. Beats(n, q) /\ Beats(q, n)
      BY <1>2, <1>3, <1>11, <2>1, <3>1, <3>2 DEF DuelInv, OneAhead
    <3>4. electionTs[n] \in Nat /\ electionTs[q] \in Nat
      BY DEF DuelInv, TypeOK
    <3> QED
      BY <1>1, <3>3, <3>4 DEF Beats
  <2>3. ~Ahead(q)'
    BY <1>4, <1>6, <1>7, <1>11, <2>2, AheadBefore
  <2> QED
    BY <1>4, <1>6, <1>11, <2>1, <2>3 DEF Beats
<1>12. OneAhead'
  <2>1. ASSUME NEW q \in Node \ {0}, NEW r \in Node \ {0}, q # r, Ahead(q)'
        PROVE  /\ role'[r] # "Primary" /\ primaryID'[r] = q
               /\ role'[r] = "Candidate" /\ asked'[r] = q => Beats(q, r)'
    <3>1. q = n
      BY <1>11, <2>1
    <3> QED
      BY <1>11, <2>1, <3>1
  <2> QED
    BY <2>1 DEF OneAhead
<1> QED
  BY <1>8, <1>9, <1>12 DEF DuelInv

\* A candidate that yields takes the other one for primary.
LEMMA YieldKeepsDuel ==
    ASSUME Trio, DuelInv, TypeOK', NEW n \in Node, NEW m \in msgs, Yield(n, m)
    PROVE  DuelInv'
<1> USE DEF detection, processes
<1>1. Node = {0, 1, 2}
  BY TrioNodes
<1>2. m.type = "reply" /\ m.to = n /\ role[n] = "Candidate"
  BY DEF Yield, Asking
<1>3. n # 0 /\ 0 \in crashed
  BY <1>2 DEF DuelInv, QuietBeforeCrash, ZeroStays
<1>4. UNCHANGED << electionTs, launched, clk, crashed >> /\ msgs' \subseteq msgs
  BY DEF Yield
<1>5. role'[n] = "Backup" /\ primaryID'[n] = m.from
  BY DEF Yield, DuelInv, TypeOK
<1>6. \A q \in Node : q # n => /\ role'[q] = role[q] /\ primaryID'[q] = primaryID[q]
                               /\ asked'[q] = asked[q]
  BY DEF Yield, DuelInv, TypeOK
<1>7. m.from \in Node /\ m.from # 0 /\ m.from # n
  BY <1>2, MessageFields DEF DuelInv, ZeroStays, TypeOK
<1>8. QuietBeforeCrash' /\ ZeroStays'
  BY <1>1, <1>3, <1>4, <1>6 DEF DuelInv, QuietBeforeCrash, ZeroStays
<1>9. ClaimsAreOld'
  BY <1>4 DEF DuelInv, ClaimsAreOld
<1>10. ~Ahead(n)'
  BY <1>5 DEF Ahead, Granted
<1>11. OneAhead'
  <2>1. ASSUME NEW q \in Node \ {0}, NEW r \in Node \ {0}, q # r, Ahead(q)'
        PROVE  /\ role'[r] # "Primary" /\ primaryID'[r] = q
               /\ role'[r] = "Candidate" /\ asked'[r] = q => Beats(q, r)'
    <3>1. q # n /\ r = n
      BY <1>1, <1>3, <1>10, <2>1
    <3>2. m.from = q
      BY <1>1, <1>3, <1>7, <3>1
    <3> QED
      BY <1>5, <3>1, <3>2
  <2> QED
    BY <2>1 DEF OneAhead
<1> QED
  BY <1>8, <1>9, <1>11 DEF DuelInv

\* A process that has been started again stays known as such.
LEMMA NextReborn ==
    ASSUME TypeOK, [Next]_vars
    PROVE  reborn \subseteq reborn'
<1> USE DEF detection, processes
<1>1. ASSUME NEW n \in Node, Crash(n) PROVE reborn' = reborn
  BY <1>1 DEF Crash
<1>2. ASSUME NEW n \in Node, Restart(n) PROVE reborn' = reborn \cup {n}
  BY <1>2 DEF Restart
<1>3. ASSUME NEW w \in Puts, NEW n \in Node,
             \/ Redirect(w, n) \/ PutStart(w, n) \/ Replicate(w, n)
             \/ ReplicateTimeout(w, n) \/ PutReturn(w)
      PROVE  reborn' = reborn
  BY <1>3 DEF Redirect, PutStart, Replicate, ReplicateTimeout, PutReturn
<1>4. ASSUME NEW n \in Node, NEW p \in Node, NEW m,
             \/ SendHeartbeat(n, p) \/ Suspect(n) \/ RunElection(n) \/ Unreachable(n)
             \/ m \in beats /\ (HandleHeartbeat(m) \/ LoseHeartbeat(m))
             \/ AnnounceLeader(m) \/ Lose(m) \/ Win(n, m) \/ Yield(n, m)
      PROVE  reborn' = reborn
  BY <1>4, OtherStepsMoveClocks DEF OnlyClocksMove
<1>5. 0 \in Node
  BY PrimaryBackupAssumption DEF Node
<1> QED
  BY <1>1, <1>2, <1>3, <1>4, <1>5 DEF Next, vars

\* The invariant about the elections is inductive.
LEMMA NextDuelInv ==
    ASSUME Trio, DuelInv, [Next]_vars, reborn = {}, reborn' = {}
    PROVE  DuelInv'
<1> USE DEF detection, processes
<1>1. TypeOK /\ TypeOK' /\ clk \in [Node -> Nat]
  BY NextTypeOK DEF DuelInv, TypeOK
<1>2. CASE UNCHANGED vars
  BY <1>1, <1>2, BystandersKeepDuel DEF vars
<1>3. CASE Next
  <2>1. CASE \E w \in Puts, n \in Node :
               Redirect(w, n) \/ PutStart(w, n) \/ Replicate(w, n) \/ ReplicateTimeout(w, n)
    <3>1. PICK w \in Puts, n \in Node :
               Redirect(w, n) \/ PutStart(w, n) \/ Replicate(w, n) \/ ReplicateTimeout(w, n)
      BY <2>1
    <3>2. UNCHANGED << election, crashed >>
      BY <3>1 DEF Redirect, PutStart, Replicate, ReplicateTimeout
    <3>3. \/ clk' = clk \/ clk' = [clk EXCEPT ![n] = Tick(n)]
          \/ clk' = [clk EXCEPT ![n] = Updated(n, ts[w])]
      BY <3>1 DEF Redirect, PutStart, Replicate, ReplicateTimeout
    <3>4. Tick(n) \in Nat /\ clk[n] < Tick(n)
      BY <1>1, ClockRules
    <3>5. Updated(n, ts[w]) \in Nat /\ clk[n] < Updated(n, ts[w])
      BY <1>1, ClockRules DEF TypeOK
    <3>6. \A q \in Node : clk[q] <= clk'[q]
      BY <1>1, <3>3, <3>4, <3>5
    <3> QED
      BY <1>1, <3>2, <3>6, BystandersKeepDuel
  <2>2. CASE \E w \in Puts : PutReturn(w)
    BY <1>1, <2>2, BystandersKeepDuel DEF PutReturn
  <2>3. CASE \/ \E n, p \in Node : SendHeartbeat(n, p)
             \/ \E b \in beats : HandleHeartbeat(b) \/ LoseHeartbeat(b)
    <3>1. 0 \in Node
      BY PrimaryBackupAssumption DEF Node
    <3>2. OnlyClocksMove
      BY <1>1, <2>3, <3>1, OtherStepsMoveClocks
    <3>3. UNCHANGED << election, crashed >>
      BY <2>3 DEF SendHeartbeat, HandleHeartbeat, LoseHeartbeat
    <3> QED
      BY <1>1, <3>2, <3>3, BystandersKeepDuel DEF OnlyClocksMove
  <2>7. CASE \E n \in Node : Crash(n) \/ Restart(n)
    <3>1. ASSUME NEW n \in Node, Restart(n) PROVE FALSE
      BY <3>1 DEF Restart
    <3> QED
      BY <1>1, <2>7, <3>1, CrashKeepsDuel
  <2>4. CASE \E n \in Node : Suspect(n) \/ RunElection(n) \/ Unreachable(n)
    BY <1>1, <2>4, SuspectKeepsDuel, RunElectionKeepsDuel, GivingUpKeepsDuel
  <2>5. CASE \E m \in msgs : AnnounceLeader(m) \/ Lose(m)
    <3>1. 0 \in Node
      BY PrimaryBackupAssumption DEF Node
    <3> QED
      BY <1>1, <2>5, <3>1, AnnounceKeepsDuel, GivingUpKeepsDuel
  <2>6. CASE \E n \in Node, m \in msgs : Win(n, m) \/ Yield(n, m)
    BY <1>1, <2>6, WinKeepsDuel, YieldKeepsDuel
  <2> QED
    BY <1>3, <2>1, <2>2, <2>3, <2>4, <2>5, <2>6, <2>7 DEF Next
<1> QED
  BY <1>2, <1>3

\* Of the three nodes of the course's cluster at most one live node is
\* primary, whichever nodes crash, whatever runElection's calls and
\* AnnounceLeader's answers meet on their way and whatever heartbeats do to the
\* clocks, as long as monitorPeers suspects no live node and no process has
\* been started again.
THEOREM OnePrimaryWins ==
    ASSUME NumNodes = 3, MayMisjudge = FALSE
    PROVE  Spec => []OneWinner
<1> DEFINE Inv == TypeOK /\ (reborn = {} => DuelInv)
<1>1. Trio
  BY DEF Trio
<1>2. Inv => OneWinner
  <2> SUFFICES ASSUME DuelInv, NEW n \in Live, NEW p \in Live,
                      role[n] = "Primary", role[p] = "Primary", n # p
               PROVE  FALSE
    BY DEF OneWinner
  <2>1. n \in Node /\ p \in Node
    BY DEF Live
  <2>2. n # 0 /\ p # 0
    BY <2>1 DEF DuelInv, QuietBeforeCrash, Live
  <2> QED
    BY <2>1, <2>2 DEF DuelInv, OneAhead, Ahead
<1>3. Init => Inv
  BY InitDuelInv, InitTypeOK
<1>4. Inv /\ [Next]_vars => Inv'
  <2> SUFFICES ASSUME Inv, [Next]_vars PROVE Inv'
    OBVIOUS
  <2>1. TypeOK'
    BY NextTypeOK
  <2>2. ASSUME reborn' = {} PROVE DuelInv'
    <3>1. reborn = {}
      BY <2>2, NextReborn
    <3> QED
      BY <1>1, <2>2, <3>1, NextDuelInv
  <2> QED
    BY <2>1, <2>2
<1> QED
  BY <1>2, <1>3, <1>4, PTL DEF Spec
=============================================================================
