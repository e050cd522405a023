# A verification project for four distributed-systems programs in Go

The repository holds four programs that share no code: a Raft-replicated
key-value store (`hw3`), the primary-backup store it replaces (`hw2`), an
embedding pipeline with a task broker (`hw4`) and a two-player game server
(`hw1`). This directory models all four in TLA+, checks the models with TLC on
small instances and proves their safety with TLAPS for every instance: each
invariant and each action property of a passing run is a theorem, and so is that
the Raft core implements a replicated log. Liveness is model-checked.
`PROJECT.json` maps every definition to the lines it stands for and lists runs,
mutants, findings, hazards and theorems.

## 1. The system

| Part | Source | State it keeps | Operations | What makes it correct |
|---|---|---|---|---|
| Raft log | `hw3/internal/log/log.go` | slice with a sentinel | Append, At, Truncate, Entries | gapless, so Append never panics |
| Raft core | `hw3/raft/raft.go` | term, vote, log, role, timer, commit index, next/match index per peer | election timer, RequestVote, AppendEntries, the sender goroutines, Start, advanceCommitIndex, applyLoop, Kill | one vote and one leader per term; log matching; committed entries survive and agree |
| Raft KV server | `hw3/server/main.go`, `hw3/internal/store` | store, pending Puts by log index, leader hint | Put, Get, applyLoop, AppendEntries wrapper (GetPrimary reads the hint) | answers are true; acknowledged writes are readable; the store replays the log |
| Store clients | `hw3/client/main.go`, `hw2/client/main.go` | none | put with one redirect, get | a put is served at most once |
| Primary-backup node | `hw2/server/main.go`, `internal/clock`, `internal/store` | role, believed primary, Lamport clock, election snapshot, store, who was heard of; all in memory | Put, Get, Replicate, Heartbeat, AnnounceLeader, heartbeat loop, monitor, runElection | one winner; acknowledged writes stay; timestamps respect acknowledgements |
| Broker | `hw4/broker/main.go` | pending queue, tasks in flight, done, errors | Submit, Poll, Complete, GetResult, Heartbeat, reEnqueueStalled | a task is in one place, never lost, its result final |
| Worker | `hw4/worker/main.go` | the task at hand, an embedder subprocess | creation of the collection, poll loop, heartbeats, embed, upsert, Complete | done without an error means indexed; one worker survives the start |
| Producer | `hw4/producer/main.go` | task IDs it waits for | chunkText, submit loop, wait loop | its wait ends, and the corpus is indexed then |
| Game rules | `hw1/game/game.go` | board, last move | MakeMove, CheckWin, IsFull, IsColumnFull, String | the verdict is that of the whole board |
| Terminal game | `hw1/tui/main.go` | prompts, board, player | the three prompts, a turn, quit | a game that starts can be won, and ends |
| Game server | `hw1/server/main.go` | board, turn, seats (three maps), connections, one lock | connect, move, broadcast, release of a closed connection | seats agree and are freed, turns alternate, an end is final |
| Game client | `hw1/client/main.go` | its connection, whether the opening move was answered | connect, opening move, typed lines, the message handlers, end of input | it is never left waiting |
| Configuration, embedder, query tool, generated gRPC code | the rest | none of their own | I/O | |

How they interact. In `hw3` the server calls `Start` and reads `commitCh`; the
nodes call each other's RequestVote and AppendEntries from goroutines that drop
the lock around the call. In `hw2` the primary calls Replicate on all peers in
parallel and waits for all; all nodes exchange heartbeats that also move the
Lamport clocks elections compare. In `hw4` producer and workers call the broker;
workers write to Qdrant directly, so broker and Qdrant can disagree. In `hw1`
the server has a goroutine per connection; they share the game under one lock
and write to each other's connections after they have released it.

What is hard to test: replies that belong to an election or a leadership that is
over; AppendEntries calls overtaking each other; leaders that come back; a Put
registering after its entry was applied; a handler whose index is taken by
another leader's entry; announcements that time out and are accepted late;
heartbeats that move the clocks in the middle of an election; a primary that
starts again with nothing; workers thought dead that finish; a broker that
restarts while work is out; workers that create the collection at the same time;
broadcasts that overtake each other; players who leave, come back or claim both
pieces. The list with its lines is `hazards` in `PROJECT.json`.

## 2. Modules

| Module | Models | Kind |
|---|---|---|
| `RaftLog` | log.go | operators |
| `Raft` | raft.go | state machine, extends `RaftLog` |
| `ReplicatedLog` | what the core promises | abstract specification |
| `RaftProofs` | | theorems about `Raft`: votes, leaders, timers, logs |
| `RaftCommitProofs` | | theorems about commitment, and that `Raft` implements `ReplicatedLog`; extends `RaftProofs` |
| `KVServer` | hw3/server, store, the client, the core's applyLoop | state machine over an abstract core, extends `RaftLog` |
| `KVServerProofs` | | theorems about `KVServer` |
| `PrimaryBackup` | hw2/server, clock, store, the client | state machine |
| `PrimaryBackupProofs` | | theorems about `PrimaryBackup` |
| `Pipeline` | hw4 broker, workers, producer | state machine |
| `PipelineProofs` | | theorems about `Pipeline` |
| `ConnectM` | hw1/game | operators |
| `ConnectMProofs` | | lemmas about the rules |
| `Tui` | hw1/tui | state machine, extends `ConnectM` |
| `TuiProofs` | | theorems about `Tui`, extends `ConnectMProofs` |
| `GameServer` | hw1/server, hw1/client | state machine, extends `ConnectM` |
| `GameServerProofs` | | theorems about `GameServer`, extends `ConnectMProofs` |
| `MCRaft`, `MCKVServer`, `MCPrimaryBackup`, `MCPipeline`, `MCTui`, `MCGameServer` | | instances, views, symmetry |

Definitions named `X_Something` before a definition `X` are mutants: `X` as a
plausible bug would write it. Each property has one that breaks it.

### Raft

An action is one critical section of `rf.mu`. `sendAppendEntries` and
`startElection` drop the lock around their calls, so they are split there: the
part before the call (`StartElection`, `SendAppendEntries`) puts a call into
`msgs`, the handler (`GrantVote`, `DenyVote`, `AppendEntries`, `RefuseAppend`)
answers it, and the part after it (`StepDown`, `CountVote`, `IgnoreVote`,
`AppendSucceeded`, `AppendRejected`) takes the reply. A reply carries what the
goroutine still knows of its call (the term it was sent in, the index it would
replicate up to). The network loses (`Lose`, which is also an RPC timeout),
delays and reorders. Equal AppendEntries calls, which the heartbeat loop and
`Start` send while nothing changes, are one element of the set and survive being
handled: this is the repetition the code has, not duplication by the network.
`armed` says that the election timer is running; a leader's timer lapses
(`TimerIdle`). `Kill` only raises a flag, as in the code: RPC handlers of a
killed node still answer. Terms, indexes and logs are unbounded in the module.
The vote count of `startElection` is a local variable of its closure; it is
`votes` here, the set of voters, because a peer answers one request once.
`ballots` is a history variable: every vote ever cast.

`ReplicatedLog` is the promise to the servers: one sequence `chosen` that only
grows, of which nodes know growing prefixes. The refinement maps `chosen` to the
longest committed prefix of any node, `known` to `commitIndex`.

### KVServer

Composes the server with the core as `ReplicatedLog` and the Raft runs show it:
one leader per term whose log holds everything chosen, and a chosen sequence
that only the newest leader extends. An election, and a call that brings a
follower up to date, are single steps; that a leader may be deposed without
noticing, come back, and overwrite an index on which a Put is waiting, is kept.
The two halves of an apply step (store, then wake), the late registration of
`Put`, its timeout, which drops whatever is registered at its index, and the
leader hint, which is set after the core's lock is released and read after
`Start` has refused, are separate actions. A deposed leader that finds an entry on
a majority only after its successor was elected has no step of its own: the
entry was there before, so committing it earlier gives every server the same.
Strings are sequences of their colon-separated parts, so that the command format
can go wrong.

### PrimaryBackup

One key (puts on different keys share only the clocks). The answer of
`AnnounceLeader` is a message, so a candidate may give up (`Unreachable`) while
its call is still on the way and be accepted late. A goroutine of `runElection`
that has been launched but has not taken the lock yet is counted in `launched`.
The announcements a winner broadcasts one after the other after releasing the
lock are in flight at once here; the code's order of sending is one of the orders
of delivery. A client tries one of the nodes in `Doors` and follows one redirect,
which may name a node that is gone or no primary any more.

A heartbeat is a message as well. `SendHeartbeat` ticks the sender's clock, once
for each peer, whether that peer is up, down or slow. `HandleHeartbeat` moves the
receiver's clock later, in any order, also in the middle of an election, and
enters the sender in `lastSeen`; the handler's two locks are one step, as no
code reads both. `LoseHeartbeat` is the timeout of the call. `Suspect` covers
`monitorPeers` and `onPeerDead`: a backup suspects only a primary it has heard
of, so one that dies before its first heartbeat is never suspected by a backup
that has handled none; `MayMisjudge` lets a live primary be suspected.

`Crash` ends a process: its clients get an error, its calls that are on the way
may still arrive, and nobody waits for the answers. `Restart` runs `newNode`
again: everything was in memory, so the node comes back with an empty store and a
clock at 0, and node 0 comes back as primary. `reborn` and `before` are history
variables: who has started again, and which Puts were over when one began.

### Pipeline

The corpus is a sequence of article lengths; `chunkText` cuts an article into
sets of word positions, and `Payload` is what the producer submits. A task is
its place there. A worker starts by looking for the collection and creating it
when it finds none, in two steps; Qdrant refuses a second creation, and the
worker exits. Time shows only in `silent`: the tasks in flight whose last
heartbeat is older than TaskTimeout. A worker that fails, loses a reply, crashes
or is slow costs one of `MaxFaults`; a broker restart one of `MaxRestarts`.
`Corpus` is what the producer reads: it takes a malformed or cut line for the end
of the file, goes on, and reports success for what came before
(producer/main.go:100).
The hash of `chunkIDToUUID` is taken to be injective, article IDs to be unique.

### ConnectM, Tui and GameServer

`ConnectM` keeps the board as the struct of game.go and, below a rule, what the
rules mean without the last move (`HasLine`, `Pieces`, `Rests`): the reference
the verdicts are checked against. `Tui` is the terminal game; a line it does not
accept repeats the prompt and is no step.

In `GameServer` a handler's critical section is one action. What it sends after
the unlock is a list `owed` by its goroutine, sent one message at a time
(`MakeSend`), and the goroutine reads on when the list is empty; so broadcasts
of two goroutines interleave. A connection is a queue in each direction. A
client is one invocation of the program (its address is its id). It leaves by
closing after its input has ended, by an exit in a handler, or by being
interrupted, when the last messages it sent may be lost too. `claims` is a
history variable. The first player is whoever connects first, as server/main.go:35 and
238-240 say and wire_protocol.md:113 does not (section 4). Remarks on the code
that the model shows:

- server/main.go:464 stops at the first piece of a closed connection (section 4);
  `SlotReleased` says that nothing but this keeps a piece taken.
- The comment at server/main.go:39, that `currentTurn` is set once both clients
  have connected, is stale: the first connect sets it, as 238-240 say, and
  its player may move at once (`Open`).
- client/main.go:33 says that `firstMoveAcked` is closed "once the server has
  responded to the initial move". Any broadcast closes it, the other player's
  move included, so a client whose input has ended may close before its own
  opening is answered. `NobodyWaits` says that it is never closed too late.
- `sc_notify_start` need not show the opening move (server/main.go:262): the
  second player may connect before it is made. `sc_notify_error` is handled by
  the client and never sent.

## 3. Runs

All numbers are distinct states.

| Run | Shows | Bounds and why they are enough |
|---|---|---|
| `raft_elections` (500k) | TypeOK, VoteOncePerTerm, ElectionSafety, TimerArmed | three nodes, two rivals in terms 1 and 2: split votes, stale requests and replies, a deposed leader, a lapsed timer. The theorems of section 5 remove the bounds, here and for the safety properties of the runs below. |
| `raft_reorder` (760k) | PeerTracking, CommittedOnQuorum, NothingUndone | one term, a leader that may be killed, three entries, two live AppendEntries messages: a short call overtaken by a long one |
| `raft_commit` (500k) | LogWellFormed, LogMatching, StateMachineSafety, LeaderCompleteness, NothingUndone, refinement of ReplicatedLog | leaders n1, n2, n1 in terms 1-3. Entries are the leaders' no-ops only: with `MaxLog` = 1 a leader's log is full when it is elected and `Start` never fires (it does in `raft_reorder`). Three terms give logs that are longer but older, and the old leader returns with an uncommitted entry |
| `kv_server` (1.2M) | TypeOK, AnswerTrue, ReadYourWrites, StoreReplays | two servers leading in turn over three terms, three puts (two on one key, one with a colon in its value), channel capacity 1 |
| `kv_wait` | finding 1 | the same instance |
| `pipeline` (390k) | TypeOK, OnePlace, NothingLost, SuccessIndexed, CorpusIndexed, ResultFinal, OrphanForever, ProducerReturns | two workers, an article of two chunks (the second short) and an empty one, three faults, one restart: a task can be taken from a slow worker, be lost with the next and be completed by both |
| `pb_elections` (1.2M) | TypeOK, OneWinner | node 0 crashes, both backups stand repeatedly; all nodes send heartbeats, up to clock 4 and two in flight that somebody may handle (those to a dead node do not count); clocks to 5 |
| `pb_writes` (890k) | AckedStays, TimestampsOrdered | two concurrent puts sent to nodes 0 and 1; a backup suspects the primary, rightly or not, and may win, so that both accept writes; node 0 may crash and start again once, with calls and heartbeats of its first life on the way; clocks to 5, so that the new primary can still take a write after an acknowledged one |
| `pb_order` | finding 2 | two puts |
| `pb_standoff` | finding 3 | as `pb_elections` |
| `tui` (110k) | TypeOK, VerdictTrue, FairPlay, GameEnds | numbers 2 to 5 and Enter at the prompts, then every game on four by four with lines of three: wins in all directions, at every edge, and draws. `MaxGame` keeps larger boards from being played |
| `game_server` (1.6M) | TypeOK, SeatsAgree, SlotReleased, TurnsAlternate, EndIsFinal, LateByOne, NobodyWaits | three clients, two of them for one piece, one line typed at each of two, one that may be interrupted; one row of four cells, two in a row win: a win that leaves a cell free, a draw, a seat taken over in the middle of the game, a client with both pieces |

Deadlock is not checked: every model is bounded (elections, commands, faults,
clock values, lines typed), so every behaviour may come to its end; in the code
the timers go on. Games end.

Views. The Raft runs identify states that differ only in what no later step
reads: replies to an election or leadership that is over (their only effect
would be to be dropped), the vote set of a node that is no candidate, and the
replication state of a node that does not lead (`becomeLeader` overwrites it).
Properties read none of these, and the election run keeps `ballots`. The bound
on messages in flight counts live ones only, so that dropping a dead reply never
enables a step. The view of `KVServer` drops the leader hints of a server that
no client can be redirected by, the place of a request that has failed and the
wake-up of one that does not wait; that of `PrimaryBackup` the memory of crashed
nodes, messages to nodes that stay down, whom a node is told to follow that
stays primary or that neither monitors nor redirects, the clock of a backup once
no node is left that follows one, answers nobody waits for, how a Put failed and
what it waited for. The two writes of the primary-backup runs are
interchangeable (symmetry); `TimestampsOrdered` is an action property without
fairness, for which symmetry is sound.

Fairness. Two modules have a liveness property. The weak fairness of `Pipeline`
says: the producer's loops run, a worker's start and its loop run from one call
to the next, the embedder subprocess answers, a call that is not lost is served,
the ticker of `reEnqueueStalled` fires, and TaskTimeout passes for a task nobody
sends heartbeats for. Nothing is assumed of faults, of heartbeats or of false
alarms; their number is bounded, as repeated false alarms can starve a task in
the code as well. `ProducerReturns` promises nothing once the broker has
restarted (`OrphanForever` says what happens then) or faults have taken every
worker; without a fault it promises that the workers' race to create the
collection leaves one. In `Tui` the players are assumed to go on choosing
columns, as long as the prompt would accept one. `NobodyWaits` of `GameServer`
needs no fairness: it says of every state with nothing left to do that nobody
waits in it.

## 4. Findings

1. `kv_wait`: `Put` registers on the pending table after `Start` has returned.
   If the entry is applied before that, nobody wakes the handler and the client
   gets DeadlineExceeded for a write that is committed.
2. `pb_order`: concurrent Puts on one key may be stored in different orders by
   different replicas and both be acknowledged; REFLECTIONS.md:76 says all nodes
   apply writes in the same order, and 213 that reads behave linearizably once
   replication is complete. `ReplicasAgree` also fails without concurrency: the
   Replicate of a Put that timed out and failed is stored by a backup over a later
   Put that every node had stored and the client was told of.
3. `pb_standoff`: a late acceptance followed by a rejection leaves the two
   surviving backups pointing at each other; the cluster has no primary for good.
   REFLECTIONS.md says there is exactly one winner.

Three configurations beside the runs show disagreements that are smaller or lie
outside what the properties promise; TLC finds each of them violated:

- `MCPrimaryBackupSplit.cfg` (`OneElected`): `onPeerDead` tests that the suspected
  peer is the primary, and `runElection`, in a goroutine of its own, no longer
  does (main.go:359, 378-387). When both backups suspect a live node 0 and the loser
  has accepted the winner's announcement before its own election begins, that
  election skips the winner as the dead primary, asks node 0, is accepted, and
  there are two elected primaries. REFLECTIONS.md:183 says of a paused primary that
  "the election protocol's deterministic comparison prevents split-brain within
  the election itself".
- `MCGameServerFirst.cfg` (`XMovesFirst`): O moves first when it connects first
  (hw1 server/main.go:243, and the comment at 35); wire_protocol.md:113 says of
  `first_turn` "Which player moves first (always `"X"` per Connect-M rules)". That
  field of `sc_notify_start` is not the first mover either, but whose turn it is
  when the second player connects (server/main.go:254). `TurnsAlternate` follows
  the code.
- `MCGameServerSeats.cfg` (`SeatsFreed`): a connection that was granted both pieces
  frees one of them when it closes (server/main.go:464); the comment at 452
  promises the slot back. `SlotReleased` states the exception.

Where the documents of hw2 say less than the model shows, there is no run, as
nothing they promise is violated:

- REFLECTIONS.md:260-263: "If both backups detect the primary's failure
  simultaneously, both may elect themselves primary." After a crash they may
  not: `OneWinner` holds however the detections, the announcements and the
  heartbeats interleave, and is proved for the cluster of three. With a primary
  that lives, or one that started again, they may (`OneElected` above). That a
  winner need not have the latest state is right.
- REFLECTIONS.md:265-267 and README.md:42 of hw2: an acknowledged Put may
  disappear because the winner missed its Replicate. It cannot for that reason:
  `Put` answers OK only when every peer has stored the value, the dead ones
  included (`AckedStays`). An acknowledged value is lost in two other ways: a late
  Replicate of an older, failed or concurrent Put overwrites it (finding 2), and
  a node that starts again has an empty store, which is why the property
  exempts what `reborn` nodes hold. A restarted node 0 serves that store as
  primary.

A smaller one has no run of its own. raft.go:106 states that
`matchIndex[i] < nextIndex[i]` always; a second rejection that comes after the
retry of the first succeeded lowers `nextIndex` to `matchIndex`, and an entry is
sent again. See also the remarks on hw1 in section 2.

## 5. Proofs

TLAPS checks the theorems listed in `PROJECT.json`, for every value of the
constants: any finite cluster, any workers, corpus, requests, and bounds of any
size (a theorem that needs more says so). Each invariant below was checked with
TLC on a run's instance before it was proved.

**Raft, elections** (`RaftProofs`).

- `TypeCorrect`: `TypeOK` is not inductive: that the term of a no-op is positive
  needs a candidate's or leader's term to be positive. `TypeInv` is `TypeOK`
  with that conjunct, `StandsInTerm`.
- `OneVotePerTerm` and `AtMostOneLeader`: neither `VoteOncePerTerm` nor
  `ElectionSafety` is inductive, because the votes that make a leader travel
  through messages and counters. `ElectionInv` conjoins `TypeInv`,
  `VoteRemembered` (a vote of the node's present term is its votedFor, none is
  of a later term), `VoteOncePerTerm`, `GrantsCast` (a granting reply in flight
  stands for a vote cast), `CountedCast` (so does every vote counted) and
  `LeaderElected` (a leader counted a majority). Two majorities of a finite set
  meet (`QuorumsMeet`), and the voter in both voted once.
- `TimerAlwaysArmed`: inductive with `TypeInv`.

**Raft, logs** (`RaftProofs`): `LogsWellFormed` and `LogsMatch`. What has to
be said is that each entry stems from the leader of its term, also when that
leader has been deposed and its log overwritten; the model keeps no such history,
and none was added for the proof. The invariant `LogInv(h)` is about a function
h that gives every term the log of its leader as far as it got, and `LogRecord`
says that such an h exists. Each step is shown to keep `LogInv` for the same h or
for one with an entry more. A log is `Grounded` in h when it agrees, up to each
of its entries, with the log of that entry's term; so are all logs and all calls
in flight.

**Raft, commitment** (`RaftCommitProofs`): `CommitsNeverConflict`,
`LeadersAreComplete`, `CommitsStayOnQuorum`, `PeersAreTracked` and the action
property `NothingIsUndone`. A second record, a, gives the index up to which a
node has confirmed the log of a term's leader, and `CommitRecord` says that h
and a exist with `CommitInv(h, a)`. At its centre is `Live`: an entry of a
leader's own term that a majority has confirmed or may still confirm, that is,
has not yet left the term. Whoever confirmed a live entry keeps it (`AckedKept`), every later
leader has it (`Complete`), a vote request or a ballot cast for a candidate
vouches for what its voter had confirmed (`BallotsBacked`, `MessagesHonest`), and
what a node takes for committed is covered by an entry a majority confirmed
(`CommitsSettled`). `Live`, not "committed", makes this inductive: an entry may
become committed by replies that are on their way while the next leader is
elected.

**Raft, refinement** (`RaftCommitProofs`): `RaftImplementsReplicatedLog`. The first
states map to first states. A step changes the commit index of at most one node
(`OneCommits`); if it passes everyone's, it is a `Choose` of the abstract
specification, which adds entries to `chosen`; if it does not, a `Learn`; if no
commit index changes, a stutter, because committed prefixes do not change
(`NothingIsUndone`).

**Key-value servers** (`KVServerProofs`): `TypeCorrect`, `AnswersAreTrue`, and,
when no key has a colon in it (`PlainKeys`), `StoresReplay` and
`ClientsReadTheirWrites`. The hypothesis is needed: `decodeCommand` splits a key
with a colon in the wrong place (section 6). Values may have any number of
colons; the lemmas `CommandIs`, `DecodePut` and `DecodeNoop` say that encoding and
decoding give them back. `CoreInv` says of the core that each entry is a no-op or
the one command of the Puts whose ticket names it, and lies within the log of
its term's leader while that one leads (`Owned`), so that a new entry meets no
old ticket; the newest leader has all that is chosen, and a node has what it
knows to be. `ServerInv` says that the channel holds the chosen entries between
what is stored and what was sent, that a registered handler waits under its own
index at its own server, and that the term it is woken with is that of the entry
chosen there, which is stored by then. `AnswerTrue` follows. The stores
are then an induction of their own: an entry taken from the channel writes its
key, all Puts with its ticket asked for the same, and no other step moves a Put
into or out of what a server has stored. The module's core is abstract (section 2);
`AtMostOneLeader`, `LeadersAreComplete` and the refinement prove of `Raft`
what it takes for granted, but that `Raft` with the servers refines `KVServer` is
not itself a theorem.

**Primary-backup store** (`PrimaryBackupProofs`): `TypeCorrect`,
`AckedWritesStay` and `LaterWritesHaveLaterTimestamps` for any number of nodes
and writes, with any crashes, restarts, losses and misjudgements. `AckedStays`
says of each store and each acknowledged write that the value is not one
acknowledged before that write began; what makes it inductive is `WriteInv`. A
node has *passed* a write when its store `Keeps` it and its clock has passed its
timestamp; once a Put is acknowledged every node that kept its memory has
(`AckedPassed`), and while it is under way every peer the primary has stopped
waiting for, unless an error is noted (`AnsweredPassed`). A Replicate that is
still on the way belongs to a Put that failed or is under way (`CallsAwaited`),
so what it overwrites an acknowledged value with was not acknowledged before
that value's Put began (`BeforeOver`). `OnePrimaryWins` is for three nodes, the
cluster of the configuration files, a monitor that suspects no live node, and
runs in which nothing has started again; without the last two there may be two
primaries (`MCPrimaryBackupSplit.cfg`, and a restarted node 0), which
`pb_writes` includes. `DuelInv` says that while a backup is ahead, having won or
with the acceptance it needs on its way, the other believes in it, and if it
stands too, has the weaker claim. All it needs of the clocks is that they never
go back (`ClaimsAreOld`: a claim is never ahead of the clock it was taken from),
so heartbeats may be sent to anyone, alive or not, and handled at any time or
never. Which nodes crash, and when, is arbitrary.

**Pipeline** (`PipelineProofs`): `TypeCorrect`, `TasksInOnePlace`, `TasksAreKept`,
`ResultsAreFinal`, `OrphansStayOrphans`, `SuccessIsIndexed`, `CorpusIsIndexed`, and
`ChunksCoverCorpus`, a fact about `chunkText` alone. `OnePlace` needs `Fresh`: tasks
are submitted in order, so a submitted ID is new to the broker, and one that a
restart forgot does not come back. `SuccessIndexed` needs `Stored`: a completion
without an error on its way stands for a point in Qdrant. The library's
induction theorems cannot be instantiated, so induction over positions in the
corpus goes by the least counterexample (`UpTo`).

**Game rules** (`ConnectMProofs`): what game.go does to a board of any size and
any winning length. A move drops one piece onto the others and leaves every
other cell alone (`MoveDrops`, `MoveCounts`, `MoveRests`). `checkDirection` counts
the run of equal pieces on either side of the last move (`Walk`, `RunIs`), so
`CheckWin` finds a line only where there is one (`WinIsLine`) and finds it when
the last move made one (`LineIsWin`); a move makes no line for the other player
(`OtherLine`). A full top row means that no cell is left, because nothing floats
(`FullIsFull`). Induction over rows and steps goes by the least counterexample, as
above.

**Terminal game** (`TuiProofs`): `TypeCorrect`, `VerdictsAreTrue` and `PlayIsFair`.
The two properties need each other and the size of the board: that the last move
decides is true only while there was no line before it, and that the top row
decides only while no piece floats. `Inv` conjoins them with `Sized` (what the
prompts have established) and `Laid` (the board is of that size). `MaxGame`, which
keeps TLC from playing large boards, is any number here.

**Game server** (`GameServerProofs`), for any number of clients, any board and any
typed lines. Each invariant uses `Base`, and most use those before them:

- `TypeCorrect` and `SeatsStayInStep`: `Base` adds to `TypeOK` and `SeatsAgree` the
  types of what is on the wires and owed (`Wired`).
- `SlotsAreReleased`: needs `Held`, that a connection holds only pieces it was
  granted.
- `TurnsDoAlternate`: `Match` adds `Sound`, that no piece floats and nobody has a
  line while the game is not over.
- `EndsAreFinal`: `Announced` says of each message a client is owed or has been
  sent (`Mail`) that the end it announces is that of the board.
- `NobodyIsLeftWaiting`: a statement about quiet states only, so the invariant has
  to say why the others are not quiet. `Attended` says of each client with an open
  connection: if its opening is unanswered, an answer is in its mail or the
  question is on its way (`OpeningGoesOn`); if the game is over, the end, or a
  message that leads to it, is under way (`EndComes`); if it has no seat, its
  connect or the refusal is (`ConnectGoesOn`).
- `PicturesAreRecent`: `LateByOne` is not inductive, since nothing in it stops a
  second move while the picture is owed. `AllTimely` says that a picture that is
  behind by one belongs to a goroutine whose own piece is to move next, or to a
  finished game.

Assumptions: the `ASSUME`s of the modules, which TLC evaluates on every run:
`NodeAssumption`, `KillableAssumption` and `BoundAssumption` of `Raft` (a finite
cluster with a node in it), `KVAssumption` (channels have room, requests
have a key and a value that are sequences), `PrimaryBackupAssumption`
(at least three nodes), `PipelineAssumption` (a chunk size above zero),
`TuiAssumption` (typed numbers are integers) and `GameAssumption` (rows, columns and
the winning length are positive, a typed move names a number); and that Nil is
none of the things it stands beside.

Only model-checked: liveness (`ProducerReturns`, `GameEnds`), since the prover has
no support for fairness and ENABLED here. What is violated (section 4) is shown by
TLC's counterexamples.

## 6. Not modelled

- Crash and restart of Raft nodes. The code persists nothing and says that this
  is accepted (raft.go:68), so there is no promise to check.
- Liveness of the Raft core: it rests on the proportions of its timeouts.
- In hw2, availability after a failover: the dead primary stays a peer, so no Put
  succeeds until it is back, and no document promises more. In the runs only node
  0 starts again, and once; the theorems have no such bound.
- What follows a malformed or cut line of the corpus, which ends the producer's
  reading without an error (producer/main.go:100): `CorpusIndexed` is about the
  articles before it.
- InstallSnapshot, a stub that answers its term.
- An embedder that hangs: the worker then sends heartbeats for ever and the task
  is never given to another (worker/main.go:110).
- A chunk size of zero or less, which the producer does not refuse and which
  makes `chunkText` loop or panic; keys with a colon in `hw3`, which
  `decodeCommand` splits in the wrong place; a game server started with sizes
  that make no board. The models assume sensible arguments.
- In `Tui`, input at its end (the prompt repeats for ever) and type-ahead
  through a pipe (every turn makes a new reader, which loses what the last one
  buffered).
- Configuration files, argument parsing, logging, rendering, generated code, the
  embedder and the query tool, whose search is not implemented.

## 7. Plan

1. done: `Raft` with elections, replication and commitment; `KVServer`;
   `PrimaryBackup`; `Pipeline`; `ConnectM`, `Tui` and `GameServer`.
2. done: the proofs of section 5.
3. Left: a theorem that `Raft` with the servers refines `KVServer`, whose core is
   abstract so far.

Running things: `tlc -config MCRaftCommit.cfg MCRaft` and so on for the runs of
`PROJECT.json`; `tlapm RaftProofs.tla` and so on for the proofs.
