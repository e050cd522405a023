------------------------------ MODULE Pipeline ------------------------------
(***************************************************************************)
(* The embedding pipeline of hw4: a producer submits chunks to an          *)
(* in-memory broker, workers poll it, embed a chunk, write the vector to   *)
(* Qdrant and report completion, and the broker re-enqueues a task whose   *)
(* worker has been silent for TaskTimeout.                                 *)
(*                                                                         *)
(* Time is abstracted: a task in flight is `silent' once more than         *)
(* TaskTimeout has passed since its last heartbeat.  A text is the number  *)
(* of its words.  A task is its chunk: Submit gives every chunk a fresh    *)
(* ID, chunkIDToUUID gives it its own point in Qdrant, and embedding the   *)
(* same chunk again writes the same point.  The broker keeps a worker ID   *)
(* per task in flight but reads it only to log it, so it is left out.      *)
(***************************************************************************)
EXTENDS Integers, Sequences, FiniteSets, SequencesExt

CONSTANTS
    Worker,      \* worker processes
    Nil,         \* a worker holds no task
    Corpus,      \* the articles that are read, up to a malformed line if there
                 \* is one: a sequence of their lengths in words
    chunkSize,   \* the producer's flag
    MaxFaults,   \* bound: crashes, failures, losses and false alarms
    MaxRestarts  \* bound: times the broker process dies and comes back empty

ASSUME PipelineAssumption ==
    /\ Corpus \in Seq(Nat) /\ chunkSize \in Nat \ {0}
    /\ MaxFaults \in Nat /\ MaxRestarts \in Nat
    /\ Nil \notin Nat

\* Mutant: a passage shorter than the others is not emitted.
chunkText_DropsTail(words, maxWords) ==
    [i \in 1 .. words \div maxWords |->
       (i - 1) * maxWords + 1 .. i * maxWords]

\* The passages of a text, each the set of its word positions.
chunkText(words, maxWords) ==
    [i \in 1 .. (words + maxWords - 1) \div maxWords |->
       (i - 1) * maxWords + 1 .. Min({i * maxWords, words})]

\* The payloads of an article, numbered within it.
taskPayloads(doc) ==
    LET passages == chunkText(Corpus[doc], chunkSize)
    IN  [i \in 1 .. Len(passages) |->
           [doc_id |-> doc, chunk_id |-> i - 1, text |-> passages[i]]]

\* What the producer submits, in order; a task is its place here.
Payload == FlattenSeq([doc \in 1 .. Len(Corpus) |-> taskPayloads(doc)])

NumTasks == Len(Payload)

Task == 1..NumTasks

VARIABLES
    pending,    \* broker: queue of tasks to hand out
    inflight,   \* broker: tasks handed out and not completed
    silent,     \* broker: those whose lastHeartbeat is too old
    done,       \* broker: completed tasks
    errors,     \* broker: those completed with a non-empty error
    producer,   \* "submitting", "waiting", "finished" or "failed"
    next,       \* producer: the next chunk to submit
    waiting,    \* producer: submitted tasks not yet seen done
    pc,         \* [Worker -> state of its poll loop]
    holds,      \* [Worker -> Task \cup {Nil}]: the task it works on
    calls,      \* Complete calls on their way to the broker
    collection, \* whether the collection exists in Qdrant
    qdrant,     \* chunks that have a point in the collection
    faults,     \* faults so far
    restarts    \* of the broker

broker == << pending, inflight, silent, done, errors >>
prod   == << producer, next, waiting >>
work   == << pc, holds >>
points == << collection, qdrant >>
vars   == << broker, prod, work, calls, points, faults, restarts >>

Init ==
    /\ pending = << >> /\ inflight = {} /\ silent = {} /\ done = {} /\ errors = {}
    /\ producer = "submitting" /\ next = 1 /\ waiting = {}
    /\ pc = [w \in Worker |-> "starting"] /\ holds = [w \in Worker |-> Nil]
    /\ calls = {} /\ collection = FALSE /\ qdrant = {} /\ faults = 0 /\ restarts = 0

\* Something goes wrong, within the bound.
Fault == faults < MaxFaults /\ faults' = faults + 1

-----------------------------------------------------------------------------
(* The producer *)

Submit ==
    /\ producer = "submitting" /\ next <= NumTasks
    /\ pending' = Append(pending, next)
    /\ waiting' = waiting \cup {next}
    /\ next' = next + 1
    /\ UNCHANGED << inflight, silent, done, errors, producer, work, calls, points, faults, restarts >>

\* Submit returns an error, before or after the broker enqueued the task: the
\* producer gives up.
SubmitError ==
    /\ producer = "submitting" /\ next <= NumTasks
    /\ Fault
    /\ producer' = "failed"
    /\ pending' \in {pending, Append(pending, next)}
    /\ UNCHANGED << inflight, silent, done, errors, next, waiting, work, calls, points, restarts >>

AllSubmitted ==
    /\ producer = "submitting" /\ next > NumTasks
    /\ producer' = "waiting"
    /\ UNCHANGED << broker, next, waiting, work, calls, points, faults, restarts >>

\* One GetResult of the sweep that finds its task done; others change nothing.
GetResult(t) ==
    /\ producer = "waiting" /\ t \in waiting /\ t \in done
    /\ waiting' = waiting \ {t}
    /\ UNCHANGED << broker, producer, next, work, calls, points, faults, restarts >>

WaitOver ==
    /\ producer = "waiting" /\ waiting = {}
    /\ producer' = "finished"
    /\ UNCHANGED << broker, next, waiting, work, calls, points, faults, restarts >>

-----------------------------------------------------------------------------
(* A worker's start *)

\* The worker looks for the collection; an error of any kind means none.
FindCollection(w) ==
    /\ pc[w] = "starting"
    /\ pc' = [pc EXCEPT ![w] = IF collection THEN "idle" ELSE "creating"]
    /\ UNCHANGED << broker, prod, holds, calls, points, faults, restarts >>

\* The lookup fails although the collection is there.
FindError(w) ==
    /\ pc[w] = "starting" /\ collection
    /\ Fault
    /\ pc' = [pc EXCEPT ![w] = "creating"]
    /\ UNCHANGED << broker, prod, holds, calls, points, restarts >>

\* Qdrant creates a collection once: a worker that comes second exits.
CreateCollection(w) ==
    /\ pc[w] = "creating"
    /\ pc' = [pc EXCEPT ![w] = IF collection THEN "exited" ELSE "idle"]
    /\ collection' = TRUE
    /\ UNCHANGED << broker, prod, holds, calls, qdrant, faults, restarts >>

-----------------------------------------------------------------------------
(* A worker's poll loop *)

\* Poll at the broker: the head of the queue goes in flight.
HandOut(t) ==
    /\ pending # << >> /\ t = Head(pending)
    /\ pending' = Tail(pending)
    /\ inflight' = inflight \cup {t}
    /\ silent' = silent \ {t}
    /\ UNCHANGED << done, errors >>

Poll(w) ==
    /\ pc[w] = "idle"
    /\ \E t \in Task :
          /\ HandOut(t)
          /\ pc' = [pc EXCEPT ![w] = "working"]
          /\ holds' = [holds EXCEPT ![w] = t]
    /\ UNCHANGED << prod, calls, points, faults, restarts >>

\* The reply to Poll is lost: the task is in flight and nobody has it.
PollLost(w) ==
    /\ pc[w] = "idle"
    /\ Fault
    /\ \E t \in Task : HandOut(t)
    /\ UNCHANGED << prod, work, calls, points, restarts >>

\* A call of the heartbeat goroutine; one sent before cancelHB may be late.
Heartbeat(w) ==
    /\ holds[w] # Nil
    /\ silent' = silent \ {holds[w]}
    /\ UNCHANGED << pending, inflight, done, errors, prod, work, calls, points, faults, restarts >>

\* The payload is decoded and the subprocess answers with its vector.
Embed(w) ==
    /\ pc[w] = "working"
    /\ pc' = [pc EXCEPT ![w] = "embedded"]
    /\ UNCHANGED << broker, prod, holds, calls, points, faults, restarts >>

upsertVector(w) == qdrant \cup {holds[w]}

Upsert(w) ==
    /\ pc[w] = "embedded"
    /\ qdrant' = upsertVector(w)
    /\ pc' = [pc EXCEPT ![w] = "stored"]
    /\ UNCHANGED << broker, prod, holds, calls, collection, faults, restarts >>

\* One of them fails; an upsert that reports an error may have been applied.
Fail(w) ==
    /\ pc[w] \in {"working", "embedded"}
    /\ Fault
    /\ qdrant' \in IF pc[w] = "working" THEN {qdrant} ELSE {qdrant, upsertVector(w)}
    /\ pc' = [pc EXCEPT ![w] = "failed"]
    /\ UNCHANGED << broker, prod, holds, calls, collection, restarts >>

\* Mutant: the error is dropped from the report.
CompleteCall_NoError(w, t, error) == [worker |-> w, task |-> t, error |-> FALSE]

CompleteCall(w, t, error) == [worker |-> w, task |-> t, error |-> error]

\* After cancelHB the worker calls Complete, with or without an error.
Report(w) ==
    /\ pc[w] \in {"stored", "failed"}
    /\ calls' = calls \cup {CompleteCall(w, holds[w], pc[w] = "failed")}
    /\ pc' = [pc EXCEPT ![w] = IF pc[w] = "failed" THEN "leaving" ELSE "reporting"]
    /\ UNCHANGED << broker, prod, holds, points, faults, restarts >>

\* Mutants: the error is recorded before the task is looked up; a completion
\* is recorded whether or not the task is in flight.
Record_ErrorFirst(t, error) ==
    /\ errors' = IF error THEN errors \cup {t} ELSE errors \ {t}
    /\ IF t \in inflight
       THEN /\ inflight' = inflight \ {t}
            /\ silent' = silent \ {t}
            /\ done' = done \cup {t}
       ELSE UNCHANGED << inflight, silent, done >>
Record_Unchecked(t, error) ==
    /\ inflight' = inflight \ {t}
    /\ silent' = silent \ {t}
    /\ done' = done \cup {t}
    /\ errors' = IF error THEN errors \cup {t} ELSE errors \ {t}

\* What the broker does with a completion.
Record(t, error) ==
    IF t \in inflight
    THEN /\ inflight' = inflight \ {t}
         /\ silent' = silent \ {t}
         /\ done' = done \cup {t}
         /\ errors' = IF error THEN errors \cup {t} ELSE errors \ {t}
    ELSE UNCHANGED << inflight, silent, done, errors >>

Complete(c) ==
    /\ calls' = calls \ {c}
    /\ Record(c.task, c.error)
    /\ UNCHANGED << pending, prod, work, points, faults, restarts >>

\* The worker's Complete returns: polling goes on, or after an error the
\* worker process exits.
AfterComplete(w) ==
    /\ pc' = [pc EXCEPT ![w] = IF pc[w] = "leaving" THEN "exited" ELSE "idle"]
    /\ holds' = [holds EXCEPT ![w] = Nil]

\* The worker's call has not reached the broker yet.
OwnCalls(w) == {c \in calls : c.worker = w /\ c.task = holds[w]}

CompleteReturns(w) ==
    /\ pc[w] \in {"reporting", "leaving"} /\ OwnCalls(w) = {}
    /\ AfterComplete(w)
    /\ UNCHANGED << broker, prod, calls, points, faults, restarts >>

\* The call fails on the worker's side; the request may be lost or late.
CompleteError(w) ==
    /\ pc[w] \in {"reporting", "leaving"} /\ OwnCalls(w) # {}
    /\ Fault
    /\ AfterComplete(w)
    /\ calls' \in {calls, calls \ OwnCalls(w)}
    /\ UNCHANGED << broker, prod, points, restarts >>

Crash(w) ==
    /\ pc[w] # "exited"
    /\ Fault
    /\ pc' = [pc EXCEPT ![w] = "exited"]
    /\ holds' = [holds EXCEPT ![w] = Nil]
    /\ UNCHANGED << broker, prod, calls, points, restarts >>

-----------------------------------------------------------------------------
(* The broker's stall detector *)

Held(t) == \E w \in Worker : holds[w] = t

\* Nobody sends heartbeats for t: TaskTimeout passes.
Timeout(t) ==
    /\ t \in inflight \ silent /\ ~Held(t)
    /\ silent' = silent \cup {t}
    /\ UNCHANGED << pending, inflight, done, errors, prod, work, calls, points, faults, restarts >>

\* A worker that has t is slow, or its heartbeats are: TaskTimeout passes.
FalseTimeout(t) ==
    /\ t \in inflight \ silent /\ Held(t)
    /\ Fault
    /\ silent' = silent \cup {t}
    /\ UNCHANGED << pending, inflight, done, errors, prod, work, calls, points, restarts >>

\* Mutants: a stalled task stays in flight, or is not put back in the queue.
ReEnqueueStalled_KeepInflight ==
    /\ silent # {}
    /\ \E order \in SetToSeqs(silent) : pending' = order \o pending
    /\ silent' = {}
    /\ UNCHANGED << inflight, done, errors, prod, work, calls, points, faults, restarts >>
ReEnqueueStalled_Dropped ==
    /\ silent # {}
    /\ inflight' = inflight \ silent
    /\ silent' = {}
    /\ UNCHANGED << pending, done, errors, prod, work, calls, points, faults, restarts >>

(***************************************************************************)
(* One tick of reEnqueueStalled: every silent task goes to the front of    *)
(* the queue, in the order the map iteration happens to visit them.        *)
(***************************************************************************)
ReEnqueueStalled ==
    /\ silent # {}
    /\ \E order \in SetToSeqs(silent) : pending' = order \o pending
    /\ inflight' = inflight \ silent
    /\ silent' = {}
    /\ UNCHANGED << done, errors, prod, work, calls, points, faults, restarts >>

\* The broker process dies and starts again with newBrokerServer's state.
Restart ==
    /\ restarts < MaxRestarts
    /\ restarts' = restarts + 1
    /\ pending' = << >> /\ inflight' = {} /\ silent' = {} /\ done' = {} /\ errors' = {}
    /\ calls' = {}
    /\ UNCHANGED << prod, work, points, faults >>

-----------------------------------------------------------------------------
Producer == Submit \/ SubmitError \/ AllSubmitted \/ WaitOver \/ \E t \in Task : GetResult(t)

Work(w) ==
    \/ FindCollection(w) \/ FindError(w) \/ CreateCollection(w)
    \/ Poll(w) \/ PollLost(w) \/ Heartbeat(w) \/ Embed(w) \/ Upsert(w) \/ Fail(w)
    \/ Report(w) \/ CompleteReturns(w) \/ CompleteError(w) \/ Crash(w)

Broker ==
    \/ \E c \in calls : Complete(c)
    \/ \E t \in Task : Timeout(t) \/ FalseTimeout(t)
    \/ ReEnqueueStalled \/ Restart

Next == Producer \/ Broker \/ \E w \in Worker : Work(w)

Spec == Init /\ [][Next]_vars

(***************************************************************************)
(* The producer's loops and a running worker's loop make progress, every   *)
(* call that is not lost is served, the ticker keeps firing, and time      *)
(* passes for a task nobody works on.                                      *)
(***************************************************************************)
Fairness ==
    /\ WF_vars(Submit) /\ WF_vars(AllSubmitted) /\ WF_vars(WaitOver)
    /\ \A t \in Task : WF_vars(GetResult(t)) /\ WF_vars(Timeout(t))
    /\ \A w \in Worker : /\ WF_vars(FindCollection(w)) /\ WF_vars(CreateCollection(w))
                         /\ WF_vars(Poll(w)) /\ WF_vars(Embed(w)) /\ WF_vars(Upsert(w))
                         /\ WF_vars(Report(w)) /\ WF_vars(CompleteReturns(w))
    /\ WF_vars(\E c \in calls : Complete(c))
    /\ WF_vars(ReEnqueueStalled)

FairSpec == Spec /\ Fairness
-----------------------------------------------------------------------------
Queued == Range(pending)

(* Types *)

\* Every field of the broker, the producer and the workers has its type, and
\* a worker holds a task exactly while it works on one.
TypeOK ==
    /\ pending \in Seq(Task)
    /\ inflight \subseteq Task /\ silent \subseteq inflight
    /\ done \subseteq Task /\ errors \subseteq done
    /\ producer \in {"submitting", "waiting", "finished", "failed"}
    /\ next \in 1..NumTasks + 1 /\ waiting \subseteq Task
    /\ pc \in [Worker -> {"starting", "creating", "idle", "working", "embedded", "stored",
                          "failed", "reporting", "leaving", "exited"}]
    /\ holds \in [Worker -> Task \cup {Nil}]
    /\ \A w \in Worker : holds[w] = Nil <=> pc[w] \in {"starting", "creating", "idle", "exited"}
    /\ calls \subseteq [worker : Worker, task : Task, error : BOOLEAN]
    /\ collection \in BOOLEAN /\ qdrant \subseteq Task
    /\ faults \in 0..MaxFaults /\ restarts \in 0..MaxRestarts

(* Custody *)

(***************************************************************************)
(* The broker never has a task twice: not twice in the queue, and not in   *)
(* two of pending, inflight and done, however late heartbeats, completions *)
(* and re-enqueues interleave.                                             *)
(***************************************************************************)
OnePlace ==
    /\ \A i, j \in 1..Len(pending) : i # j => pending[i] # pending[j]
    /\ Queued \cap inflight = {} /\ Queued \cap done = {} /\ inflight \cap done = {}

(***************************************************************************)
(* A broker that does not restart loses no task: everything the producer   *)
(* waits for is queued, in flight or done (at-least-once delivery).        *)
(***************************************************************************)
NothingLost == restarts = 0 => waiting \subseteq Queued \cup inflight \cup done

(***************************************************************************)
(* A task reported done without an error has its point in Qdrant, even     *)
(* when the completion came from a worker whose task had been given away.  *)
(***************************************************************************)
SuccessIndexed == done \ errors \subseteq qdrant

\* The words of the corpus that a set of chunks holds.
WordsOf(tasks) == UNION {{Payload[t].doc_id} \X Payload[t].text : t \in tasks}

(***************************************************************************)
(* When the producer says that it has indexed the corpus, and the broker   *)
(* did not restart meanwhile, every word of every article is in Qdrant,    *)
(* the last short passage of an article included, or in a chunk reported   *)
(* with an error, and no word is in two chunks.                            *)
(***************************************************************************)
CorpusIndexed ==
    producer = "finished" /\ restarts = 0 =>
        /\ WordsOf(qdrant \cup errors) = UNION {{doc} \X (1 .. Corpus[doc]) : doc \in 1 .. Len(Corpus)}
        /\ \A t, u \in Task : t # u => WordsOf({t}) \cap WordsOf({u}) = {}

(***************************************************************************)
(* The result of a task is final: a second completion, by the worker that  *)
(* was thought dead or by its replacement, does not change it as long as   *)
(* the broker lives.                                                       *)
(***************************************************************************)
ResultFinal ==
    [][restarts' = restarts => done \subseteq done' /\ errors = errors' \cap done]_vars

\* A task the producer waits for and the broker has forgotten.
Orphan(t) == t \in waiting /\ t \notin Queued \cup inflight \cup done

(***************************************************************************)
(* "the producer would poll orphaned task IDs forever" (README.md): a task *)
(* a broker restart has forgotten stays forgotten, even when the worker    *)
(* that still has it completes it.                                         *)
(***************************************************************************)
OrphanForever == [][\A t \in Task : Orphan(t) => Orphan(t)']_vars

(***************************************************************************)
(* As long as the broker does not restart and the workers are not all gone *)
(* through some fault, the producer's wait ends: no task is stuck in       *)
(* flight with nobody on it, and the race of the workers to create the     *)
(* collection, which stops some of them, leaves one.                       *)
(***************************************************************************)
ProducerReturns ==
    <>(\/ producer \in {"finished", "failed"}
       \/ restarts > 0
       \/ faults > 0 /\ \A w \in Worker : pc[w] = "exited")
=============================================================================
