----------------------------- MODULE TaskQueue -----------------------------
(***************************************************************************)
(* services/task_queue.py: the Redis stream "cloosphere:tasks", its consumer*)
(* group "workers" and the consumer loops that run inside every server      *)
(* process, with the operator's queue-maintenance calls (routers/configs.py)*)
(* and the periodic clean-up (main.py _worker_cleanup_loop).                *)
(*                                                                          *)
(* A worker is one incarnation of a server process: its consumer name holds *)
(* the host name and the pid, so a restart is another worker.               *)
(***************************************************************************)
EXTENDS Integers, Sequences, FiniteSets

CONSTANTS
  Tasks,        \* the tasks that may be published
  Retried,      \* those published with max_retries > 0 (kg_kb_chunk)
  RetryLimit,   \* their max_retries
  Workers,      \* process incarnations
  Concurrency,  \* CONCURRENT_TASKS: read count and semaphore
  Env,          \* what may go wrong: a subset of EnvEvents
  MaxFaults     \* bound on the faults of one behaviour

EnvEvents == {"crash",      \* a server process dies
              "ack",        \* xack or xdel raises
              "republish",  \* the xadd of a retry raises
              "destroy",    \* XGROUP DESTROY or a group lost in a restart
              "flush",      \* FLUSHDB
              "trim",       \* an operator deletes or clears stream entries
              "sweep",      \* an operator or the clean-up loop sweeps
              "slow"}       \* a handler outlives the sweep's idle limits

ASSUME RetriedAssumption     == Retried \subseteq Tasks
ASSUME RetryLimitAssumption  == RetryLimit \in Nat \ {0}
ASSUME ConcurrencyAssumption == Concurrency \in Nat \ {0}
ASSUME EnvAssumption         == Env \subseteq EnvEvents
ASSUME FaultsAssumption      == MaxFaults \in Nat

VARIABLES
  log,      \* every entry ever added: log[i] is entry i's task and retry_count
  stream,   \* the entries still in the stream
  group,    \* whether the consumer group exists
  lastId,   \* its last-delivered-id
  pel,      \* its pending entries: pairs <<entry, worker>>
  life,     \* of each worker: "new", "up" or "down"
  hand,     \* per worker, the phase of each message of its current batch
  sweep,    \* the maintenance call in progress
  outcome,  \* per task, how often its handler succeeded and was given up
  faults    \* faults so far (bound: MaxFaults)

redis == <<log, stream, group, lastId, pel>>
vars == <<redis, life, hand, sweep, outcome, faults>>

Entries == 1..Len(log)

LimitOf(t) == IF t \in Retried THEN RetryLimit ELSE 0

Phases == {"run",      \* the handler is running
           "ack",      \* it returned: xack, xdel
           "backoff",  \* it raised: sleeping before the retry is published
           "giveUp",   \* it raised for the last time
           "finish"}   \* the last xack, xdel, whose failure is ignored

NoBatch == [i \in {} |-> "run"]

NoSweep == [kind |-> "none", reclaim |-> {}, doomed |-> {}]

TypeOK ==
  /\ log \in Seq([task : Tasks, retry : 0..RetryLimit])
  /\ stream \subseteq Entries
  /\ group \in BOOLEAN
  /\ lastId \in 0..Len(log)
  /\ pel \subseteq Entries \X Workers
  /\ life \in [Workers -> {"new", "up", "down"}]
  /\ DOMAIN hand = Workers
  /\ \A w \in Workers : DOMAIN hand[w] \subseteq Entries /\ hand[w] \in [DOMAIN hand[w] -> Phases]
  /\ sweep \in [kind : {"none", "reclaim", "delete", "zombies"},
               reclaim : SUBSET Entries, doomed : SUBSET Workers]
  /\ outcome \in [Tasks -> [ok : Nat, gaveUp : Nat]]
  /\ faults \in 0..MaxFaults

Init ==
  /\ log = << >>
  /\ stream = {}
  /\ group = FALSE
  /\ lastId = 0
  /\ pel = {}
  /\ life = [w \in Workers |-> "new"]
  /\ hand = [w \in Workers |-> NoBatch]
  /\ sweep = NoSweep
  /\ outcome = [t \in Tasks |-> [ok |-> 0, gaveUp |-> 0]]
  /\ faults = 0

Fault(kind) ==
  /\ kind \in Env
  /\ faults < MaxFaults
  /\ faults' = faults + 1

NoFault == faults' = faults

-----------------------------------------------------------------------------
(* Redis commands *)

XAdd(t, r) ==
  /\ log' = Append(log, [task |-> t, retry |-> r])
  /\ stream' = stream \cup {Len(log) + 1}

\* XACK then XDEL of one entry.
AckDel(i) ==
  /\ pel' = {p \in pel : p[1] # i}
  /\ stream' = stream \ {i}

Pending(w) == {i \in Entries : <<i, w>> \in pel}

AllPending == {p[1] : p \in pel}

-----------------------------------------------------------------------------
(* Producers and the consumer loop *)

Publish(t) ==
  /\ \A i \in Entries : log[i].task # t
  /\ XAdd(t, 0)
  /\ UNCHANGED <<group, lastId, pel, life, hand, sweep, outcome, faults>>

\* Mutant: the group starts at "$", the end of the stream.
EnsureGroup_AtEnd == group' = TRUE /\ lastId' = IF group THEN lastId ELSE Len(log)

\* XGROUP CREATE ... id="0" MKSTREAM; BUSYGROUP is ignored.
EnsureGroup ==
  /\ group' = TRUE
  /\ lastId' = IF group THEN lastId ELSE 0

Start(w) ==
  /\ life[w] = "new"
  /\ life' = [life EXCEPT ![w] = "up"]
  /\ EnsureGroup
  /\ UNCHANGED <<log, stream, pel, hand, sweep, outcome, faults>>

\* A new batch is read only when every message of the last one is finished.
Idle(w) == life[w] = "up" /\ DOMAIN hand[w] = {}

\* Mutant: reads with id "0" hand out what was delivered already.
Fresh_Delivered == stream

Fresh == {i \in stream : i > lastId}

\* The oldest messages that were not delivered, as many as there are, up to
\* Concurrency of them.
Read(w) ==
  /\ Idle(w)
  /\ group
  /\ \E last \in Fresh :
       LET batch == {i \in Fresh : i <= last} IN
       /\ Cardinality(batch) = Concurrency \/ (Cardinality(batch) < Concurrency /\ batch = Fresh)
       /\ lastId' = last
       /\ pel' = pel \cup (batch \X {w})
       /\ hand' = [hand EXCEPT ![w] = [i \in batch |-> "run"]]
  /\ UNCHANGED <<log, stream, group, life, sweep, outcome, faults>>

\* NOGROUP: the consumer recreates the group from the start of the stream.
Regroup(w) ==
  /\ Idle(w)
  /\ ~group
  /\ EnsureGroup
  /\ UNCHANGED <<log, stream, pel, life, hand, sweep, outcome, faults>>

In(w, i, phase) ==
  /\ i \in DOMAIN hand[w]
  /\ hand[w][i] = phase

To(w, i, phase) == hand' = [hand EXCEPT ![w][i] = phase]

Drop(w, i) ==
  hand' = [hand EXCEPT ![w] = [j \in DOMAIN hand[w] \ {i} |-> hand[w][j]]]

\* What the except branch of handle_message decides.
Raised(w, i) ==
  LET e     == log[i]
      limit == LimitOf(e.task)
  IN  \/ e.retry < limit /\ To(w, i, "backoff")
      \/ e.retry >= limit /\ limit > 0 /\ To(w, i, "giveUp")
      \/ limit = 0 /\ To(w, i, "finish")

HandlerReturns(w, i) ==
  /\ In(w, i, "run")
  /\ To(w, i, "ack")
  /\ outcome' = [outcome EXCEPT ![log[i].task].ok = @ + 1]
  /\ UNCHANGED <<redis, life, sweep, faults>>

HandlerRaises(w, i) ==
  /\ In(w, i, "run")
  /\ Raised(w, i)
  /\ outcome' = IF LimitOf(log[i].task) = 0
                  THEN [outcome EXCEPT ![log[i].task].gaveUp = @ + 1]
                  ELSE outcome
  /\ UNCHANGED <<redis, life, sweep, faults>>

\* xack and xdel are in the try of the handler: if one raises, the message
\* that was just handled goes the way of a failed one.
Ack(w, i) ==
  /\ In(w, i, "ack")
  /\ \/ NoFault /\ AckDel(i) /\ Drop(w, i)
     \/ Fault("ack") /\ UNCHANGED <<pel, stream>> /\ Raised(w, i)
     \/ /\ Fault("ack")
        /\ pel' = {p \in pel : p[1] # i}
        /\ UNCHANGED stream
        /\ Raised(w, i)
  /\ UNCHANGED <<log, group, lastId, life, sweep, outcome>>

\* Mutant: retry_count is not incremented.
Republish_SameCount(w, i) ==
  /\ In(w, i, "backoff")
  /\ XAdd(log[i].task, log[i].retry)
  /\ To(w, i, "finish")
  /\ UNCHANGED <<group, lastId, pel, life, sweep, outcome, faults>>

\* After the backoff the retry is published; a failure is only logged.
Republish(w, i) ==
  /\ In(w, i, "backoff")
  /\ \/ NoFault /\ XAdd(log[i].task, log[i].retry + 1)
     \/ Fault("republish") /\ UNCHANGED <<log, stream>>
  /\ To(w, i, "finish")
  /\ UNCHANGED <<group, lastId, pel, life, sweep, outcome>>

\* _handle_permanent_failure; its exceptions are caught.
GiveUp(w, i) ==
  /\ In(w, i, "giveUp")
  /\ To(w, i, "finish")
  /\ outcome' = [outcome EXCEPT ![log[i].task].gaveUp = @ + 1]
  /\ UNCHANGED <<redis, life, sweep, faults>>

Finish(w, i) ==
  /\ In(w, i, "finish")
  /\ Drop(w, i)
  /\ \/ NoFault /\ AckDel(i)
     \/ Fault("ack") /\ UNCHANGED <<pel, stream>>
     \/ Fault("ack") /\ pel' = {p \in pel : p[1] # i} /\ UNCHANGED stream
  /\ UNCHANGED <<log, group, lastId, life, sweep, outcome>>

-----------------------------------------------------------------------------
(* Operators and the clean-up loop *)

Crash(w) ==
  /\ life[w] = "up"
  /\ Fault("crash")
  /\ life' = [life EXCEPT ![w] = "down"]
  /\ hand' = [hand EXCEPT ![w] = NoBatch]
  /\ UNCHANGED <<redis, sweep, outcome>>

LoseGroup ==
  /\ group
  /\ \/ Fault("destroy") /\ UNCHANGED stream
     \/ Fault("flush") /\ stream' = {}
  /\ group' = FALSE
  /\ pel' = {}
  /\ lastId' = 0
  /\ UNCHANGED <<log, life, hand, sweep, outcome>>

\* delete_task and clear_queue remove entries and leave the pending list.
TrimStream ==
  /\ Fault("trim")
  /\ stream # {}
  /\ stream' \in {stream \ {i} : i \in stream} \cup {{}}
  /\ UNCHANGED <<log, group, lastId, pel, life, hand, sweep, outcome>>

BeginSweep(kind, reclaim, doomed) ==
  /\ sweep = NoSweep
  /\ Fault("sweep")
  /\ sweep' = [kind |-> kind, reclaim |-> reclaim, doomed |-> doomed]
  /\ UNCHANGED <<redis, life, hand, outcome>>

\* Old enough for the idle limits: the consumer died, or it has not polled for
\* long because a handler of its batch is still running.
Stale(w) == life[w] = "down" \/ ("slow" \in Env /\ DOMAIN hand[w] # {})

\* reclaim_stuck_messages and ack_and_delete_message.
ReclaimStuck ==
  \E S \in SUBSET {p[1] : p \in {q \in pel : Stale(q[2])}} :
    S # {} /\ BeginSweep("reclaim", S, {})

\* delete_consumer: refused when something is pending, unless reclaiming.
DeleteConsumer(w) ==
  /\ group
  /\ life[w] # "new"
  /\ \/ Pending(w) = {} /\ BeginSweep("delete", {}, {w})
     \/ Pending(w) # {} /\ BeginSweep("delete", Pending(w), {w})

\* cleanup_zombie_consumers: a snapshot, then one XGROUP DELCONSUMER each.
CleanupZombies ==
  /\ group
  /\ \E D \in SUBSET {w \in Workers : Stale(w) /\ Pending(w) = {}} :
       D # {} /\ BeginSweep("zombies", {}, D)

\* Mutant: a stuck message is published again instead of dropped.
SweepAck_Requeues(i) ==
  /\ i \in sweep.reclaim
  /\ XAdd(log[i].task, log[i].retry)
  /\ pel' = {p \in pel : p[1] # i}
  /\ sweep' = IF sweep.reclaim = {i} /\ sweep.doomed = {}
                THEN NoSweep ELSE [sweep EXCEPT !.reclaim = @ \ {i}]
  /\ UNCHANGED <<group, lastId, life, hand, outcome, faults>>

SweepAck(i) ==
  /\ i \in sweep.reclaim
  /\ AckDel(i)
  /\ sweep' = LET rest == [sweep EXCEPT !.reclaim = @ \ {i}] IN
              IF rest.reclaim = {} /\ rest.doomed = {} THEN NoSweep ELSE rest
  /\ UNCHANGED <<log, group, lastId, life, hand, outcome, faults>>

\* XGROUP DELCONSUMER drops whatever the consumer has pending by now.
SweepDelete(w) ==
  /\ sweep.reclaim = {}
  /\ w \in sweep.doomed
  /\ pel' = {p \in pel : p[2] # w}
  /\ sweep' = IF sweep.doomed = {w} THEN NoSweep
                                    ELSE [sweep EXCEPT !.doomed = @ \ {w}]
  /\ UNCHANGED <<log, stream, group, lastId, life, hand, outcome, faults>>

-----------------------------------------------------------------------------
MessageStep(w, i) ==
  \/ HandlerReturns(w, i) \/ HandlerRaises(w, i) \/ Ack(w, i)
  \/ Republish(w, i) \/ GiveUp(w, i) \/ Finish(w, i)

WorkerStep(w) ==
  \/ Start(w) \/ Read(w) \/ Regroup(w)
  \/ \E i \in Entries : MessageStep(w, i)

SweepStep == (\E i \in Entries : SweepAck(i)) \/ (\E w \in Workers : SweepDelete(w))

Next ==
  \/ \E t \in Tasks : Publish(t)
  \/ \E w \in Workers : WorkerStep(w) \/ Crash(w) \/ DeleteConsumer(w)
  \/ LoseGroup \/ TrimStream \/ ReclaimStuck \/ CleanupZombies \/ SweepStep

Spec == Init /\ [][Next]_vars

\* Every process starts, and while it is up its event loop runs whatever of
\* its consumer loop and its handlers can go on: the messages of a batch are
\* finitely many steps, and the next batch is read after the last of them.
FairSpec == Spec /\ \A w \in Workers : WF_vars(WorkerStep(w))

-----------------------------------------------------------------------------
(* Properties *)

Handling == {h \in Workers \X Entries : h[2] \in DOMAIN hand[h[1]]}

Published == {log[i].task : i \in Entries}

Ended(t) == outcome[t].ok + outcome[t].gaveUp > 0

\* Wherever processes die and acks fail, a published task is never silently
\* gone: it was handled, it was given up, it waits in the stream, a live
\* worker holds it, or it is in the pending list for the operator to see.
NoSilentLoss ==
  \A t \in Published :
    \/ Ended(t)
    \/ \E i \in Fresh : log[i].task = t
    \/ \E h \in Handling : log[h[2]].task = t
    \/ \E i \in AllPending : log[i].task = t

\* Two handlers never run the same task at the same time.
OneHandlerPerTask ==
  \A g, h \in Handling :
    /\ hand[g[1]][g[2]] = "run"
    /\ hand[h[1]][h[2]] = "run"
    /\ log[g[2]].task = log[h[2]].task
    => g = h

\* The same with the types it rests on, among them the limit of the retries.
HandlersInv == TypeOK /\ OneHandlerPerTask

\* A task whose handler succeeded is not given up as well, nor does it
\* succeed twice.
OneOutcome == \A t \in Tasks : outcome[t].ok + outcome[t].gaveUp <= 1

Crashed == \E w \in Workers : life[w] = "down"

\* Unless a process dies, every published task is handled or given up, also
\* when the consumer group disappears under the consumers or an ack raises.
EveryTaskEnds == \A t \in Tasks : t \in Published ~> (Ended(t) \/ Crashed)

\* Each task lives the life Delivery describes.
EntriesOf(t) == {i \in Entries : log[i].task = t}

HeldIn(t, phases) == \E w \in Workers, i \in EntriesOf(t), x \in phases : In(w, i, x)

Place(t) ==
  IF EntriesOf(t) = {} THEN "none"
  ELSE IF EntriesOf(t) \cap Fresh # {} THEN "queued"
  ELSE IF HeldIn(t, {"run", "ack"}) THEN "busy"
  ELSE IF HeldIn(t, {"backoff"}) THEN "backoff"
  ELSE IF HeldIn(t, {"giveUp"}) THEN "givingUp"
  ELSE "gone"

\* How often it was published again.
Republished(t) == IF EntriesOf(t) = {} THEN 0 ELSE Cardinality(EntriesOf(t)) - 1

Life == INSTANCE Delivery WITH
  Limit <- [t \in Tasks |-> LimitOf(t)],
  at    <- [t \in Tasks |-> Place(t)],
  tries <- [t \in Tasks |-> Republished(t)]

ImplementsDelivery == Life!Spec

=============================================================================
