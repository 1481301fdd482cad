----------------------------- MODULE ExtractJob -----------------------------
(***************************************************************************)
(* The fan-out / fan-in of one KGExtractJob whose children are `kg_kb_chunk`*)
(* tasks: a producer plans the chunks, writes progress_total, publishes one *)
(* task per chunk, and consumers in any number of processes handle them,    *)
(* count themselves on the job row and race to finalise it.                 *)
(*                                                                          *)
(* Producer is the code that plays the parent:                              *)
(*   "kb_extract"  - routers/knowledge_graph.py _extract_kb_via_queue       *)
(*   "doc_extract" - source_sync_worker.py process_kg_doc_extract_task      *)
(* The queue under the chunks is seen here as each chunk's own position in  *)
(* it (pc[c]); the stream, its consumer group and its consumers are module  *)
(* TaskQueue.                                                               *)
(***************************************************************************)
EXTENDS Integers, FiniteSets

CONSTANTS
  Chunks,      \* the chunks a sync could plan
  Producer,    \* "kb_extract" or "doc_extract"
  Anchored,    \* the chunks whose payload names anchors
  InitTotal,   \* progress_total given to start_job (KB count, or 1)
  MaxRetries,  \* TaskMessage.max_retries of a chunk task (3 in the code)
  Env,         \* what the environment may do: a subset of EnvEvents
  MaxFaults    \* bound on the faults of one behaviour

EnvEvents == {"cancel", "watchdog", "publish", "republish", "ack", "total",
              "db", "crash"}

ASSUME ChunksAssumption    == IsFiniteSet(Chunks)
ASSUME ProducerAssumption  == Producer \in {"kb_extract", "doc_extract"}
\* The payload of kb_extract has no `file_anchors` at all; doc_extract sends an
\* empty list for a file that has filter attributes and no glossary match.
ASSUME AnchoredAssumption ==
  /\ Anchored \subseteq Chunks
  /\ Producer = "kb_extract" => Anchored = {}
ASSUME InitTotalAssumption == InitTotal \in Nat \ {0}
ASSUME RetriesAssumption   == MaxRetries \in Nat \ {0}
ASSUME EnvAssumption       == Env \subseteq EnvEvents
ASSUME FaultsAssumption    == MaxFaults \in Nat

VARIABLES
  job,      \* the kg_extract_job row
  stage,    \* where the producer is
  planned,  \* the chunks the producer collected
  pc,       \* where the task of each chunk is
  tries,    \* retry_count of the chunk's current message
  applied,  \* chunks whose extraction reached the graph
  stateRow, \* whether the kg_extract_state row of the KB exists
  recorded, \* kg_extract_state.processed_chunks
  finals,   \* how many times the finalisation code ran
  doomed,   \* the watchdog read the job as running and stale
  faults    \* faults so far (bound: MaxFaults)

vars == <<job, stage, planned, pc, tries, applied, stateRow, recorded, finals,
          doomed, faults>>

store == <<applied, stateRow, recorded>>

-----------------------------------------------------------------------------
(* Types *)

Status == {"running", "completed", "failed", "cancelled"}

Stages == {"plan", "publish", "account", "close", "finalize", "complete",
           "done", "dead"}

PCs == {"planned",                         \* not published yet
        "unsent", "writtenOff",            \* publish raised; then counted as failed
        "queued",                          \* in the stream
        "check", "work",                   \* delivered: cancel check, LLM call
        "record", "insert",                \* append_processed_chunks
        "countOk", "countFail",            \* increment_job_progress
        "claim", "finalize",               \* try_claim_job_finalization, and after
        "ack", "backoff",                  \* consumer: xack, or sleep before retry
        "permCount", "permClaim", "permFinalize",  \* permanent failure handler
        "done", "lost"}                    \* handled; never handled again

Jobs == [status : Status, current : Nat, total : Nat, succ : Nat, fail : Nat]

TypeOK ==
  /\ job \in Jobs
  /\ stage \in Stages
  /\ planned \subseteq Chunks
  /\ pc \in [Chunks -> PCs]
  /\ tries \in [Chunks -> 0..MaxRetries]
  /\ applied \subseteq Chunks
  /\ stateRow \in BOOLEAN
  /\ recorded \subseteq Chunks
  /\ finals \in Nat
  /\ doomed \in BOOLEAN
  /\ faults \in 0..MaxFaults

-----------------------------------------------------------------------------
(* The job row: models/knowledge_graph.py *)

StartedJob == [status |-> "running", current |-> 0, total |-> InitTotal,
               succ |-> 0, fail |-> 0]

\* Mutant: a failure moves the progress twice.
Incremented_FailuresTwice(j, succ, fail) ==
  [j EXCEPT !.current = @ + succ + 2 * fail, !.succ = @ + succ, !.fail = @ + fail]

Incremented(j, succ, fail) ==
  [j EXCEPT !.current = @ + succ + fail, !.succ = @ + succ, !.fail = @ + fail]

\* complete_job has no status guard, tops progress up and replaces stats.
Completed(j) ==
  [j EXCEPT !.status = "completed", !.succ = 0, !.fail = 0,
            !.current = IF j.current < j.total THEN j.total ELSE @]

\* Mutants: the claim ignores the status; it lets the last but one through.
Claimable_AnyStatus(j) == j.total > 0 /\ j.current >= j.total
Claimable_OneEarly(j) == j.status = "running" /\ j.total > 0 /\ j.current + 1 >= j.total

Claimable(j) == j.status = "running" /\ j.total > 0 /\ j.current >= j.total

Claimed(j) == [j EXCEPT !.status = "completed"]

-----------------------------------------------------------------------------
(* Faults *)

Fault(kind) ==
  /\ kind \in Env
  /\ faults < MaxFaults
  /\ faults' = faults + 1

NoFault == faults' = faults

-----------------------------------------------------------------------------
Init ==
  /\ job = StartedJob
  /\ stage = "plan"
  /\ planned = {}
  /\ pc = [c \in Chunks |-> "planned"]
  /\ tries = [c \in Chunks |-> 0]
  /\ applied = {}
  /\ stateRow \in BOOLEAN
  /\ recorded = {}
  /\ finals = 0
  /\ doomed = FALSE
  /\ faults = 0

-----------------------------------------------------------------------------
(* The producer *)

\* doc_extract: the link is gone or carries no model config.
RejectPlan ==
  /\ stage = "plan"
  /\ Producer = "doc_extract"
  /\ job' = [job EXCEPT !.status = "failed", !.succ = 0, !.fail = 0]
  /\ stage' = "done"
  /\ UNCHANGED <<planned, pc, tries, store, finals, doomed, faults>>

\* Nothing to extract: kb_extract completes the job and only refreshes stats;
\* doc_extract completes it in its empty branches, then finalises.
PlanNothing ==
  /\ stage = "plan"
  /\ IF Producer = "kb_extract"
       THEN job' = Completed(job) /\ stage' = "done"
       ELSE UNCHANGED job /\ stage' = "complete"
  /\ UNCHANGED <<planned, pc, tries, store, finals, doomed, faults>>

\* progress_total is written before the first publish; an exception there is
\* swallowed and the initial total stays.
PlanChunks ==
  /\ stage = "plan"
  /\ \E P \in (SUBSET Chunks) \ {{}} :
       /\ planned' = P
       /\ \/ NoFault /\ job' = [job EXCEPT !.total = Cardinality(P)]
          \/ Fault("total") /\ UNCHANGED job
  /\ stage' = "publish"
  /\ UNCHANGED <<pc, tries, store, finals, doomed>>

Publish(c) ==
  /\ stage = "publish"
  /\ c \in planned
  /\ pc[c] = "planned"
  /\ \/ NoFault /\ pc' = [pc EXCEPT ![c] = "queued"]
     \/ Fault("publish") /\ pc' = [pc EXCEPT ![c] = "unsent"]
  /\ UNCHANGED <<job, stage, planned, tries, store, finals, doomed>>

Unsent == {c \in planned : pc[c] = "unsent"}

PublishEnd ==
  /\ stage = "publish"
  /\ \A c \in planned : pc[c] # "planned"
  /\ stage' = IF Unsent = {} THEN "close" ELSE "account"
  /\ UNCHANGED <<job, planned, pc, tries, store, finals, doomed, faults>>

\* The chunks that could not be published are counted as failed, at once.
AccountUnsent ==
  /\ stage = "account"
  /\ \/ NoFault /\ job' = Incremented(job, 0, Cardinality(Unsent))
     \/ Fault("db") /\ UNCHANGED job
  /\ pc' = [c \in Chunks |-> IF c \in Unsent THEN "writtenOff" ELSE pc[c]]
  /\ stage' = "close"
  /\ UNCHANGED <<planned, tries, store, finals, doomed>>

\* Mutant: nobody claims the job after publishing.
CloseKbExtract_NoClaim ==
  /\ stage = "close"
  /\ Producer = "kb_extract"
  /\ stage' = "done"
  /\ UNCHANGED <<job, planned, pc, tries, store, finals, doomed, faults>>

\* kb_extract: one more try_claim after publishing. An exception in the
\* transaction is swallowed and reads as "not claimed".
CloseKbExtract ==
  /\ stage = "close"
  /\ Producer = "kb_extract"
  /\ \/ /\ NoFault
        /\ Claimable(job)
        /\ job' = Claimed(job)
        /\ stage' = "finalize"
     \/ /\ NoFault
        /\ ~Claimable(job)
        /\ stage' = "done"
        /\ UNCHANGED job
     \/ /\ Fault("db")
        /\ stage' = "done"
        /\ UNCHANGED job
  /\ UNCHANGED <<planned, pc, tries, store, finals, doomed>>

\* doc_extract: nothing more, unless no chunk at all was enqueued.
CloseDocExtract ==
  /\ stage = "close"
  /\ Producer = "doc_extract"
  /\ stage' = IF \A c \in planned : pc[c] = "writtenOff" THEN "complete" ELSE "done"
  /\ UNCHANGED <<job, planned, pc, tries, store, finals, doomed, faults>>

\* doc_extract with nothing enqueued: complete_job (whose failure is
\* swallowed), then _finalize_parent in any case.
CompleteEmpty ==
  /\ stage = "complete"
  /\ \/ NoFault /\ job' = Completed(job)
     \/ Fault("db") /\ UNCHANGED job
  /\ stage' = "finalize"
  /\ UNCHANGED <<planned, pc, tries, store, finals, doomed>>

FinalizeByProducer ==
  /\ stage = "finalize"
  /\ finals' = finals + 1
  /\ stage' = "done"
  /\ UNCHANGED <<job, planned, pc, tries, store, doomed, faults>>

-----------------------------------------------------------------------------
(* The consumers: kb_chunk_worker.py under task_queue.py handle_message *)

Goto(c, l) == pc' = [pc EXCEPT ![c] = l]

Deliver(c) ==
  /\ pc[c] = "queued"
  /\ Goto(c, "check")
  /\ UNCHANGED <<job, stage, planned, tries, store, finals, doomed, faults>>

\* Mutant: a chunk skipped by a cancellation takes the path of a success.
AfterCheck_SkippedIsSuccess(c, cancelled) ==
  IF cancelled \/ c \notin Anchored THEN "record" ELSE "work"

\* A cancelled job's chunks are skipped and counted as failed; a chunk without
\* anchors is recorded as processed without an LLM call. (So is one of less
\* than 50 characters, seen here as an extraction that found nothing.)
AfterCheck(c, cancelled) ==
  CASE cancelled                      -> "countFail"
    [] ~cancelled /\ c \in Anchored    -> "work"
    [] ~cancelled /\ c \notin Anchored -> "record"

\* is_job_cancelled reads without a lock and answers False when it raises.
CheckCancelled(c) ==
  /\ pc[c] = "check"
  /\ \/ NoFault /\ Goto(c, AfterCheck(c, job.status = "cancelled"))
     \/ Fault("db") /\ Goto(c, AfterCheck(c, FALSE))
  /\ UNCHANGED <<job, stage, planned, tries, store, finals, doomed>>

\* LLM call, JSON parsing and graph upserts.
Extract(c) ==
  /\ pc[c] = "work"
  /\ applied' = applied \cup {c}
  /\ Goto(c, "record")
  /\ UNCHANGED <<job, stage, planned, tries, stateRow, recorded, finals, doomed, faults>>

\* Mutants: one retry too many; no permanent-failure handler.
Raised_OneMore(c) == Goto(c, IF tries[c] <= MaxRetries THEN "backoff" ELSE "permCount")
Raised_NoHandler(c) == Goto(c, IF tries[c] < MaxRetries THEN "backoff" ELSE "lost")

\* A handler exception: the consumer retries, or gives the chunk up.
Raised(c) == Goto(c, IF tries[c] < MaxRetries THEN "backoff" ELSE "permCount")

ExtractFails(c) ==
  /\ pc[c] = "work"
  /\ Raised(c)
  /\ UNCHANGED <<job, stage, planned, tries, store, finals, doomed, faults>>

\* append_processed_chunks: FOR UPDATE locks the row when there is one; when
\* there is none it locks nothing and the chunk goes on to INSERT it. An
\* exception is swallowed and the chunk is not recorded.
Record(c) ==
  /\ pc[c] = "record"
  /\ \/ /\ NoFault
        /\ stateRow
        /\ recorded' = recorded \cup {c}
        /\ Goto(c, "countOk")
     \/ /\ NoFault
        /\ ~stateRow
        /\ UNCHANGED recorded
        /\ Goto(c, "insert")
     \/ /\ Fault("db")
        /\ UNCHANGED recorded
        /\ Goto(c, "countOk")
  /\ UNCHANGED <<job, stage, planned, tries, applied, stateRow, finals, doomed>>

\* A row that appeared in between makes the INSERT fail on its primary key;
\* the exception is swallowed and the chunk is not recorded.
InsertRow(c) ==
  /\ pc[c] = "insert"
  /\ recorded' = IF stateRow THEN recorded ELSE {c}
  /\ stateRow' = TRUE
  /\ Goto(c, "countOk")
  /\ UNCHANGED <<job, stage, planned, tries, applied, finals, doomed, faults>>

Count(c) ==
  /\ pc[c] \in {"countOk", "countFail", "permCount"}
  /\ \/ /\ NoFault
        /\ job' = IF pc[c] = "countOk" THEN Incremented(job, 1, 0)
                                       ELSE Incremented(job, 0, 1)
     \/ Fault("db") /\ UNCHANGED job
  /\ Goto(c, IF pc[c] = "permCount" THEN "permClaim" ELSE "claim")
  /\ UNCHANGED <<stage, planned, tries, store, finals, doomed>>

\* After the claim a handled chunk is acked; a given-up chunk is finished.
AfterHandler(l) == IF l \in {"claim", "finalize"} THEN "ack" ELSE "done"

TryClaim(c) ==
  /\ pc[c] \in {"claim", "permClaim"}
  /\ \/ /\ NoFault
        /\ Claimable(job)
        /\ job' = Claimed(job)
        /\ Goto(c, IF pc[c] = "claim" THEN "finalize" ELSE "permFinalize")
     \/ /\ NoFault
        /\ ~Claimable(job)
        /\ UNCHANGED job
        /\ Goto(c, AfterHandler(pc[c]))
     \/ /\ Fault("db")
        /\ UNCHANGED job
        /\ Goto(c, AfterHandler(pc[c]))
  /\ UNCHANGED <<stage, planned, tries, store, finals, doomed>>

\* Stats refresh, reindexing and the kg-job-completed notification.
Finalize(c) ==
  /\ pc[c] \in {"finalize", "permFinalize"}
  /\ finals' = finals + 1
  /\ Goto(c, AfterHandler(pc[c]))
  /\ UNCHANGED <<job, stage, planned, tries, store, doomed, faults>>

\* xack and xdel sit in the try of the handler call: when one raises, the
\* chunk that was just handled takes the path of a failed one.
Ack(c) ==
  /\ pc[c] = "ack"
  /\ \/ NoFault /\ Goto(c, "done")
     \/ Fault("ack") /\ Raised(c)
  /\ UNCHANGED <<job, stage, planned, tries, store, finals, doomed>>

\* The message is acked in the `finally` whether or not xadd succeeded.
Republish(c) ==
  /\ pc[c] = "backoff"
  /\ \/ /\ NoFault
        /\ Goto(c, "queued")
        /\ tries' = [tries EXCEPT ![c] = @ + 1]
     \/ /\ Fault("republish")
        /\ Goto(c, "lost")
        /\ UNCHANGED tries
  /\ UNCHANGED <<job, stage, planned, store, finals, doomed>>

-----------------------------------------------------------------------------
(* The environment *)

Cancel ==
  /\ "cancel" \in Env
  /\ job.status = "running"
  /\ job' = [job EXCEPT !.status = "cancelled"]
  /\ UNCHANGED <<stage, planned, pc, tries, store, finals, doomed, faults>>

\* kg_job_watchdog loads the running jobs without a lock: nothing the chunk
\* workers do touches last_heartbeat_at, so a job old enough is stale whatever
\* progress it makes.
WatchdogRead ==
  /\ "watchdog" \in Env
  /\ ~doomed
  /\ job.status = "running"
  /\ doomed' = TRUE
  /\ UNCHANGED <<job, stage, planned, pc, tries, store, finals, faults>>

WatchdogCommit ==
  /\ doomed
  /\ job' = [job EXCEPT !.status = "failed"]
  /\ doomed' = FALSE
  /\ UNCHANGED <<stage, planned, pc, tries, store, finals, faults>>

\* The consumer is past the point where the chunk is counted.
PastCount == {"claim", "finalize", "ack", "permClaim", "permFinalize", "done"}

Held == PCs \ {"planned", "unsent", "writtenOff", "queued", "done", "lost"}

\* A process dies. A message it held stays in the pending list of a consumer
\* name that no process will ever use again, and readers ask only for ">".
ConsumerCrash(c) ==
  /\ pc[c] \in Held
  /\ Fault("crash")
  /\ Goto(c, IF pc[c] \in PastCount THEN "done" ELSE "lost")
  /\ UNCHANGED <<job, stage, planned, tries, store, finals, doomed>>

ProducerCrash ==
  /\ stage \notin {"done", "dead"}
  /\ Fault("crash")
  /\ stage' = "dead"
  /\ UNCHANGED <<job, planned, pc, tries, store, finals, doomed>>

-----------------------------------------------------------------------------
ProducerStep ==
  \/ RejectPlan \/ PlanNothing \/ PlanChunks
  \/ \E c \in Chunks : Publish(c)
  \/ PublishEnd \/ AccountUnsent
  \/ CloseKbExtract \/ CloseDocExtract \/ CompleteEmpty \/ FinalizeByProducer

ChunkStep(c) ==
  \/ Deliver(c) \/ CheckCancelled(c)
  \/ Extract(c) \/ ExtractFails(c)
  \/ Record(c) \/ InsertRow(c)
  \/ Count(c) \/ TryClaim(c) \/ Finalize(c)
  \/ Ack(c) \/ Republish(c)

EnvStep ==
  \/ Cancel \/ WatchdogRead \/ WatchdogCommit
  \/ (\E c \in Chunks : ConsumerCrash(c)) \/ ProducerCrash

Next == ProducerStep \/ (\E c \in Chunks : ChunkStep(c)) \/ EnvStep

Spec == Init /\ [][Next]_vars

\* Every consumer process keeps running its event loop, and so does the
\* producer's: a step that stays possible is taken.
FairSpec ==
  /\ Spec
  /\ WF_vars(ProducerStep)
  /\ \A c \in Chunks : WF_vars(ChunkStep(c))
  /\ WF_vars(WatchdogCommit)

-----------------------------------------------------------------------------
(* Properties *)

Settled == {c \in planned : pc[c] \in PastCount \cup {"writtenOff"}}

Finalizing == {c \in Chunks : pc[c] \in {"finalize", "permFinalize"}}

\* However consumers race, crash or fail, the finalisation code of a job
\* (stats refresh, reindexing, completion notice, next phase) is entered at
\* most once: try_claim_job_finalization lets one caller through.
FinalizedAtMostOnce ==
  /\ finals <= 1
  /\ Cardinality(Finalizing) <= 1
  /\ stage = "finalize" \/ finals = 1 => Finalizing = {}
  /\ stage = "finalize" => finals = 0

\* A job that reads "completed" has no planned chunk that is still to be
\* handled: the last chunk to count itself is the one that completes the job.
CompletedMeansAllSettled ==
  job.status = "completed" => planned \subseteq Settled

\* While the job runs, progress_current is exactly the number of chunks dealt
\* with, and the success and failure counters in stats add up to it.
ProgressExact ==
  job.status = "running" =>
    /\ job.current = Cardinality(Settled)
    /\ job.succ + job.fail = job.current

Quiet ==
  /\ stage = "done"
  /\ \A c \in planned : pc[c] \in {"done", "writtenOff"}

\* Once the producer has returned and every chunk was handled, nobody is left
\* to finalise the job, so it must not read "running" any more.
NotLeftRunning == Quiet => job.status # "running"

\* A chunk of a file that has anchors is only marked as processed, and so left
\* out of the next sync, when its extraction reached the graph: neither a
\* cancellation nor a failed attempt marks it. (One without anchors is marked
\* without any extraction.)
RecordedMeansExtracted == recorded \cap Anchored \subseteq applied

\* A cancelled job whose chunks were planned stays cancelled, however many of
\* them are still being handled or could not be published.
CancelSticksOncePlanned ==
  [][job.status = "cancelled" /\ planned # {} => job'.status = "cancelled"]_vars

\* Unless the environment fails, every job ends, however often the handlers of
\* its chunks raise.
JobEnds == <>(job.status # "running" \/ faults > 0)

\* The job as its readers see it is a barrier over the planned chunks.
Phase ==
  CASE job.status = "running"   -> "open"
    [] job.status = "completed" -> "closed"
    [] OTHER                    -> "aborted"

Barrier == INSTANCE JobBarrier WITH
  Members <- Chunks,
  phase   <- Phase,
  joined  <- planned,
  settled <- Settled

ImplementsBarrier == Barrier!Spec

\* Each chunk's task lives the life of a queued task.
TaskPlace(l) ==
  CASE l \in {"planned", "unsent", "writtenOff"}            -> "none"
    [] l = "queued"                                         -> "queued"
    [] l = "backoff"                                        -> "backoff"
    [] l \in {"permCount", "permClaim", "permFinalize"}      -> "givingUp"
    [] l \in {"done", "lost"}                               -> "gone"
    [] OTHER                                                -> "busy"

ChunkLife == INSTANCE Delivery WITH
  Tasks <- Chunks,
  Limit <- [c \in Chunks |-> MaxRetries],
  at    <- [c \in Chunks |-> TaskPlace(pc[c])]

ImplementsDelivery == ChunkLife!Spec

=============================================================================
