---------------------------- MODULE ExtractJobInv ----------------------------
(***************************************************************************)
(* The inductive invariants behind the safety of ExtractJob, kept apart     *)
(* from their proofs (ExtractJob_proofs) so that TLC can check them too.    *)
(***************************************************************************)
EXTENDS ExtractJob

\* TypeOK is not inductive by itself: only a chunk that has a retry left waits
\* for one.
TypeInv ==
  /\ TypeOK
  /\ \A c \in Chunks : pc[c] = "backoff" => tries[c] < MaxRetries

Untouched == {"planned", "unsent", "writtenOff"}

\* No chunk was published.
Barren == \A c \in Chunks : pc[c] \in {"planned", "writtenOff"}

\* Who may still finalise: a chunk or the kb_extract producer that took the job
\* out of "running", or the doc_extract producer when no chunk was published.
FinalInv ==
  /\ finals \in {0, 1}
  /\ stage = "plan" => Barren /\ planned = {} /\ finals = 0
  /\ \A c \in Chunks : pc[c] # "planned" => c \in planned
  /\ stage = "complete" => finals = 0 /\ Barren
  /\ stage = "finalize" => finals = 0 /\ (job.status # "running" \/ Barren)
  /\ \A c \in Finalizing :
       /\ finals = 0
       /\ job.status # "running"
       /\ stage # "finalize"
       /\ \A d \in Finalizing : d = c
  /\ finals = 1 => job.status # "running" \/ (stage = "done" /\ Barren)
  /\ finals = 1 /\ stage \in {"publish", "account", "close"}
       => \E c \in Chunks : pc[c] \notin Untouched

\* While the job runs its progress is never ahead of the chunks dealt with,
\* and its total is their number.
CountInv ==
  /\ stage = "plan" => planned = {} /\ Barren /\ job.status # "completed"
  /\ \A c \in Chunks : pc[c] # "planned" => c \in planned
  /\ stage = "complete" => planned \subseteq Settled
  /\ job.status = "running" => job.current <= Cardinality(Settled)
  /\ job.status = "running" /\ planned # {} => job.total = Cardinality(planned)
  /\ job.status = "completed" => planned \subseteq Settled

\* Where the job is a barrier: progress_total is written, acks succeed, the
\* watchdog does not touch the job, and doc_extract publishes all its chunks.
BarrierEnv ==
  /\ Env \cap {"ack", "total", "watchdog"} = {}
  /\ Producer = "kb_extract" \/ "publish" \notin Env

\* complete_job is then reached only by a job that has no chunk.
BarrierInv ==
  /\ ~doomed
  /\ stage \in {"publish", "account", "close"} => planned # {}
  /\ stage = "complete" => planned = {} /\ Producer = "doc_extract"
  /\ Producer = "doc_extract" => \A c \in Chunks : pc[c] \notin {"unsent", "writtenOff"}

\* Where a cancelled job stays cancelled: no watchdog is about to fail it, and
\* only doc_extract reaches complete_job after its plan.
CancelInv ==
  /\ ~doomed
  /\ stage = "complete" => Producer = "doc_extract"

\* Before the plan nothing is published; whatever was published is planned.
Begun ==
  /\ stage = "plan" => planned = {} /\ Barren /\ job.current = 0
  /\ \A c \in Chunks : pc[c] # "planned" => c \in planned

\* The chunks that counted themselves and have yet to try the claim.
Claimers == {c \in Chunks : pc[c] \in {"claim", "permClaim"}}

\* While the job runs its progress is not behind the chunks dealt with, and once it
\* reaches its total somebody is left to try the claim: the chunk that counted
\* last, or the kb_extract producer.
LeftInv ==
  /\ Begun
  /\ stage \in {"publish", "account", "close"} => planned # {}
  /\ stage \in {"done", "finalize"} /\ planned = {} => job.status # "running"
  /\ Producer = "doc_extract" => \A c \in Chunks : pc[c] \notin {"unsent", "writtenOff"}
  /\ job.status = "running" => job.current >= Cardinality(Settled)
  /\ job.status = "running" /\ planned # {} => job.total = Cardinality(planned)
  /\ job.status = "running" /\ planned # {} /\ job.current >= job.total =>
       \/ Claimers # {}
       \/ Producer = "kb_extract" /\ stage \in {"publish", "account", "close"}

\* Where somebody is left: the total is written, no claim is lost in a database
\* error or a crash, and doc_extract, which does not claim, publishes all chunks.
LeftEnv ==
  /\ Env \cap {"total", "db", "crash"} = {}
  /\ Producer = "kb_extract" \/ "publish" \notin Env

=============================================================================
