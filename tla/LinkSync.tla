------------------------------ MODULE LinkSync ------------------------------
(***************************************************************************)
(* The sync of knowledge links (source_sync_worker.py): per link a chain of *)
(* four jobs - glossary_sync, kb_match, db_derivation, doc_extract - where   *)
(* the child that counts last in one job starts the next one.  The children  *)
(* of kb_match write what they match into the status of every link of the    *)
(* graph that contains their knowledge base, and doc_extract extracts what   *)
(* it finds there.  The chunks of doc_extract are module ExtractJob.         *)
(***************************************************************************)
EXTENDS Integers, Sequences, FiniteSets

CONSTANTS
  Links,     \* knowledge links of one graph and one glossary, one sync each
  Others,    \* links of which only the matching of their sync is followed
  Parts,     \* database schemas and entry chunks the glossary may have
  KBs,       \* knowledge bases a link may contain
  Procs,     \* server processes
  Env,       \* what may happen: a subset of EnvEvents
  MaxFaults  \* bound on the faults of one behaviour

EnvEvents == {"cancel",    \* a user cancels the running job
              "watchdog",  \* the job is older than five minutes
              "gone",      \* the link is deleted
              "publish",   \* the publishing of a task raises
              "db",        \* a database call raises
              "total",     \* progress_total cannot be written
              "crash"}     \* the process of a task dies

ASSUME DisjointAssumption == Parts \cap KBs = {} /\ Links \cap Others = {}
ASSUME FiniteAssumption   == IsFiniteSet(Parts) /\ IsFiniteSet(KBs)
ASSUME EnvAssumption      == Env \subseteq EnvEvents
ASSUME FaultsAssumption   == MaxFaults \in Nat

GlossarySync == 1
KbMatch      == 2
DbDerivation == 3
DocExtract   == 4
Phases       == 1..4

VARIABLES
  scope,    \* the knowledge bases of a link
  chains,   \* whether the jobs of its sync carry a model configuration
  row,      \* row[l][i]: the KGExtractJob of phase i
  task,     \* task[l][i]: the task that runs phase i
  child,    \* child[l][c]: the task of a part or a knowledge base
  fin,      \* fin[l][i]: who runs _finalize_parent for phase i
  map,      \* status.doc_entity_map of a link: the knowledge bases in it
  hold,     \* what a process carries between reading and writing the maps
  saved,    \* the knowledge bases whose matches reached the link (ghost)
  plan,     \* what doc_extract found in the map
  begun,    \* how many phase tasks were published (ghost)
  told,     \* completed events sent to the user
  suspect,  \* the jobs the watchdog has read as stale
  cancelled,\* the jobs a user cancelled (ghost)
  faults    \* faults so far (bound: MaxFaults)

jobs   == <<row, suspect, cancelled>>
tasks  == <<task, child, fin, begun>>
maps   == <<map, hold, saved, plan>>
vars   == <<scope, chains, jobs, tasks, maps, told, faults>>

AllLinks == Links \cup Others
Children == Parts \cup KBs
NoRow    == [status |-> "none", current |-> 0, total |-> 0]
NoHold   == [link |-> {}, kb |-> {}, snap |-> << >>, todo |-> {}]
MaxTotal == Cardinality(Parts) + Cardinality(KBs) + 1

Holds == [link : AllLinks, kb : KBs,
          snap : [AllLinks -> SUBSET KBs], todo : SUBSET AllLinks]

Rows == [status  : {"none", "running", "completed", "failed", "cancelled"},
         current : 0..MaxTotal,
         total   : 0..MaxTotal]

TypeOK ==
  /\ scope \in [AllLinks -> SUBSET KBs]
  /\ chains \in [Links -> BOOLEAN]
  /\ row \in [Links -> [Phases -> Rows]]
  /\ task \in [Links -> [Phases -> {"none", "queued", "run", "end", "lost"}]]
  /\ child \in [AllLinks -> [Children ->
        {"none", "todo", "queued", "write", "count", "claim", "end", "lost"}]]
  /\ fin \in [Links -> [Phases -> {"none", "chain", "publish", "tell", "end", "lost"}]]
  /\ map \in [AllLinks -> SUBSET KBs]
  /\ hold \in [Procs -> {NoHold} \cup Holds]
  /\ saved \in [AllLinks -> SUBSET KBs]
  /\ plan \in [Links -> SUBSET KBs]
  /\ begun \in [Links -> 0..4]
  /\ told \in [Links -> 0..1]
  /\ suspect \subseteq Links \X Phases /\ cancelled \subseteq Links \X Phases
  /\ faults \in 0..MaxFaults

\* A link with knowledge bases cannot be synced without a model.
Init ==
  /\ scope \in [AllLinks -> SUBSET KBs]
  /\ chains \in [Links -> BOOLEAN]
  /\ \A l \in Links : scope[l] # {} => chains[l]
  /\ row = [l \in Links |-> [i \in Phases |-> NoRow]]
  /\ task = [l \in Links |-> [i \in Phases |-> "none"]]
  /\ child = [l \in AllLinks |-> [c \in Children |->
                IF l \in Others /\ c \in scope[l] THEN "queued" ELSE "none"]]
  /\ fin = [l \in Links |-> [i \in Phases |-> "none"]]
  /\ map = [l \in AllLinks |-> {}]
  /\ hold = [p \in Procs |-> NoHold]
  /\ saved = [l \in AllLinks |-> {}]
  /\ plan = [l \in Links |-> {}]
  /\ begun = [l \in Links |-> 0]
  /\ told = [l \in Links |-> 0]
  /\ suspect = {} /\ cancelled = {}
  /\ faults = 0

Fault(kind) ==
  /\ kind \in Env
  /\ faults < MaxFaults
  /\ faults' = faults + 1

NoFault == faults' = faults

-----------------------------------------------------------------------------
(* The job row *)

SetRow(l, i, r)   == row' = [row EXCEPT ![l][i] = r]
SetTask(l, i, at) == task' = [task EXCEPT ![l][i] = at]
SetFin(l, i, at)  == fin' = [fin EXCEPT ![l][i] = at]
SetChild(l, c, at) == child' = [child EXCEPT ![l][c] = at]

Job(l, i) == row[l][i].status # "none"

Started(total) == [status |-> "running", current |-> 0, total |-> total]

\* Mutant: the total of the start stays.
Dispatched_OldTotal(r, n) == IF r.status = "none" \/ n = 0 THEN r ELSE [r EXCEPT !.current = 0]

\* update_job_progress looks at no status; without a job it is not called.
Dispatched(r, n) ==
  IF r.status = "none" THEN r ELSE [r EXCEPT !.current = 0, !.total = n]

\* Neither do complete_job and fail_job.
Ended(r, status) == IF r.status = "none" THEN r ELSE [r EXCEPT !.status = status]

\* Mutant: the claim succeeds one child early.
Claimable_OneEarly(r) == r.status = "running" /\ r.current + 1 >= r.total

\* Mutant: the claim does not look at the status.
Claimable_AnyStatus(r) == r.total > 0 /\ r.current >= r.total

\* try_claim_job_finalization
Claimable(r) ==
  /\ r.status = "running"
  /\ r.total > 0
  /\ r.current >= r.total

-----------------------------------------------------------------------------
(* glossary_sync *)

\* The endpoint: start_job (None when it raises), then the publish.
Request(l) ==
  /\ task[l][GlossarySync] = "none"
  /\ row[l][GlossarySync] = NoRow
  /\ begun[l] = 0
  /\ \/ /\ NoFault
        /\ SetRow(l, GlossarySync, Started(1)) /\ SetTask(l, GlossarySync, "queued")
        /\ begun' = [begun EXCEPT ![l] = 1]
     \/ /\ Fault("db") /\ UNCHANGED row /\ SetTask(l, GlossarySync, "queued")
        /\ begun' = [begun EXCEPT ![l] = 1]
     \/ /\ Fault("publish")
        /\ SetRow(l, GlossarySync, Started(1)) /\ UNCHANGED <<task, begun>>
  /\ UNCHANGED <<scope, chains, suspect, cancelled, child, fin, maps, told>>

\* The link, or its glossary, is no longer there.
RejectSync(l) ==
  /\ Fault("gone")
  /\ task[l][GlossarySync] = "queued"
  /\ SetRow(l, GlossarySync, Ended(row[l][GlossarySync], "failed"))
  /\ SetTask(l, GlossarySync, "end")
  /\ UNCHANGED <<scope, chains, suspect, cancelled, child, fin, begun, maps, told>>

\* Nothing to do: the job is completed and the user told, without a chain.
PlanNothing(l) ==
  /\ task[l][GlossarySync] = "queued"
  /\ \/ NoFault /\ SetRow(l, GlossarySync, Ended(row[l][GlossarySync], "completed"))
     \/ Fault("db") /\ UNCHANGED row
  /\ SetTask(l, GlossarySync, "end")
  /\ SetFin(l, GlossarySync, "tell")
  /\ UNCHANGED <<scope, chains, suspect, cancelled, child, begun, maps, told>>

\* The parts of now are the children; the total is written before the first
\* of them is published, and so are the parameters the chain needs.
PlanParts(l) ==
  /\ task[l][GlossarySync] = "queued"
  /\ \E D \in SUBSET Parts \ {{}} :
       /\ child' = [child EXCEPT ![l] = [c \in Children |->
                      IF c \in D THEN "todo" ELSE child[l][c]]]
       /\ LET r == row[l][GlossarySync] IN
          \/ NoFault /\ SetRow(l, GlossarySync, Dispatched(r, Cardinality(D))) /\ UNCHANGED chains
          \/ Fault("db") /\ SetRow(l, GlossarySync, Dispatched(r, Cardinality(D)))
                         /\ chains' = [chains EXCEPT ![l] = FALSE]
          \/ Fault("total") /\ UNCHANGED <<row, chains>>
  /\ SetTask(l, GlossarySync, "run")
  /\ UNCHANGED <<scope, suspect, cancelled, fin, begun, maps, told>>

\* One publish after the other; an exception ends the handler, and the rest of
\* the children is never published.
PublishChild(l, i, c) ==
  /\ task[l][i] = "run"
  /\ c \in IF i = GlossarySync THEN Parts ELSE KBs
  /\ child[l][c] = "todo"
  /\ \/ NoFault /\ SetChild(l, c, "queued")
     \/ /\ Fault("publish")
        /\ child' = [child EXCEPT ![l] = [d \in Children |->
                       IF child[l][d] = "todo" THEN "none" ELSE child[l][d]]]
  /\ SetTask(l, i, IF \E d \in Children : child'[l][d] = "todo" THEN "run" ELSE "end")
  /\ UNCHANGED <<scope, chains, jobs, fin, begun, maps, told>>

-----------------------------------------------------------------------------
(* _advance_progress: count, tell the progress, try to claim *)

PhaseOf(c) == IF c \in Parts THEN GlossarySync ELSE KbMatch

\* A part is synced, whatever the outcome; a knowledge base has been matched.
\* When the increment raises the child goes on to the claim; when the graph
\* container of a knowledge base raises, the handler ends uncounted.
Count(l, c) ==
  LET i == PhaseOf(c) IN
  /\ child[l][c] = IF c \in Parts THEN "queued" ELSE "count"
  /\ \/ /\ NoFault
        /\ Job(l, i)
        /\ SetRow(l, i, [row[l][i] EXCEPT !.current = @ + 1])
        /\ SetChild(l, c, "claim")
     \/ NoFault /\ ~Job(l, i) /\ SetChild(l, c, "end") /\ UNCHANGED row
     \/ Fault("db") /\ SetChild(l, c, "claim") /\ UNCHANGED row
     \/ Fault("db") /\ c \in KBs /\ SetChild(l, c, "end") /\ UNCHANGED row
  /\ UNCHANGED <<scope, chains, suspect, cancelled, task, fin, begun, maps, told>>

Claim(l, c) ==
  LET i == PhaseOf(c) IN
  /\ child[l][c] = "claim"
  /\ SetChild(l, c, "end")
  /\ \/ /\ NoFault /\ Claimable(row[l][i])
        /\ SetRow(l, i, Ended(row[l][i], "completed")) /\ SetFin(l, i, "chain")
     \/ NoFault /\ ~Claimable(row[l][i]) /\ UNCHANGED <<row, fin>>
     \/ Fault("db") /\ UNCHANGED <<row, fin>>
  /\ UNCHANGED <<scope, chains, suspect, cancelled, task, begun, maps, told>>

-----------------------------------------------------------------------------
(* _finalize_parent *)

\* kb_match starts with its files as the total, here one more than there are
\* knowledge bases; the others start with 1.
InitTotal(l, i) == IF i = KbMatch /\ scope[l] # {} THEN Cardinality(scope[l]) + 1 ELSE 1

\* After stats, reindexing or the warning: the next job is started.
Chain(l, i) ==
  /\ fin[l][i] = "chain"
  /\ IF chains[l] /\ i # DocExtract
       THEN /\ SetFin(l, i, "publish")
            /\ \/ NoFault /\ SetRow(l, i + 1, Started(InitTotal(l, i + 1)))
               \/ Fault("db") /\ UNCHANGED row
       ELSE SetFin(l, i, "tell") /\ UNCHANGED row /\ NoFault
  /\ UNCHANGED <<scope, chains, suspect, cancelled, task, child, begun, maps, told>>

\* Its task is published; an exception makes the sync end here.
PublishPhase(l, i) ==
  /\ fin[l][i] = "publish"
  /\ \/ /\ NoFault /\ SetFin(l, i, "end") /\ SetTask(l, i + 1, "queued")
        /\ begun' = [begun EXCEPT ![l] = @ + 1]
     \/ Fault("publish") /\ SetFin(l, i, "tell") /\ UNCHANGED <<task, begun>>
  /\ UNCHANGED <<scope, chains, jobs, child, maps, told>>

\* kg-link-sync-completed, or kg-job-completed for the chunks of doc_extract.
Tell(l, i) ==
  /\ fin[l][i] = "tell"
  /\ SetFin(l, i, "end")
  /\ told' = [told EXCEPT ![l] = @ + 1]
  /\ UNCHANGED <<scope, chains, jobs, task, child, begun, maps, faults>>

-----------------------------------------------------------------------------
(* kb_match *)

\* Without knowledge bases the job is completed, whatever its status, and
\* finalised by the phase task itself.
MatchNothing(l) ==
  /\ task[l][KbMatch] = "queued"
  /\ scope[l] = {}
  /\ \/ NoFault /\ SetRow(l, KbMatch, Ended(row[l][KbMatch], "completed"))
     \/ Fault("db") /\ UNCHANGED row
  /\ SetTask(l, KbMatch, "end")
  /\ SetFin(l, KbMatch, IF Job(l, KbMatch) THEN "chain" ELSE "none")
  /\ UNCHANGED <<scope, chains, suspect, cancelled, child, begun, maps, told>>

PlanMatch(l) ==
  /\ task[l][KbMatch] = "queued"
  /\ scope[l] # {}
  /\ LET r == row[l][KbMatch] IN
     \/ NoFault /\ SetRow(l, KbMatch, Dispatched(r, Cardinality(scope[l])))
     \/ Fault("total") /\ UNCHANGED row
  /\ child' = [child EXCEPT ![l] = [c \in Children |->
                 IF c \in scope[l] THEN "todo" ELSE child[l][c]]]
  /\ SetTask(l, KbMatch, "run")
  /\ UNCHANGED <<scope, chains, suspect, cancelled, fin, begun, maps, told>>

\* Between reading and writing there is no await: a process does nothing else.
Free(p) == hold[p] = NoHold

\* The links that contain the knowledge base are read - unless nothing in it
\* matches.
Match(p, l, k) ==
  /\ child[l][k] = "queued"
  /\ Free(p)
  /\ \/ /\ hold' = [hold EXCEPT ![p] =
                      [link |-> l, kb |-> k, snap |-> map,
                       todo |-> {m \in AllLinks : k \in scope[m]}]]
        /\ SetChild(l, k, "write")
     \/ SetChild(l, k, "count") /\ UNCHANGED hold
  /\ UNCHANGED <<scope, chains, jobs, task, fin, begun, map, saved, plan, told, faults>>

\* Mutant: the map is replaced by the matches of this knowledge base.
Merged_Replaced(old, k) == {k}

\* existing_map.update(doc_entity_map)
Merged(old, k) == old \cup {k}

\* update_knowledge_link_status replaces the status of one link after the
\* other; an exception there is swallowed.
Save(p) ==
  LET h == hold[p] IN
  /\ h # NoHold
  /\ \E m \in h.todo :
       /\ \/ /\ NoFault
             /\ map' = [map EXCEPT ![m] = Merged(h.snap[m], h.kb)]
             /\ saved' = IF m = h.link THEN [saved EXCEPT ![m] = @ \cup {h.kb}] ELSE saved
          \/ Fault("db") /\ UNCHANGED <<map, saved>>
       /\ IF h.todo = {m}
            THEN hold' = [hold EXCEPT ![p] = NoHold] /\ SetChild(h.link, h.kb, "count")
            ELSE hold' = [hold EXCEPT ![p].todo = @ \ {m}] /\ UNCHANGED child
  /\ UNCHANGED <<scope, chains, jobs, task, fin, begun, plan, told>>

-----------------------------------------------------------------------------
(* db_derivation, one task without children *)

\* A failed run fails the job and ends the sync.
DeriveFails(l) ==
  /\ task[l][DbDerivation] = "queued"
  /\ \/ NoFault /\ SetRow(l, DbDerivation, Ended(row[l][DbDerivation], "failed"))
     \/ Fault("db") /\ UNCHANGED row
  /\ SetTask(l, DbDerivation, "end")
  /\ SetFin(l, DbDerivation, "tell")
  /\ UNCHANGED <<scope, chains, suspect, cancelled, child, begun, maps, told>>

\* A run that returns completes the job whatever became of it, and goes on.
DeriveDone(l) ==
  /\ task[l][DbDerivation] = "queued"
  /\ \/ NoFault /\ SetRow(l, DbDerivation, Ended(row[l][DbDerivation], "completed"))
     \/ Fault("db") /\ UNCHANGED row
  /\ SetTask(l, DbDerivation, "end")
  /\ SetFin(l, DbDerivation, IF Job(l, DbDerivation) THEN "chain" ELSE "none")
  /\ UNCHANGED <<scope, chains, suspect, cancelled, child, begun, maps, told>>

-----------------------------------------------------------------------------
(* doc_extract *)

DocRejected(l) ==
  /\ Fault("gone")
  /\ task[l][DocExtract] = "queued"
  /\ SetRow(l, DocExtract, Ended(row[l][DocExtract], "failed"))
  /\ SetTask(l, DocExtract, "end")
  /\ UNCHANGED <<scope, chains, suspect, cancelled, child, fin, begun, maps, told>>

\* Nothing was matched.
DocNothing(l) ==
  /\ task[l][DocExtract] = "queued"
  /\ map[l] = {}
  /\ \/ NoFault /\ SetRow(l, DocExtract, Ended(row[l][DocExtract], "completed"))
     \/ Fault("db") /\ UNCHANGED row
  /\ SetTask(l, DocExtract, "end")
  /\ SetFin(l, DocExtract, IF Job(l, DocExtract) THEN "chain" ELSE "none")
  /\ UNCHANGED <<scope, chains, suspect, cancelled, child, begun, maps, told>>

\* The files in the map are extracted, chunk by chunk.
DocPlan(l) ==
  /\ task[l][DocExtract] = "queued"
  /\ map[l] # {}
  /\ plan' = [plan EXCEPT ![l] = map[l] \cap scope[l]]
  /\ SetTask(l, DocExtract, "run")
  /\ UNCHANGED <<scope, chains, jobs, child, fin, begun, map, hold, saved, told, faults>>

\* The last chunk claims the job, or finds it cancelled or failed.  Without a
\* published chunk the phase task completes it, whatever its status.
DocEnd(l) ==
  LET r == row[l][DocExtract] IN
  /\ task[l][DocExtract] = "run"
  /\ SetTask(l, DocExtract, "end")
  /\ IF Job(l, DocExtract)
       THEN \/ r.status = "running" /\ SetRow(l, DocExtract, Ended(r, "completed"))
                                    /\ SetFin(l, DocExtract, "tell")
            \/ r.status # "running" /\ UNCHANGED <<row, fin>>
            \/ SetRow(l, DocExtract, Ended(r, "completed")) /\ SetFin(l, DocExtract, "chain")
       ELSE UNCHANGED <<row, fin>>
  /\ UNCHANGED <<scope, chains, suspect, cancelled, child, begun, maps, told, faults>>

-----------------------------------------------------------------------------
(* The environment *)

Cancel(l, i) ==
  /\ Fault("cancel")
  /\ row[l][i].status = "running"
  /\ SetRow(l, i, [row[l][i] EXCEPT !.status = "cancelled"])
  /\ cancelled' = cancelled \cup {<<l, i>>}
  /\ UNCHANGED <<scope, chains, suspect, tasks, maps, told>>

\* None of these jobs has a heartbeat: every running one may be too old.
WatchdogRead(l, i) ==
  /\ Fault("watchdog")
  /\ row[l][i].status = "running"
  /\ suspect' = suspect \cup {<<l, i>>}
  /\ UNCHANGED <<scope, chains, row, cancelled, tasks, maps, told>>

\* It writes what it has read, whatever the job became meanwhile.
WatchdogCommit(l, i) ==
  /\ <<l, i>> \in suspect
  /\ suspect' = suspect \ {<<l, i>>}
  /\ SetRow(l, i, Ended(row[l][i], "failed"))
  /\ UNCHANGED <<scope, chains, cancelled, tasks, maps, told, faults>>

\* The process of a phase task, and of the publishing of its children, dies ...
TaskCrash(l, i) ==
  /\ Fault("crash")
  /\ task[l][i] \in {"queued", "run"}
  /\ SetTask(l, i, "lost")
  /\ child' = [child EXCEPT ![l] = [c \in Children |->
                 IF child[l][c] = "todo" THEN "none" ELSE child[l][c]]]
  /\ UNCHANGED <<scope, chains, jobs, fin, begun, maps, told>>

\* ... or that of a child, perhaps between two links, perhaps after it counted ...
ChildCrash(l, c) ==
  /\ Fault("crash")
  /\ child[l][c] \in {"queued", "write", "count", "claim"}
  /\ SetChild(l, c, IF child[l][c] = "claim" THEN "end" ELSE "lost")
  /\ hold' = [p \in Procs |-> IF hold[p].link = l /\ hold[p].kb = c THEN NoHold ELSE hold[p]]
  /\ UNCHANGED <<scope, chains, jobs, task, fin, begun, map, saved, plan, told>>

\* ... or that of whoever finalises.
FinalizerCrash(l, i) ==
  /\ Fault("crash")
  /\ fin[l][i] \in {"chain", "publish", "tell"}
  /\ SetFin(l, i, "lost")
  /\ UNCHANGED <<scope, chains, jobs, task, child, begun, maps, told>>

-----------------------------------------------------------------------------
Matching(l, k) == \E p \in Procs :
  Match(p, l, k) \/ (hold[p].link = l /\ hold[p].kb = k /\ Save(p))

SyncStep(l) ==
  \/ PlanNothing(l) \/ PlanParts(l)
  \/ \E i \in {GlossarySync, KbMatch}, c \in Children : PublishChild(l, i, c)
  \/ \E c \in Children : Count(l, c) \/ Claim(l, c)
  \/ \E i \in Phases : Chain(l, i) \/ PublishPhase(l, i) \/ Tell(l, i)
  \/ MatchNothing(l) \/ PlanMatch(l)
  \/ \E k \in KBs : Matching(l, k)
  \/ DeriveFails(l) \/ DeriveDone(l)
  \/ DocNothing(l) \/ DocPlan(l) \/ DocEnd(l)

EnvStep(l) ==
  \/ RejectSync(l) \/ DocRejected(l)
  \/ \E i \in Phases :
       Cancel(l, i) \/ WatchdogRead(l, i) \/ WatchdogCommit(l, i)
         \/ TaskCrash(l, i) \/ FinalizerCrash(l, i)
  \/ \E c \in Children : ChildCrash(l, c)

Next ==
  \/ \E l \in Links : Request(l) \/ SyncStep(l) \/ EnvStep(l)
  \/ \E l \in Others, k \in KBs : Matching(l, k)

Spec == Init /\ [][Next]_vars

\* The event loops run what can go on: a sync is finitely many steps.  A
\* watchdog transaction that began ends.
FairSpec ==
  /\ Spec
  /\ \A l \in Links :
       WF_vars(SyncStep(l)) /\ \A i \in Phases : WF_vars(WatchdogCommit(l, i))
  /\ \A l \in Others, k \in KBs : WF_vars(Matching(l, k))

-----------------------------------------------------------------------------
(* Properties *)

\* A phase begins only after every child of the phases before it was dealt
\* with: the child that claims is really the last, also while others publish.
PhaseAfterAll ==
  \A l \in Links : \A i \in Phases : \A c \in Children :
    Job(l, i) /\ PhaseOf(c) < i => child[l][c] \in {"none", "claim", "end"}

\* A fan-out that a user cancelled is not followed by another phase: neither
\* the children that are under way nor the last one start the next job.
CancelledDoesNotChain ==
  \A l \in Links : \A i \in {GlossarySync, KbMatch} :
    <<l, i>> \in cancelled /\ (i = KbMatch => scope[l] # {}) =>
      ~Job(l, i + 1) /\ task[l][i + 1] = "none"

\* The two with the types they rest on, among them that a user is told of the
\* end of a sync at most once.
ChainInv == TypeOK /\ PhaseAfterAll /\ CancelledDoesNotChain

\* Document extraction finds the matches of every knowledge base whose child
\* saved them: no other child and no other sync has overwritten them.
MatchesReachExtraction ==
  \A l \in Links : task[l][DocExtract] \in {"run", "end"} /\ plan[l] # {} =>
    saved[l] \subseteq plan[l]

\* The syncs are chains of phases, as PhaseChain describes them.
PhasesOf == INSTANCE PhaseChain WITH
  Chains <- Links,
  Phases <- 4,
  begun  <- begun,
  closed <- {l \in Links : begun[l] = 0 \/ fin[l][begun[l]] # "none"},
  told   <- told

ImplementsChain == PhasesOf!Spec

\* Every requested sync ends: the user is told, unless a fault, a cancellation
\* or the watchdog came in between.
SyncEnds ==
  \A l \in Links : begun[l] > 0 ~> (told[l] = 1 \/ faults > 0)

=============================================================================
