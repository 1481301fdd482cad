--------------------------- MODULE KnowledgeFiles ---------------------------
(***************************************************************************)
(* The file list of one knowledge base (Knowledge.data.file_ids) and the    *)
(* code that changes it: the batch removal of files, one queued task per    *)
(* file with counters in Redis that decide who announces the end of the     *)
(* batch (knowledge_file_delete_worker.py, routers/knowledge.py), the       *)
(* arrival of uploaded files, on the event loop or in a thread of the pool,  *)
(* and one other request at a time that rewrites the list: the auto-heal, a  *)
(* single removal, the replacement of a file by one of the same name.        *)
(***************************************************************************)
EXTENDS Integers, Sequences, FiniteSets

CONSTANTS
  Files,     \* the files selected for removal
  Second,    \* those another request selects if it comes in the same second
  Uploads,   \* files whose upload may complete
  Procs,     \* server processes
  Env,       \* what may happen: a subset of EnvEvents
  MaxFaults  \* bound on the faults of one behaviour

EnvEvents == {"gone",     \* a selected file is removed by another request
              "replace",  \* it is replaced by a file of the same name
              "heal",     \* someone lists the files: the auto-heal runs
              "db",       \* a database call raises
              "counter",  \* a Redis counter call raises
              "publish",  \* the publishing of a task raises
              "crash"}    \* a server process dies

ASSUME FilesAssumption   == IsFiniteSet(Files)
ASSUME SecondAssumption  == Second \subseteq Files
ASSUME UploadsAssumption == Uploads \cap Files = {}
ASSUME EnvAssumption     == Env \subseteq EnvEvents
ASSUME FaultsAssumption  == MaxFaults \in Nat

VARIABLES
  records,  \* the files that have a row in the file table
  ids,      \* Knowledge.data.file_ids
  pc,       \* where the task of each selected file is
  proc,     \* the process that runs it
  snap,     \* the list it read
  ok,       \* the tasks whose removal succeeded
  bad,      \* the tasks whose removal failed
  redis,    \* the job's counters: done, failed, finalized
  seen,     \* what each task got from them (done 0: None)
  events,   \* the complete events: their failed count
  other,    \* the other request that read the list and is to write it
  second,   \* the files whose batch shares its job id with the other one
  excused,  \* files that may be missing from the list (ghost): see NoFileVanishes
  faults    \* faults so far (bound: MaxFaults)

list == <<records, ids, excused>>
vars == <<list, pc, proc, snap, ok, bad, redis, seen, events, other, second, faults>>

PCs == {"new", "queued", "search", "write", "incr", "incrFailed", "report",
        "announce", "end",
        "cut",   \* an exception ended the request or the task early
        "lost"}  \* its process died

\* Nobody, or: what for, in which process, about which file, and the list it read.
NoOther == [kind |-> "none", by |-> {}, file |-> {}, list |-> {}]

TypeOK ==
  /\ records \subseteq Files \cup Uploads
  /\ ids \subseteq Files \cup Uploads
  /\ pc \in [Files -> PCs]
  /\ proc \in [Files -> Procs]
  /\ snap \in [Files -> SUBSET (Files \cup Uploads)]
  /\ ok \subseteq Files /\ bad \subseteq Files
  /\ redis \in [done : 0..Cardinality(Files), failed : 0..Cardinality(Files),
                finalized : BOOLEAN]
  /\ seen \in [Files -> [done : 0..Cardinality(Files), failed : 0..Cardinality(Files)]]
  /\ events \in Seq(0..Cardinality(Files))
  /\ other \in [kind : {"none", "heal", "gone", "replace"}, by : SUBSET Procs,
                file : SUBSET Files, list : SUBSET (Files \cup Uploads)]
  /\ excused \subseteq Files \cup Uploads
  /\ second \in SUBSET Second
  /\ faults \in 0..MaxFaults

Init ==
  /\ records = Files
  /\ ids = Files
  /\ pc = [f \in Files |-> "new"]
  /\ proc \in [Files -> Procs]
  /\ snap = [f \in Files |-> {}]
  /\ ok = {} /\ bad = {}
  /\ redis = [done |-> 0, failed |-> 0, finalized |-> FALSE]
  /\ seen = [f \in Files |-> [done |-> 0, failed |-> 0]]
  /\ events = << >>
  /\ other = NoOther
  /\ excused = {}
  /\ second \in {{}, Second}
  /\ faults = 0

Fault(kind) ==
  /\ kind \in Env
  /\ faults < MaxFaults
  /\ faults' = faults + 1

NoFault == faults' = faults

Goto(f, l) == pc' = [pc EXCEPT ![f] = l]

\* The batch of a file and the total its task carries.
Batch(f) == IF f \in second THEN second ELSE Files \ second
Total(f) == Cardinality(Batch(f))

\* Mutant: there is an await between reading the list and writing it back.
Free_Await(p) == p \in Procs

\* From reading the list to writing it back there is no await, but in a replacement:
\* nothing else runs on that event loop meanwhile, but threads and other processes do.
Free(p) ==
  /\ p \in other.by => other.kind = "replace"
  /\ \A f \in Files : ~(pc[f] = "write" /\ proc[f] = p)

-----------------------------------------------------------------------------
(* batch_remove_files_from_knowledge, one publish after the other *)

\* An exception ends the request: the rest of the batch is not published.
Publish(f) ==
  /\ pc[f] = "new"
  /\ \/ NoFault /\ Goto(f, "queued")
     \/ /\ Fault("publish")
        /\ pc' = [g \in Files |-> IF g \in Batch(f) /\ pc[g] = "new" THEN "cut" ELSE pc[g]]
  /\ UNCHANGED <<list, proc, snap, ok, bad, redis, seen, events, other, second>>

-----------------------------------------------------------------------------
(* process_knowledge_file_delete_task *)

\* A missing row, or a lookup that raised, makes the removal fail.
Start(f) ==
  /\ pc[f] = "queued"
  /\ Free(proc[f])
  /\ \/ NoFault /\ f \in records /\ Goto(f, "search") /\ UNCHANGED bad
     \/ NoFault /\ f \notin records /\ Goto(f, "incr") /\ bad' = bad \cup {f}
     \/ Fault("db") /\ Goto(f, "incr") /\ bad' = bad \cup {f}
  /\ UNCHANGED <<list, proc, snap, ok, redis, seen, events, other, second>>

\* After the awaited search-engine deletions: the row is deleted (an exception
\* there is swallowed), the list read; without the file nothing is written.
Remove(f) ==
  /\ pc[f] = "search"
  /\ Free(proc[f])
  /\ \/ NoFault /\ records' = records \ {f}
     \/ Fault("db") /\ UNCHANGED records
  /\ snap' = [snap EXCEPT ![f] = ids]
  /\ IF f \in ids THEN Goto(f, "write") /\ UNCHANGED ok
                  ELSE Goto(f, "incr") /\ ok' = ok \cup {f}
  /\ UNCHANGED <<ids, excused, proc, bad, redis, seen, events, other, second>>

\* update_knowledge_data_by_id replaces the whole list under a row lock; an
\* exception is swallowed.
Write(f) ==
  /\ pc[f] = "write"
  /\ \/ NoFault /\ ids' = snap[f] \ {f}
     \/ Fault("db") /\ UNCHANGED ids
  /\ snap' = [snap EXCEPT ![f] = {}]
  /\ ok' = ok \cup {f}
  /\ Goto(f, "incr")
  /\ UNCHANGED <<records, excused, proc, bad, redis, seen, events, other, second>>

\* INCR done, then INCR or GET failed, each awaited. When one raises (INCR may
\* have been executed: EXPIRE follows it) done is None and the task ends.
CountDone(f) ==
  /\ pc[f] = "incr"
  /\ Free(proc[f])
  /\ \/ /\ NoFault
        /\ redis' = [redis EXCEPT !.done = @ + 1]
        /\ seen' = [seen EXCEPT ![f].done = redis'.done]
        /\ Goto(f, "incrFailed")
     \/ /\ Fault("counter")
        /\ redis' \in {redis, [redis EXCEPT !.done = @ + 1]}
        /\ UNCHANGED seen
        /\ Goto(f, "cut")
  /\ UNCHANGED <<list, proc, snap, ok, bad, events, other, second>>

CountFailed(f) ==
  /\ pc[f] = "incrFailed"
  /\ Free(proc[f])
  /\ LET counted == IF f \in bad THEN [redis EXCEPT !.failed = @ + 1] ELSE redis IN
     \/ /\ NoFault
        /\ redis' = counted
        /\ seen' = [seen EXCEPT ![f].failed = counted.failed]
        /\ Goto(f, "report")
     \/ /\ Fault("counter")
        /\ redis' \in {redis, counted}
        /\ UNCHANGED seen
        /\ Goto(f, "cut")
  /\ UNCHANGED <<list, proc, snap, ok, bad, events, other, second>>

\* Mutant: the counter decides one task early.
Last_Early(f) == seen[f].done + 1 >= Total(f)

\* A task that saw the counter at its total tries to claim the end.
Last(f) == seen[f].done >= Total(f)

\* Mutant: no claim.
Report_NoClaim(f) ==
  /\ pc[f] = "report"
  /\ Goto(f, IF Last(f) THEN "announce" ELSE "end")
  /\ UNCHANGED <<list, proc, snap, ok, bad, redis, seen, events, other, second, faults>>

\* Mutant: the claim comes before the look at the counter.
Report_ClaimFirst(f) ==
  /\ pc[f] = "report"
  /\ redis' = [redis EXCEPT !.finalized = TRUE]
  /\ Goto(f, IF Last(f) /\ ~redis.finalized THEN "announce" ELSE "end")
  /\ UNCHANGED <<list, proc, snap, ok, bad, seen, events, other, second, faults>>

\* SET NX finalized; an exception, executed or not, ends the task.
Report(f) ==
  /\ pc[f] = "report"
  /\ Free(proc[f])
  /\ \/ NoFault /\ Last(f) /\ ~redis.finalized
        /\ redis' = [redis EXCEPT !.finalized = TRUE] /\ Goto(f, "announce")
     \/ NoFault /\ (~Last(f) \/ redis.finalized)
        /\ UNCHANGED redis /\ Goto(f, "end")
     \/ Fault("counter") /\ Last(f)
        /\ redis' \in {redis, [redis EXCEPT !.finalized = TRUE]} /\ Goto(f, "cut")
  /\ UNCHANGED <<list, proc, snap, ok, bad, seen, events, other, second>>

\* file-delete-batch:complete, then the drift clean-up of the graphs.
Announce(f) ==
  /\ pc[f] = "announce"
  /\ Free(proc[f])
  /\ events' = Append(events, seen[f].failed)
  /\ Goto(f, "end")
  /\ UNCHANGED <<list, proc, snap, ok, bad, redis, seen, other, second, faults>>

-----------------------------------------------------------------------------
(* The other writers of the list *)

\* add_file_id_to_knowledge reads and writes under one row lock.
Addition(f, between) ==
  /\ f \in Uploads \ records
  /\ records' = records \cup {f}
  /\ ids' = ids \cup {f}
  /\ excused' = IF between THEN excused \cup {f} ELSE excused
  /\ UNCHANGED <<pc, proc, snap, ok, bad, redis, seen, events, other, second, faults>>

\* A request or the clone worker adds it, on an event loop.
Upload(f) ==
  /\ \E p \in Procs : Free(p)
  /\ Addition(f, other.kind = "replace")

\* The processing of the file adds it in a thread of the pool, which waits for no
\* event loop: it may come between a read and a write of the list in any process.
UploadInThread(f) ==
  Addition(f, other # NoOther \/ \E g \in Files : pc[g] = "write")

\* Another request reads the list; one at a time.
Reads(p, event, F) ==
  /\ event \in Env
  /\ other = NoOther
  /\ Free(p)
  /\ other' = [kind |-> event, by |-> {p}, file |-> F,
               list |-> IF event = "heal" THEN ids \cap records ELSE ids]
  /\ UNCHANGED <<ids, excused, pc, proc, snap, ok, bad, redis, seen, events, second>>

\* It has written, or could not: an exception is swallowed.
Writes(event, S) ==
  /\ other.kind = event
  /\ other' = NoOther
  /\ excused' = excused \cup other.file
  /\ \/ NoFault /\ ids' = S
     \/ Fault("db") /\ UNCHANGED ids
  /\ UNCHANGED <<pc, proc, snap, ok, bad, redis, seen, events, second>>

\* The list is read, then which of its files exist; if one does not ...
HealRead(p) ==
  /\ ids \ records # {}
  /\ Reads(p, "heal", {})
  /\ UNCHANGED <<records, faults>>

\* ... compact_file_ids drops from the list of now what was not valid then.
HealCompact == Writes("heal", ids \cap other.list) /\ UNCHANGED records

\* A single removal of a selected file by another request, which found the file
\* before it awaited the search engine; that its row is gone is not looked at.
GoneRead(p, f) ==
  /\ Reads(p, "gone", {f})
  /\ f \in ids
  /\ Fault("gone")
  /\ \/ records' = records \ {f}
     \/ "db" \in Env /\ UNCHANGED records

GoneWrite == Writes("gone", other.list \ other.file) /\ UNCHANGED records

\* A file of the same name is added: the list, in which the selected one was found ...
ReplaceRead(p, f) ==
  /\ Reads(p, "replace", {f})
  /\ f \in ids \cap records
  /\ Fault("replace")
  /\ UNCHANGED records

\* ... is written after the search engine was awaited, then the row is deleted.
ReplaceWrite ==
  /\ \E p \in other.by : Free(p)
  /\ Writes("replace", other.list \ other.file)
  /\ \/ records' = records \ other.file
     \/ "db" \in Env /\ UNCHANGED records

Crash(p) ==
  /\ Fault("crash")
  /\ pc' = [f \in Files |-> IF proc[f] = p /\ pc[f] \notin {"new", "queued", "end", "cut"}
                              THEN "lost" ELSE pc[f]]
  /\ other' = IF p \in other.by THEN NoOther ELSE other
  /\ UNCHANGED <<list, proc, snap, ok, bad, redis, seen, events, second>>

-----------------------------------------------------------------------------
TaskStep(f) ==
  \/ Start(f) \/ Remove(f) \/ Write(f)
  \/ CountDone(f) \/ CountFailed(f) \/ Report(f) \/ Announce(f)

OtherWrites == HealCompact \/ GoneWrite \/ ReplaceWrite

OtherStep ==
  \/ \E f \in Uploads : Upload(f) \/ UploadInThread(f)
  \/ \E p \in Procs, f \in Files : GoneRead(p, f) \/ ReplaceRead(p, f)
  \/ \E p \in Procs : HealRead(p)
  \/ OtherWrites

Next ==
  \/ \E f \in Files : Publish(f) \/ TaskStep(f)
  \/ OtherStep
  \/ \E p \in Procs : Crash(p)

Spec == Init /\ [][Next]_vars

\* The request goes on publishing, the consumers run their tasks, and code
\* without an await is not interrupted in its process.
FairSpec ==
  /\ Spec
  /\ \A f \in Files : WF_vars(Publish(f)) /\ SF_vars(TaskStep(f))
  /\ WF_vars(OtherWrites)

-----------------------------------------------------------------------------
(* Properties *)

\* However the counters fail and whichever requests share the job id, the end
\* of a job is announced, and the graphs cleaned up, at most once.
AnnouncedOnce == Len(events) + Cardinality({f \in Files : pc[f] = "announce"}) <= 1

\* The same with the types it rests on: no counter passes its total.
BatchInv == TypeOK /\ AnnouncedOnce

\* The end is announced only when every selected file was dealt with, whatever
\* fails on the way, unless two batches share the job id.
AnnouncedAfterAll == second = {} /\ events # << >> => ok \cup bad = Files

\* The announced number of failures is the number of failed removals. The task
\* that reads done = total may read failed before another task, which already
\* counted itself done, has counted its failure: it does not hold with "gone" or
\* "db", and no run checks it.
FailuresExact == \A i \in DOMAIN events : events[i] = Cardinality(bad)

\* A file that has a row and was put on the list stays on it, unless it was removed
\* or replaced (and its row could not be deleted), or was added between the read and
\* the write of the list by another - in one process only a thread can do that, or
\* anybody while a replacement awaits the search engine.  Otherwise no writer of
\* the list - task, addition, single removal, replacement, auto-heal - undoes the work
\* of another.
NoFileVanishes == records \ ok \subseteq ids \cup excused

\* The end of a job is announced, also when files are already gone or their database
\* calls raise, unless an exception of the queue or the counters, or a crash, cut
\* one of its tasks off.  Two batches that share a job id have one end between them,
\* at the total that one of them carries; the other batch is then never announced.
JobAnnounced == <>(events # << >> \/ \E f \in Files : pc[f] \in {"cut", "lost"})

=============================================================================
