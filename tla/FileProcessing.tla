--------------------------- MODULE FileProcessing ---------------------------
(***************************************************************************)
(* One uploaded file on its way into a knowledge base.  Every request of the *)
(* user about the file (routers/retrieval.py, routers/knowledge.py) reads and *)
(* rewrites file.data.processing_job without a lock, and so does the thread   *)
(* that processes it (_run_file_processing_sync), in any process, and the     *)
(* handler of the queue that waits for the thread (services/task_queue.py).   *)
(*                                                                          *)
(* A call is one request; the task it publishes, the thread that runs it and  *)
(* the handler that waits for the thread carry the call's name.               *)
(*                                                                          *)
(* No name is one of KnowledgeFiles, which models the same knowledge base's   *)
(* list under its other writers: KnowledgeBase_proofs speaks of both.         *)
(***************************************************************************)
EXTENDS Integers, FiniteSets

CONSTANTS
  Calls,     \* the user's requests about the file
  Kinds,     \* which requests there may be: a subset of AllKinds
  FileEnv,   \* what may happen: a subset of FileEvents
  MaxMishaps \* bound on the mishaps of one behaviour

AllKinds == {"process",  \* POST /process/file with background
             "add",      \* POST /knowledge/{id}/file/add
             "retry",    \* POST /knowledge/{id}/file/retry
             "remove",   \* POST /knowledge/{id}/file/remove
             "view",     \* GET /knowledge/{id}, which tidies pending files
             "poll"}     \* GET /process/file/{id}/status

FileEvents == {"timeout",  \* FILE_PROCESSING_TIMEOUT is set and passes
               "stale",    \* a file stays in one state past the stale limits
               "fail",     \* the loader, the guardrail or the index fails
               "db",       \* a write to the database raises, which is only logged
               "publish",  \* publishing the task raises
               "crash"}    \* the process of a call, or of a thread and its handler, dies

ASSUME KindsAssumption   == Kinds \subseteq AllKinds
ASSUME FileEnvAssumption == FileEnv \subseteq FileEvents
ASSUME MishapsAssumption == MaxMishaps \in Nat

VARIABLES
  row,      \* the row of the file
  listed,   \* the file is in knowledge.data.file_ids
  index,    \* the collections of the search index that hold its chunks
  kind,     \* what each call asks for
  at,       \* where it is
  thread,   \* where the thread of its task is
  got,      \* the status, or the pending knowledge base, the thread read
  told,     \* what the handler of its task announced
  chained,  \* the calls whose handler went on to filter extraction
  spoiled,  \* what the mishaps have spoiled for good: see Spoil (ghost)
  mishaps   \* faults so far (bound: MaxMishaps)

calls    == <<kind, at>>
threads  == <<thread, got, told, chained>>
fileVars == <<row, listed, index, calls, threads, spoiled, mishaps>>

Statuses == {"none", "pending", "queued", "processing", "completed", "failed"}
Terminal == {"completed", "failed"}

Places == {"new", "promise", "list",                        \* add
           "sync", "syncDrop", "syncIndex", "syncList",
           "mark",                                          \* retry
           "check", "pending", "publish", "queued",         \* process_file
           "cancel", "unpend", "chunks", "row", "unlist",   \* remove
           "stale", "expire", "relist", "tidy",             \* view, poll
           "done"}

Threads == {"none", "queued", "start", "load", "stage", "index", "save", "complete",
            "lookup", "dropKB", "indexKB", "list", "unpend",
            "error", "relist", "clear", "reject", "finalOk", "finalBad",
            "ok", "bad", "dead", "end"}

\* The collections of the index: file-{id}, and that of the knowledge base.
Collections == {"file", "kb"}

\* What can be spoiled: that the status ends, that the chunks are in a collection,
\* that the file is listed.
Spoils == {"status", "list"} \cup Collections

\* A row that was deleted holds nothing.
Gone == [exists |-> FALSE, status |-> "none", content |-> FALSE, kb |-> FALSE]

FileTypeOK ==
  /\ row \in [exists : BOOLEAN, status : Statuses, content : BOOLEAN, kb : BOOLEAN]
  /\ row.exists \/ row = Gone
  /\ listed \in BOOLEAN
  /\ index \subseteq Collections
  /\ kind \in [Calls -> Kinds]
  /\ at \in [Calls -> Places]
  /\ thread \in [Calls -> Threads]
  /\ got \in [Calls -> Statuses \cup {"kb"}]
  /\ told \in [Calls -> {"nothing", "completed", "failed"}]
  /\ chained \subseteq Calls
  /\ spoiled \subseteq Spoils
  /\ mishaps \in 0..MaxMishaps

\* A file that was uploaded, not yet processed by a background task.
FileInit ==
  /\ row = [exists |-> TRUE, status |-> "none", content |-> FALSE, kb |-> FALSE]
  /\ listed = FALSE
  /\ index = {}
  /\ kind \in [Calls -> Kinds]
  /\ at = [q \in Calls |-> "new"]
  /\ thread = [q \in Calls |-> "none"]
  /\ got = [q \in Calls |-> "none"]
  /\ told = [q \in Calls |-> "nothing"]
  /\ chained = {}
  /\ spoiled = {}
  /\ mishaps = 0

Mishap(event) ==
  /\ event \in FileEnv
  /\ mishaps < MaxMishaps
  /\ mishaps' = mishaps + 1

NoMishap == mishaps' = mishaps

\* update_file_data_by_id and update_file_metadata_by_id: nothing happens to a
\* row that is gone, and keys are only ever added or replaced ...
Written(status) == IF row.exists THEN [row EXCEPT !.status = status] ELSE row
Pending(b)      == IF row.exists THEN [row EXCEPT !.kb = b] ELSE row

\* ... and a write that raises returns None, which no caller looks at.
Update(r) ==
  \/ NoMishap /\ row' = r
  \/ Mishap("db") /\ UNCHANGED row

At(q, l) == at[q] = l
Go(q, l) == at' = [at EXCEPT ![q] = l]

\* The status may stay unfinished when a process dies, a task cannot be published,
\* the last write of a thread fails, or "queued" comes too late.  The chunks may be
\* missing when they were deleted and then not saved again, or the row not deleted
\* after them; the list, when its write or the deletion of the row failed.
Spoil(what) == spoiled' = spoiled \cup what

-----------------------------------------------------------------------------
(* process_file with background *)

\* Every request first looks for the file.
NotFound(q) ==
  /\ At(q, "new") \/ At(q, "check") \/ At(q, "sync")
  /\ ~row.exists
  /\ Go(q, "done")
  /\ UNCHANGED <<row, listed, index, kind, threads, spoiled, mishaps>>

Process(q) ==
  /\ At(q, "new")
  /\ kind[q] = "process"
  /\ row.exists
  /\ Go(q, "check")
  /\ UNCHANGED <<row, listed, index, kind, threads, spoiled, mishaps>>

\* Only a status that reads "processing" stops a request.
Check(q) ==
  /\ At(q, "check")
  /\ row.exists
  /\ Go(q, IF row.status = "processing" THEN "done" ELSE "pending")
  /\ UNCHANGED <<row, listed, index, kind, threads, spoiled, mishaps>>

WritePending(q) ==
  /\ At(q, "pending")
  /\ Update(Written("pending"))
  /\ Go(q, "publish")
  /\ UNCHANGED <<listed, index, kind, threads, spoiled>>

\* If it raises the request fails and the status stays "pending".
PublishTask(q) ==
  /\ At(q, "publish")
  /\ \/ /\ NoMishap
        /\ thread' = [thread EXCEPT ![q] = "queued"]
        /\ Go(q, "queued")
        /\ UNCHANGED spoiled
     \/ /\ Mishap("publish")
        /\ Go(q, "done")
        /\ Spoil({"status"})
        /\ UNCHANGED thread
  /\ UNCHANGED <<row, listed, index, kind, got, told, chained>>

\* After the await "queued" is written, whatever the thread wrote meanwhile.
WriteQueued(q) ==
  /\ At(q, "queued")
  /\ Update(Written("queued"))
  /\ Spoil(IF thread[q] \in {"queued", "start"} THEN {} ELSE {"status"})
  /\ Go(q, "done")
  /\ UNCHANGED <<listed, index, kind, threads>>

-----------------------------------------------------------------------------
(* The knowledge endpoints: add, retry, remove *)

\* add_file_to_knowledge_by_id; "queued" is not among the busy states.
Add(q) ==
  /\ At(q, "new")
  /\ kind[q] = "add"
  /\ row.exists
  /\ Go(q, IF row.status \in {"pending", "processing"} THEN "promise"
           ELSE IF row.content THEN "sync" ELSE "list")
  /\ UNCHANGED <<row, listed, index, kind, threads, spoiled, mishaps>>

\* "The file will be added when it is processed."
Promise(q) ==
  /\ At(q, "promise")
  /\ Update(Pending(TRUE))
  /\ Go(q, "done")
  /\ UNCHANGED <<listed, index, kind, threads, spoiled>>

\* add_file_id_to_knowledge and update_knowledge_data_by_id: one that raises
\* returns None.
ListWrite(b) ==
  \/ NoMishap /\ listed' = b
  \/ Mishap("db") /\ UNCHANGED listed

\* The file is listed before it is processed into the collection of the KB.
ListFirst(q) ==
  /\ At(q, "list")
  /\ ListWrite(TRUE)
  /\ Go(q, "check")
  /\ UNCHANGED <<row, index, kind, threads, spoiled>>

\* process_file without background: a file that is being processed is left
\* alone, which the caller does not look at ...
Sync(q) ==
  /\ At(q, "sync")
  /\ row.exists
  /\ Go(q, IF row.status = "processing" THEN "syncList" ELSE "syncDrop")
  /\ UNCHANGED <<row, listed, index, kind, threads, spoiled, mishaps>>

\* ... and any other loses its chunks in the collection of the KB, unless a
\* guardrail blocks it, which may delete the file ...
SyncDrop(q) ==
  /\ At(q, "syncDrop")
  /\ \/ /\ NoMishap
        /\ index' = index \ {"kb"}
        /\ Go(q, "syncIndex")
        /\ UNCHANGED row
     \/ /\ Mishap("fail")
        /\ \/ Go(q, "done") /\ row' \in {row, Gone}
           \/ Go(q, "syncIndex") /\ UNCHANGED row
        /\ UNCHANGED index
  /\ UNCHANGED <<listed, kind, threads, spoiled>>

\* ... and gets new ones, removed meanwhile or not.
SyncIndex(q) ==
  /\ At(q, "syncIndex")
  /\ \/ /\ NoMishap
        /\ index' = index \cup {"kb"}
        /\ Go(q, "syncList")
        /\ UNCHANGED spoiled
     \/ /\ Mishap("fail")
        /\ Go(q, "done")
        /\ Spoil({"kb"})
        /\ UNCHANGED index
  /\ UNCHANGED <<row, listed, kind, threads>>

\* A file that could not be listed is an error to the caller.
SyncList(q) ==
  /\ At(q, "syncList")
  /\ \/ NoMishap /\ listed' = TRUE /\ chained' = chained \cup {q}
     \/ Mishap("db") /\ UNCHANGED <<listed, chained>>
  /\ Go(q, "done")
  /\ UNCHANGED <<row, index, kind, thread, got, told, spoiled>>

\* retry_file_in_knowledge: the write that is to drop processing_job and
\* content merges what is left into the row, so it drops nothing.
Retry(q) ==
  /\ At(q, "new")
  /\ kind[q] = "retry"
  /\ row.exists
  /\ Go(q, "mark")
  /\ UNCHANGED <<row, listed, index, kind, threads, spoiled, mishaps>>

MarkRetry(q) ==
  /\ At(q, "mark")
  /\ Update(Pending(TRUE))
  /\ Go(q, "check")
  /\ UNCHANGED <<listed, index, kind, threads, spoiled>>

\* _perform_file_removal_core: the cancellation is a status nobody reads.
BeginRemoval(q) ==
  /\ At(q, "new")
  /\ kind[q] = "remove"
  /\ row.exists
  /\ Go(q, IF ~row.kb THEN "chunks"
           ELSE IF row.status \in {"pending", "processing"} THEN "cancel" ELSE "unpend")
  /\ UNCHANGED <<row, listed, index, kind, threads, spoiled, mishaps>>

CancelProcessing(q) ==
  /\ At(q, "cancel")
  /\ Update(Written("failed"))
  /\ Go(q, "unpend")
  /\ UNCHANGED <<listed, index, kind, threads, spoiled>>

Unpend(q) ==
  /\ At(q, "unpend")
  /\ Update(Pending(FALSE))
  /\ Go(q, "chunks")
  /\ UNCHANGED <<listed, index, kind, threads, spoiled>>

\* Both collections, one after the other; errors are only logged.
DeleteChunks(q) ==
  /\ At(q, "chunks")
  /\ \/ NoMishap /\ index' = {}
     \/ Mishap("fail") /\ index' \in SUBSET index
  /\ Go(q, "row")
  /\ UNCHANGED <<row, listed, kind, threads, spoiled>>

\* Mutant: the row of a file that is still being processed stays.
DeleteRow_NotBusy(q) ==
  /\ At(q, "row")
  /\ row' = IF row.status \in Terminal THEN Gone ELSE row
  /\ Go(q, "unlist")
  /\ UNCHANGED <<listed, index, kind, threads, spoiled, mishaps>>

\* A deletion that raises returns False, and the rest goes on.
DeleteRow(q) ==
  /\ At(q, "row")
  /\ \/ NoMishap /\ row' = Gone /\ UNCHANGED spoiled
     \/ Mishap("db") /\ UNCHANGED row /\ Spoil(Collections \cup {"list"})
  /\ Go(q, "unlist")
  /\ UNCHANGED <<listed, index, kind, threads>>

Unlist(q) ==
  /\ At(q, "unlist")
  /\ ListWrite(FALSE)
  /\ Go(q, "done")
  /\ UNCHANGED <<row, index, kind, threads, spoiled>>

-----------------------------------------------------------------------------
(* Views that tidy up: GET /knowledge/{id} and GET /process/file/{id}/status *)

\* What was read is stale when it is old; both limits count from started_at.
View(q) ==
  /\ At(q, "new")
  /\ row.exists
  /\ kind[q] = "view" => row.kb
  /\ kind[q] = "poll" => row.status = "processing"
  /\ kind[q] \in {"view", "poll"}
  /\ \/ /\ Mishap("stale")
        /\ row.status \notin {"none", "failed"}
        /\ Go(q, "expire")
     \/ /\ NoMishap
        /\ Go(q, IF row.status = "completed" /\ ~listed THEN "relist"
                 ELSE IF row.status = "none" \/ row.status \in Terminal THEN "tidy" ELSE "done")
  /\ UNCHANGED <<row, listed, index, kind, threads, spoiled>>

\* _mark_job_failed, with the job that was read.
Expire(q) ==
  /\ At(q, "expire")
  /\ Update(Written("failed"))
  /\ Go(q, IF kind[q] = "view" THEN "tidy" ELSE "done")
  /\ UNCHANGED <<listed, index, kind, threads, spoiled>>

\* A completed file is put on the list, whichever collection holds its chunks;
\* if it could not be the file has failed.
Relist(q) ==
  /\ At(q, "relist")
  /\ \/ NoMishap /\ listed' = TRUE /\ UNCHANGED row
     \/ Mishap("db") /\ row' = Written("failed") /\ UNCHANGED listed
  /\ Go(q, "tidy")
  /\ UNCHANGED <<index, kind, threads, spoiled>>

Tidy(q) ==
  /\ At(q, "tidy")
  /\ Update(Pending(FALSE))
  /\ Go(q, "done")
  /\ UNCHANGED <<listed, index, kind, threads, spoiled>>

-----------------------------------------------------------------------------
(* The thread: _run_file_processing_sync *)

In(q, l) == thread[q] = l
To(q, l) == thread' = [thread EXCEPT ![q] = l]

Deliver(q) ==
  /\ In(q, "queued")
  /\ To(q, "start")
  /\ UNCHANGED <<row, listed, index, calls, got, told, chained, spoiled, mishaps>>

\* update_processing_status.
StatusWrite(status) == Update(Written(status))

StartFile(q) ==
  /\ In(q, "start")
  /\ IF row.exists
       THEN StatusWrite("processing") /\ To(q, "load")
       ELSE NoMishap /\ To(q, "finalBad") /\ UNCHANGED row
  /\ UNCHANGED <<listed, index, calls, got, told, chained, spoiled>>

\* The content is extracted; a stage is then written with the status read here.
Load(q) ==
  /\ In(q, "load")
  /\ \/ NoMishap /\ To(q, "stage") /\ got' = [got EXCEPT ![q] = row.status]
     \/ Mishap("fail") /\ (To(q, "reject") \/ To(q, "error")) /\ UNCHANGED got
  /\ UNCHANGED <<row, listed, index, calls, told, chained, spoiled>>

Staged(q) == [Written(got[q]) EXCEPT !.content = row.exists]

Stage(q) ==
  /\ In(q, "stage")
  /\ \/ NoMishap /\ row' = Staged(q)
     \/ Mishap("db") /\ row' \in {Written(got[q]), [row EXCEPT !.content = row.exists]}
  /\ To(q, "index")
  /\ got' = [got EXCEPT ![q] = "none"]
  /\ UNCHANGED <<listed, index, calls, told, chained, spoiled>>

\* The collection is the knowledge base when "add" started the processing.
Direct(q) == kind[q] = "add"
Own(q)    == IF Direct(q) THEN "kb" ELSE "file"

\* A guardrail blocks the file, or its chunks are replaced, which takes two calls of
\* the search engine with all the embedding between them.
Index(q) ==
  /\ In(q, "index")
  /\ \/ /\ NoMishap
        /\ index' = index \ {Own(q)}
        /\ To(q, "save")
        /\ UNCHANGED row
     \/ /\ Mishap("fail")
        /\ \/ To(q, "error") /\ UNCHANGED row
           \/ To(q, "reject") /\ row' = Pending(FALSE)
        /\ UNCHANGED index
  /\ UNCHANGED <<listed, calls, got, told, chained, spoiled>>

Save(q) ==
  /\ In(q, "save")
  /\ \/ NoMishap /\ index' = index \cup {Own(q)} /\ To(q, "complete") /\ UNCHANGED spoiled
     \/ Mishap("fail") /\ UNCHANGED index /\ To(q, "error") /\ Spoil({Own(q)})
  /\ UNCHANGED <<row, listed, calls, got, told, chained>>

Complete(q) ==
  /\ In(q, "complete")
  /\ StatusWrite("completed")
  /\ To(q, "lookup")
  /\ UNCHANGED <<listed, index, calls, got, told, chained, spoiled>>

\* Mutant: the chunks of file-{id} are thought to do for the knowledge base.
Lookup_ListOnly(q) ==
  /\ In(q, "lookup")
  /\ LET waits == row.exists /\ row.kb IN
     /\ got' = [got EXCEPT ![q] = IF Direct(q) \/ waits THEN "kb" ELSE "none"]
     /\ To(q, IF Direct(q) \/ waits THEN "list" ELSE "finalOk")
  /\ UNCHANGED <<row, listed, index, calls, told, chained, spoiled, mishaps>>

\* Whether a knowledge base waits for the file is read after the completion.
Lookup(q) ==
  /\ In(q, "lookup")
  /\ LET waits == row.exists /\ row.kb IN
     /\ got' = [got EXCEPT ![q] = IF Direct(q) \/ waits THEN "kb" ELSE "none"]
     /\ To(q, IF Direct(q) THEN "list" ELSE IF waits THEN "dropKB" ELSE "finalOk")
  /\ UNCHANGED <<row, listed, index, calls, told, chained, spoiled, mishaps>>

\* The chunks in the knowledge base that waits for the file are replaced the same way.
DropKB(q) ==
  /\ In(q, "dropKB")
  /\ \/ NoMishap /\ index' = index \ {"kb"} /\ To(q, "indexKB")
     \/ Mishap("fail") /\ UNCHANGED index /\ To(q, "error")
  /\ UNCHANGED <<row, listed, calls, got, told, chained, spoiled>>

IndexKB(q) ==
  /\ In(q, "indexKB")
  /\ \/ NoMishap /\ index' = index \cup {"kb"} /\ To(q, "list") /\ UNCHANGED spoiled
     \/ Mishap("fail") /\ UNCHANGED index /\ To(q, "error") /\ Spoil({"kb"})
  /\ UNCHANGED <<row, listed, calls, got, told, chained>>

\* Whether the file was put on the list is not looked at.
AddToList(q) ==
  /\ In(q, "list")
  /\ \/ NoMishap /\ listed' = TRUE /\ UNCHANGED spoiled
     \/ Mishap("db") /\ UNCHANGED listed /\ Spoil({"list"})
  /\ To(q, "unpend")
  /\ UNCHANGED <<row, index, calls, got, told, chained>>

ClearPending(q) ==
  /\ In(q, "unpend") \/ In(q, "clear")
  /\ Update(Pending(FALSE))
  /\ To(q, IF In(q, "unpend") THEN "finalOk" ELSE "finalBad")
  /\ UNCHANGED <<listed, index, calls, got, told, chained, spoiled>>

\* A failure the code foresees ends the thread; after an exception the file is to be
\* linked to the knowledge base that waits for it, to show that it failed ...
Reject(q) ==
  /\ In(q, "reject") \/ In(q, "error")
  /\ StatusWrite("failed")
  /\ To(q, IF In(q, "reject") THEN "finalBad" ELSE "relist")
  /\ UNCHANGED <<listed, index, calls, got, told, chained, spoiled>>

\* ... but the name Knowledges is bound only where Lookup's answer is acted upon: an
\* exception before that ends in another one here, which is swallowed, and the
\* knowledge base goes on waiting.
ListFailed(q) ==
  /\ In(q, "relist")
  /\ LET pending == row.exists /\ row.kb IN
     \/ /\ pending => got[q] = "kb"
        /\ ListWrite(listed \/ pending)
        /\ To(q, "clear")
     \/ /\ pending /\ got[q] # "kb"
        /\ NoMishap /\ UNCHANGED listed
        /\ To(q, "finalBad")
  /\ UNCHANGED <<row, index, calls, got, told, chained, spoiled>>

\* Mutant: the safety net is missing.
Unfinished_Never == FALSE

Unfinished == row.exists /\ row.status \notin Terminal

\* finally: a status that is not terminal becomes "failed".
Final(q) ==
  /\ In(q, "finalOk") \/ In(q, "finalBad")
  /\ IF Unfinished
       THEN StatusWrite("failed") /\ Spoil(IF row' = row THEN {"status"} ELSE {})
       ELSE NoMishap /\ UNCHANGED <<row, spoiled>>
  /\ To(q, IF In(q, "finalOk") THEN "ok" ELSE "bad")
  /\ UNCHANGED <<listed, index, calls, got, told, chained>>

-----------------------------------------------------------------------------
(* The handler: _process_file_task *)

\* The chunks of a collection are deleted and not saved again yet.
Replaces(q, c) ==
  \/ c = "kb" /\ (at[q] = "syncIndex" \/ thread[q] = "indexKB")
  \/ c = Own(q) /\ thread[q] = "save"

Running(q) == thread[q] \notin {"none", "queued", "ok", "bad", "dead", "end"}

\* The handler waits no longer; the thread goes on.  Its write may be lost, too.
Timeout(q) ==
  /\ Running(q)
  /\ told[q] = "nothing"
  /\ Mishap("timeout")
  /\ row' \in {Written("failed"), row}
  /\ told' = [told EXCEPT ![q] = "failed"]
  /\ UNCHANGED <<listed, index, calls, thread, got, chained, spoiled>>

\* Mutant: nobody is told of a failure.
Tell_OnlySuccess(q) ==
  /\ In(q, "ok") \/ In(q, "bad")
  /\ To(q, "end")
  /\ told' = IF told[q] = "nothing" /\ In(q, "ok")
               THEN [told EXCEPT ![q] = "completed"] ELSE told
  /\ UNCHANGED <<row, listed, index, calls, got, chained, spoiled, mishaps>>

\* The user is told, and a file of a knowledge base goes to filter extraction.
Tell(q) ==
  /\ In(q, "ok") \/ In(q, "bad")
  /\ To(q, "end")
  /\ IF told[q] # "nothing"
       THEN UNCHANGED <<told, chained>>
       ELSE /\ told' = [told EXCEPT ![q] = IF In(q, "ok") THEN "completed" ELSE "failed"]
            /\ chained' = IF In(q, "ok") /\ got[q] = "kb" THEN chained \cup {q} ELSE chained
  /\ UNCHANGED <<row, listed, index, calls, got, spoiled, mishaps>>

\* file_processing has no retries, and no other process reads the message again.
ThreadDies(q) ==
  /\ Running(q) \/ In(q, "ok") \/ In(q, "bad")
  /\ Mishap("crash")
  /\ To(q, "dead")
  /\ Spoil({"status"} \cup {c \in Collections : Replaces(q, c)})
  /\ UNCHANGED <<row, listed, index, calls, got, told, chained>>

\* What a request has done by then stays done.
CallDies(q) ==
  /\ at[q] \notin {"new", "done"}
  /\ Mishap("crash")
  /\ Go(q, "done")
  /\ Spoil(CASE At(q, "publish")   -> {"status"}
              [] At(q, "syncIndex") -> {"kb"}
              [] At(q, "row")       -> Collections
              [] OTHER              -> {})
  /\ UNCHANGED <<row, listed, index, kind, threads>>

-----------------------------------------------------------------------------
CallStep(q) ==
  \/ NotFound(q) \/ Process(q) \/ Check(q) \/ WritePending(q) \/ PublishTask(q)
  \/ WriteQueued(q)
  \/ Add(q) \/ Promise(q) \/ ListFirst(q) \/ Sync(q) \/ SyncDrop(q)
  \/ SyncIndex(q) \/ SyncList(q)
  \/ Retry(q) \/ MarkRetry(q)
  \/ BeginRemoval(q) \/ CancelProcessing(q) \/ Unpend(q) \/ DeleteChunks(q)
  \/ DeleteRow(q) \/ Unlist(q)
  \/ View(q) \/ Expire(q) \/ Relist(q) \/ Tidy(q)

ThreadStep(q) ==
  \/ Deliver(q) \/ StartFile(q) \/ Load(q) \/ Stage(q) \/ Index(q) \/ Save(q) \/ Complete(q)
  \/ Lookup(q) \/ DropKB(q) \/ IndexKB(q) \/ AddToList(q) \/ ClearPending(q)
  \/ Reject(q) \/ ListFailed(q) \/ Final(q) \/ Tell(q)

FileNext ==
  \E q \in Calls :
    CallStep(q) \/ CallDies(q) \/ ThreadStep(q) \/ Timeout(q) \/ ThreadDies(q)

FileSpec == FileInit /\ [][FileNext]_fileVars

\* The consumer delivers what is published and a thread of the pool runs on:
\* every loader, model call and index call has a timeout of its own.
FileFairSpec == FileSpec /\ \A q \in Calls : WF_fileVars(ThreadStep(q))

-----------------------------------------------------------------------------
(* Properties *)

Over(q) == at[q] \in {"new", "done"} /\ thread[q] \in {"none", "dead", "end"}

\* A removal is past deleting the chunks.
Removing == ~row.exists \/ \E q \in Calls : at[q] = "row"

\* The chunks are in a collection, and the file is on the list: or else somebody is
\* just replacing or removing it, or did so and failed half way.
Has(c) ==
  c \in index \/ Removing \/ (\E q \in Calls : Replaces(q, c)) \/ c \in spoiled

Indexed == \E c \in Collections : Has(c)
OnList  == listed \/ ~row.exists \/ "list" \in spoiled

\* However requests, threads and time limits overwrite each other's status, it
\* is terminal once all of them are over: no spinner turns for ever.
StatusSettles ==
  (\A q \in Calls : Over(q)) /\ row.exists /\ row.status # "none"
    => row.status \in Terminal \/ "status" \in spoiled

\* A file that reads "completed" has its chunks in the index.
CompletedMeansIndexed == row.status = "completed" => Indexed

\* The same with the types it rests on: a row that is gone holds nothing, so
\* no thread that is still under way writes it back.
ContentInv == FileTypeOK /\ CompletedMeansIndexed

\* Who is told by the handler that the file was added to the knowledge base finds it
\* on the list and its chunks in the collection; a removal or a replacement that comes
\* between, or a write that was lost, is the exception.  (A synchronous addition,
\* SyncList, promises less: it lists a file that another task is still processing
\* and sends it on to filter extraction.)
AnnouncedIsTrue ==
  [][\A q \in Calls :
       told'[q] = "completed" /\ told[q] # "completed" /\ got[q] = "kb"
         => Has("kb") /\ OnList]_fileVars

\* The chunks of a file that was removed from the knowledge base are gone.  No
\* run checks it: a thread that is under way indexes and lists the file again.
RemovedIsGone ==
  ~row.exists /\ (\A q \in Calls : Over(q)) => index = {} /\ ~listed

\* The handler of every task ends in an announcement, unless its process dies.
EveryTaskTold ==
  \A q \in Calls : thread[q] = "queued" ~> (told[q] # "nothing" \/ thread[q] = "dead")

=============================================================================
