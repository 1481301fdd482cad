----------------------------- MODULE Scheduler -----------------------------
(***************************************************************************)
(* One cron schedule, the server processes that each run a scheduler loop   *)
(* (services/scheduler.py) and a schedule worker (services/schedule_worker) *)
(* over the schedule_task table, and the users that edit, toggle, trigger   *)
(* and delete the schedule.                                                 *)
(*                                                                          *)
(* pg_try_advisory_lock is taken in a database session that is closed right *)
(* after; without a connection pool (the default) closing it ends the       *)
(* connection, and with it the lock, before the tick begins.  The ticks of  *)
(* several processes are therefore not excluded from each other here.       *)
(*                                                                          *)
(* A cron expression with its time zone is the set of the times at which it *)
(* fires; a task is named by its scheduled_at, which is unique per schedule.*)
(***************************************************************************)
EXTENDS Integers, FiniteSets

CONSTANTS
  Procs,       \* server processes
  Crons,       \* the cron expressions that users choose from
  Horizon,     \* bound on the clock
  StaleAfter,  \* timeout_seconds of reset_stale_tasks
  MaxRetries,  \* max_retries of a task (2 in the code)
  Env,         \* what may go wrong: a subset of EnvEvents
  MaxFaults    \* bound on the faults and on the user requests of one behaviour

EnvEvents == {"user",      \* users edit, toggle, trigger and delete
              "userGone",  \* the owner of the schedule is deleted
              "db",        \* a transaction raises
              "crash",     \* a process dies
              "slow",      \* an execution outlives StaleAfter
              "stall"}     \* a tick takes longer than a unit of time

\* Every cron has a next slot (croniter raises for one that never fires again).
ASSUME CronsAssumption   ==
  \A c \in Crons : /\ c \subseteq Nat
                   /\ \A t \in 0..Horizon :
                        \E n \in c : t < n /\ \A m \in c : t < m => n <= m
ASSUME HorizonAssumption == Horizon \in Nat
ASSUME StaleAssumption   == StaleAfter \in Nat \ {0}
ASSUME RetriesAssumption == MaxRetries \in Nat
ASSUME EnvAssumption     == Env \subseteq EnvEvents
ASSUME FaultsAssumption  == MaxFaults \in Nat

VARIABLES
  now,       \* the clock
  schedule,  \* the schedule row
  task,      \* the schedule_task row of each scheduled_at
  tick,      \* per process, where its scheduler loop is
  work,      \* per process, what its worker executes
  owner,     \* whether the owner still exists
  renew,     \* per process, the cron its request is about to set the next run by
  deleting,  \* how far a delete request got
  starts,    \* how often the task of each scheduled_at was claimed
  faults     \* faults and user requests so far (bound: MaxFaults)

vars == <<now, schedule, task, tick, work, owner, renew, deleting, starts, faults>>

Times == 0..Horizon

Status == {"none", "pending", "running", "completed", "failed", "cancelled"}

NoTask == [status |-> "none", retry |-> 0, started |-> 0]

NoCron == {}

TickIdle == [at |-> "idle", due |-> {}, cron |-> NoCron, stale |-> {},
             retry |-> [t \in Times |-> 0]]
WorkIdle == [at |-> "idle", id |-> 0, retry |-> 0, row |-> FALSE]

\* A tick that found the schedule due has a copy of it: its next run, its cron.
Ticks ==
  {k \in [at : {"idle", "enqueue", "advance", "stale", "reset", "orphans"},
          due : SUBSET Times, cron : Crons \cup {NoCron}, stale : SUBSET Times,
          retry : [Times -> 0..MaxRetries]] :
     k.at \in {"enqueue", "advance"} => k.cron \in Crons}

TypeOK ==
  /\ now \in Times
  /\ schedule \in [exists : BOOLEAN, active : BOOLEAN, cron : Crons, next : Nat]
  /\ task \in [Times -> [status : Status, retry : 0..MaxRetries, started : Times]]
  /\ tick \in [Procs -> Ticks]
  /\ work \in [Procs -> [at : {"idle", "check", "run"}, id : Times,
                        retry : 0..MaxRetries, row : BOOLEAN]]
  /\ owner \in BOOLEAN
  /\ renew \in [Procs -> Crons \cup {NoCron}]
  /\ deleting \in {"no", "cancelled", "purged"}
  /\ starts \in [Times -> Nat]
  /\ faults \in 0..MaxFaults

-----------------------------------------------------------------------------
(* The clock, cron and the tables *)

\* croniter(...).get_next: the first slot strictly after t.
NextRun(c, t) == CHOOSE n \in c : t < n /\ \A m \in c : t < m => n <= m

Init ==
  /\ now = 0
  /\ \E c \in Crons :
       schedule = [exists |-> TRUE, active |-> TRUE, cron |-> c, next |-> NextRun(c, 0)]
  /\ task = [t \in Times |-> NoTask]
  /\ tick = [i \in Procs |-> TickIdle]
  /\ work = [i \in Procs |-> WorkIdle]
  /\ owner = TRUE
  /\ renew = [i \in Procs |-> NoCron]
  /\ deleting = "no"
  /\ starts = [t \in Times |-> 0]
  /\ faults = 0

Fault(kind) ==
  /\ kind \in Env
  /\ faults < MaxFaults
  /\ faults' = faults + 1

NoFault == faults' = faults

\* Mutant: a second enqueue of the slot replaces the row.
Enqueued_Replacing(t) == [task EXCEPT ![t] = [NoTask EXCEPT !.status = "pending"]]

\* INSERT; the unique constraint turns a duplicate into nothing.
Enqueued(t) ==
  IF task[t].status = "none"
    THEN [task EXCEPT ![t] = [NoTask EXCEPT !.status = "pending"]]
    ELSE task

Pending == {t \in Times : task[t].status = "pending"}
Unfinished == {t \in Times : task[t].status \in {"pending", "running"}}
StaleTasks == {t \in Times : /\ task[t].status = "running"
                             /\ task[t].started + StaleAfter < now}

\* A tick is straight-line code without an await, and so is a request handler:
\* nothing else of the process runs during either.
LoopFree(i) == tick[i].at = "idle" /\ renew[i] = NoCron

SomeLoopFree == \E i \in Procs : LoopFree(i)

\* An execution takes at most StaleAfter unless it is slow, and a tick or a
\* request ends before the clock moves unless it stalls.
AdvanceClock ==
  /\ now < Horizon
  /\ "slow" \in Env \/ \A i \in Procs :
       work[i].at # "idle" /\ work[i].row => now < task[work[i].id].started + StaleAfter
  /\ "stall" \in Env \/ \A i \in Procs : LoopFree(i)
  /\ now' = now + 1
  /\ UNCHANGED <<schedule, task, tick, work, owner, renew, deleting, starts, faults>>

-----------------------------------------------------------------------------
(* scheduler_loop *)

Due == schedule.exists /\ schedule.active /\ schedule.next <= now

TickRead(i) ==
  /\ LoopFree(i)
  /\ tick' = [tick EXCEPT ![i] =
       IF Due THEN [TickIdle EXCEPT !.at = "enqueue", !.due = {schedule.next},
                                    !.cron = schedule.cron]
              ELSE [TickIdle EXCEPT !.at = "stale"]]
  /\ UNCHANGED <<now, schedule, task, work, owner, renew, deleting, starts, faults>>

\* Mutant: the task is named by the time of the tick.
Enqueue_AtNow(i) ==
  /\ tick[i].at = "enqueue"
  /\ NoFault
  /\ task' = Enqueued(now)
  /\ tick' = [tick EXCEPT ![i].at = "advance"]
  /\ UNCHANGED <<now, schedule, work, owner, renew, deleting, starts>>

\* enqueue_task takes any exception for a duplicate.
Enqueue(i) ==
  /\ tick[i].at = "enqueue"
  /\ \/ NoFault /\ \E t \in tick[i].due : task' = Enqueued(t)
     \/ Fault("db") /\ UNCHANGED task
  /\ tick' = [tick EXCEPT ![i].at = "advance"]
  /\ UNCHANGED <<now, schedule, work, owner, renew, deleting, starts>>

\* _update_next_run, by the cron of the copy that its caller has: a missing row
\* or an exception changes nothing.
UpdateNextRun(c) ==
  \/ NoFault /\ schedule' = IF schedule.exists
                              THEN [schedule EXCEPT !.next = NextRun(c, now)]
                              ELSE schedule
  \/ Fault("db") /\ UNCHANGED schedule

Advance(i) ==
  /\ tick[i].at = "advance"
  /\ UpdateNextRun(tick[i].cron)
  /\ tick' = [tick EXCEPT ![i] = [TickIdle EXCEPT !.at = "stale"]]
  /\ UNCHANGED <<now, task, work, owner, renew, deleting, starts>>

\* reset_stale_tasks loads the stale rows without a lock ...
StaleRead(i) ==
  /\ tick[i].at = "stale"
  /\ tick' = [tick EXCEPT ![i] =
       [TickIdle EXCEPT !.at = "reset", !.stale = StaleTasks,
                        !.retry = [t \in Times |-> IF t \in StaleTasks THEN task[t].retry
                                                                      ELSE 0]]]
  /\ UNCHANGED <<now, schedule, task, work, owner, renew, deleting, starts, faults>>

\* Mutant: the limit of retries is not looked at.
ResetRow_NoLimit(row, retry) ==
  [status |-> "pending", retry |-> IF retry < MaxRetries THEN retry + 1 ELSE retry,
   started |-> 0]

ResetRow(row, retry) ==
  IF retry < MaxRetries
    THEN [status |-> "pending", retry |-> retry + 1, started |-> 0]
    ELSE [row EXCEPT !.status = "failed"]

\* ... and writes back what it decided from them. The UPDATE of a row that was
\* deleted meanwhile raises and ends the tick with nothing written.
StaleCommit(i) ==
  /\ tick[i].at = "reset"
  /\ IF \A t \in tick[i].stale : task[t].status # "none"
       THEN /\ task' = [t \in Times |-> IF t \in tick[i].stale
                                          THEN ResetRow(task[t], tick[i].retry[t])
                                          ELSE task[t]]
            /\ tick' = [tick EXCEPT ![i] = [TickIdle EXCEPT !.at = "orphans"]]
       ELSE /\ UNCHANGED task
            /\ tick' = [tick EXCEPT ![i] = TickIdle]
  /\ UNCHANGED <<now, schedule, work, owner, renew, deleting, starts, faults>>

Cancelled(rows) ==
  [t \in Times |-> IF t \in Unfinished THEN [rows[t] EXCEPT !.status = "cancelled"]
                                       ELSE rows[t]]

\* cancel_orphaned_tasks; the rows cleanup_old_tasks deletes ended a month ago.
CancelOrphans(i) ==
  /\ tick[i].at = "orphans"
  /\ task' = IF schedule.exists THEN task ELSE Cancelled(task)
  /\ tick' = [tick EXCEPT ![i] = TickIdle]
  /\ UNCHANGED <<now, schedule, work, owner, renew, deleting, starts, faults>>

-----------------------------------------------------------------------------
(* worker_loop and _execute_task *)

Oldest(t) == \A u \in Pending : t <= u

\* Mutant: the claim takes a running task too.
Claimable_Running(t) == task[t].status \in {"pending", "running"}

Claimable(t) == t \in Pending /\ Oldest(t)

\* claim_pending_task: FOR UPDATE SKIP LOCKED.
Claim(i) ==
  /\ LoopFree(i)
  /\ work[i].at = "idle"
  /\ \E t \in Times :
       /\ Claimable(t)
       /\ task' = [task EXCEPT ![t].status = "running", ![t].started = now]
       /\ work' = [work EXCEPT ![i] =
            [at |-> "check", id |-> t, retry |-> task[t].retry, row |-> TRUE]]
       /\ starts' = [starts EXCEPT ![t] = @ + 1]
  /\ UNCHANGED <<now, schedule, tick, owner, renew, deleting, faults>>

\* update_task_status: by id, whatever the row's status; no row, no change.
Marked(i, status) ==
  IF work[i].row THEN [task EXCEPT ![work[i].id].status = status] ELSE task

Stop(i) == work' = [work EXCEPT ![i] = WorkIdle]

\* The task was cancelled, or lost its schedule or its owner, before it began.
\* A missing owner toggles the schedule.
CheckFails(i) ==
  /\ LoopFree(i)
  /\ work[i].at = "check"
  /\ Stop(i)
  /\ \/ /\ ~work[i].row \/ task[work[i].id].status = "cancelled"
        /\ UNCHANGED <<task, schedule>>
     \/ /\ work[i].row /\ task[work[i].id].status # "cancelled"
        /\ ~schedule.exists
        /\ task' = Marked(i, "failed")
        /\ UNCHANGED schedule
     \/ /\ work[i].row /\ task[work[i].id].status # "cancelled"
        /\ schedule.exists /\ ~owner
        /\ task' = Marked(i, "failed")
        /\ schedule' = [schedule EXCEPT !.active = ~@]
  /\ UNCHANGED <<now, tick, owner, renew, deleting, starts, faults>>

Execute(i) ==
  /\ LoopFree(i)
  /\ work[i].at = "check"
  /\ work[i].row /\ task[work[i].id].status # "cancelled"
  /\ schedule.exists /\ owner
  /\ work' = [work EXCEPT ![i].at = "run"]
  /\ UNCHANGED <<now, schedule, task, tick, owner, renew, deleting, starts, faults>>

\* The model answered; the chat and the notifications are written, then the
\* status, whose failure is swallowed.
Complete(i) ==
  /\ LoopFree(i)
  /\ work[i].at = "run"
  /\ Stop(i)
  /\ \/ NoFault /\ task' = Marked(i, "completed")
     \/ Fault("db") /\ UNCHANGED task
  /\ UNCHANGED <<now, schedule, tick, owner, renew, deleting, starts>>

\* Mutant: the row is left running.
RetriedRow_Running(row) == IF row.retry < MaxRetries THEN [row EXCEPT !.retry = @ + 1] ELSE row

\* retry_task: whatever the row's status, while it has retries left.
RetriedRow(row) ==
  IF row.retry < MaxRetries
    THEN [status |-> "pending", retry |-> row.retry + 1, started |-> 0]
    ELSE row

\* An exception: retried when it reads like a transient one and the copy of
\* the row taken at the claim had retries left.
Fail(i) ==
  /\ LoopFree(i)
  /\ work[i].at = "run"
  /\ Stop(i)
  /\ \/ task' = Marked(i, "failed")
     \/ /\ work[i].retry < MaxRetries
        /\ task' = IF work[i].row THEN [task EXCEPT ![work[i].id] = RetriedRow(@)]
                                  ELSE task
  /\ UNCHANGED <<now, schedule, tick, owner, renew, deleting, starts, faults>>

-----------------------------------------------------------------------------
(* routers/schedules.py, and the environment *)

Request == Fault("user") /\ SomeLoopFree /\ schedule.exists

\* An edit stores the new cron and time zone; the next run is a second
\* transaction.
Edit(i) ==
  /\ Request
  /\ LoopFree(i)
  /\ \E c \in Crons :
       /\ schedule' = [schedule EXCEPT !.cron = c]
       /\ renew' = [renew EXCEPT ![i] = c]
  /\ UNCHANGED <<now, task, tick, work, owner, deleting, starts>>

\* The next run is recomputed only when the schedule becomes active.
Toggle(i) ==
  /\ Request
  /\ LoopFree(i)
  /\ schedule' = [schedule EXCEPT !.active = ~@]
  /\ renew' = [renew EXCEPT ![i] = IF schedule.active THEN NoCron ELSE schedule.cron]
  /\ UNCHANGED <<now, task, tick, work, owner, deleting, starts>>

SetNext(i) ==
  /\ renew[i] # NoCron
  /\ UpdateNextRun(renew[i])
  /\ renew' = [renew EXCEPT ![i] = NoCron]
  /\ UNCHANGED <<now, task, tick, work, owner, deleting, starts>>

RunNow ==
  /\ Request
  /\ task' = Enqueued(now)
  /\ UNCHANGED <<now, schedule, tick, work, owner, renew, deleting, starts>>

\* A delete request: cancel the unfinished tasks, delete all, delete the schedule.
DeleteCancel ==
  /\ deleting = "no"
  /\ Request
  /\ task' = Cancelled(task)
  /\ deleting' = "cancelled"
  /\ UNCHANGED <<now, schedule, tick, work, owner, renew, starts>>

DeleteTasks ==
  /\ deleting = "cancelled"
  /\ task' = [t \in Times |-> NoTask]
  /\ work' = [i \in Procs |-> [work[i] EXCEPT !.row = FALSE]]
  /\ starts' = [t \in Times |-> 0]
  /\ deleting' = "purged"
  /\ UNCHANGED <<now, schedule, tick, owner, renew, faults>>

DeleteSchedule ==
  /\ deleting = "purged"
  /\ schedule.exists
  /\ schedule' = [schedule EXCEPT !.exists = FALSE]
  /\ UNCHANGED <<now, task, tick, work, owner, renew, deleting, starts, faults>>

OwnerGone ==
  /\ owner
  /\ Fault("userGone")
  /\ owner' = FALSE
  /\ UNCHANGED <<now, schedule, task, tick, work, renew, deleting, starts>>

Crash(i) ==
  /\ Fault("crash")
  /\ tick' = [tick EXCEPT ![i] = TickIdle]
  /\ renew' = [renew EXCEPT ![i] = NoCron]
  /\ Stop(i)
  /\ UNCHANGED <<now, schedule, task, owner, deleting, starts>>

-----------------------------------------------------------------------------
TickStep(i) == TickRead(i) \/ Enqueue(i) \/ Advance(i)
               \/ StaleRead(i) \/ StaleCommit(i) \/ CancelOrphans(i)

WorkStep(i) == Claim(i) \/ CheckFails(i) \/ Execute(i) \/ Complete(i) \/ Fail(i)

EditStep(i) == Edit(i) \/ Toggle(i) \/ SetNext(i)

UserStep ==
  \/ \E i \in Procs : EditStep(i)
  \/ RunNow \/ DeleteCancel \/ DeleteTasks \/ DeleteSchedule

Next ==
  \/ AdvanceClock
  \/ \E i \in Procs : TickStep(i) \/ WorkStep(i) \/ Crash(i)
  \/ UserStep \/ OwnerGone

Spec == Init /\ [][Next]_vars

\* Both loops of a process keep running, and so does a request. A tick is
\* followed by a sleep until the next minute, in which the worker runs:
\* its steps are possible again and again, hence strong fairness.
FairSpec ==
  /\ Spec
  /\ \A i \in Procs : WF_vars(TickStep(i)) /\ SF_vars(WorkStep(i)) /\ WF_vars(SetNext(i))
  /\ WF_vars(DeleteTasks) /\ WF_vars(DeleteSchedule)

-----------------------------------------------------------------------------
(* Properties *)

Executing(t) == {i \in Procs : work[i].at = "run" /\ work[i].row /\ work[i].id = t}

\* Two workers never execute the same task at the same time.
OneRunnerPerTask == \A t \in Times : Cardinality(Executing(t)) <= 1

\* A task that completed is never put back and executed again.
CompletedIsFinal ==
  [][\A t \in Times : task[t].status = "completed" => task'[t].status \in {"completed", "none"}]_vars

\* A task is claimed once and once more per retry, however it was retried.
StartsBounded == \A t \in Times : starts[t] <= 1 + MaxRetries

\* The same with the types it rests on: no row counts more retries than allowed.
StartsInv == TypeOK /\ StartsBounded

\* A tick moves the next run past a slot of the cron that it has a copy of and
\* that the schedule still has.
PassesSlot(i) ==
  /\ Advance(i)
  /\ deleting = "no"
  /\ tick[i].cron = schedule.cron
  /\ schedule.next \in schedule.cron
  /\ schedule.next < schedule'.next

\* The scheduler moves the next run past a slot only when the slot has its
\* task, so that every run that was due is executed - while the tick's copy
\* of the cron still is the schedule's: a tick that began before an edit in
\* another process moves on by the cron of before.
SlotNotSkipped ==
  [][\A i \in Procs : PassesSlot(i) => task[schedule.next].status # "none"]_vars

\* The ticks of different processes do not overlap, as the comment at
\* services/scheduler.py:30 has it.  It does not hold: the advisory lock ends
\* with the session that took it.  No run checks it.
TicksSerialized == Cardinality({i \in Procs : ~LoopFree(i)}) <= 1

\* Every pending task ends, also one whose schedule was deleted under it.
TasksEnd == \A t \in Times : t \in Pending ~> t \notin Unfinished

=============================================================================
