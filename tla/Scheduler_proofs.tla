-------------------------- MODULE Scheduler_proofs --------------------------
(***************************************************************************)
(* Proofs about Scheduler, for any number of processes, any crons, horizon, *)
(* timeout, limit of retries and number of faults: who runs a task, how     *)
(* often it is claimed, and which slots are skipped.                        *)
(***************************************************************************)
EXTENDS Scheduler, FiniteSetTheorems, TLAPS

-----------------------------------------------------------------------------
(* Arithmetic, rows and types *)

\* The next run is the first slot after t.
LEMMA NextRunBounds ==
  ASSUME NEW c \in Crons, NEW t \in Times
  PROVE  /\ NextRun(c, t) \in Nat
         /\ t < NextRun(c, t)
         /\ \A m \in c : t < m => NextRun(c, t) <= m
<1>1. c \subseteq Nat /\ \E n \in c : t < n /\ \A m \in c : t < m => n <= m
  BY CronsAssumption DEF Times
<1> QED
  BY <1>1 DEF NextRun

Rows == [status : Status, retry : 0..MaxRetries, started : Times]

Works == [at : {"idle", "check", "run"}, id : Times, retry : 0..MaxRetries, row : BOOLEAN]

Schedules == [exists : BOOLEAN, active : BOOLEAN, cron : Crons, next : Nat]

\* What a process that idles has, and the row that is not there.
LEMMA IdleTyped == /\ TickIdle \in Ticks /\ WorkIdle \in Works /\ NoTask \in Rows
                   /\ 0 \in Times
BY HorizonAssumption, RetriesAssumption
   DEF TickIdle, NoCron, WorkIdle, NoTask, Ticks, Works, Rows, Times, Status

\* What a tick starts from.
LEMMA TickFields ==
  /\ TickIdle.at = "idle" /\ TickIdle.stale = {}
  /\ [TickIdle EXCEPT !.at = "stale"].at = "stale"
  /\ [TickIdle EXCEPT !.at = "stale"].stale = {}
  /\ [TickIdle EXCEPT !.at = "orphans"].at = "orphans"
  /\ [TickIdle EXCEPT !.at = "orphans"].stale = {}
BY DEF TickIdle

LEMMA FaultsTyped ==
  ASSUME faults \in 0..MaxFaults, NoFault \/ \E kind \in EnvEvents : Fault(kind)
  PROVE  faults' \in 0..MaxFaults
BY FaultsAssumption DEF NoFault, Fault

\* The rows an action may write are rows.
LEMMA RowsTyped ==
  ASSUME NEW row \in Rows
  PROVE  /\ \A status \in Status : [row EXCEPT !.status = status] \in Rows
         /\ \A retry \in 0..MaxRetries : ResetRow(row, retry) \in Rows
         /\ RetriedRow(row) \in Rows
         /\ [NoTask EXCEPT !.status = "pending"] \in Rows
         /\ \A time \in Times : [row EXCEPT !.status = "running", !.started = time] \in Rows
<1>1. /\ \A status \in Status : [row EXCEPT !.status = status] \in Rows
      /\ [NoTask EXCEPT !.status = "pending"] \in Rows
      /\ \A time \in Times : [row EXCEPT !.status = "running", !.started = time] \in Rows
  BY IdleTyped DEF Rows, Status
<1>2. \A retry \in 0..MaxRetries : ResetRow(row, retry) \in Rows
  <2> SUFFICES ASSUME NEW retry \in 0..MaxRetries PROVE ResetRow(row, retry) \in Rows
    OBVIOUS
  <2>1. CASE retry < MaxRetries
    BY <2>1, IdleTyped, RetriesAssumption DEF Rows, ResetRow, Status
  <2>2. CASE ~(retry < MaxRetries)
    BY <1>1, <2>2 DEF ResetRow, Status
  <2> QED
    BY <2>1, <2>2
<1>3. RetriedRow(row) \in Rows
  <2>1. row.retry \in 0..MaxRetries
    BY DEF Rows
  <2>2. CASE row.retry < MaxRetries
    BY <2>1, <2>2, IdleTyped, RetriesAssumption DEF Rows, RetriedRow, Status
  <2>3. CASE ~(row.retry < MaxRetries)
    BY <2>3 DEF RetriedRow
  <2> QED
    BY <2>2, <2>3
<1> QED
  BY <1>1, <1>2, <1>3

\* ... and so is what it leaves of the tables.
LEMMA TablesTyped ==
  ASSUME task \in [Times -> Rows], schedule \in Schedules, now \in Times,
         work \in [Procs -> Works]
  PROVE  /\ \A t \in Times : Enqueued(t) \in [Times -> Rows]
         /\ Cancelled(task) \in [Times -> Rows]
         /\ \A i \in Procs, status \in Status : Marked(i, status) \in [Times -> Rows]
         /\ \A c \in Crons : UpdateNextRun(c) => schedule' \in Schedules
<1>1. \A c \in Crons : NextRun(c, now) \in Nat
  BY NextRunBounds
<1>2. \A t \in Times : Enqueued(t) \in [Times -> Rows]
  BY RowsTyped DEF Enqueued
<1>3. Cancelled(task) \in [Times -> Rows]
  BY RowsTyped DEF Cancelled, Status
<1>4. \A i \in Procs, status \in Status : Marked(i, status) \in [Times -> Rows]
  BY RowsTyped DEF Marked, Works
<1> QED
  BY <1>1, <1>2, <1>3, <1>4 DEF Schedules, UpdateNextRun

\* TypeOK with the sets of records named.
LEMMA TypeNamed ==
  TypeOK <=> /\ now \in Times
             /\ schedule \in Schedules
             /\ task \in [Times -> Rows]
             /\ tick \in [Procs -> Ticks]
             /\ work \in [Procs -> Works]
             /\ owner \in BOOLEAN
             /\ renew \in [Procs -> Crons \cup {NoCron}]
             /\ deleting \in {"no", "cancelled", "purged"}
             /\ starts \in [Times -> Nat]
             /\ faults \in 0..MaxFaults
BY DEF TypeOK, Schedules, Rows, Works

LEMMA TypeInit == Init => TypeOK
<1> SUFFICES ASSUME Init PROVE TypeOK
  OBVIOUS
<1>1. \A c \in Crons : NextRun(c, 0) \in Nat
  BY NextRunBounds, IdleTyped
<1> QED
  BY <1>1, IdleTyped, FaultsAssumption, TypeNamed DEF Init, Schedules

LEMMA TypeStep == TypeOK /\ [Next]_vars => TypeOK'
<1> SUFFICES ASSUME TypeOK, [Next]_vars PROVE TypeOK'
  OBVIOUS
<1>1. /\ now \in Times /\ schedule \in Schedules /\ task \in [Times -> Rows]
      /\ tick \in [Procs -> Ticks] /\ work \in [Procs -> Works]
      /\ owner \in BOOLEAN /\ deleting \in {"no", "cancelled", "purged"}
      /\ renew \in [Procs -> Crons \cup {NoCron}]
      /\ starts \in [Times -> Nat] /\ faults \in 0..MaxFaults
  BY TypeNamed
<1> DEFINE Typed == /\ now' \in Times /\ schedule' \in Schedules /\ task' \in [Times -> Rows]
                    /\ tick' \in [Procs -> Ticks] /\ work' \in [Procs -> Works]
                    /\ owner' \in BOOLEAN /\ deleting' \in {"no", "cancelled", "purged"}
                    /\ renew' \in [Procs -> Crons \cup {NoCron}]
                    /\ starts' \in [Times -> Nat] /\ faults' \in 0..MaxFaults
<1>typed. Typed => TypeOK'
  BY DEF TypeOK, Schedules, Rows, Works
<1> HIDE DEF Typed
<1>2. ASSUME AdvanceClock PROVE Typed
  BY <1>1, <1>2, HorizonAssumption DEF AdvanceClock, Times, Typed
<1>3. ASSUME NEW i \in Procs, TickRead(i) PROVE Typed
  <2>1. Due => schedule.next \in Times
    BY <1>1, HorizonAssumption DEF Due, Times, Schedules
  <2>2. /\ Due => [TickIdle EXCEPT !.at = "enqueue", !.due = {schedule.next},
                                   !.cron = schedule.cron] \in Ticks
        /\ [TickIdle EXCEPT !.at = "stale"] \in Ticks
    BY <1>1, <2>1, IdleTyped DEF Ticks, Schedules
  <2> QED
    BY <1>1, <1>3, <2>2 DEF TickRead, Typed
<1>4. ASSUME NEW i \in Procs, Enqueue(i) PROVE Typed
  <2>1. task' \in [Times -> Rows]
    BY <1>1, <1>4, TablesTyped DEF Enqueue, Ticks
  <2>2. [tick[i] EXCEPT !.at = "advance"] \in Ticks
    BY <1>1, <1>4 DEF Enqueue, Ticks
  <2>3. faults' \in 0..MaxFaults
    BY <1>1, <1>4, FaultsTyped DEF Enqueue, EnvEvents
  <2> QED
    BY <1>1, <1>4, <2>1, <2>2, <2>3 DEF Enqueue, Typed
<1>5. ASSUME NEW i \in Procs, Advance(i) PROVE Typed
  <2>1. [TickIdle EXCEPT !.at = "stale"] \in Ticks
    BY IdleTyped DEF Ticks
  <2>2. faults' \in 0..MaxFaults
    BY <1>1, <1>5, FaultsTyped DEF Advance, UpdateNextRun, EnvEvents
  <2>3. tick[i].cron \in Crons
    BY <1>1, <1>5 DEF Advance, Ticks
  <2> QED
    BY <1>1, <1>5, <2>1, <2>2, <2>3, TablesTyped DEF Advance, Typed
<1>6. ASSUME NEW i \in Procs, StaleRead(i) PROVE Typed
  <2>1. StaleTasks \in SUBSET Times
    BY DEF StaleTasks
  <2>2. [t \in Times |-> IF t \in StaleTasks THEN task[t].retry ELSE 0] \in [Times -> 0..MaxRetries]
    BY <1>1, RetriesAssumption DEF Rows
  <2>3. tick'[i] \in Ticks
    BY <1>1, <1>6, <2>1, <2>2, IdleTyped DEF StaleRead, Ticks
  <2> QED
    BY <1>1, <1>6, <2>3 DEF StaleRead, Typed
<1>7. ASSUME NEW i \in Procs, StaleCommit(i) PROVE Typed
  <2>1. [TickIdle EXCEPT !.at = "orphans"] \in Ticks
    BY IdleTyped DEF Ticks
  <2>2. \A t \in Times : ResetRow(task[t], tick[i].retry[t]) \in Rows
    <3>1. \A t \in Times : task[t] \in Rows /\ tick[i].retry[t] \in 0..MaxRetries
      BY <1>1 DEF Ticks
    <3> QED
      BY <3>1, RowsTyped
  <2>3. task' \in [Times -> Rows]
    BY <1>1, <1>7, <2>2 DEF StaleCommit
  <2> QED
    BY <1>1, <1>7, <2>1, <2>3, IdleTyped DEF StaleCommit, Typed
<1>8. ASSUME NEW i \in Procs, CancelOrphans(i) PROVE Typed
  BY <1>1, <1>8, TablesTyped, IdleTyped DEF CancelOrphans, Typed
<1>9. ASSUME NEW i \in Procs, Claim(i) PROVE Typed
  <2> PICK t \in Times :
        /\ task' = [task EXCEPT ![t].status = "running", ![t].started = now]
        /\ work' = [work EXCEPT ![i] = [at |-> "check", id |-> t, retry |-> task[t].retry, row |-> TRUE]]
        /\ starts' = [starts EXCEPT ![t] = @ + 1]
    BY <1>9 DEF Claim
  <2>1. task' = [task EXCEPT ![t] = [task[t] EXCEPT !.status = "running", !.started = now]]
    BY <1>1 DEF Rows
  <2>2. task' \in [Times -> Rows]
    <3>1. task[t] \in Rows
      BY <1>1
    <3>2. [task[t] EXCEPT !.status = "running", !.started = now] \in Rows
      BY <1>1, <3>1, RowsTyped
    <3> QED
      BY <1>1, <2>1, <3>2
  <2>3. work' \in [Procs -> Works]
    BY <1>1 DEF Works, Rows
  <2>4. starts' \in [Times -> Nat]
    BY <1>1
  <2> QED
    BY <1>1, <1>9, <2>2, <2>3, <2>4 DEF Claim, Typed
<1>10. ASSUME NEW i \in Procs, CheckFails(i) PROVE Typed
  <2>1. work' \in [Procs -> Works]
    BY <1>1, <1>10, IdleTyped DEF CheckFails, Stop
  <2>2. [schedule EXCEPT !.active = ~@] \in Schedules
    BY <1>1 DEF Schedules
  <2>3. schedule' \in Schedules /\ task' \in [Times -> Rows]
    BY <1>1, <1>10, <2>2, TablesTyped DEF CheckFails, Status
  <2> QED
    BY <1>1, <1>10, <2>1, <2>3 DEF CheckFails, Typed
<1>11. ASSUME NEW i \in Procs, Execute(i) PROVE Typed
  <2>1. [work[i] EXCEPT !.at = "run"] \in Works
    BY <1>1 DEF Works
  <2> QED
    BY <1>1, <1>11, <2>1 DEF Execute, Typed
<1>12. ASSUME NEW i \in Procs, Complete(i) PROVE Typed
  <2>1. faults' \in 0..MaxFaults
    BY <1>1, <1>12, FaultsTyped DEF Complete, EnvEvents
  <2>2. work' \in [Procs -> Works] /\ task' \in [Times -> Rows]
    BY <1>1, <1>12, IdleTyped, TablesTyped DEF Complete, Stop, Status
  <2> QED
    BY <1>1, <1>12, <2>1, <2>2 DEF Complete, Typed
<1>13. ASSUME NEW i \in Procs, Fail(i) PROVE Typed
  <2>1. work[i].id \in Times
    BY <1>1 DEF Works
  <2>2. [task EXCEPT ![work[i].id] = RetriedRow(@)] \in [Times -> Rows]
    BY <1>1, <2>1, RowsTyped
  <2>3. work' \in [Procs -> Works] /\ task' \in [Times -> Rows]
    BY <1>1, <1>13, <2>2, IdleTyped, TablesTyped DEF Fail, Stop, Status
  <2> QED
    BY <1>1, <1>13, <2>3 DEF Fail, Typed
<1>14. ASSUME NEW i \in Procs, Crash(i) PROVE Typed
  <2>1. faults' \in 0..MaxFaults
    BY <1>1, <1>14, FaultsTyped DEF Crash, EnvEvents
  <2> QED
    BY <1>1, <1>14, <2>1, IdleTyped DEF Crash, Stop, Typed
<1>15. ASSUME UserStep PROVE Typed
  <2>1. Fault("user") \/ NoFault => faults' \in 0..MaxFaults
    BY <1>1, FaultsTyped DEF EnvEvents
  <2>2. ASSUME NEW i \in Procs, Edit(i) PROVE Typed
    <3>1. \A c \in Crons : [schedule EXCEPT !.cron = c] \in Schedules
      BY <1>1 DEF Schedules
    <3> QED
      BY <1>1, <2>1, <2>2, <3>1 DEF Edit, Request, Typed
  <2>3. ASSUME NEW i \in Procs, Toggle(i) PROVE Typed
    <3>1. [schedule EXCEPT !.active = ~@] \in Schedules /\ schedule.cron \in Crons
      BY <1>1 DEF Schedules
    <3> QED
      BY <1>1, <2>1, <2>3, <3>1 DEF Toggle, Request, Typed
  <2>8. ASSUME NEW i \in Procs, SetNext(i) PROVE Typed
    <3>1. renew[i] \in Crons
      BY <1>1, <2>8 DEF SetNext
    <3>2. faults' \in 0..MaxFaults
      BY <1>1, <2>8, FaultsTyped DEF SetNext, UpdateNextRun, EnvEvents
    <3> QED
      BY <1>1, <2>8, <3>1, <3>2, TablesTyped DEF SetNext, Typed
  <2>4. CASE RunNow
    BY <1>1, <2>1, <2>4, TablesTyped DEF RunNow, Request, Typed
  <2>5. CASE DeleteCancel
    BY <1>1, <2>1, <2>5, TablesTyped DEF DeleteCancel, Request, Typed
  <2>6. CASE DeleteTasks
    <3>1. \A i \in Procs : [work[i] EXCEPT !.row = FALSE] \in Works
      BY <1>1 DEF Works
    <3> QED
      BY <1>1, <2>6, <3>1, IdleTyped DEF DeleteTasks, Typed
  <2>7. CASE DeleteSchedule
    <3>1. [schedule EXCEPT !.exists = FALSE] \in Schedules
      BY <1>1 DEF Schedules
    <3> QED
      BY <1>1, <2>7, <3>1 DEF DeleteSchedule, Typed
  <2> QED
    BY <1>15, <2>2, <2>3, <2>4, <2>5, <2>6, <2>7, <2>8 DEF UserStep, EditStep
<1>16. ASSUME OwnerGone PROVE Typed
  <2>1. faults' \in 0..MaxFaults
    BY <1>1, <1>16, FaultsTyped DEF OwnerGone, EnvEvents
  <2> QED
    BY <1>1, <1>16, <2>1 DEF OwnerGone, Typed
<1>17. ASSUME UNCHANGED vars PROVE Typed
  BY <1>1, <1>17 DEF vars, Typed
<1> QED
  BY <1>typed, <1>2, <1>3, <1>4, <1>5, <1>6, <1>7, <1>8, <1>9, <1>10, <1>11, <1>12, <1>13,
     <1>14, <1>15, <1>16, <1>17
  DEF Next, TickStep, WorkStep

-----------------------------------------------------------------------------
(* What a step may do to one row, and to who holds it *)

\* The worker of i took the task and its row has not been deleted since.
Holds(i, t) == work[i].at # "idle" /\ work[i].row /\ work[i].id = t

IsEnqueued(t) == task[t].status = "none" /\ task'[t] = [NoTask EXCEPT !.status = "pending"]

IsReset(t) ==
  \E i \in Procs : /\ tick[i].at = "reset" /\ t \in tick[i].stale
                   /\ task[t].status # "none"
                   /\ task'[t] = ResetRow(task[t], tick[i].retry[t])

IsCancelled(t) ==
  /\ task[t].status \in {"pending", "running"}
  /\ task'[t] = [task[t] EXCEPT !.status = "cancelled"]

\* A worker marks the row or puts it back, and lets go of it.
IsEnded(t) ==
  \E i \in Procs :
    /\ Holds(i, t) /\ work'[i].at = "idle"
    /\ \/ \E status \in {"failed", "completed"} : task'[t] = [task[t] EXCEPT !.status = status]
       \/ work[i].retry < MaxRetries /\ task'[t] = RetriedRow(task[t])

IsClaimed(i, t) ==
  /\ task[t].status = "pending" /\ work[i].at = "idle"
  /\ task'[t] = [task[t] EXCEPT !.status = "running", !.started = now]
  /\ starts'[t] = starts[t] + 1
  /\ work'[i] = [at |-> "check", id |-> t, retry |-> task[t].retry, row |-> TRUE]
  /\ \A j \in Procs \ {i} : work'[j] = work[j]
  /\ now' = now

IsPurged(t) == /\ task'[t] = NoTask /\ starts'[t] = 0 /\ deleting' = "purged"
               /\ \A i \in Procs : ~Holds(i, t)'

RowStep(t) ==
  \/ /\ starts'[t] = starts[t]
     /\ task'[t] = task[t] \/ IsEnqueued(t) \/ IsReset(t) \/ IsCancelled(t) \/ IsEnded(t)
  \/ \E i \in Procs : IsClaimed(i, t)
  \/ IsPurged(t)

\* Who holds a row after a step held it before, or has just claimed it.
HoldStep(i, t) == Holds(i, t)' => \/ Holds(i, t) /\ work'[i].retry = work[i].retry
                                  \/ IsClaimed(i, t)

\* The steps that neither write rows nor stop a worker.
LEMMA QuietStep ==
  ASSUME NEW t \in Times, task' = task, starts' = starts, work' = work
  PROVE  RowStep(t) /\ \A i \in Procs : HoldStep(i, t)
BY DEF RowStep, HoldStep, Holds

\* The steps that write rows and leave the workers alone.
LEMMA TableStep ==
  ASSUME NEW t \in Times, starts' = starts, work' = work,
         task'[t] = task[t] \/ IsEnqueued(t) \/ IsReset(t) \/ IsCancelled(t)
  PROVE  RowStep(t) /\ \A i \in Procs : HoldStep(i, t)
BY DEF RowStep, HoldStep, Holds

\* The steps that stop the worker of i.
LEMMA StopStep ==
  ASSUME TypeOK, NEW t \in Times, NEW i \in Procs, Stop(i), starts' = starts,
         \/ task'[t] = task[t]
         \/ /\ Holds(i, t)
            /\ \/ \E status \in {"failed", "completed"} : task'[t] = [task[t] EXCEPT !.status = status]
               \/ work[i].retry < MaxRetries /\ task'[t] = RetriedRow(task[t])
  PROVE  RowStep(t) /\ \A j \in Procs : HoldStep(j, t)
<1>1. work'[i].at = "idle" /\ \A j \in Procs \ {i} : work'[j] = work[j]
  BY TypeNamed DEF Stop, WorkIdle
<1>2. \A j \in Procs : HoldStep(j, t)
  BY <1>1 DEF HoldStep, Holds
<1>3. RowStep(t)
  BY <1>1 DEF RowStep, IsEnded
<1> QED
  BY <1>2, <1>3

LEMMA EnqueuedRow ==
  ASSUME TypeOK, NEW t \in Times, NEW u \in Times, task' = Enqueued(u)
  PROVE  task'[t] = task[t] \/ IsEnqueued(t)
BY TypeNamed DEF Enqueued, IsEnqueued

LEMMA CancelledRow ==
  ASSUME NEW t \in Times, task' = Cancelled(task)
  PROVE  task'[t] = task[t] \/ IsCancelled(t)
BY DEF Cancelled, Unfinished, IsCancelled

LEMMA MarkedRow ==
  ASSUME TypeOK, NEW t \in Times, NEW i \in Procs, work[i].at # "idle", NEW status,
         task' = Marked(i, status)
  PROVE  \/ task'[t] = task[t]
         \/ Holds(i, t) /\ task'[t] = [task[t] EXCEPT !.status = status]
<1>1. work[i].id \in Times /\ task \in [Times -> Rows]
  BY TypeNamed DEF Works
<1>2. CASE work[i].row
  <2>1. task' = [task EXCEPT ![work[i].id].status = status]
    BY <1>2 DEF Marked
  <2> QED
    BY <1>1, <1>2, <2>1 DEF Holds
<1>3. CASE ~work[i].row
  BY <1>3 DEF Marked
<1> QED
  BY <1>2, <1>3

LEMMA EachStep ==
  ASSUME TypeOK, [Next]_vars, NEW t \in Times
  PROVE  RowStep(t) /\ \A i \in Procs : HoldStep(i, t)
<1>1. /\ task \in [Times -> Rows] /\ tick \in [Procs -> Ticks] /\ work \in [Procs -> Works]
      /\ starts \in [Times -> Nat]
  BY TypeNamed
<1> DEFINE Goal == RowStep(t) /\ \A i \in Procs : HoldStep(i, t)
<1> SUFFICES Goal
  OBVIOUS
<1> HIDE DEF Goal
<1>2. ASSUME AdvanceClock \/ OwnerGone \/ UNCHANGED vars PROVE Goal
  BY <1>2, QuietStep DEF AdvanceClock, OwnerGone, vars, Goal
<1>3. ASSUME NEW i \in Procs, TickRead(i) \/ Advance(i) \/ StaleRead(i) PROVE Goal
  BY <1>3, QuietStep DEF TickRead, Advance, StaleRead, Goal
<1>4. ASSUME NEW i \in Procs, Enqueue(i) PROVE Goal
  <2>1. task' = task \/ \E u \in Times : task' = Enqueued(u)
    BY <1>1, <1>4 DEF Enqueue, Ticks
  <2>2. task'[t] = task[t] \/ IsEnqueued(t)
    BY <2>1, EnqueuedRow
  <2> QED
    BY <1>4, <2>2, TableStep DEF Enqueue, Goal
<1>5. ASSUME NEW i \in Procs, StaleCommit(i) PROVE Goal
  <2>1. task'[t] = task[t] \/ IsReset(t)
    BY <1>1, <1>5 DEF StaleCommit, IsReset
  <2> QED
    BY <1>5, <2>1, TableStep DEF StaleCommit, Goal
<1>6. ASSUME NEW i \in Procs, CancelOrphans(i) PROVE Goal
  BY <1>6, CancelledRow, TableStep DEF CancelOrphans, Goal
<1>7. ASSUME NEW i \in Procs, Claim(i) PROVE Goal
  <2> PICK u \in Times :
        /\ task[u].status = "pending"
        /\ task' = [task EXCEPT ![u].status = "running", ![u].started = now]
        /\ work' = [work EXCEPT ![i] = [at |-> "check", id |-> u, retry |-> task[u].retry, row |-> TRUE]]
        /\ starts' = [starts EXCEPT ![u] = @ + 1]
    BY <1>7 DEF Claim, Claimable, Pending
  <2>1. task'[u] = [task[u] EXCEPT !.status = "running", !.started = now]
    BY <1>1 DEF Rows
  <2>2. IsClaimed(i, u)
    BY <1>1, <1>7, <2>1 DEF IsClaimed, Claim
  <2>3. CASE t = u
    <3>1. \A j \in Procs : HoldStep(j, t)
      BY <2>2, <2>3 DEF IsClaimed, HoldStep, Holds
    <3> QED
      BY <2>2, <2>3, <3>1 DEF RowStep, Goal
  <2>4. CASE t # u
    <3>1. task'[t] = task[t] /\ starts'[t] = starts[t]
      BY <1>1, <2>4
    <3>2. \A j \in Procs : HoldStep(j, t)
      BY <1>1, <2>4 DEF HoldStep, Holds
    <3> QED
      BY <3>1, <3>2 DEF RowStep, Goal
  <2> QED
    BY <2>3, <2>4
<1>8. ASSUME NEW i \in Procs, CheckFails(i) PROVE Goal
  <2>1. task' = task \/ task' = Marked(i, "failed")
    BY <1>8 DEF CheckFails
  <2>2. \/ task'[t] = task[t]
        \/ Holds(i, t) /\ task'[t] = [task[t] EXCEPT !.status = "failed"]
    BY <1>8, <2>1, MarkedRow DEF CheckFails
  <2> QED
    BY <1>8, <2>2, StopStep DEF CheckFails, Goal
<1>9. ASSUME NEW i \in Procs, Execute(i) PROVE Goal
  <2>1. \A j \in Procs : HoldStep(j, t)
    BY <1>1, <1>9 DEF Execute, HoldStep, Holds, Works
  <2> QED
    BY <1>9, <2>1 DEF Execute, RowStep, Goal
<1>10. ASSUME NEW i \in Procs, Complete(i) PROVE Goal
  <2>1. \/ task'[t] = task[t]
        \/ Holds(i, t) /\ task'[t] = [task[t] EXCEPT !.status = "completed"]
    BY <1>10, MarkedRow DEF Complete
  <2> QED
    BY <1>10, <2>1, StopStep DEF Complete, Goal
<1>11. ASSUME NEW i \in Procs, Fail(i) PROVE Goal
  <2>1. CASE task' = Marked(i, "failed")
    <3>1. \/ task'[t] = task[t]
          \/ Holds(i, t) /\ task'[t] = [task[t] EXCEPT !.status = "failed"]
      BY <1>11, <2>1, MarkedRow DEF Fail
    <3> QED
      BY <1>11, <3>1, StopStep DEF Fail, Goal
  <2>2. CASE /\ work[i].retry < MaxRetries
             /\ task' = IF work[i].row THEN [task EXCEPT ![work[i].id] = RetriedRow(@)]
                                       ELSE task
    <3>1. work[i].id \in Times
      BY <1>1 DEF Works
    <3>2. \/ task'[t] = task[t]
          \/ Holds(i, t) /\ task'[t] = RetriedRow(task[t])
      <4>1. CASE work[i].row
        <5>1. task' = [task EXCEPT ![work[i].id] = RetriedRow(@)]
          BY <2>2, <4>1
        <5> QED
          BY <1>1, <1>11, <3>1, <4>1, <5>1 DEF Fail, Holds
      <4>2. CASE ~work[i].row
        BY <2>2, <4>2
      <4> QED
        BY <4>1, <4>2
    <3> QED
      BY <1>11, <2>2, <3>2, StopStep DEF Fail, Goal
  <2> QED
    BY <1>11, <2>1, <2>2 DEF Fail
<1>12. ASSUME NEW i \in Procs, Crash(i) PROVE Goal
  BY <1>12, StopStep DEF Crash, Goal
<1>13. ASSUME DeleteSchedule \/ \E i \in Procs : EditStep(i) PROVE Goal
  BY <1>13, QuietStep DEF EditStep, Edit, Toggle, SetNext, DeleteSchedule, Goal
<1>14. ASSUME RunNow PROVE Goal
  <2>1. now \in Times
    BY TypeNamed
  <2>2. task'[t] = task[t] \/ IsEnqueued(t)
    BY <1>14, <2>1, EnqueuedRow DEF RunNow
  <2> QED
    BY <1>14, <2>2, TableStep DEF RunNow, Goal
<1>15. ASSUME DeleteCancel PROVE Goal
  BY <1>15, CancelledRow, TableStep DEF DeleteCancel, Goal
<1>16. ASSUME DeleteTasks PROVE Goal
  <2>1. \A i \in Procs : ~Holds(i, t)'
    BY <1>1, <1>16 DEF DeleteTasks, Holds, Works
  <2>2. IsPurged(t)
    BY <1>16, <2>1 DEF DeleteTasks, IsPurged
  <2> QED
    BY <2>1, <2>2 DEF RowStep, HoldStep, Goal
<1> QED
  BY <1>2, <1>3, <1>4, <1>5, <1>6, <1>7, <1>8, <1>9, <1>10, <1>11, <1>12, <1>13, <1>14,
       <1>15, <1>16
     DEF Next, TickStep, WorkStep, UserStep

-----------------------------------------------------------------------------
(* One worker per task *)

\* The faults under which two workers may run one task: an execution that is
\* slower than the timeout, a status that is not written, and a process that dies,
\* whose task two ticks may put back one after the other.
CarefulEnv == Env \cap {"slow", "db", "crash"} = {}

OneHolder == \A t \in Times : \A i, j \in Procs : Holds(i, t) /\ Holds(j, t) => i = j

\* A held row is as its worker took it, or was cancelled.
HeldRow == \A t \in Times : \A i \in Procs :
             Holds(i, t) => /\ task[t].status \in {"running", "cancelled"}
                            /\ task[t].retry = work[i].retry

RunningIsHeld == \A t \in Times : task[t].status = "running" => \E i \in Procs : Holds(i, t)

HeldInTime == \A t \in Times : \A i \in Procs : Holds(i, t) => now <= task[t].started + StaleAfter

NothingStale == \A i \in Procs : tick[i].stale = {}

HolderInv == TypeOK /\ OneHolder /\ HeldRow /\ RunningIsHeld /\ HeldInTime /\ NothingStale

LEMMA NothingStaleStep ==
  ASSUME HolderInv, [Next]_vars
  PROVE  NothingStale'
<1>1. tick \in [Procs -> Ticks] /\ task \in [Times -> Rows] /\ now \in Times
  BY TypeNamed DEF HolderInv
<1>2. TickIdle.stale = {}
  BY DEF TickIdle
<1>3. StaleTasks = {}
  <2> SUFFICES ASSUME NEW t \in StaleTasks PROVE FALSE
    OBVIOUS
  <2>1. t \in Times /\ task[t].status = "running" /\ task[t].started + StaleAfter < now
    BY DEF StaleTasks
  <2>2. now <= task[t].started + StaleAfter
    BY <2>1 DEF HolderInv, RunningIsHeld, HeldInTime
  <2>3. task[t].started \in Int /\ now \in Int
    BY <1>1, <2>1 DEF Rows, Times
  <2> QED
    BY <2>1, <2>2, <2>3, StaleAssumption
<1>4. ASSUME NEW i \in Procs, TickStep(i) \/ Crash(i) PROVE tick'[i].stale = {}
  <2>1. CASE TickRead(i)
    BY <1>1, <1>2, <2>1 DEF TickRead, TickIdle
  <2>2. CASE Enqueue(i) \/ Advance(i)
    BY <1>1, <2>2, TickFields DEF Enqueue, Advance, Ticks, HolderInv, NothingStale
  <2>3. CASE StaleRead(i)
    BY <1>1, <1>3, <2>3 DEF StaleRead, TickIdle
  <2>4. CASE StaleCommit(i) \/ CancelOrphans(i) \/ Crash(i)
    BY <1>1, <1>2, <2>4 DEF StaleCommit, CancelOrphans, Crash, TickIdle
  <2> QED
    BY <1>4, <2>1, <2>2, <2>3, <2>4 DEF TickStep
<1>5. ASSUME NEW i \in Procs, TickStep(i) \/ Crash(i) PROVE \A j \in Procs \ {i} : tick'[j] = tick[j]
  BY <1>1, <1>5 DEF TickStep, TickRead, Enqueue, Advance, StaleRead, StaleCommit,
       CancelOrphans, Crash
<1>6. (\E i \in Procs : TickStep(i) \/ Crash(i)) \/ tick' = tick
  BY DEF Next, WorkStep, UserStep, vars, AdvanceClock, OwnerGone, Claim, CheckFails, Execute,
      Complete, Fail, EditStep, Edit, Toggle, SetNext, RunNow, DeleteCancel, DeleteTasks, DeleteSchedule
<1> QED
  BY <1>4, <1>5, <1>6 DEF HolderInv, NothingStale

\* The clock moves only when no execution would outlive the timeout.
LEMMA ClockStep ==
  ASSUME TypeOK, "slow" \notin Env, [Next]_vars
  PROVE  \/ now' = now
         \/ /\ now' = now + 1 /\ task' = task /\ work' = work
            /\ \A t \in Times : \A i \in Procs :
                 Holds(i, t) => now < task[t].started + StaleAfter
<1>1. CASE AdvanceClock
  BY <1>1 DEF AdvanceClock, Holds
<1>2. CASE ~AdvanceClock
  BY <1>2
  DEF Next, TickStep, WorkStep, UserStep, vars, OwnerGone, Claim, CheckFails, Execute,
      Complete, Fail, EditStep, Edit, Toggle, SetNext, RunNow, DeleteCancel, DeleteTasks, DeleteSchedule,
      Crash, TickRead, Enqueue, Advance, StaleRead, StaleCommit, CancelOrphans
<1> QED
  BY <1>1, <1>2

\* A worker lets go of a running row only when it ends it, or the row is deleted.
LEMMA LetGo ==
  ASSUME TypeOK, CarefulEnv, [Next]_vars, HeldRow, NothingStale,
         NEW t \in Times, NEW i \in Procs, Holds(i, t), task[t].status = "running", ~Holds(i, t)'
  PROVE  task'[t].status # "running"
<1>1. task \in [Times -> Rows] /\ work \in [Procs -> Works]
  BY TypeNamed
<1>2. ASSUME NEW j \in Procs, CheckFails(j) \/ Complete(j) \/ Fail(j) PROVE i = j
  <2>1. \A k \in Procs \ {j} : work'[k] = work[k]
    BY <1>1, <1>2 DEF CheckFails, Complete, Fail, Stop
  <2> QED
    BY <2>1 DEF Holds
<1>3. task' = Marked(i, "failed") \/ task' = Marked(i, "completed") => task'[t].status # "running"
  BY <1>1 DEF Marked, Holds, Rows
<1>4. CASE CheckFails(i)
  BY <1>3, <1>4 DEF CheckFails, Holds
<1>5. CASE Complete(i)
  BY <1>3, <1>5 DEF Complete, Fault, CarefulEnv
<1>6. CASE Fail(i)
  <2>1. CASE task' = Marked(i, "failed")
    BY <1>3, <2>1
  <2>2. CASE /\ work[i].retry < MaxRetries
             /\ task' = IF work[i].row THEN [task EXCEPT ![work[i].id] = RetriedRow(@)]
                                       ELSE task
    <3>1. task'[t] = RetriedRow(task[t])
      BY <1>1, <2>2 DEF Holds
    <3>2. task[t].retry < MaxRetries
      BY <2>2 DEF HeldRow
    <3> QED
      BY <3>1, <3>2 DEF RetriedRow
  <2> QED
    BY <1>6, <2>1, <2>2 DEF Fail
<1>7. CASE DeleteTasks
  BY <1>7 DEF DeleteTasks, NoTask
<1>8. ASSUME NEW j \in Procs, Claim(j) PROVE FALSE
  <2>1. \A k \in Procs \ {j} : work'[k] = work[k]
    BY <1>1, <1>8 DEF Claim
  <2> QED
    BY <1>8, <2>1 DEF Holds, Claim
<1>9. ASSUME NEW j \in Procs, Execute(j) PROVE FALSE
  BY <1>1, <1>9 DEF Holds, Execute, Works
<1>10. work' # work
  BY DEF Holds
<1>11. \A j \in Procs : ~Crash(j)
  BY DEF Crash, Fault, CarefulEnv
<1> QED
  BY <1>2, <1>4, <1>5, <1>6, <1>7, <1>8, <1>9, <1>10, <1>11
  DEF Next, TickStep, WorkStep, UserStep, vars, OwnerGone, AdvanceClock, EditStep, Edit,
      Toggle, SetNext, RunNow, DeleteCancel, DeleteSchedule, TickRead, Enqueue, Advance, StaleRead,
      StaleCommit, CancelOrphans

\* A row that is held stays as it was taken, or is cancelled; one worker holds it.
LEMMA HeldStep ==
  ASSUME HolderInv, NEW t \in Times, RowStep(t), \A j \in Procs : HoldStep(j, t),
         NEW i \in Procs, Holds(i, t)'
  PROVE  /\ task'[t].status \in {"running", "cancelled"}
         /\ task'[t].retry = work'[i].retry
         /\ \/ task'[t].started = task[t].started /\ Holds(i, t)
            \/ task'[t].started = now /\ now' = now
         /\ \A j \in Procs : Holds(j, t)' => i = j
<1>1. task[t] \in Rows
  BY TypeNamed DEF HolderInv
<1>2. \A j \in Procs : Holds(j, t) => task[t].status \in {"running", "cancelled"}
  BY DEF HolderInv, HeldRow
<1>3. CASE \E j \in Procs : IsClaimed(j, t)
  <2>1. PICK j \in Procs : IsClaimed(j, t)
    BY <1>3
  <2>2. \A k \in Procs : ~Holds(k, t)
    BY <1>2, <2>1 DEF IsClaimed
  <2>3. \A k \in Procs : Holds(k, t)' => k = j
    BY <2>1, <2>2 DEF IsClaimed, Holds
  <2>4. i = j
    BY <2>3
  <2> QED
    BY <1>1, <2>1, <2>3, <2>4 DEF IsClaimed, Rows
<1>4. CASE \A j \in Procs : ~IsClaimed(j, t)
  <2>1. \A j \in Procs : Holds(j, t)' => Holds(j, t) /\ work'[j].retry = work[j].retry
    BY <1>4 DEF HoldStep
  <2>2. \A j \in Procs : Holds(j, t) => i = j
    BY <2>1 DEF HolderInv, OneHolder
  <2>3. task[t].status \in {"running", "cancelled"} /\ task[t].retry = work[i].retry
    BY <2>1 DEF HolderInv, HeldRow
  <2>4. ~IsPurged(t) /\ ~IsEnqueued(t) /\ ~IsReset(t)
    BY <2>3 DEF IsPurged, IsEnqueued, IsReset, HolderInv, NothingStale
  <2>5. ~IsEnded(t)
    <3> SUFFICES ASSUME NEW j \in Procs, Holds(j, t), work'[j].at = "idle" PROVE FALSE
      BY DEF IsEnded
    <3>1. i = j
      BY <2>2
    <3> QED
      BY <3>1 DEF Holds
  <2>6. task'[t] = task[t] \/ task'[t] = [task[t] EXCEPT !.status = "cancelled"]
    BY <1>4, <2>4, <2>5 DEF RowStep, IsCancelled
  <2> QED
    BY <1>1, <2>1, <2>2, <2>3, <2>6 DEF Rows
<1> QED
  BY <1>3, <1>4

LEMMA HolderStep ==
  ASSUME CarefulEnv, HolderInv, [Next]_vars
  PROVE  HolderInv'
<1>1. TypeOK /\ TypeOK'
  BY TypeStep DEF HolderInv
<1>2. \A t \in Times : RowStep(t) /\ \A i \in Procs : HoldStep(i, t)
  BY <1>1, EachStep
<1>3. OneHolder'
  BY <1>2, HeldStep DEF OneHolder
<1>4. HeldRow'
  BY <1>2, HeldStep DEF HeldRow
<1>5. HeldInTime'
  <2> SUFFICES ASSUME NEW t \in Times, NEW i \in Procs, Holds(i, t)'
               PROVE  now' <= task'[t].started + StaleAfter
    BY DEF HeldInTime
  <2>1. /\ now \in Int /\ now' \in Int
        /\ task[t].started \in Int /\ task'[t].started \in Int
    <3>1. now \in Times /\ task[t].started \in Times
      BY <1>1 DEF TypeOK
    <3>2. now' \in Times /\ task'[t].started \in Times
      BY <1>1 DEF TypeOK
    <3> QED
      BY <3>1, <3>2 DEF Times
  <2>2. CASE now' = now
    <3>1. CASE task'[t].started = task[t].started /\ Holds(i, t)
      BY <2>2, <3>1 DEF HolderInv, HeldInTime
    <3>2. CASE task'[t].started = now
      BY <2>1, <2>2, <3>2, StaleAssumption
    <3> QED
      BY <1>2, <3>1, <3>2, HeldStep
  <2>3. CASE now' = now + 1 /\ task' = task /\ work' = work
    <3>1. Holds(i, t)
      BY <2>3 DEF Holds
    <3>2. now < task[t].started + StaleAfter
      BY <1>1, <2>1, <2>3, <3>1, ClockStep DEF CarefulEnv
    <3> QED
      BY <2>1, <2>3, <3>2, StaleAssumption
  <2> QED
    BY <1>1, <2>2, <2>3, ClockStep DEF CarefulEnv
<1>6. RunningIsHeld'
  <2> SUFFICES ASSUME NEW t \in Times, task'[t].status = "running"
               PROVE  \E i \in Procs : Holds(i, t)'
    BY DEF RunningIsHeld
  <2>1. task[t] \in Rows
    BY <1>1, TypeNamed
  <2>2. CASE \E i \in Procs : IsClaimed(i, t)
    BY <2>2 DEF IsClaimed, Holds
  <2>3. CASE \A i \in Procs : ~IsClaimed(i, t)
    <3>1. ~IsPurged(t) /\ ~IsEnqueued(t) /\ ~IsReset(t) /\ ~IsCancelled(t)
      BY <2>1 DEF IsPurged, IsEnqueued, IsReset, IsCancelled, HolderInv, NothingStale,
           NoTask, Rows
    <3>2. CASE task'[t] = task[t]
      <4>1. PICK i \in Procs : Holds(i, t)
        BY <3>2 DEF HolderInv, RunningIsHeld
      <4>2. Holds(i, t)'
        BY <1>1, <3>2, <4>1, LetGo DEF HolderInv
      <4> QED
        BY <4>2
    <3>3. CASE IsEnded(t)
      <4>1. PICK i \in Procs :
              /\ Holds(i, t)
              /\ \/ \E status \in {"failed", "completed"} : task'[t] = [task[t] EXCEPT !.status = status]
                 \/ work[i].retry < MaxRetries /\ task'[t] = RetriedRow(task[t])
        BY <3>3 DEF IsEnded
      <4>2. task[t].retry = work[i].retry
        BY <4>1 DEF HolderInv, HeldRow
      <4> QED
        BY <2>1, <4>1, <4>2 DEF RetriedRow, Rows
    <3> QED
      BY <1>2, <2>3, <3>1, <3>2, <3>3 DEF RowStep
  <2> QED
    BY <2>2, <2>3
<1>7. NothingStale'
  BY NothingStaleStep
<1> QED
  BY <1>1, <1>3, <1>4, <1>5, <1>6, <1>7 DEF HolderInv

LEMMA HolderInit == Init => HolderInv
<1> SUFFICES ASSUME Init PROVE HolderInv
  OBVIOUS
<1>1. \A t \in Times : \A i \in Procs : ~Holds(i, t)
  BY DEF Init, Holds, WorkIdle
<1>2. \A t \in Times : task[t].status # "running"
  BY DEF Init, NoTask
<1>3. NothingStale
  BY DEF Init, NothingStale, TickIdle
<1> QED
  BY <1>1, <1>2, <1>3, TypeInit
  DEF HolderInv, OneHolder, HeldRow, RunningIsHeld, HeldInTime

\* A set whose members are all equal has at most one.
LEMMA AtMostOne ==
  ASSUME NEW S, \A x, y \in S : x = y
  PROVE  IsFiniteSet(S) /\ Cardinality(S) <= 1
<1>1. CASE S = {}
  BY <1>1, FS_EmptySet
<1>2. CASE S # {}
  <2>1. PICK x \in S : TRUE
    BY <1>2
  <2>2. S = {x}
    BY <2>1
  <2>3. IsFiniteSet({x}) /\ Cardinality({x}) = 1
    BY FS_Singleton
  <2> QED
    BY <2>2, <2>3
<1> QED
  BY <1>1, <1>2

\* While the faults of CarefulEnv do not happen, no task is executed by two
\* workers, whatever the processes, their ticks and the users do.
THEOREM OneRunner ==
  ASSUME CarefulEnv
  PROVE  Spec => []OneRunnerPerTask
<1>1. HolderInv => OneRunnerPerTask
  <2> SUFFICES ASSUME HolderInv, NEW t \in Times PROVE Cardinality(Executing(t)) <= 1
    BY DEF OneRunnerPerTask
  <2>1. \A i, j \in Executing(t) : i = j
    BY DEF Executing, Holds, HolderInv, OneHolder
  <2> QED
    BY <2>1, AtMostOne
<1>2. HolderInv /\ [Next]_vars => HolderInv'
  BY HolderStep
<1> QED
  BY <1>1, <1>2, HolderInit, PTL DEF Spec

\* ... and a task that completed is never put back.
THEOREM CompletedStays ==
  ASSUME CarefulEnv
  PROVE  Spec => CompletedIsFinal
<1>1. ASSUME HolderInv, [Next]_vars, NEW t \in Times, task[t].status = "completed"
      PROVE  task'[t].status \in {"completed", "none"}
  <2>1. RowStep(t)
    BY <1>1, EachStep DEF HolderInv
  <2>2. ~IsEnqueued(t) /\ ~IsReset(t) /\ ~IsCancelled(t) /\ \A i \in Procs : ~IsClaimed(i, t)
    BY <1>1 DEF IsEnqueued, IsReset, IsCancelled, IsClaimed, HolderInv, NothingStale
  <2>3. ~IsEnded(t)
    BY <1>1 DEF IsEnded, HolderInv, HeldRow
  <2>4. task'[t] = task[t] \/ task'[t] = NoTask
    BY <2>1, <2>2, <2>3 DEF RowStep, IsPurged
  <2> QED
    BY <1>1, <2>4 DEF NoTask
<1>2. HolderInv /\ [Next]_vars => HolderInv'
  BY HolderStep
<1>3. HolderInv /\ [Next]_vars
        => [\A t \in Times : task[t].status = "completed"
                               => task'[t].status \in {"completed", "none"}]_vars
  BY <1>1
<1> QED
  BY <1>2, <1>3, HolderInit, PTL DEF Spec, CompletedIsFinal

-----------------------------------------------------------------------------
(* How often a task is claimed *)

RowIsThere == \A t \in Times : \A i \in Procs : Holds(i, t) => task[t].status # "none"

\* A row counts a retry for every claim but the first; while it is pending, for
\* every claim.
ClaimsCounted ==
  \A t \in Times : /\ task[t].status = "none" => starts[t] = 0
                   /\ task[t].status = "pending" => starts[t] <= task[t].retry
                   /\ starts[t] <= task[t].retry + 1

\* What a tick read of a stale row is still so when it writes, unless the row is gone.
ReadIsFresh ==
  \A i \in Procs : \A t \in tick[i].stale :
    \/ task[t].status = "none"
    \/ task[t].status = "running" /\ task[t].retry = tick[i].retry[t]

ReadIsUsed == \A i \in Procs : tick[i].stale # {} => tick[i].at = "reset"

ClaimInv == TypeOK /\ RowIsThere /\ ClaimsCounted

LEMMA ClaimStep ==
  ASSUME ClaimInv, ReadIsFresh, [Next]_vars
  PROVE  ClaimInv'
<1>1. TypeOK /\ TypeOK'
  BY TypeStep DEF ClaimInv
<1> SUFFICES ASSUME NEW t \in Times
             PROVE  /\ \A i \in Procs : Holds(i, t)' => task'[t].status # "none"
                    /\ task'[t].status = "none" => starts'[t] = 0
                    /\ task'[t].status = "pending" => starts'[t] <= task'[t].retry
                    /\ starts'[t] <= task'[t].retry + 1
  BY <1>1 DEF ClaimInv, RowIsThere, ClaimsCounted
<1>2. RowStep(t) /\ \A i \in Procs : HoldStep(i, t)
  BY <1>1, EachStep
<1>3. /\ task[t] \in Rows /\ task[t].retry \in Nat /\ starts[t] \in Nat /\ MaxRetries \in Nat
  BY <1>1, TypeNamed, RetriesAssumption DEF Rows
<1>4. /\ task[t].status = "none" => starts[t] = 0
      /\ task[t].status = "pending" => starts[t] <= task[t].retry
      /\ starts[t] <= task[t].retry + 1
      /\ \A i \in Procs : Holds(i, t) => task[t].status # "none"
  BY DEF ClaimInv, ClaimsCounted, RowIsThere
<1>5. CASE task'[t] = task[t] /\ starts'[t] = starts[t] /\ \A i \in Procs : ~IsClaimed(i, t)
  BY <1>2, <1>4, <1>5 DEF HoldStep
<1>6. CASE IsEnqueued(t) /\ starts'[t] = starts[t]
  BY <1>3, <1>4, <1>6 DEF IsEnqueued, NoTask
<1>7. CASE IsReset(t) /\ starts'[t] = starts[t]
  <2> PICK i \in Procs : /\ t \in tick[i].stale /\ task[t].status # "none"
                         /\ task'[t] = ResetRow(task[t], tick[i].retry[t])
    BY <1>7 DEF IsReset
  <2>1. task[t].retry = tick[i].retry[t]
    BY DEF ReadIsFresh
  <2>2. CASE task[t].retry < MaxRetries
    <3>1. task'[t].status = "pending" /\ task'[t].retry = task[t].retry + 1
      BY <2>1, <2>2 DEF ResetRow
    <3> QED
      BY <1>3, <1>4, <1>7, <3>1
  <2>3. CASE ~(task[t].retry < MaxRetries)
    <3>1. task'[t].status = "failed" /\ task'[t].retry = task[t].retry
      BY <1>3, <2>1, <2>3 DEF ResetRow, Rows
    <3> QED
      BY <1>3, <1>4, <1>7, <3>1
  <2> QED
    BY <2>2, <2>3
<1>8. CASE IsCancelled(t) /\ starts'[t] = starts[t]
  <2>1. task'[t].status = "cancelled" /\ task'[t].retry = task[t].retry
    BY <1>3, <1>8 DEF IsCancelled, Rows
  <2> QED
    BY <1>3, <1>4, <1>8, <2>1
<1>9. CASE IsEnded(t) /\ starts'[t] = starts[t]
  <2>1. task[t].status # "none"
    BY <1>4, <1>9 DEF IsEnded
  <2>2. CASE \E status \in {"failed", "completed"} : task'[t] = [task[t] EXCEPT !.status = status]
    <3>1. task'[t].status \in {"failed", "completed"} /\ task'[t].retry = task[t].retry
      BY <1>3, <2>2 DEF Rows
    <3> QED
      BY <1>3, <1>4, <1>9, <3>1
  <2>3. CASE task'[t] = RetriedRow(task[t])
    <3>1. CASE task[t].retry < MaxRetries
      <4>1. task'[t].status = "pending" /\ task'[t].retry = task[t].retry + 1
        BY <2>3, <3>1 DEF RetriedRow
      <4> QED
        BY <1>3, <1>4, <1>9, <4>1
    <3>2. CASE ~(task[t].retry < MaxRetries)
      BY <1>3, <1>4, <1>9, <2>1, <2>3, <3>2 DEF RetriedRow
    <3> QED
      BY <3>1, <3>2
  <2> QED
    BY <1>9, <2>2, <2>3 DEF IsEnded
<1>10. ASSUME NEW i \in Procs, IsClaimed(i, t)
       PROVE  /\ task'[t].status = "running" /\ task'[t].retry = task[t].retry
              /\ starts'[t] = starts[t] + 1 /\ starts[t] <= task[t].retry
  BY <1>3, <1>4, <1>10 DEF IsClaimed, Rows
<1>11. CASE \E i \in Procs : IsClaimed(i, t)
  BY <1>3, <1>10, <1>11
<1>12. CASE IsPurged(t)
  BY <1>12 DEF IsPurged, NoTask
<1> QED
  BY <1>2, <1>5, <1>6, <1>7, <1>8, <1>9, <1>11, <1>12 DEF RowStep

\* In the beginning nobody does anything, and there are no rows.
LEMMA AllIdle ==
  Init => /\ \A t \in Times : task[t].status = "none" /\ starts[t] = 0 /\ task[t].retry = 0
          /\ \A i \in Procs : /\ tick[i].at = "idle" /\ tick[i].stale = {}
                              /\ work[i].at = "idle"
BY DEF Init, NoTask, TickIdle, WorkIdle

LEMMA ClaimInit == Init => ClaimInv /\ ReadIsFresh /\ ReadIsUsed
BY TypeInit, AllIdle DEF ClaimInv, RowIsThere, ClaimsCounted, ReadIsFresh, ReadIsUsed, Holds

LEMMA ClaimsBounded == ClaimInv => StartsInv
<1> SUFFICES ASSUME ClaimInv, NEW t \in Times PROVE starts[t] <= 1 + MaxRetries
  BY DEF StartsInv, StartsBounded, ClaimInv
<1>1. task[t].retry \in 0..MaxRetries /\ starts[t] \in Nat
  BY TypeNamed DEF ClaimInv, Rows
<1> QED
  BY <1>1, RetriesAssumption DEF ClaimInv, ClaimsCounted

\* Without the faults that let two ticks put back one task, a task is claimed
\* once and once more per retry, whatever the processes.
THEOREM StartsBoundedTogether ==
  ASSUME CarefulEnv
  PROVE  Spec => []StartsInv
<1>1. HolderInv => ReadIsFresh
  BY DEF HolderInv, NothingStale, ReadIsFresh
<1>2. HolderInv /\ [Next]_vars => HolderInv'
  BY HolderStep
<1>3. ClaimInv /\ HolderInv /\ [Next]_vars => ClaimInv'
  BY <1>1, ClaimStep
<1> QED
  BY <1>2, <1>3, HolderInit, ClaimInit, ClaimsBounded, PTL DEF Spec

\* In one process nothing writes rows between the two halves of a reset but a
\* delete request that had begun before.
LEMMA FreshStep ==
  ASSUME TypeOK, \A i, j \in Procs : i = j, ReadIsFresh, ReadIsUsed, [Next]_vars
  PROVE  ReadIsFresh' /\ ReadIsUsed'
<1>1. task \in [Times -> Rows] /\ tick \in [Procs -> Ticks]
  BY TypeNamed
<1> SUFFICES ASSUME NEW i \in Procs
             PROVE  /\ \A t \in tick'[i].stale :
                         \/ task'[t].status = "none"
                         \/ task'[t].status = "running" /\ task'[t].retry = tick'[i].retry[t]
                    /\ tick'[i].stale # {} => tick'[i].at = "reset"
  BY DEF ReadIsFresh, ReadIsUsed
<1>2. \A j \in Procs : j = i
  OBVIOUS
<1>3. tick[i].stale \subseteq Times
  BY <1>1 DEF Ticks
<1>4. CASE tick' = tick /\ (task' = task \/ tick[i].at = "idle")
  BY <1>4 DEF ReadIsFresh, ReadIsUsed
<1>5. CASE TickRead(i) \/ CancelOrphans(i) \/ StaleCommit(i) \/ Crash(i)
  <2>1. CASE TickRead(i)
    <3>1. \/ tick'[i] = [TickIdle EXCEPT !.at = "stale"]
          \/ tick'[i] = [TickIdle EXCEPT !.at = "enqueue", !.due = {schedule.next},
                                        !.cron = schedule.cron]
      BY <1>1, <2>1 DEF TickRead
    <3>2. tick'[i].stale = {}
      BY <3>1 DEF TickIdle
    <3> QED
      BY <3>2
  <2>2. CASE CancelOrphans(i) \/ StaleCommit(i) \/ Crash(i)
    <3>1. tick'[i] \in {TickIdle, [TickIdle EXCEPT !.at = "orphans"]}
      BY <1>1, <2>2 DEF CancelOrphans, StaleCommit, Crash
    <3>2. tick'[i].stale = {}
      BY <3>1, TickFields
    <3> QED
      BY <3>2
  <2> QED
    BY <1>5, <2>1, <2>2
<1>6. CASE Enqueue(i) \/ Advance(i)
  <2>1. tick[i].stale = {}
    BY <1>6 DEF ReadIsUsed, Enqueue, Advance
  <2>2. CASE Enqueue(i)
    BY <1>1, <2>1, <2>2 DEF Enqueue, Ticks
  <2>3. CASE Advance(i)
    <3>1. tick'[i] = [TickIdle EXCEPT !.at = "stale"]
      BY <1>1, <2>3 DEF Advance
    <3> QED
      BY <3>1, TickFields
  <2> QED
    BY <1>6, <2>2, <2>3
<1>7. CASE StaleRead(i)
  <2>1. /\ tick'[i].at = "reset" /\ tick'[i].stale = StaleTasks
        /\ tick'[i].retry = [t \in Times |-> IF t \in StaleTasks THEN task[t].retry ELSE 0]
        /\ task' = task
    BY <1>1, <1>7 DEF StaleRead, TickIdle
  <2>2. \A t \in StaleTasks : t \in Times /\ task[t].status = "running"
    BY DEF StaleTasks
  <2> QED
    BY <2>1, <2>2
<1>8. CASE WorkStep(i)
  BY <1>4, <1>8 DEF WorkStep, Claim, CheckFails, Execute, Complete, Fail, LoopFree
<1>9. CASE RunNow \/ DeleteCancel
  <2>1. tick[i].at = "idle"
    BY <1>2, <1>9
    DEF RunNow, DeleteCancel, Request, SomeLoopFree, LoopFree
  <2>2. tick' = tick
    BY <1>9 DEF RunNow, DeleteCancel
  <2> QED
    BY <1>4, <2>1, <2>2
<1>10. CASE DeleteTasks
  <2>1. \A t \in Times : task'[t].status = "none"
    BY <1>10 DEF DeleteTasks, NoTask
  <2>2. tick' = tick
    BY <1>10 DEF DeleteTasks
  <2> QED
    BY <1>3, <2>1, <2>2 DEF ReadIsUsed
<1>11. CASE \/ AdvanceClock \/ DeleteSchedule \/ OwnerGone \/ UNCHANGED vars
            \/ \E j \in Procs : EditStep(j)
  BY <1>4, <1>11
  DEF AdvanceClock, DeleteSchedule, OwnerGone, vars, EditStep, Edit, Toggle, SetNext
<1>12. (\E j \in Procs : TickStep(j) \/ WorkStep(j) \/ Crash(j)) => TickStep(i) \/ WorkStep(i) \/ Crash(i)
  BY <1>2
<1> QED
  BY <1>5, <1>6, <1>7, <1>8, <1>9, <1>10, <1>11, <1>12 DEF Next, TickStep, UserStep

\* A single process may be slow, lose writes and restart: a task is still claimed
\* once and once more per retry.
THEOREM StartsBoundedAlone ==
  ASSUME \A i, j \in Procs : i = j
  PROVE  Spec => []StartsInv
<1> DEFINE Inv == ClaimInv /\ ReadIsFresh /\ ReadIsUsed
<1>1. Inv /\ [Next]_vars => Inv'
  BY ClaimStep, FreshStep DEF ClaimInv
<1>2. Init => Inv
  BY ClaimInit
<1>3. Inv => StartsInv
  BY ClaimsBounded
<1> HIDE DEF Inv
<1> QED
  BY <1>1, <1>2, <1>3, PTL DEF Spec

\* A task that completed is in nobody's hands.
HeldIsOpen == \A t \in Times : \A i \in Procs : Holds(i, t) => task[t].status # "completed"

LEMMA HeldIsOpenStep ==
  ASSUME TypeOK, \A i, j \in Procs : i = j, ReadIsFresh, HeldIsOpen, [Next]_vars
  PROVE  HeldIsOpen'
<1> SUFFICES ASSUME NEW t \in Times, NEW i \in Procs, Holds(i, t)'
             PROVE  task'[t].status # "completed"
  BY DEF HeldIsOpen
<1>1. RowStep(t) /\ HoldStep(i, t) /\ task[t] \in Rows
  BY EachStep, TypeNamed
<1>2. CASE IsClaimed(i, t)
  BY <1>1, <1>2 DEF IsClaimed, Rows
<1>3. CASE ~IsClaimed(i, t)
  <2>1. Holds(i, t) /\ task[t].status # "completed"
    BY <1>1, <1>3 DEF HoldStep, HeldIsOpen
  <2>2. CASE IsReset(t)
    BY <1>1, <2>2 DEF IsReset, ResetRow, Rows
  <2>3. CASE IsEnqueued(t) \/ IsCancelled(t)
    BY <1>1, <2>3 DEF IsEnqueued, IsCancelled, NoTask, Rows
  <2>4. ~IsEnded(t) /\ ~IsPurged(t) /\ \A j \in Procs : ~IsClaimed(j, t)
    BY <1>3 DEF IsEnded, IsPurged, Holds
  <2> QED
    BY <1>1, <2>1, <2>2, <2>3, <2>4 DEF RowStep
<1> QED
  BY <1>2, <1>3

\* ... nor does it ever put back a task that completed, however slow its
\* executions are: what its tick resets it has looked at in the same tick, and
\* its worker writes only to what it still holds.
THEOREM CompletedStaysAlone ==
  ASSUME \A i, j \in Procs : i = j
  PROVE  Spec => CompletedIsFinal
<1> DEFINE Inv == TypeOK /\ ReadIsFresh /\ ReadIsUsed /\ HeldIsOpen
<1>1. Inv /\ [Next]_vars => Inv'
  BY TypeStep, FreshStep, HeldIsOpenStep
<1>2. Init => Inv
  BY TypeInit, ClaimInit, AllIdle DEF HeldIsOpen, Holds
<1>3. ASSUME Inv, [Next]_vars, NEW t \in Times, task[t].status = "completed"
      PROVE  task'[t].status \in {"completed", "none"}
  <2>1. RowStep(t)
    BY <1>3, EachStep
  <2>2. ~IsEnqueued(t) /\ ~IsReset(t) /\ ~IsCancelled(t) /\ \A i \in Procs : ~IsClaimed(i, t)
    BY <1>3 DEF IsEnqueued, IsReset, IsCancelled, IsClaimed, ReadIsFresh
  <2>3. ~IsEnded(t)
    BY <1>3 DEF IsEnded, HeldIsOpen
  <2> QED
    BY <1>3, <2>1, <2>2, <2>3 DEF RowStep, IsPurged, NoTask
<1>4. Inv /\ [Next]_vars
        => [\A t \in Times : task[t].status = "completed"
                               => task'[t].status \in {"completed", "none"}]_vars
  BY <1>3
<1> HIDE DEF Inv
<1> QED
  BY <1>1, <1>2, <1>4, PTL DEF Spec, CompletedIsFinal

-----------------------------------------------------------------------------
(* Slots *)

\* Whoever is about to move the next run past a slot has its task in the table, or
\* somebody has moved it on already.
SlotInv ==
  deleting = "no" =>
    \A i \in Procs :
      /\ tick[i].at = "enqueue" => now < schedule.next \/ tick[i].due = {schedule.next}
      /\ tick[i].at = "advance" =>
           \/ now < schedule.next
           \/ schedule.next \in Times /\ task[schedule.next].status # "none"

\* No row is deleted before a delete request.
LEMMA RowsStay ==
  ASSUME TypeOK, [Next]_vars, deleting' = "no", NEW t \in Times, task[t].status # "none"
  PROVE  task'[t].status # "none"
<1>1. task[t] \in Rows
  BY TypeNamed
<1>2. ~IsPurged(t)
  BY DEF IsPurged
<1>3. CASE IsReset(t)
  BY <1>1, <1>3 DEF IsReset, ResetRow, Rows
<1>4. CASE IsEnded(t)
  BY <1>1, <1>4 DEF IsEnded, RetriedRow, Rows
<1>5. CASE IsCancelled(t) \/ \E i \in Procs : IsClaimed(i, t)
  BY <1>1, <1>5 DEF IsCancelled, IsClaimed, Rows
<1> QED
  BY <1>2, <1>3, <1>4, <1>5, EachStep DEF RowStep, IsEnqueued

LEMMA SlotStep ==
  ASSUME Env \cap {"db", "stall"} = {}, TypeOK, SlotInv, [Next]_vars
  PROVE  SlotInv'
<1>1. /\ task \in [Times -> Rows] /\ tick \in [Procs -> Ticks] /\ schedule \in Schedules
      /\ now \in Times
  BY TypeNamed
<1> SUFFICES ASSUME deleting' = "no", NEW i \in Procs
             PROVE  /\ tick'[i].at = "enqueue" =>
                         now' < schedule'.next \/ tick'[i].due = {schedule'.next}
                    /\ tick'[i].at = "advance" =>
                         \/ now' < schedule'.next
                         \/ schedule'.next \in Times /\ task'[schedule'.next].status # "none"
  BY DEF SlotInv
<1>2. deleting = "no"
  BY DEF Next, TickStep, WorkStep, UserStep, vars, AdvanceClock, OwnerGone, Claim,
      CheckFails, Execute, Complete, Fail, EditStep, Edit, Toggle, SetNext, RunNow, DeleteCancel,
      DeleteTasks, DeleteSchedule, Crash, TickRead, Enqueue, Advance, StaleRead,
      StaleCommit, CancelOrphans
<1>3. /\ tick[i].at = "enqueue" => now < schedule.next \/ tick[i].due = {schedule.next}
      /\ tick[i].at = "advance" => \/ now < schedule.next
                                   \/ schedule.next \in Times /\ task[schedule.next].status # "none"
  BY <1>2 DEF SlotInv
<1>4. \A t \in Times : task[t].status # "none" => task'[t].status # "none"
  BY RowsStay
<1>5. CASE /\ tick'[i] = tick[i] /\ schedule'.next = schedule.next /\ now' = now
  BY <1>3, <1>4, <1>5
<1>6. CASE now' < schedule'.next
  BY <1>6
<1>7. CASE tick'[i].at \notin {"enqueue", "advance"}
  BY <1>7
<1>8. CASE AdvanceClock
  <2>1. tick'[i].at = "idle"
    BY <1>8 DEF AdvanceClock, LoopFree
  <2> QED
    BY <2>1
<1>9. ASSUME NEW j \in Procs, TickRead(j)
      PROVE  \/ tick'[i] = tick[i]
             \/ tick'[i].at = "stale"
             \/ tick'[i].due = {schedule.next} /\ tick'[i].at = "enqueue"
  <2>1. CASE i = j
    <3>1. tick'[i] \in {[TickIdle EXCEPT !.at = "enqueue", !.due = {schedule.next},
                                        !.cron = schedule.cron],
                        [TickIdle EXCEPT !.at = "stale"]}
      BY <1>1, <1>9, <2>1 DEF TickRead
    <3>2. CASE tick'[i] = [TickIdle EXCEPT !.at = "enqueue", !.due = {schedule.next},
                                           !.cron = schedule.cron]
      <4>1. tick'[i].at = "enqueue" /\ tick'[i].due = {schedule.next}
        BY <3>2 DEF TickIdle
      <4> QED
        BY <4>1
    <3>3. CASE tick'[i] = [TickIdle EXCEPT !.at = "stale"]
      BY <3>3, TickFields
    <3> QED
      BY <3>1, <3>2, <3>3
  <2>2. CASE i # j
    BY <1>1, <1>9, <2>2 DEF TickRead
  <2> QED
    BY <2>1, <2>2
<1>10. ASSUME NEW j \in Procs, TickRead(j) PROVE schedule' = schedule /\ now' = now
  BY <1>10 DEF TickRead
<1>11. CASE \E j \in Procs : TickRead(j)
  BY <1>5, <1>7, <1>9, <1>10, <1>11
<1>12. ASSUME NEW j \in Procs, Enqueue(j), i = j
       PROVE  /\ schedule' = schedule /\ now' = now /\ tick'[i].at = "advance"
              /\ \/ now < schedule.next
                 \/ schedule.next \in Times /\ task'[schedule.next].status # "none"
  <2>1. schedule' = schedule /\ now' = now /\ tick[i].at = "enqueue" /\ tick'[i].at = "advance"
    BY <1>1, <1>12 DEF Enqueue, Ticks
  <2>2. CASE tick[i].due = {schedule.next}
    <3>1. schedule.next \in Times
      BY <1>1, <2>2 DEF Ticks
    <3>2. task' = Enqueued(schedule.next)
      BY <1>12, <2>2 DEF Enqueue, Fault
    <3>3. task'[schedule.next].status # "none"
      BY <1>1, <3>1, <3>2 DEF Enqueued, NoTask
    <3> QED
      BY <2>1, <3>1, <3>3
  <2> QED
    BY <1>3, <2>1, <2>2
<1>13. ASSUME NEW j \in Procs, Enqueue(j), i # j PROVE tick'[i] = tick[i] /\ schedule' = schedule /\ now' = now
  BY <1>1, <1>13 DEF Enqueue
<1>14. CASE \E j \in Procs : Enqueue(j)
  BY <1>5, <1>12, <1>13, <1>14
<1>renewed. ASSUME NEW c \in Crons, UpdateNextRun(c), now' = now
            PROVE  schedule' = schedule \/ now' < schedule'.next
  BY <1>1, <1>renewed, NextRunBounds DEF UpdateNextRun, Fault, Schedules
<1>15. ASSUME NEW j \in Procs, Advance(j) PROVE schedule' = schedule \/ now' < schedule'.next
  <2>1. tick[j].cron \in Crons
    BY <1>1, <1>15 DEF Advance, Ticks
  <2> QED
    BY <1>15, <1>renewed, <2>1 DEF Advance
<1>16. ASSUME NEW j \in Procs, Advance(j) PROVE /\ now' = now
                                                /\ tick'[i] = tick[i] \/ tick'[i].at = "stale"
  BY <1>1, <1>16, TickFields DEF Advance
<1>17. CASE \E j \in Procs : Advance(j)
  BY <1>5, <1>6, <1>7, <1>15, <1>16, <1>17
<1>18. ASSUME NEW j \in Procs, StaleRead(j) \/ StaleCommit(j) \/ CancelOrphans(j) \/ Crash(j)
       PROVE  /\ schedule' = schedule /\ now' = now
              /\ tick'[i] = tick[i] \/ tick'[i].at \notin {"enqueue", "advance"}
  <2>1. schedule' = schedule /\ now' = now
    BY <1>18 DEF StaleRead, StaleCommit, CancelOrphans, Crash
  <2>2. CASE StaleRead(j)
    BY <1>1, <2>2 DEF StaleRead, TickIdle
  <2>3. CASE StaleCommit(j)
    BY <1>1, <2>3, TickFields DEF StaleCommit
  <2>4. CASE CancelOrphans(j) \/ Crash(j)
    BY <1>1, <2>4, TickFields DEF CancelOrphans, Crash
  <2> QED
    BY <1>18, <2>1, <2>2, <2>3, <2>4
<1>19. CASE \E j \in Procs : StaleRead(j) \/ StaleCommit(j) \/ CancelOrphans(j) \/ Crash(j)
  BY <1>5, <1>7, <1>18, <1>19
<1>20. ASSUME NEW j \in Procs, WorkStep(j) PROVE /\ tick' = tick /\ now' = now
                                                 /\ schedule'.next = schedule.next
  BY <1>1, <1>20 DEF WorkStep, Claim, CheckFails, Execute, Complete, Fail, Schedules
<1>21. CASE \E j \in Procs : WorkStep(j)
  BY <1>5, <1>20, <1>21
<1>22. CASE UserStep \/ OwnerGone \/ UNCHANGED vars
  <2>1. tick' = tick /\ now' = now
    BY <1>22 DEF UserStep, EditStep, Edit, Toggle, SetNext, RunNow, DeleteCancel, DeleteTasks,
         DeleteSchedule, OwnerGone, vars
  <2>2. ASSUME NEW j \in Procs, SetNext(j)
        PROVE  schedule' = schedule \/ now' < schedule'.next
    <3>1. renew[j] \in Crons
      BY <2>2, TypeNamed DEF SetNext
    <3> QED
      BY <1>renewed, <2>1, <2>2, <3>1 DEF SetNext
  <2>3. schedule'.next = schedule.next \/ now' < schedule'.next
    BY <1>1, <1>22, <2>2
    DEF UserStep, EditStep, Edit, Toggle, RunNow, DeleteCancel, DeleteTasks, DeleteSchedule,
                       OwnerGone, vars, Schedules
  <2> QED
    BY <1>5, <1>6, <2>1, <2>3
<1> QED
  BY <1>8, <1>11, <1>14, <1>17, <1>19, <1>21, <1>22 DEF Next, TickStep

\* While no transaction raises and no tick is slower than the clock, the loops of
\* all processes, running their ticks at the same time and under edits, enqueue
\* every slot that they move the schedule past by a cron it still has.
THEOREM NoSlotSkipped ==
  ASSUME Env \cap {"db", "stall"} = {}
  PROVE  Spec => SlotNotSkipped
<1> DEFINE Inv == TypeOK /\ SlotInv
<1>1. Inv /\ [Next]_vars => Inv'
  BY TypeStep, SlotStep
<1>2. Init => Inv
  BY TypeInit, AllIdle DEF SlotInv
<1>3. ASSUME Inv, NEW i \in Procs, PassesSlot(i)
      PROVE  task[schedule.next].status # "none"
  <2>1. schedule \in Schedules /\ now \in Times
    BY <1>3, TypeNamed
  <2>2. schedule.cron \in Crons /\ schedule.next \in Nat
    BY <2>1 DEF Schedules
  <2>3. schedule'.next = NextRun(schedule.cron, now)
    <3>1. schedule' # schedule
      BY <1>3, <2>2 DEF PassesSlot
    <3>2. schedule' = [schedule EXCEPT !.next = NextRun(schedule.cron, now)]
      BY <1>3, <3>1 DEF PassesSlot, Advance, UpdateNextRun
    <3> QED
      BY <2>1, <3>2 DEF Schedules
  <2>4. ~(now < schedule.next)
    BY <1>3, <2>1, <2>2, <2>3, NextRunBounds DEF PassesSlot
  <2> QED
    BY <1>3, <2>4 DEF SlotInv, PassesSlot, Advance
<1>4. Inv /\ [Next]_vars
        => [\A i \in Procs : PassesSlot(i) => task[schedule.next].status # "none"]_vars
  BY <1>3
<1> HIDE DEF Inv
<1> QED
  BY <1>1, <1>2, <1>4, PTL DEF Spec, SlotNotSkipped

=============================================================================
