------------------------------ MODULE SqlApproval ------------------------------
(***************************************************************************)
(* The approval of one SQL statement that modifies data, as the SQL editor   *)
(* of a DbSphere asks for it (services/dbsphere_executor.py and              *)
(* utils/dbsphere_approval.py).  The statement waits under a key in Redis;   *)
(* whoever pops the key runs it.  The audit log, to which rows are only       *)
(* added, is all that remains of what happened: confirmations that come too   *)
(* late and administrators read it.  Each request runs in any process; the    *)
(* requests of one process interleave at fewer points than modelled here.     *)
(***************************************************************************)
EXTENDS Integers, FiniteSets

CONSTANTS
  Requests,   \* requests about the statement
  Env,        \* what may go wrong: a subset of EnvEvents
  MaxFaults   \* bound on the faults of one behaviour

EnvEvents == {"expire",   \* nobody decides within DBSPHERE_PENDING_EXEC_TTL_S
              "redis",    \* a Redis command raises, perhaps after it took effect
              "audit",    \* the insertion of an audit row fails
              "db",       \* the lookup of a prior result fails
              "runner",   \* no runner can be made: configuration gone
              "timeout",  \* the statement takes longer than DBSPHERE_EXECUTE_TIMEOUT_S
              "lost",     \* the driver raises after the statement took effect
              "rollback", \* the driver commits nothing of what it is asked to run
              "crowd",    \* newer evidence rows fill the window of the listing
              "crash"}    \* the process of a request dies

ASSUME EnvAssumption    == Env \subseteq EnvEvents
ASSUME FaultsAssumption == MaxFaults \in Nat

VARIABLES
  key,      \* whether the key of the pending execution is in Redis
  kind,     \* what a request asks for
  own,      \* whether it comes from the user and the DbSphere of the key
  commits,  \* whether the driver of the DbSphere commits
  pc,       \* where a request is
  answer,   \* what it answered
  audit,    \* the audit rows of the result id: action, and by which request
  late,     \* requests that gave up waiting for a thread that still runs
  applied,  \* how often the run of a request changed the database (ghost)
  vetoed,   \* a rejection deleted the key (ghost)
  blind,    \* requests of which an audit row was lost (ghost)
  faults    \* faults so far (bound: MaxFaults)

ghosts == <<applied, vetoed, blind>>
given  == <<kind, own, commits>>
vars   == <<key, given, pc, answer, audit, late, ghosts, faults>>

Kinds  == {"confirm", "reject", "reconcile"}
\* The rows that close a result id, for find_orphan_pending.
Finals == {"SQL_COMMITTED", "SQL_FAILED", "SQL_REJECTED", "SQL_UNKNOWN"}
Rows   == [action : Finals \cup {"SQL_PENDING"}, by : Requests]

Ends     == {"done", "lost"}
Answers  == {"none", "executed", "already", "failed", "rejected", "gone",
             "forbidden", "error", "marked", "no_orphan"}

TypeOK ==
  /\ key \in BOOLEAN
  /\ kind \in [Requests -> Kinds]
  /\ own \in [Requests -> BOOLEAN]
  /\ commits \in BOOLEAN
  /\ pc \in [Requests -> {"new", "gone", "approved", "run", "ran", "raised",
                          "peeked", "discarded", "listed"} \cup Ends]
  /\ answer \in [Requests -> Answers]
  /\ audit \subseteq Rows
  /\ late \subseteq Requests
  /\ applied \in [Requests -> Nat]
  /\ vetoed \in BOOLEAN
  /\ blind \subseteq Requests
  /\ faults \in 0..MaxFaults

\* _register_pending has put the key.
Init ==
  /\ key = TRUE
  /\ kind \in [Requests -> Kinds]
  /\ own \in [Requests -> BOOLEAN]
  /\ commits \in BOOLEAN /\ ("rollback" \in Env \/ commits)
  /\ pc = [r \in Requests |-> "new"]
  /\ answer = [r \in Requests |-> "none"]
  /\ audit = {}
  /\ late = {}
  /\ applied = [r \in Requests |-> 0]
  /\ vetoed = FALSE
  /\ blind = {}
  /\ faults = 0

Fault(event) ==
  /\ event \in Env
  /\ faults < MaxFaults
  /\ faults' = faults + 1

NoFault == faults' = faults

At(r, what, place) == kind[r] = what /\ pc[r] = place
GoTo(r, place)     == pc' = [pc EXCEPT ![r] = place] /\ UNCHANGED answer
End(r, a)          == pc' = [pc EXCEPT ![r] = "done"] /\ answer' = [answer EXCEPT ![r] = a]

\* A Redis command that deletes the key raises: whether it did is not known.
RedisRaises(r) ==
  /\ Fault("redis")
  /\ key' \in {key, FALSE}
  /\ End(r, "error")

\* _insert_audit swallows its failures.
Recorded(r, action) ==
  \/ /\ NoFault
     /\ audit' = audit \cup {[action |-> action, by |-> r]}
     /\ UNCHANGED blind
  \/ Fault("audit") /\ blind' = blind \cup {r} /\ UNCHANGED audit

-----------------------------------------------------------------------------
(* commit_pending *)

\* Mutant: GET, and no DEL.
Popped_Peek == key

\* What GETDEL leaves.
Popped == FALSE

\* One of all the confirmations and expiries gets the statement; the key is
\* gone also when the request is then found to be somebody else's.
Pop(r) ==
  /\ At(r, "confirm", "new")
  /\ \/ /\ NoFault
        /\ key' = Popped
        /\ \/ ~key /\ GoTo(r, "gone")
           \/ key /\ own[r] /\ GoTo(r, "approved")
           \/ key /\ ~own[r] /\ End(r, "forbidden")
     \/ RedisRaises(r)
  /\ UNCHANGED <<given, audit, late, ghosts>>

\* find_prior_result: an execution that has succeeded or a rejection.
Prior == {row \in audit : row.action \in {"SQL_COMMITTED", "SQL_REJECTED"}}

\* confirm_sql_execution answers a pop that found nothing from the audit log,
\* of which a request sees the rows of its own user.
Lookup(r) ==
  /\ At(r, "confirm", "gone")
  /\ \/ NoFault /\ End(r, IF own[r] /\ Prior # {} THEN "already" ELSE "gone")
     \/ Fault("db") /\ End(r, "gone")
  /\ UNCHANGED <<key, given, audit, late, ghosts>>

\* Mutant: the evidence row is left for the end.
Prepare_Unnoted(r) ==
  /\ At(r, "confirm", "approved")
  /\ NoFault
  /\ GoTo(r, "run")
  /\ UNCHANGED <<key, given, audit, late, ghosts>>

\* The evidence row, then the runner.  A runner that cannot be made raises
\* through the handler: the row stays without a final one.
Prepare(r) ==
  /\ At(r, "confirm", "approved")
  /\ \/ Recorded(r, "SQL_PENDING") /\ GoTo(r, "run")
     \/ /\ Fault("runner")
        /\ audit' = audit \cup {[action |-> "SQL_PENDING", by |-> r]}
        /\ End(r, "error")
        /\ UNCHANGED blind
  /\ UNCHANGED <<key, given, late, applied, vetoed>>

\* The connection is closed after the run, without a commit: what the statement
\* did stays only if the driver commits by itself.  pymssql and oracledb do not.
Apply(r) == applied' = IF commits THEN [applied EXCEPT ![r] = @ + 1] ELSE applied

Run(r) ==
  /\ At(r, "confirm", "run")
  /\ NoFault
  /\ Apply(r)
  /\ GoTo(r, "ran")
  /\ UNCHANGED <<key, given, audit, late, vetoed, blind>>

\* The statement is refused; or it took effect, and then the connection breaks
\* or the driver finds no rows to fetch.
RunRaises(r) ==
  /\ At(r, "confirm", "run")
  /\ \/ NoFault /\ UNCHANGED applied
     \/ Fault("lost") /\ Apply(r)
  /\ GoTo(r, "raised")
  /\ UNCHANGED <<key, given, audit, late, vetoed, blind>>

\* wait_for gives up.  A driver that runs in a thread (asyncio.to_thread) does
\* not hear of it; the others cancel the statement.
Timeout(r) ==
  /\ At(r, "confirm", "run")
  /\ Fault("timeout")
  /\ late' \in {late, late \cup {r}}
  /\ GoTo(r, "raised")
  /\ UNCHANGED <<key, given, audit, ghosts>>

\* The thread ends: with the statement's effect, or an error nobody reads.
LateEnd(r) ==
  /\ r \in late
  /\ late' = late \ {r}
  /\ Apply(r) \/ UNCHANGED applied
  /\ UNCHANGED <<key, given, pc, answer, audit, vetoed, blind, faults>>

Finish(r) ==
  /\ \/ At(r, "confirm", "ran") /\ Recorded(r, "SQL_COMMITTED") /\ End(r, "executed")
     \/ At(r, "confirm", "raised") /\ Recorded(r, "SQL_FAILED") /\ End(r, "failed")
  /\ UNCHANGED <<key, given, late, applied, vetoed>>

-----------------------------------------------------------------------------
(* reject_pending *)

\* GET, and the look at the owner.
Peek(r) ==
  /\ At(r, "reject", "new")
  /\ \/ /\ NoFault
        /\ \/ ~key /\ End(r, "gone")
           \/ key /\ own[r] /\ GoTo(r, "peeked")
           \/ key /\ ~own[r] /\ End(r, "forbidden")
     \/ Fault("redis") /\ End(r, "error")
  /\ UNCHANGED <<key, given, audit, late, ghosts>>

\* DEL, whose answer nobody reads: a confirmation may have popped the key.
Discard(r) ==
  /\ At(r, "reject", "peeked")
  /\ \/ NoFault /\ key' = FALSE /\ GoTo(r, "discarded")
     \/ RedisRaises(r)
  /\ vetoed' = (vetoed \/ (key /\ ~key'))
  /\ UNCHANGED <<given, audit, late, applied, blind>>

RecordReject(r) ==
  /\ At(r, "reject", "discarded")
  /\ Recorded(r, "SQL_REJECTED")
  /\ End(r, "rejected")
  /\ UNCHANGED <<key, given, late, applied, vetoed>>

-----------------------------------------------------------------------------
(* find_orphan_pending, mark_orphan_unknown *)

\* The evidence rows without a final row of the result id: the gaps of the log.
Orphans == {row \in audit : row.action = "SQL_PENDING" /\
                            \A other \in audit : other.action \notin Finals}

\* The age limit is the administrator's to choose, down to zero seconds.  Only
\* the newest evidence rows are looked at, four times as many as are to be
\* listed, closed ones included: an old gap may be beyond them.  A lookup that
\* fails lists nothing.
FindOrphan(r) ==
  /\ At(r, "reconcile", "new")
  /\ \/ NoFault /\ Orphans # {} /\ GoTo(r, "listed")
     \/ NoFault /\ Orphans = {} /\ End(r, "no_orphan")
     \/ (Fault("crowd") \/ Fault("db")) /\ End(r, "no_orphan")
  /\ UNCHANGED <<key, given, audit, late, ghosts>>

\* Later, and without another look.  insert_audit_log swallows its failures, so
\* the administrator is told that the run was marked also when it was not.
MarkUnknown(r) ==
  /\ At(r, "reconcile", "listed")
  /\ Recorded(r, "SQL_UNKNOWN")
  /\ End(r, "marked")
  /\ UNCHANGED <<key, given, late, applied, vetoed>>

-----------------------------------------------------------------------------
Expire ==
  /\ "expire" \in Env
  /\ key
  /\ key' = FALSE
  /\ UNCHANGED <<given, pc, answer, audit, late, ghosts, faults>>

\* The statement that the process was running may have taken effect.
Crash(r) ==
  /\ Fault("crash")
  /\ pc[r] \notin {"new"} \cup Ends
  /\ GoTo(r, "lost")
  /\ \/ pc[r] = "run" /\ Apply(r)
     \/ UNCHANGED applied
  /\ UNCHANGED <<key, given, audit, late, vetoed, blind>>

Next ==
  \/ \E r \in Requests :
       \/ Pop(r) \/ Lookup(r) \/ Prepare(r) \/ Run(r) \/ RunRaises(r)
       \/ Timeout(r) \/ LateEnd(r) \/ Finish(r)
       \/ Peek(r) \/ Discard(r) \/ RecordReject(r)
       \/ FindOrphan(r) \/ MarkUnknown(r) \/ Crash(r)
  \/ Expire

Spec == Init /\ [][Next]_vars

-----------------------------------------------------------------------------
(* Properties *)

\* However often it is confirmed, rejected, retried after errors or left to
\* expire, the statement takes effect at most once, only for a request of the
\* user who wrote it, and never after a rejection took it away.
ApprovedOnce ==
  /\ TypeOK
  /\ \A r \in Requests : applied[r] <= 1
  /\ \A r, q \in Requests : applied[r] > 0 /\ applied[q] > 0 => r = q
  /\ \A r \in Requests : applied[r] > 0 => own[r] /\ ~vetoed

Noted(r, actions) == \E row \in audit : row.by = r /\ row.action \in actions

\* The audit log hides nothing: unless one of its rows was lost, a run that
\* changed the database has left its evidence row, also when its process died,
\* and once it ended, how it ended; a row that says it was committed is true,
\* where the driver commits (CommittedIsTrue).
EvidenceRemains ==
  \A r \in Requests :
    /\ applied[r] > 0 /\ r \notin blind => Noted(r, {"SQL_PENDING"})
    /\ applied[r] > 0 /\ pc[r] = "done" /\ r \notin blind =>
         Noted(r, {"SQL_COMMITTED", "SQL_FAILED"})
    /\ Noted(r, {"SQL_COMMITTED"}) => applied[r] = 1 \/ ~commits

\* A run that died stays a gap of the log, which find_orphan_pending lists while
\* it is in its window, until an administrator has closed it - or a rejection
\* that overlapped the confirmation has.
DeadRunsShow ==
  \A r \in Requests :
    pc[r] = "lost" /\ applied[r] > 0 /\ r \notin blind =>
      \/ [action |-> "SQL_PENDING", by |-> r] \in Orphans
      \/ \E q \in Requests : Noted(q, {"SQL_UNKNOWN", "SQL_REJECTED"})

\* Who hears that the statement was executed, now or before, can believe it
\* where the driver commits - except that a confirmation after a rejection also
\* hears "Already executed."
AnswersAreTrue ==
  \A r \in Requests :
    answer[r] \in {"executed", "already"} /\ commits =>
      \E q \in Requests : applied[q] > 0 \/ Noted(q, {"SQL_REJECTED"})

AuditTellsAll == EvidenceRemains /\ DeadRunsShow /\ AnswersAreTrue

\* commit_pending records SQL_COMMITTED for what succeeded.  It does not hold: a
\* statement that returns rows runs without an error in a driver that does not
\* commit, and closing the connection takes back what it did.  No run checks it.
CommittedIsTrue ==
  \A r \in Requests : Noted(r, {"SQL_COMMITTED"}) => applied[r] = 1

\* Who hears "rejected" can rely on it.  It does not hold: a confirmation may
\* pop the key between the look and the deletion.  No run checks it.
RejectedNotApplied ==
  \A r \in Requests : answer[r] = "rejected" => \A q \in Requests : applied[q] = 0

=============================================================================
