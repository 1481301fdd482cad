---------------------------- MODULE GoogleActions ----------------------------
(***************************************************************************)
(* The confirmation of one drafted Google action - a mail, a calendar event  *)
(* or a document (routers/google_actions.py).  Every request for the same    *)
(* message id looks for an audit row, takes the lock of the message id in    *)
(* its process, looks again, calls Google, and writes the audit row.  A      *)
(* document takes two calls: it is created empty, then filled.               *)
(* Whatever Google does is modelled from how the code uses it.               *)
(***************************************************************************)
EXTENDS Integers, FiniteSets

CONSTANTS
  Requests,     \* confirm requests for the message id: clicks and retries
  Procs,        \* server processes
  MaxAttempts,  \* calls of one request to Google (stop_after_attempt)
  Env,          \* what may happen: a subset of EnvEvents
  MaxFaults     \* bound on the faults of one behaviour

EnvEvents == {"transient",  \* a call fails before Google acted: 429, no connection
              "timeout",    \* a call fails after Google acted: read timeout, 5xx
              "audit",      \* the insertion of an audit row fails
              "crash"}      \* a server process dies and is started again

ASSUME AttemptsAssumption == MaxAttempts \in Nat \ {0}
ASSUME EnvAssumption      == Env \subseteq EnvEvents
ASSUME FaultsAssumption   == MaxFaults \in Nat

VARIABLES
  document,  \* whether the action is to create a document
  at,        \* the process a request arrives at
  pc,        \* where a request is
  answer,    \* what it answered
  attempts,  \* the attempts of its call so far that failed for the moment
  lock,      \* the lock it took or waits for, named by who created it
  dict,      \* _gmail_locks[message_id] of each process: a lock or nothing
  audit,     \* the audit rows of the message id: action, and whose document
  sent,      \* how often a process made Google act (ghost)
  excused,   \* processes in which an attempt ended without an audit row (ghost)
  faults     \* faults so far (bound: MaxFaults)

locks == <<lock, dict>>
vars  == <<document, at, pc, answer, attempts, locks, audit, sent, excused, faults>>

Calling  == {"send", "fill"}
InFlight == Calling \cup {"wait"}
Answers  == {"none", "sent", "already_sent", "failed", "previously_failed", "error"}

Rows == [action : {"SEND", "SEND_FAILED"}, doc : {{}} \cup {{r} : r \in Requests}]

TypeOK ==
  /\ document \in BOOLEAN
  /\ at \in [Requests -> Procs]
  /\ pc \in [Requests -> {"new", "wait", "send", "fill", "done", "lost"}]
  /\ answer \in [Requests -> Answers]
  /\ attempts \in [Requests -> 0..MaxAttempts]
  /\ lock \in [Requests -> SUBSET Requests]
  /\ dict \in [Procs -> SUBSET Requests]
  /\ audit \subseteq Rows
  /\ sent \in [Procs -> Nat]
  /\ excused \subseteq Procs
  /\ faults \in 0..MaxFaults

Init ==
  /\ document \in BOOLEAN
  /\ at \in [Requests -> Procs]
  /\ pc = [r \in Requests |-> "new"]
  /\ answer = [r \in Requests |-> "none"]
  /\ attempts = [r \in Requests |-> 0]
  /\ lock = [r \in Requests |-> {}]
  /\ dict = [p \in Procs |-> {}]
  /\ audit = {}
  /\ sent = [p \in Procs |-> 0]
  /\ excused = {}
  /\ faults = 0

Fault(kind) ==
  /\ kind \in Env
  /\ faults < MaxFaults
  /\ faults' = faults + 1

NoFault == faults' = faults

\* The requests that hold a lock or stand in its queue.
UsersOf(L)  == {r \in Requests : pc[r] \in InFlight /\ lock[r] = L}
HolderOf(L) == {r \in UsersOf(L) : pc[r] \in Calling}

\* Mutant: the lock is kept in the dictionary.
Left_Kept(p) == dict

\* The finally of _bounded_lock: whichever lock is in the dictionary now.
Left(p) == [dict EXCEPT ![p] = {}]

\* _replay_response: the latest row counts, but rows of one second have no order.
Replay(r) ==
  \E row \in audit :
    answer' = [answer EXCEPT ![r] =
                 IF row.action = "SEND" THEN "already_sent" ELSE "previously_failed"]

\* The answer of a request that ends, and the lock it leaves.
End(r, a) ==
  /\ pc' = [pc EXCEPT ![r] = "done"]
  /\ answer' = [answer EXCEPT ![r] = a]
  /\ dict' = Left(at[r])

-----------------------------------------------------------------------------
(* confirm_gmail_send *)

\* setdefault: the lock in the dictionary, or a new one.
LockFor(p, r) == IF dict[p] = {} THEN {r} ELSE dict[p]

\* Up to the lock there is no await, nor after it when it is free; a lock that
\* somebody waits for goes to the queue first.
Enter(r) ==
  /\ pc[r] = "new"
  /\ IF audit # {}
       THEN /\ Replay(r)
            /\ pc' = [pc EXCEPT ![r] = "done"]
            /\ UNCHANGED locks
       ELSE LET L == LockFor(at[r], r) IN
            /\ dict' = [dict EXCEPT ![at[r]] = L]
            /\ lock' = [lock EXCEPT ![r] = L]
            /\ pc' = [pc EXCEPT ![r] = IF UsersOf(L) = {} THEN "send" ELSE "wait"]
            /\ UNCHANGED answer
  /\ UNCHANGED <<document, at, attempts, audit, sent, excused, faults>>

\* Mutant: only a lock that is still in the dictionary is handed on.
Wake_Registered(r) ==
  /\ pc[r] = "wait"
  /\ HolderOf(lock[r]) = {}
  /\ dict[at[r]] = lock[r]
  /\ pc' = [pc EXCEPT ![r] = "send"]
  /\ UNCHANGED <<document, at, answer, attempts, locks, audit, sent, excused, faults>>

\* Mutant: no second look at the audit log.
Wake_NoRecheck(r) ==
  /\ pc[r] = "wait"
  /\ HolderOf(lock[r]) = {}
  /\ pc' = [pc EXCEPT ![r] = "send"]
  /\ UNCHANGED <<document, at, answer, attempts, locks, audit, sent, excused, faults>>

\* The lock is free: the audit log is read again.
Wake(r) ==
  /\ pc[r] = "wait"
  /\ HolderOf(lock[r]) = {}
  /\ IF audit # {}
       THEN /\ Replay(r)
            /\ pc' = [pc EXCEPT ![r] = "done"]
            /\ dict' = Left(at[r])
       ELSE /\ pc' = [pc EXCEPT ![r] = "send"]
            /\ UNCHANGED <<answer, dict>>
  /\ UNCHANGED <<document, at, attempts, lock, audit, sent, excused, faults>>

\* Mutant: the row of a failure is forgotten.
Recorded_OnlySuccess(r, action) ==
  /\ NoFault
  /\ audit' = IF action = "SEND" THEN audit \cup {[action |-> action, doc |-> {}]} ELSE audit
  /\ UNCHANGED excused

\* write_audit_log swallows its failures.  The row names the document when
\* there is one: its id is in the answer, or goes with the exception.
Recorded(r, action) ==
  \/ /\ NoFault
     /\ audit' = audit \cup {[action |-> action, doc |-> {q \in {r} : pc[q] = "fill"}]}
     /\ UNCHANGED excused
  \/ Fault("audit") /\ UNCHANGED audit /\ excused' = excused \cup {at[r]}

\* The document is there, empty; the second call begins.
Create(r) ==
  /\ document
  /\ pc[r] = "send"
  /\ sent' = [sent EXCEPT ![at[r]] = @ + 1]
  /\ pc' = [pc EXCEPT ![r] = "fill"]
  /\ attempts' = [attempts EXCEPT ![r] = 0]
  /\ NoFault
  /\ UNCHANGED <<document, at, answer, locks, audit, excused>>

\* Google acted and answered; the rest is one step without an await.
Succeed(r) ==
  /\ \/ ~document /\ pc[r] = "send" /\ sent' = [sent EXCEPT ![at[r]] = @ + 1]
     \/ document /\ pc[r] = "fill" /\ UNCHANGED sent
  /\ Recorded(r, "SEND")
  /\ End(r, "sent")
  /\ UNCHANGED <<document, at, attempts, lock>>

\* A 4xx, or a 401 that a fresh token does not cure.  A document that was
\* created stays, empty.
Reject(r) ==
  /\ pc[r] \in Calling
  /\ Recorded(r, "SEND_FAILED")
  /\ End(r, "failed")
  /\ UNCHANGED <<document, at, attempts, lock, sent>>

\* stop_after_attempt.
Exhausted(n) == n >= MaxAttempts

\* The call is tried again, whether or not Google acted - a document may be
\* filled twice; after the last time the exception is one the endpoint does
\* not catch: no row is written.
Retry(r) ==
  /\ pc[r] \in Calling
  /\ \/ Fault("transient") /\ UNCHANGED sent
     \/ /\ Fault("timeout")
        /\ sent' = IF pc[r] = "send" THEN [sent EXCEPT ![at[r]] = @ + 1] ELSE sent
  /\ attempts' = [attempts EXCEPT ![r] = @ + 1]
  /\ IF Exhausted(attempts'[r])
       THEN /\ excused' = excused \cup {at[r]}
            /\ End(r, "error")
       ELSE /\ excused' = IF sent' = sent THEN excused ELSE excused \cup {at[r]}
            /\ UNCHANGED <<pc, answer, dict>>
  /\ UNCHANGED <<document, at, lock, audit>>

\* The requests of the process end without an answer; Google may have acted.
Crash(p) ==
  LET gone == {r \in Requests : at[r] = p /\ pc[r] \in InFlight} IN
  /\ Fault("crash")
  /\ gone # {}
  /\ pc' = [r \in Requests |-> IF r \in gone THEN "lost" ELSE pc[r]]
  /\ dict' = [dict EXCEPT ![p] = {}]
  /\ \E n \in 0..Cardinality({r \in gone : pc[r] = "send"}) :
       sent' = [sent EXCEPT ![p] = @ + n]
  /\ excused' = excused \cup {p}
  /\ UNCHANGED <<document, at, answer, attempts, lock, audit>>

-----------------------------------------------------------------------------
Step(r) == Wake(r) \/ Create(r) \/ Succeed(r) \/ Reject(r)

Next ==
  \/ \E r \in Requests : Enter(r) \/ Step(r) \/ Retry(r)
  \/ \E p \in Procs : Crash(p)

Spec == Init /\ [][Next]_vars

\* Google answers in the end (every call has a timeout, and the attempts are
\* bounded), and a lock that is free wakes who waits for it.
FairSpec == Spec /\ \A r \in Requests : WF_vars(Step(r))

-----------------------------------------------------------------------------
(* Properties *)

\* However often the user clicks, one process makes Google act at most once -
\* as long as none of its attempts ended without an audit row.  Two processes
\* may both act, which the code accepts (comment at the lock dictionary).
OncePerProcess == \A p \in Procs \ excused : sent[p] <= 1

\* An answer is true: who hears that it was sent, now or before, can find it,
\* and a request that failed in such a process had nothing sent before it - or
\* left an empty document, which its audit row names.
AnswersAreTrue ==
  \A r \in Requests :
    /\ answer[r] \in {"sent", "already_sent"} => \E p \in Procs : sent[p] > 0
    /\ answer[r] = "failed" /\ at[r] \notin excused =>
         sent[at[r]] = 0 \/ [action |-> "SEND_FAILED", doc |-> {r}] \in audit

\* The dictionary of locks does not grow: an entry belongs to a request that is
\* under way, also after locks were removed under those that wait for them.
NoLockLeak ==
  \A p \in Procs : dict[p] # {} =>
    \E r \in Requests : at[r] = p /\ pc[r] \in InFlight /\ lock[r] = dict[p]

\* The same with the types it rests on, among them the number of attempts.
LockInv == TypeOK /\ NoLockLeak

\* In one process at most one request is calling Google.  It does not hold once
\* a request ended without an audit row: its lock left the dictionary under those
\* that wait for it, and the next click makes another.  No run checks it.
OneSenderPerProcess ==
  \A r, q \in Requests :
    {pc[r], pc[q]} \subseteq Calling /\ at[r] = at[q] => r = q

\* Every request that got as far as the lock ends.
EveryRequestEnds ==
  \A r \in Requests : pc[r] \in InFlight ~> pc[r] \in {"done", "lost"}

=============================================================================
