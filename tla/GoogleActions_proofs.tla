------------------------- MODULE GoogleActions_proofs -------------------------
(***************************************************************************)
(* Proofs about GoogleActions, for any requests, processes, attempts,        *)
(* environment and number of faults: a process makes Google act at most once *)
(* while its attempts leave audit rows, what users hear is true, and the     *)
(* dictionary of locks holds the locks of requests that are under way.       *)
(***************************************************************************)
EXTENDS GoogleActions, TLAPS

-----------------------------------------------------------------------------
(* The inductive invariant *)

\* A request that is not over has an attempt left.
AttemptsLeft == \A r \in Requests : pc[r] \notin {"done", "lost"} => attempts[r] < MaxAttempts

\* As long as nothing is in the audit log, no lock has left the dictionary of p:
\* all requests under way in p share the one that is there.
OneLock(p) ==
  audit = {} =>
    \A r \in Requests : at[r] = p /\ pc[r] \in InFlight => lock[r] = dict[p] /\ dict[p] # {}

\* One request of p calls at a time.
OneCaller(p) ==
  \A r, q \in Requests :
    at[r] = p /\ at[q] = p /\ pc[r] \in Calling /\ pc[q] \in Calling => r = q

\* Who is about to send is the first in p, and whoever sent shows: in the log, or
\* by a document that is being filled.
FirstSend(p) ==
  /\ sent[p] <= 1
  /\ \A r \in Requests : at[r] = p /\ pc[r] = "send" => sent[p] = 0
  /\ audit = {} /\ sent[p] > 0 => \E r \in Requests : at[r] = p /\ pc[r] = "fill"

\* A request of p that failed is in the log, was the last to call, and sent nothing
\* that its row does not name.
FailureTold(p) ==
  \A r \in Requests : at[r] = p /\ answer[r] = "failed" =>
    /\ audit # {}
    /\ \A q \in Requests : at[q] = p => pc[q] \notin Calling
    /\ sent[p] = 0 \/ [action |-> "SEND_FAILED", doc |-> {r}] \in audit

Serial(p) == OneLock(p) /\ OneCaller(p) /\ FirstSend(p) /\ FailureTold(p)

\* A document that is being filled exists, and so does whatever is said to exist.
SentIsSent ==
  /\ \A r \in Requests : pc[r] = "fill" => sent[at[r]] > 0
  /\ \A row \in audit : row.action = "SEND" => \E p \in Procs : sent[p] > 0
  /\ \A r \in Requests : answer[r] \in {"sent", "already_sent"} => \E p \in Procs : sent[p] > 0

GoogleInv ==
  /\ LockInv
  /\ AttemptsLeft
  /\ SentIsSent
  /\ \A p \in Procs \ excused : Serial(p)

-----------------------------------------------------------------------------
(* Type correctness *)

\* A fault leaves the counter in its range.
LEMMA FaultsTyped ==
  ASSUME faults \in 0..MaxFaults,
         NoFault \/ \E kind \in EnvEvents : Fault(kind)
  PROVE  faults' \in 0..MaxFaults
BY FaultsAssumption DEF NoFault, Fault

\* The row a request writes, or its loss, is within the types, and nothing is
\* taken out of the log.
LEMMA RecordedTyped ==
  ASSUME TypeOK, NEW r \in Requests, NEW action \in {"SEND", "SEND_FAILED"},
         Recorded(r, action)
  PROVE  /\ audit' \subseteq Rows /\ excused' \subseteq Procs /\ faults' \in 0..MaxFaults
         /\ audit \subseteq audit' /\ excused \subseteq excused'
<1>1. faults' \in 0..MaxFaults
  BY FaultsTyped DEF Recorded, TypeOK, EnvEvents
<1>2. {q \in {r} : pc[q] = "fill"} \in {{}} \cup {{s} : s \in Requests}
  <2>1. CASE pc[r] = "fill"
    <3>1. {q \in {r} : pc[q] = "fill"} = {r}
      BY <2>1
    <3> QED
      BY <3>1
  <2>2. CASE pc[r] # "fill"
    <3>1. {q \in {r} : pc[q] = "fill"} = {}
      BY <2>2
    <3> QED
      BY <3>1
  <2> QED
    BY <2>1, <2>2
<1>3. [action |-> action, doc |-> {q \in {r} : pc[q] = "fill"}] \in Rows
  BY <1>2 DEF Rows
<1> QED
  BY <1>1, <1>3 DEF Recorded, TypeOK

\* A request that ends does so within the types.
LEMMA EndTyped ==
  ASSUME TypeOK, NEW r \in Requests, NEW a \in Answers, End(r, a)
  PROVE  /\ pc' \in [Requests -> {"new", "wait", "send", "fill", "done", "lost"}]
         /\ answer' \in [Requests -> Answers]
         /\ dict' \in [Procs -> SUBSET Requests]
BY DEF End, Left, TypeOK

\* So does one that answers from the log.
LEMMA ReplayTyped ==
  ASSUME TypeOK, NEW r \in Requests, Replay(r)
  PROVE  answer' \in [Requests -> Answers]
BY DEF Replay, TypeOK, Answers

\* Every step keeps the types.
LEMMA TypeStep == TypeOK /\ AttemptsLeft /\ [Next]_vars => TypeOK' /\ AttemptsLeft'
<1> SUFFICES ASSUME TypeOK, AttemptsLeft, [Next]_vars
             PROVE  TypeOK' /\ AttemptsLeft'
  OBVIOUS
<1> USE AttemptsAssumption DEF locks, InFlight, Calling
<1>1. ASSUME NEW r \in Requests, Enter(r)
      PROVE  TypeOK' /\ AttemptsLeft'
  <2>1. CASE audit # {}
    BY <1>1, <2>1, ReplayTyped DEF Enter, TypeOK, AttemptsLeft
  <2>2. CASE audit = {}
    <3>1. LockFor(at[r], r) \in SUBSET Requests
      BY DEF LockFor, TypeOK
    <3> QED
      BY <1>1, <2>2, <3>1 DEF Enter, TypeOK, AttemptsLeft
  <2> QED
    BY <2>1, <2>2
<1>2. ASSUME NEW r \in Requests, Wake(r)
      PROVE  TypeOK' /\ AttemptsLeft'
  <2>1. CASE audit # {}
    BY <1>2, <2>1, ReplayTyped DEF Wake, Left, TypeOK, AttemptsLeft
  <2>2. CASE audit = {}
    BY <1>2, <2>2 DEF Wake, TypeOK, AttemptsLeft
  <2> QED
    BY <2>1, <2>2
<1>3. ASSUME NEW r \in Requests, Create(r)
      PROVE  TypeOK' /\ AttemptsLeft'
  BY <1>3 DEF Create, NoFault, TypeOK, AttemptsLeft
<1>4. ASSUME NEW r \in Requests, Succeed(r)
      PROVE  TypeOK' /\ AttemptsLeft'
  <2>1. /\ pc' \in [Requests -> {"new", "wait", "send", "fill", "done", "lost"}]
        /\ answer' \in [Requests -> Answers]
        /\ dict' \in [Procs -> SUBSET Requests]
    BY <1>4, EndTyped DEF Succeed, Answers
  <2>2. audit' \subseteq Rows /\ excused' \subseteq Procs /\ faults' \in 0..MaxFaults
    BY <1>4, RecordedTyped DEF Succeed
  <2>3. sent' \in [Procs -> Nat]
    BY <1>4 DEF Succeed, TypeOK
  <2>4. TypeOK'
    BY <1>4, <2>1, <2>2, <2>3 DEF Succeed, TypeOK
  <2> QED
    BY <1>4, <2>4 DEF Succeed, End, TypeOK, AttemptsLeft
<1>5. ASSUME NEW r \in Requests, Reject(r)
      PROVE  TypeOK' /\ AttemptsLeft'
  <2>1. /\ pc' \in [Requests -> {"new", "wait", "send", "fill", "done", "lost"}]
        /\ answer' \in [Requests -> Answers]
        /\ dict' \in [Procs -> SUBSET Requests]
    BY <1>5, EndTyped DEF Reject, Answers
  <2>2. audit' \subseteq Rows /\ excused' \subseteq Procs /\ faults' \in 0..MaxFaults
    BY <1>5, RecordedTyped DEF Reject
  <2>3. TypeOK'
    BY <1>5, <2>1, <2>2 DEF Reject, TypeOK
  <2> QED
    BY <1>5, <2>3 DEF Reject, End, TypeOK, AttemptsLeft
<1>6. ASSUME NEW r \in Requests, Retry(r)
      PROVE  TypeOK' /\ AttemptsLeft'
  <2>1. faults' \in 0..MaxFaults
    BY <1>6, FaultsTyped DEF Retry, TypeOK, EnvEvents
  <2>2. /\ sent' \in [Procs -> Nat]
        /\ attempts[r] < MaxAttempts
        /\ attempts' = [attempts EXCEPT ![r] = attempts[r] + 1]
        /\ attempts' \in [Requests -> 0..MaxAttempts]
    BY <1>6 DEF Retry, TypeOK, AttemptsLeft
  <2>3. CASE Exhausted(attempts'[r])
    <3>1. End(r, "error") /\ excused' = excused \cup {at[r]}
      BY <1>6, <2>3 DEF Retry
    <3>2. /\ pc' \in [Requests -> {"new", "wait", "send", "fill", "done", "lost"}]
          /\ answer' \in [Requests -> Answers]
          /\ dict' \in [Procs -> SUBSET Requests]
      BY <3>1, EndTyped DEF Answers
    <3>3. TypeOK'
      BY <1>6, <2>1, <2>2, <3>1, <3>2 DEF Retry, TypeOK
    <3> QED
      BY <2>2, <3>1, <3>3 DEF End, TypeOK, AttemptsLeft
  <2>4. CASE ~Exhausted(attempts'[r])
    <3>1. /\ attempts'[r] < MaxAttempts
          /\ UNCHANGED <<pc, answer, dict>>
          /\ excused' \subseteq Procs
      BY <1>6, <2>2, <2>4 DEF Retry, Exhausted, TypeOK
    <3>2. TypeOK'
      BY <1>6, <2>1, <2>2, <3>1 DEF Retry, TypeOK
    <3> QED
      BY <2>2, <3>1, <3>2 DEF TypeOK, AttemptsLeft
  <2> QED
    BY <2>3, <2>4
<1>7. ASSUME NEW p \in Procs, Crash(p)
      PROVE  TypeOK' /\ AttemptsLeft'
  <2>1. faults' \in 0..MaxFaults
    BY <1>7, FaultsTyped DEF Crash, TypeOK, EnvEvents
  <2>2. sent' \in [Procs -> Nat]
    BY <1>7 DEF Crash, TypeOK
  <2>3. TypeOK'
    BY <1>7, <2>1, <2>2 DEF Crash, TypeOK
  <2> QED
    BY <1>7, <2>3 DEF Crash, TypeOK, AttemptsLeft
<1>8. CASE UNCHANGED vars
  BY <1>8 DEF vars, TypeOK, AttemptsLeft
<1> QED
  BY <1>1, <1>2, <1>3, <1>4, <1>5, <1>6, <1>7, <1>8 DEF Next, Step

-----------------------------------------------------------------------------
(* What a step of one request changes *)

\* Whatever r does, the other requests keep their place, their lock and their
\* answer, and the other processes their lock and what they sent; the log and the
\* processes without a row only grow.
LEMMA StepOfOne ==
  ASSUME TypeOK, NEW r \in Requests, Enter(r) \/ Step(r) \/ Retry(r)
  PROVE  /\ UNCHANGED <<document, at>>
         /\ \A q \in Requests \ {r} : pc'[q] = pc[q] /\ lock'[q] = lock[q] /\ answer'[q] = answer[q]
         /\ \A p \in Procs \ {at[r]} : dict'[p] = dict[p] /\ sent'[p] = sent[p]
         /\ audit \subseteq audit' /\ excused \subseteq excused'
         /\ sent[at[r]] <= sent'[at[r]]
<1> USE DEF locks, TypeOK
<1>1. CASE Enter(r)
  BY <1>1 DEF Enter, Replay
<1>2. CASE Wake(r)
  BY <1>2 DEF Wake, Replay, Left
<1>3. CASE Create(r)
  BY <1>3 DEF Create
<1>4. CASE Succeed(r)
  <2>1. audit \subseteq audit' /\ excused \subseteq excused'
    BY <1>4 DEF Succeed, Recorded
  <2> QED
    BY <1>4, <2>1 DEF Succeed, End, Left
<1>5. CASE Reject(r)
  <2>1. audit \subseteq audit' /\ excused \subseteq excused'
    BY <1>5 DEF Reject, Recorded
  <2> QED
    BY <1>5, <2>1 DEF Reject, End, Left
<1>6. CASE Retry(r)
  BY <1>6 DEF Retry, End, Left
<1> QED
  BY <1>1, <1>2, <1>3, <1>4, <1>5, <1>6 DEF Step

\* A crash of p touches nothing of the other processes and no answer.
LEMMA StepOfCrash ==
  ASSUME TypeOK, NEW p \in Procs, Crash(p)
  PROVE  /\ UNCHANGED <<document, at, lock, answer, audit>>
         /\ \A q \in Requests : pc'[q] = IF at[q] = p /\ pc[q] \in InFlight THEN "lost" ELSE pc[q]
         /\ \A q \in Procs \ {p} : dict'[q] = dict[q] /\ sent'[q] = sent[q]
         /\ dict'[p] = {} /\ sent[p] <= sent'[p]
         /\ excused' = excused \cup {p}
BY DEF Crash, TypeOK

-----------------------------------------------------------------------------
(* The locks *)

\* Every step leaves the dictionary with locks of requests under way.
LEMMA LeakStep == TypeOK /\ NoLockLeak /\ [Next]_vars => NoLockLeak'
<1> SUFFICES ASSUME TypeOK, NoLockLeak, [Next]_vars
             PROVE  NoLockLeak'
  OBVIOUS
<1>0. \A r \in Requests : at[r] \in Procs
  BY DEF TypeOK
<1>1. ASSUME NEW r \in Requests, Enter(r) \/ Step(r) \/ Retry(r),
             \/ dict'[at[r]] = {}
             \/ pc'[r] \in InFlight /\ dict'[at[r]] = lock'[r]
             \/ (/\ pc[r] \in InFlight => pc'[r] \in InFlight /\ lock'[r] = lock[r]
                 /\ dict'[at[r]] = dict[at[r]])
      PROVE  NoLockLeak'
  <2>1. /\ at' = at
        /\ \A q \in Requests \ {r} : pc'[q] = pc[q] /\ lock'[q] = lock[q]
        /\ \A p \in Procs \ {at[r]} : dict'[p] = dict[p]
    BY <1>1, StepOfOne
  <2> SUFFICES ASSUME NEW p \in Procs, dict'[p] # {}
               PROVE  \E q \in Requests : at[q] = p /\ pc'[q] \in InFlight /\ lock'[q] = dict'[p]
    BY <2>1 DEF NoLockLeak
  <2>2. CASE p # at[r]
    BY <2>1, <2>2 DEF NoLockLeak
  <2>3. CASE p = at[r] /\ pc'[r] \in InFlight /\ dict'[at[r]] = lock'[r]
    BY <2>3
  <2>4. CASE /\ p = at[r] /\ dict'[at[r]] = dict[at[r]]
             /\ pc[r] \in InFlight => pc'[r] \in InFlight /\ lock'[r] = lock[r]
    <3>1. PICK q \in Requests : at[q] = p /\ pc[q] \in InFlight /\ lock[q] = dict[p]
      BY <2>4 DEF NoLockLeak
    <3> QED
      BY <2>1, <2>4, <3>1
  <2> QED
    BY <1>1, <2>2, <2>3, <2>4
<1> USE DEF locks, InFlight, Calling
<1>2. ASSUME NEW r \in Requests, Enter(r)
      PROVE  NoLockLeak'
  <2>1. CASE audit # {}
    BY <1>1, <1>2, <2>1 DEF Enter
  <2>2. CASE audit = {}
    <3>1. pc'[r] \in InFlight /\ dict'[at[r]] = lock'[r]
      BY <1>0, <1>2, <2>2 DEF Enter, TypeOK
    <3> QED
      BY <1>1, <1>2, <3>1
  <2> QED
    BY <2>1, <2>2
<1>3. ASSUME NEW r \in Requests, Wake(r)
      PROVE  NoLockLeak'
  <2>1. CASE audit # {}
    BY <1>0, <1>1, <1>3, <2>1 DEF Wake, Left, Step, TypeOK
  <2>2. CASE audit = {}
    BY <1>1, <1>3, <2>2 DEF Wake, Step, TypeOK
  <2> QED
    BY <2>1, <2>2
<1>4. ASSUME NEW r \in Requests, Create(r)
      PROVE  NoLockLeak'
  BY <1>1, <1>4 DEF Create, Step, TypeOK
<1>5. ASSUME NEW r \in Requests, Succeed(r) \/ Reject(r)
      PROVE  NoLockLeak'
  BY <1>0, <1>1, <1>5 DEF Succeed, Reject, End, Left, Step, TypeOK
<1>6. ASSUME NEW r \in Requests, Retry(r)
      PROVE  NoLockLeak'
  <2>1. CASE Exhausted(attempts'[r])
    BY <1>0, <1>1, <1>6, <2>1 DEF Retry, End, Left, TypeOK
  <2>2. CASE ~Exhausted(attempts'[r])
    BY <1>1, <1>6, <2>2 DEF Retry
  <2> QED
    BY <2>1, <2>2
<1>7. ASSUME NEW p \in Procs, Crash(p)
      PROVE  NoLockLeak'
  <2>1. /\ UNCHANGED <<at, lock>>
        /\ \A q \in Requests : at[q] # p => pc'[q] = pc[q]
        /\ dict'[p] = {} /\ \A q \in Procs \ {p} : dict'[q] = dict[q]
    BY <1>7, StepOfCrash
  <2> QED
    BY <2>1 DEF NoLockLeak
<1>8. CASE UNCHANGED vars
  BY <1>8 DEF vars, NoLockLeak
<1> QED
  BY <1>2, <1>3, <1>4, <1>5, <1>6, <1>7, <1>8 DEF Next, Step

-----------------------------------------------------------------------------
(* What is said to be sent *)

\* Every step leaves what is filled, logged or answered with something sent.
LEMMA SentStep ==
  ASSUME TypeOK, TypeOK', SentIsSent, [Next]_vars
  PROVE  SentIsSent'
<1>0. /\ \A r \in Requests : at[r] \in Procs
      /\ \A p \in Procs : sent[p] \in Nat /\ sent'[p] \in Nat
  BY DEF TypeOK
<1>a. ASSUME UNCHANGED at, \A p \in Procs : sent[p] <= sent'[p],
             \A r \in Requests : pc'[r] = "fill" => pc[r] = "fill" \/ sent'[at[r]] > 0,
             \A row \in audit' : row.action = "SEND" =>
               row \in audit \/ \E p \in Procs : sent'[p] > 0,
             \A r \in Requests : answer'[r] \in {"sent", "already_sent"} =>
               answer[r] \in {"sent", "already_sent"} \/ \E p \in Procs : sent'[p] > 0
      PROVE  SentIsSent'
  <2>1. \A p \in Procs : sent[p] > 0 => sent'[p] > 0
    BY <1>0, <1>a
  <2> QED
    BY <1>0, <1>a, <2>1 DEF SentIsSent
<1>b. ASSUME NEW r \in Requests, Enter(r) \/ Step(r) \/ Retry(r),
             pc'[r] = "fill" => pc[r] = "fill" \/ sent'[at[r]] > 0,
             \A row \in audit' : row.action = "SEND" =>
               row \in audit \/ \E p \in Procs : sent'[p] > 0,
             answer'[r] \in {"sent", "already_sent"} =>
               answer[r] \in {"sent", "already_sent"} \/ \E p \in Procs : sent'[p] > 0
      PROVE  SentIsSent'
  <2>1. /\ UNCHANGED at
        /\ \A q \in Requests \ {r} : pc'[q] = pc[q] /\ answer'[q] = answer[q]
        /\ \A p \in Procs : sent[p] <= sent'[p]
    <3>1. \A p \in Procs \ {at[r]} : sent'[p] = sent[p]
      BY <1>b, StepOfOne
    <3> QED
      BY <1>0, <1>b, <3>1, StepOfOne
  <2> QED
    BY <1>a, <1>b, <2>1
<1> USE DEF locks
<1>1. ASSUME NEW r \in Requests, Enter(r) \/ Wake(r)
      PROVE  SentIsSent'
  <2>1. pc'[r] # "fill" /\ UNCHANGED <<audit, sent>>
    BY <1>1 DEF Enter, Wake, TypeOK
  <2>2. ASSUME answer'[r] = "already_sent", answer[r] # "already_sent"
        PROVE  \E p \in Procs : sent'[p] > 0
    <3>1. Replay(r)
      BY <1>1, <2>2 DEF Enter, Wake
    <3>2. PICK row \in audit :
            answer'[r] = IF row.action = "SEND" THEN "already_sent" ELSE "previously_failed"
      BY <3>1 DEF Replay, TypeOK
    <3> QED
      BY <2>1, <2>2, <3>2 DEF SentIsSent
  <2>3. answer'[r] = "sent" => answer[r] = "sent"
    BY <1>1 DEF Enter, Wake, Replay, TypeOK
  <2> QED
    BY <1>1, <1>b, <2>1, <2>2, <2>3 DEF Step
<1>2. ASSUME NEW r \in Requests, Create(r)
      PROVE  SentIsSent'
  <2>1. sent'[at[r]] > 0 /\ UNCHANGED <<audit, answer>>
    BY <1>0, <1>2 DEF Create, TypeOK
  <2> QED
    BY <1>2, <1>b, <2>1 DEF Step
<1>3. ASSUME NEW r \in Requests, Succeed(r)
      PROVE  SentIsSent'
  <2>1. sent'[at[r]] > 0
    BY <1>0, <1>3 DEF Succeed, SentIsSent, TypeOK
  <2>2. pc'[r] = "done"
    BY <1>3 DEF Succeed, End, TypeOK
  <2> QED
    BY <1>0, <1>3, <1>b, <2>1, <2>2 DEF Step
<1>4. ASSUME NEW r \in Requests, Reject(r)
      PROVE  SentIsSent'
  <2>1. pc'[r] = "done" /\ answer'[r] = "failed"
    BY <1>4 DEF Reject, End, TypeOK
  <2>2. \A row \in audit' : row \in audit \/ row.action = "SEND_FAILED"
    BY <1>4 DEF Reject, Recorded
  <2> QED
    BY <1>4, <1>b, <2>1, <2>2 DEF Step
<1>5. ASSUME NEW r \in Requests, Retry(r)
      PROVE  SentIsSent'
  <2>1. UNCHANGED audit
    BY <1>5 DEF Retry
  <2>2. /\ pc'[r] = "fill" => pc[r] = "fill"
        /\ answer'[r] \in {answer[r], "error"}
    BY <1>5 DEF Retry, End, TypeOK
  <2> QED
    BY <1>5, <1>b, <2>1, <2>2
<1>6. ASSUME NEW p \in Procs, Crash(p)
      PROVE  SentIsSent'
  <2>1. /\ UNCHANGED <<at, audit, answer>>
        /\ \A q \in Procs : sent[q] <= sent'[q]
        /\ \A r \in Requests : pc'[r] = "fill" => pc[r] = "fill"
    BY <1>0, <1>6, StepOfCrash
  <2> QED
    BY <1>a, <2>1
<1>7. CASE UNCHANGED vars
  BY <1>7 DEF vars, SentIsSent
<1> QED
  BY <1>1, <1>2, <1>3, <1>4, <1>5, <1>6, <1>7 DEF Next, Step

-----------------------------------------------------------------------------
(* One process *)

\* What other processes do reaches p only as rows in the log.
LEMMA OtherProcess ==
  ASSUME TypeOK, NEW p \in Procs, Serial(p),
         UNCHANGED at, audit \subseteq audit',
         \A q \in Requests : at[q] = p =>
           pc'[q] = pc[q] /\ lock'[q] = lock[q] /\ answer'[q] = answer[q],
         dict'[p] = dict[p], sent'[p] = sent[p]
  PROVE  Serial(p)'
<1>1. audit' = {} => audit = {}
  OBVIOUS
<1>2. OneLock(p)'
  BY <1>1 DEF Serial, OneLock
<1>3. OneCaller(p)'
  BY DEF Serial, OneCaller
<1>4. FirstSend(p)'
  BY <1>1 DEF Serial, FirstSend
<1>5. FailureTold(p)'
  BY <1>1 DEF Serial, FailureTold
<1> QED
  BY <1>2, <1>3, <1>4, <1>5 DEF Serial

\* Every step of a request of p that leaves its row keeps p serial.
LEMMA OwnStep ==
  ASSUME GoogleInv, TypeOK', NEW r \in Requests, NEW p \in Procs, at[r] = p,
         Enter(r) \/ Step(r) \/ Retry(r), p \notin excused'
  PROVE  Serial(p)'
<1>0. /\ TypeOK
      /\ OneLock(p) /\ OneCaller(p) /\ FirstSend(p) /\ FailureTold(p)
  <2>1. p \notin excused
    BY StepOfOne DEF GoogleInv, LockInv
  <2> QED
    BY <2>1 DEF GoogleInv, LockInv, Serial, TypeOK
<1>1. /\ UNCHANGED at
      /\ \A q \in Requests \ {r} : pc'[q] = pc[q] /\ lock'[q] = lock[q] /\ answer'[q] = answer[q]
      /\ audit \subseteq audit'
  BY <1>0, StepOfOne
<1> USE DEF locks
\* Without an effect and without a call there is nothing new to show.
<1>a. ASSUME audit # {}, pc'[r] \notin Calling, UNCHANGED <<sent, audit>>,
             answer'[r] # "failed"
      PROVE  Serial(p)'
  <2>1. FirstSend(p)'
    BY <1>0, <1>1, <1>a DEF FirstSend, Calling
  <2>2. FailureTold(p)'
    BY <1>0, <1>1, <1>a DEF FailureTold
  <2> QED
    BY <1>0, <1>1, <1>a, <2>1, <2>2 DEF Serial, OneLock, OneCaller
<1>2. CASE Enter(r) \/ Wake(r)
  <2>1. CASE audit # {}
    <3>1. /\ Replay(r) /\ pc' = [pc EXCEPT ![r] = "done"] /\ UNCHANGED <<sent, audit>>
      BY <1>2, <2>1 DEF Enter, Wake
    <3>2. pc'[r] \notin Calling /\ answer'[r] # "failed"
      BY <1>0, <3>1 DEF Replay, TypeOK, Calling
    <3> QED
      BY <1>a, <2>1, <3>1, <3>2
  <2>2. CASE audit = {}
    <3>1. /\ UNCHANGED <<sent, audit, answer>>
          /\ pc'[r] \in {"wait", "send"}
          /\ lock'[r] = dict'[p] /\ dict'[p] # {}
          /\ \A q \in Requests \ {r} : at[q] = p /\ pc[q] \in InFlight => dict'[p] = dict[p]
      <4>1. CASE Enter(r)
        <5> DEFINE L == LockFor(p, r)
        <5>1. /\ dict' = [dict EXCEPT ![p] = L] /\ lock' = [lock EXCEPT ![r] = L]
              /\ pc' = [pc EXCEPT ![r] = IF UsersOf(L) = {} THEN "send" ELSE "wait"]
              /\ UNCHANGED <<sent, audit, answer>>
          BY <2>2, <4>1 DEF Enter
        <5>2. L # {} /\ (dict[p] # {} => L = dict[p])
          BY DEF LockFor
        <5> HIDE DEF L
        <5>3. lock'[r] = L /\ dict'[p] = L /\ pc'[r] \in {"wait", "send"}
          BY <1>0, <5>1 DEF TypeOK
        <5> QED
          BY <1>0, <2>2, <5>1, <5>2, <5>3 DEF OneLock
      <4>2. CASE Wake(r)
        BY <1>0, <2>2, <4>2 DEF Wake, OneLock, InFlight, TypeOK
      <4> QED
        BY <1>2, <4>1, <4>2
    <3>2. pc'[r] = "send" => \A q \in Requests \ {r} : at[q] = p => pc[q] \notin Calling
      <4> SUFFICES ASSUME pc'[r] = "send", NEW q \in Requests \ {r}, at[q] = p, pc[q] \in Calling
                   PROVE  FALSE
        OBVIOUS
      <4>1. lock[q] = dict[p] /\ dict[p] # {}
        BY <1>0, <2>2 DEF OneLock, InFlight
      <4>2. CASE Enter(r)
        <5>1. LockFor(p, r) = dict[p]
          BY <4>1 DEF LockFor
        <5>2. q \in UsersOf(dict[p])
          BY <4>1 DEF UsersOf, InFlight
        <5> QED
          BY <1>0, <2>2, <4>2, <5>1, <5>2 DEF Enter, TypeOK
      <4>3. CASE Wake(r)
        <5>1. lock[r] = dict[p]
          BY <1>0, <2>2, <4>3 DEF Wake, OneLock, InFlight
        <5>2. q \in HolderOf(lock[r])
          BY <4>1, <5>1 DEF UsersOf, HolderOf, InFlight
        <5> QED
          BY <4>3, <5>2 DEF Wake
      <4> QED
        BY <1>2, <4>2, <4>3
    <3>3. ASSUME pc'[r] = "send"
          PROVE  sent[p] = 0
      <4>1. pc[r] \notin Calling
        BY <1>2 DEF Enter, Wake, Calling
      <4>2. ~ \E q \in Requests : at[q] = p /\ pc[q] = "fill"
        BY <3>2, <3>3, <4>1 DEF Calling
      <4> QED
        BY <1>0, <2>2, <4>2 DEF FirstSend, TypeOK
    <3>4. OneLock(p)'
      BY <1>0, <1>1, <2>2, <3>1 DEF OneLock
    <3>5. OneCaller(p)'
      BY <1>0, <1>1, <3>1, <3>2 DEF OneCaller, Calling
    <3>6. FirstSend(p)'
      BY <1>0, <1>1, <1>2, <3>1, <3>3 DEF FirstSend, Enter, Wake
    <3>7. FailureTold(p)'
      BY <1>0, <1>1, <2>2, <3>1 DEF FailureTold
    <3> QED
      BY <3>4, <3>5, <3>6, <3>7 DEF Serial
  <2> QED
    BY <2>1, <2>2
<1>3. CASE Create(r)
  <2>1. /\ pc[r] = "send" /\ pc'[r] = "fill" /\ sent'[p] = sent[p] + 1
        /\ UNCHANGED <<dict, lock, audit, answer>>
    BY <1>0, <1>3 DEF Create, TypeOK
  <2>2. sent[p] = 0 /\ sent'[p] = 1
    BY <1>0, <2>1 DEF FirstSend
  <2>3. \A q \in Requests \ {r} : at[q] = p => pc[q] \notin Calling
    BY <1>0, <2>1 DEF OneCaller, Calling
  <2>4. OneLock(p)'
    BY <1>0, <1>1, <2>1 DEF OneLock, InFlight, Calling
  <2>5. OneCaller(p)'
    BY <1>1, <2>3 DEF OneCaller
  <2>6. FirstSend(p)'
    BY <1>1, <2>1, <2>2, <2>3 DEF FirstSend, Calling
  <2>7. FailureTold(p)'
    BY <1>0, <1>1, <2>1 DEF FailureTold, Calling
  <2> QED
    BY <2>4, <2>5, <2>6, <2>7 DEF Serial
<1>4. CASE Succeed(r) \/ Reject(r)
  <2>0. PICK action \in {"SEND", "SEND_FAILED"} :
          /\ audit' = audit \cup {[action |-> action, doc |-> {q \in {r} : pc[q] = "fill"}]}
          /\ action = "SEND_FAILED" <=> Reject(r)
    <3>1. ASSUME NEW action \in {"SEND", "SEND_FAILED"}, Recorded(r, action)
          PROVE  audit' = audit \cup {[action |-> action, doc |-> {q \in {r} : pc[q] = "fill"}]}
      BY <3>1 DEF Recorded
    <3>2. Succeed(r) /\ Reject(r) => FALSE
      BY <1>0 DEF Succeed, Reject, End, TypeOK
    <3>3. CASE Succeed(r)
      BY <3>1, <3>2, <3>3 DEF Succeed
    <3>4. CASE Reject(r)
      BY <3>1, <3>4 DEF Reject
    <3> QED
      BY <1>4, <3>3, <3>4
  <2>1. /\ pc[r] \in Calling /\ pc'[r] = "done" /\ audit' # {}
        /\ answer'[r] = IF Reject(r) THEN "failed" ELSE "sent"
    BY <1>0, <1>4, <2>0 DEF Succeed, Reject, End, Calling, TypeOK
  <2>2. \A q \in Requests : at[q] = p => pc'[q] \notin Calling
    BY <1>0, <1>1, <2>1 DEF OneCaller, Calling
  <2>3. sent'[p] <= 1 /\ (Reject(r) /\ pc[r] = "send" => sent'[p] = 0)
    BY <1>0, <1>4, <2>1 DEF FirstSend, Succeed, Reject, Calling, TypeOK
  <2>4. Reject(r) /\ pc[r] = "fill" => [action |-> "SEND_FAILED", doc |-> {r}] \in audit'
    <3>1. pc[r] = "fill" => {q \in {r} : pc[q] = "fill"} = {r}
      OBVIOUS
    <3> QED
      BY <2>0, <3>1
  <2>5. OneLock(p)'
    BY <2>1 DEF OneLock
  <2>6. OneCaller(p)'
    BY <1>1, <2>2 DEF OneCaller
  <2>7. FirstSend(p)'
    BY <1>1, <2>1, <2>2, <2>3 DEF FirstSend, Calling
  <2>8. FailureTold(p)'
    <3> SUFFICES ASSUME NEW q \in Requests, at[q] = p, answer'[q] = "failed"
                 PROVE  sent'[p] = 0 \/ [action |-> "SEND_FAILED", doc |-> {q}] \in audit'
      BY <1>1, <2>1, <2>2 DEF FailureTold
    <3>1. q = r
      BY <1>0, <1>1, <2>1 DEF FailureTold
    <3> QED
      BY <2>1, <2>3, <2>4, <3>1 DEF Calling
  <2> QED
    BY <2>5, <2>6, <2>7, <2>8 DEF Serial
<1>5. CASE Retry(r)
  <2>1. UNCHANGED <<pc, answer, dict, lock, audit, sent>>
    BY <1>0, <1>5 DEF Retry, TypeOK
  <2> QED
    BY <1>0, <1>1, <2>1, OtherProcess DEF Serial
<1> QED
  BY <1>2, <1>3, <1>4, <1>5 DEF Step

\* Every step keeps every process serial that is not excused.
LEMMA SerialStep ==
  ASSUME GoogleInv, TypeOK', [Next]_vars
  PROVE  \A p \in Procs \ excused' : Serial(p)'
<1>0. TypeOK /\ \A p \in Procs \ excused : Serial(p)
  BY DEF GoogleInv, LockInv
<1>1. ASSUME NEW r \in Requests, Enter(r) \/ Step(r) \/ Retry(r), NEW p \in Procs \ excused'
      PROVE  Serial(p)'
  <2>1. CASE p = at[r]
    BY <1>1, <2>1, OwnStep
  <2>2. CASE p # at[r]
    <3>1. /\ UNCHANGED at
          /\ \A q \in Requests \ {r} : pc'[q] = pc[q] /\ lock'[q] = lock[q] /\ answer'[q] = answer[q]
          /\ dict'[p] = dict[p] /\ sent'[p] = sent[p]
          /\ audit \subseteq audit' /\ excused \subseteq excused'
      BY <1>0, <1>1, <2>2, StepOfOne
    <3> QED
      BY <1>0, <1>1, <2>2, <3>1, OtherProcess
  <2> QED
    BY <2>1, <2>2
<1>2. ASSUME NEW c \in Procs, Crash(c), NEW p \in Procs \ excused'
      PROVE  Serial(p)'
  <2>1. /\ UNCHANGED <<at, lock, answer, audit>>
        /\ p # c /\ p \notin excused
        /\ \A q \in Requests : at[q] = p => pc'[q] = pc[q]
        /\ dict'[p] = dict[p] /\ sent'[p] = sent[p]
    BY <1>0, <1>2, StepOfCrash
  <2> QED
    BY <1>0, <1>2, <2>1, OtherProcess
<1>3. CASE UNCHANGED vars
  BY <1>0, <1>3, OtherProcess DEF vars, locks
<1> QED
  BY <1>1, <1>2, <1>3 DEF Next

-----------------------------------------------------------------------------
(* The theorems *)

\* The invariant holds of the first states and is kept by every step.
LEMMA GoogleInvariant == Spec => []GoogleInv
<1>1. Init => GoogleInv
  <2> SUFFICES ASSUME Init
               PROVE  GoogleInv
    OBVIOUS
  <2>1. TypeOK /\ AttemptsLeft
    BY AttemptsAssumption, FaultsAssumption DEF Init, TypeOK, Answers, AttemptsLeft
  <2>2. NoLockLeak /\ SentIsSent
    BY DEF Init, NoLockLeak, SentIsSent
  <2>3. \A p \in Procs : Serial(p)
    BY DEF Init, Serial, OneLock, OneCaller, FirstSend, FailureTold, InFlight, Calling
  <2> QED
    BY <2>1, <2>2, <2>3 DEF GoogleInv, LockInv
<1>2. GoogleInv /\ [Next]_vars => GoogleInv'
  <2> SUFFICES ASSUME GoogleInv, [Next]_vars
               PROVE  GoogleInv'
    OBVIOUS
  <2>1. TypeOK' /\ AttemptsLeft'
    BY TypeStep DEF GoogleInv, LockInv
  <2>2. NoLockLeak'
    BY LeakStep DEF GoogleInv, LockInv
  <2>3. SentIsSent'
    BY <2>1, SentStep DEF GoogleInv, LockInv
  <2>4. \A p \in Procs \ excused' : Serial(p)'
    BY <2>1, SerialStep
  <2> QED
    BY <2>1, <2>2, <2>3, <2>4 DEF GoogleInv, LockInv
<1> QED
  BY <1>1, <1>2, PTL DEF Spec

\* However often the user clicks, a process whose attempts left their audit rows
\* has made Google act at most once.
THEOREM SendsOnce == Spec => []OncePerProcess
<1>1. GoogleInv => OncePerProcess
  BY DEF GoogleInv, Serial, FirstSend, OncePerProcess
<1> QED
  BY <1>1, GoogleInvariant, PTL

\* The lock of a message id is in the dictionary of a process only while a request
\* there is under way that took it or waits for it.
THEOREM LocksDoNotLeak == Spec => []LockInv
<1>1. GoogleInv => LockInv
  BY DEF GoogleInv
<1> QED
  BY <1>1, GoogleInvariant, PTL

\* Who hears that it was sent can find it, and a failure told by a process whose
\* attempts left their rows means that nothing was sent, or names the document.
THEOREM ToldIsTrue == Spec => []AnswersAreTrue
<1>1. GoogleInv => AnswersAreTrue
  <2> SUFFICES ASSUME GoogleInv, NEW r \in Requests
               PROVE  /\ answer[r] \in {"sent", "already_sent"} => \E p \in Procs : sent[p] > 0
                      /\ answer[r] = "failed" /\ at[r] \notin excused =>
                           \/ sent[at[r]] = 0
                           \/ [action |-> "SEND_FAILED", doc |-> {r}] \in audit
    BY DEF AnswersAreTrue
  <2>1. at[r] \in Procs
    BY DEF GoogleInv, LockInv, TypeOK
  <2> QED
    BY <2>1 DEF GoogleInv, SentIsSent, Serial, FailureTold
<1> QED
  BY <1>1, GoogleInvariant, PTL

=============================================================================
