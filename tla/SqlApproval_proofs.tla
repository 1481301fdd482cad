-------------------------- MODULE SqlApproval_proofs --------------------------
(***************************************************************************)
(* Proofs about SqlApproval, for any requests, environment and number of     *)
(* faults: the statement takes effect at most once, only for its owner, and  *)
(* never after a rejection took it away; the audit log hides no effect, and, *)
(* where the driver commits, claims none that is not there.                  *)
(***************************************************************************)
EXTENDS SqlApproval, TLAPS

-----------------------------------------------------------------------------
(* The inductive invariant *)

\* The requests that may still run the statement, and those that did.
Running == {"approved", "run", "ran", "raised"}

Holds(r) == pc[r] \in Running \/ r \in late \/ applied[r] > 0

\* The statement is in one place: under its key, with one request, or nowhere.
InOnePlace ==
  /\ key \/ vetoed => \A r \in Requests : ~Holds(r)
  /\ vetoed => ~key
  /\ \A r, q \in Requests : Holds(r) /\ Holds(q) => r = q

\* A request that may still change the database has not done so, and comes from
\* the owner of the statement.
NotYetApplied ==
  \A r \in Requests :
    /\ Holds(r) => own[r]
    /\ pc[r] \in {"approved", "run"} => applied[r] = 0 /\ r \notin late
    /\ r \in late => applied[r] = 0
    /\ applied[r] <= 1

ApprovalInv == TypeOK /\ InOnePlace /\ NotYetApplied

-----------------------------------------------------------------------------
(* The steps *)

\* A fault leaves the counter in its range.
LEMMA FaultsTyped ==
  ASSUME faults \in 0..MaxFaults,
         NoFault \/ \E event \in EnvEvents : Fault(event)
  PROVE  faults' \in 0..MaxFaults
BY FaultsAssumption DEF NoFault, Fault

\* An audit row, or its loss, keeps the log and the counter well typed.
LEMMA RecordedTyped ==
  ASSUME TypeOK, NEW r \in Requests, NEW action \in Finals \cup {"SQL_PENDING"},
         Recorded(r, action)
  PROVE  audit' \subseteq Rows /\ blind' \subseteq Requests /\ faults' \in 0..MaxFaults
<1>1. faults' \in 0..MaxFaults
  BY FaultsTyped DEF Recorded, TypeOK, EnvEvents
<1>2. [action |-> action, by |-> r] \in Rows
  BY DEF Rows
<1> QED
  BY <1>1, <1>2 DEF Recorded, TypeOK

\* Every step keeps the types.
LEMMA TypeStep == TypeOK /\ [Next]_vars => TypeOK'
<1> SUFFICES ASSUME TypeOK, [Next]_vars
             PROVE  TypeOK'
  OBVIOUS
<1> USE DEF ghosts, given
<1>1. ASSUME NEW r \in Requests,
             \/ Pop(r) \/ Lookup(r) \/ Peek(r) \/ Discard(r) \/ FindOrphan(r)
      PROVE  TypeOK'
  <2>1. faults' \in 0..MaxFaults
    BY <1>1, FaultsTyped DEF Pop, Lookup, Peek, Discard, FindOrphan, RedisRaises,
       EnvEvents, TypeOK
  <2>2. key' \in BOOLEAN /\ vetoed' \in BOOLEAN
    BY <1>1 DEF Pop, Lookup, Peek, Discard, FindOrphan, RedisRaises, TypeOK, Popped
  <2>3. /\ pc' \in [Requests -> {"new", "gone", "approved", "run", "ran", "raised",
                                 "peeked", "discarded", "listed"} \cup Ends]
        /\ answer' \in [Requests -> Answers]
    BY <1>1 DEF Pop, Lookup, Peek, Discard, FindOrphan, RedisRaises, GoTo, End,
       TypeOK, Answers, Ends
  <2> QED
    BY <1>1, <2>1, <2>2, <2>3 DEF Pop, Lookup, Peek, Discard, FindOrphan, TypeOK
<1>2. ASSUME NEW r \in Requests, Prepare(r) \/ Finish(r) \/ RecordReject(r) \/ MarkUnknown(r)
      PROVE  TypeOK'
  <2>1. audit' \subseteq Rows /\ blind' \subseteq Requests /\ faults' \in 0..MaxFaults
    <3>1. [action |-> "SQL_PENDING", by |-> r] \in Rows
      BY DEF Rows
    <3>2. CASE Prepare(r)
      BY <3>1, <3>2, RecordedTyped, FaultsTyped DEF Prepare, TypeOK, Finals, EnvEvents
    <3>3. CASE Finish(r)
      BY <3>3, RecordedTyped DEF Finish, Finals
    <3>4. CASE RecordReject(r)
      BY <3>4, RecordedTyped DEF RecordReject, Finals
    <3>5. CASE MarkUnknown(r)
      BY <3>5, RecordedTyped DEF MarkUnknown, Finals
    <3> QED
      BY <1>2, <3>2, <3>3, <3>4, <3>5
  <2>2. /\ pc' \in [Requests -> {"new", "gone", "approved", "run", "ran", "raised",
                                 "peeked", "discarded", "listed"} \cup Ends]
        /\ answer' \in [Requests -> Answers]
    BY <1>2
    DEF Prepare, Finish, RecordReject, MarkUnknown, GoTo, End, TypeOK, Answers, Ends
  <2> QED
    BY <1>2, <2>1, <2>2 DEF Prepare, Finish, RecordReject, MarkUnknown, TypeOK
<1>3. ASSUME NEW r \in Requests, Run(r) \/ RunRaises(r) \/ Timeout(r) \/ LateEnd(r) \/ Crash(r)
      PROVE  TypeOK'
  <2>1. faults' \in 0..MaxFaults
    BY <1>3, FaultsTyped DEF Run, RunRaises, Timeout, LateEnd, Crash, EnvEvents, TypeOK
  <2>2. applied' \in [Requests -> Nat]
    BY <1>3 DEF Run, RunRaises, Timeout, LateEnd, Crash, Apply, TypeOK
  <2>3. /\ pc' \in [Requests -> {"new", "gone", "approved", "run", "ran", "raised",
                                 "peeked", "discarded", "listed"} \cup Ends]
        /\ answer' \in [Requests -> Answers]
    BY <1>3 DEF Run, RunRaises, Timeout, LateEnd, Crash, GoTo, TypeOK, Ends
  <2> QED
    BY <1>3, <2>1, <2>2, <2>3 DEF Run, RunRaises, Timeout, LateEnd, Crash, TypeOK
<1>4. CASE Expire
  BY <1>4 DEF Expire, TypeOK
<1>5. CASE UNCHANGED vars
  BY <1>5 DEF vars, TypeOK
<1> QED
  BY <1>1, <1>2, <1>3, <1>4, <1>5 DEF Next

\* A step in which no request comes to hold the statement, and whoever may still
\* run it could before and has not gained an effect, keeps it in one place.
LEMMA NothingGained ==
  ASSUME ApprovalInv, TypeOK', UNCHANGED own,
         key' => key, vetoed' => vetoed \/ (key /\ ~key'), vetoed => vetoed',
         \A r \in Requests :
           /\ Holds(r)' => Holds(r)
           /\ pc[r]' \in {"approved", "run"} => pc[r] \in {"approved", "run"}
           /\ r \in late' => r \in late
           /\ applied[r]' = applied[r]
  PROVE  ApprovalInv'
<1>1. InOnePlace'
  BY DEF ApprovalInv, InOnePlace, TypeOK
<1>2. NotYetApplied'
  BY DEF ApprovalInv, NotYetApplied, TypeOK
<1> QED
  BY <1>1, <1>2 DEF ApprovalInv

\* A step of the request that holds the statement concerns no other request.
LEMMA HolderMoves ==
  ASSUME ApprovalInv, TypeOK', UNCHANGED <<own, key, vetoed>>,
         NEW r \in Requests, Holds(r),
         \A q \in Requests \ {r} :
           pc'[q] = pc[q] /\ applied'[q] = applied[q] /\ (q \in late' <=> q \in late),
         pc'[r] \in {"approved", "run"} => applied'[r] = 0 /\ r \notin late',
         r \in late' => applied'[r] = 0,
         applied'[r] <= 1
  PROVE  ApprovalInv'
<1>1. \A q \in Requests \ {r} : Holds(q)' <=> Holds(q)
  BY DEF Holds
<1>2. InOnePlace'
  BY <1>1 DEF ApprovalInv, InOnePlace, TypeOK
<1>3. NotYetApplied'
  BY <1>1 DEF ApprovalInv, NotYetApplied, TypeOK
<1> QED
  BY <1>2, <1>3 DEF ApprovalInv

\* The statement waits under its key, and no request holds it.
LEMMA ApprovalInit == Init => ApprovalInv
<1> SUFFICES ASSUME Init
             PROVE  ApprovalInv
  OBVIOUS
<1>1. key \in BOOLEAN /\ vetoed \in BOOLEAN /\ ~vetoed
  BY DEF Init
<1>2. \A r \in Requests : ~Holds(r)
  BY DEF Init, Holds, Running
<1>3. TypeOK
  <2>1. faults \in 0..MaxFaults
    BY FaultsAssumption DEF Init
  <2> QED
    BY <1>1, <2>1 DEF Init, TypeOK, Answers
<1>4. InOnePlace
  BY <1>1, <1>2 DEF InOnePlace
<1>5. NotYetApplied
  <2>1. \A r \in Requests : applied[r] = 0 /\ pc[r] = "new" /\ r \notin late
    BY DEF Init
  <2> QED
    BY <1>2, <2>1 DEF NotYetApplied
<1> QED
  BY <1>3, <1>4, <1>5 DEF ApprovalInv

\* Every step keeps the statement in one place and its effect at most one.
LEMMA ApprovalStep == ApprovalInv /\ [Next]_vars => ApprovalInv'
<1> SUFFICES ASSUME ApprovalInv, [Next]_vars
             PROVE  ApprovalInv'
  OBVIOUS
<1> USE DEF ghosts, given
<1>0. TypeOK /\ TypeOK'
  BY TypeStep DEF ApprovalInv
<1>1. ASSUME NEW r \in Requests, Pop(r)
      PROVE  ApprovalInv'
  <2>1. CASE key /\ own[r] /\ key' = FALSE /\ GoTo(r, "approved")
    <3>1. ~vetoed /\ \A q \in Requests : ~Holds(q)
      BY <2>1 DEF ApprovalInv, InOnePlace
    <3>2. \A q \in Requests : Holds(q)' => q = r
      BY <1>0, <1>1, <2>1, <3>1 DEF Pop, GoTo, Holds, TypeOK
    <3>3. InOnePlace'
      BY <1>1, <2>1, <3>1, <3>2 DEF Pop, InOnePlace
    <3>4. NotYetApplied'
      <4> SUFFICES ASSUME NEW q \in Requests
                   PROVE  /\ Holds(q)' => own'[q]
                          /\ pc'[q] \in {"approved", "run"} => applied'[q] = 0 /\ q \notin late'
                          /\ q \in late' => applied'[q] = 0
                          /\ applied'[q] <= 1
        BY DEF NotYetApplied
      <4>1. applied'[q] = 0 /\ q \notin late'
        BY <1>0, <1>1, <3>1 DEF Pop, Holds, TypeOK
      <4> QED
        BY <1>1, <2>1, <3>2, <4>1 DEF Pop
    <3> QED
      BY <1>0, <3>3, <3>4 DEF ApprovalInv
  <2>2. CASE ~(key /\ own[r] /\ key' = FALSE /\ GoTo(r, "approved"))
    <3>1. key' => key
      BY <1>0, <1>1 DEF Pop, RedisRaises, Popped, TypeOK
    <3>2. \A q \in Requests : pc'[q] = pc[q] \/ pc'[q] \in {"gone", "done"}
      BY <1>0, <1>1, <2>2 DEF Pop, RedisRaises, Popped, GoTo, End, TypeOK
    <3>3. \A q \in Requests : Holds(q)' => Holds(q)
      BY <1>1, <3>2 DEF Pop, Holds, Running
    <3> QED
      BY <1>0, <1>1, <3>1, <3>2, <3>3, NothingGained DEF Pop
  <2> QED
    BY <2>1, <2>2
<1>2. ASSUME NEW r \in Requests,
             Lookup(r) \/ Peek(r) \/ RecordReject(r) \/ FindOrphan(r) \/ MarkUnknown(r)
      PROVE  ApprovalInv'
  <2>1. \A q \in Requests : pc'[q] = pc[q] \/ pc'[q] \in {"done", "peeked", "listed"}
    BY <1>0, <1>2
    DEF Lookup, Peek, RecordReject, FindOrphan, MarkUnknown, GoTo, End, TypeOK
  <2>2. UNCHANGED <<key, own, late, applied, vetoed>>
    BY <1>2 DEF Lookup, Peek, RecordReject, FindOrphan, MarkUnknown
  <2>3. \A q \in Requests : Holds(q)' => Holds(q)
    BY <2>1, <2>2 DEF Holds, Running
  <2> QED
    BY <1>0, <2>1, <2>2, <2>3, NothingGained
<1>3. ASSUME NEW r \in Requests, Discard(r)
      PROVE  ApprovalInv'
  <2>0. key' => key
    <3>1. key' = FALSE \/ key' \in {key, FALSE}
      BY <1>3, Zenon DEF Discard, RedisRaises
    <3> QED
      BY <1>0, <3>1 DEF TypeOK
  <2>1. \A q \in Requests : pc'[q] = pc[q] \/ pc'[q] \in {"discarded", "done"}
    <3>1. GoTo(r, "discarded") \/ End(r, "error")
      BY <1>3, Zenon DEF Discard, RedisRaises
    <3> QED
      BY <1>0, <3>1 DEF GoTo, End, TypeOK
  <2>2. \A q \in Requests : Holds(q)' => Holds(q)
    BY <1>3, <2>1 DEF Discard, Holds, Running
  <2>3. (vetoed' => vetoed \/ (key /\ ~key')) /\ (vetoed => vetoed')
    BY <1>3, Zenon DEF Discard
  <2>4. UNCHANGED <<own, late, applied>>
    BY <1>3 DEF Discard
  <2> QED
    BY <1>0, <2>0, <2>1, <2>2, <2>3, <2>4, NothingGained
<1>4. ASSUME NEW r \in Requests, Prepare(r) \/ Finish(r)
      PROVE  ApprovalInv'
  <2>1. Holds(r)
    BY <1>4 DEF Prepare, Finish, At, Holds, Running
  <2>2. /\ UNCHANGED <<own, key, vetoed, late, applied>>
        /\ \A q \in Requests \ {r} : pc'[q] = pc[q]
        /\ pc'[r] \in {"run", "done"}
        /\ pc'[r] = "run" => pc[r] = "approved"
    BY <1>0, <1>4 DEF Prepare, Finish, At, GoTo, End, TypeOK
  <2>3. /\ pc[r] = "approved" => applied[r] = 0 /\ r \notin late
        /\ r \in late => applied[r] = 0
        /\ applied[r] <= 1
    BY DEF ApprovalInv, NotYetApplied
  <2> QED
    BY <1>0, <2>1, <2>2, <2>3, HolderMoves
<1>5. ASSUME NEW r \in Requests, Run(r) \/ RunRaises(r) \/ Timeout(r)
      PROVE  ApprovalInv'
  <2>1. pc[r] = "run" /\ Holds(r) /\ applied[r] = 0 /\ r \notin late
    BY <1>5 DEF Run, RunRaises, Timeout, At, Holds, Running, ApprovalInv, NotYetApplied
  <2>2. /\ UNCHANGED <<own, key, vetoed>>
        /\ \A q \in Requests \ {r} : pc'[q] = pc[q] /\ applied'[q] = applied[q]
                                       /\ (q \in late' <=> q \in late)
        /\ pc'[r] \in {"ran", "raised"}
        /\ applied'[r] \in {0, 1}
        /\ r \in late' => applied'[r] = 0
    BY <1>0, <1>5, <2>1 DEF Run, RunRaises, Timeout, GoTo, Apply, TypeOK
  <2> QED
    BY <1>0, <2>1, <2>2, HolderMoves
<1>6. ASSUME NEW r \in Requests, LateEnd(r)
      PROVE  ApprovalInv'
  <2>1. Holds(r) /\ applied[r] = 0 /\ pc[r] \notin {"approved", "run"}
    BY <1>6 DEF LateEnd, Holds, ApprovalInv, NotYetApplied
  <2>2. /\ UNCHANGED <<own, key, vetoed, pc>>
        /\ \A q \in Requests \ {r} : applied'[q] = applied[q] /\ (q \in late' <=> q \in late)
        /\ r \notin late'
        /\ applied'[r] \in {0, 1}
    BY <1>0, <1>6, <2>1 DEF LateEnd, Apply, TypeOK
  <2> QED
    BY <1>0, <2>1, <2>2, HolderMoves
<1>7. ASSUME NEW r \in Requests, Crash(r)
      PROVE  ApprovalInv'
  <2>1. CASE pc[r] = "run" /\ Apply(r)
    <3>1. Holds(r) /\ applied[r] = 0 /\ r \notin late
      BY <2>1 DEF Holds, Running, ApprovalInv, NotYetApplied
    <3>2. /\ UNCHANGED <<own, key, vetoed, late>>
          /\ \A q \in Requests \ {r} : pc'[q] = pc[q] /\ applied'[q] = applied[q]
          /\ pc'[r] = "lost" /\ applied'[r] \in 0..1
      BY <1>0, <1>7, <2>1, <3>1 DEF Crash, GoTo, Apply, TypeOK
    <3> QED
      BY <1>0, <3>1, <3>2, HolderMoves
  <2>2. CASE UNCHANGED applied
    <3>1. \A q \in Requests : pc'[q] = pc[q] \/ pc'[q] = "lost"
      BY <1>0, <1>7 DEF Crash, GoTo, TypeOK
    <3>2. UNCHANGED <<own, key, vetoed, late>>
      BY <1>7 DEF Crash
    <3>3. \A q \in Requests : Holds(q)' => Holds(q)
      BY <2>2, <3>1, <3>2 DEF Holds, Running
    <3> QED
      BY <1>0, <2>2, <3>1, <3>2, <3>3, NothingGained
  <2> QED
    BY <1>7, <2>1, <2>2 DEF Crash
<1>8. CASE Expire
  BY <1>0, <1>8, NothingGained DEF Expire, Holds
<1>9. CASE UNCHANGED vars
  BY <1>0, <1>9, NothingGained DEF vars, Holds
<1> QED
  BY <1>1, <1>2, <1>3, <1>4, <1>5, <1>6, <1>7, <1>8, <1>9 DEF Next

-----------------------------------------------------------------------------
(* What the audit log tells *)

Row(r, action) == [action |-> action, by |-> r]
HasEnded(r)    == Row(r, "SQL_COMMITTED") \in audit \/ Row(r, "SQL_FAILED") \in audit

\* A run that began, or may still have an effect, has left its evidence row; one
\* that ended, its last row; one noted as committed has had its effect, if the
\* driver commits.
RunsAreNoted ==
  \A r \in Requests :
    /\ pc[r] \in {"run", "ran", "raised"} \/ r \in late \/ applied[r] > 0 =>
         r \in blind \/ Row(r, "SQL_PENDING") \in audit
    /\ pc[r] = "done" /\ (r \in late \/ applied[r] > 0) => r \in blind \/ HasEnded(r)
    /\ pc[r] = "ran" \/ Row(r, "SQL_COMMITTED") \in audit => applied[r] = 1 \/ ~commits
    /\ r \in late \/ applied[r] > 0 => pc[r] \in {"ran", "raised"} \cup Ends

\* After the row that ends a run nobody else comes to run the statement.
EndedIsLast ==
  \A r \in Requests : HasEnded(r) =>
    pc[r] = "done" /\ ~key /\ \A q \in Requests : Holds(q) => q = r

AuditInv == RunsAreNoted /\ EndedIsLast /\ AnswersAreTrue

Does(r) ==
  \/ Pop(r) \/ Lookup(r) \/ Prepare(r) \/ Run(r) \/ RunRaises(r)
  \/ Timeout(r) \/ LateEnd(r) \/ Finish(r)
  \/ Peek(r) \/ Discard(r) \/ RecordReject(r)
  \/ FindOrphan(r) \/ MarkUnknown(r) \/ Crash(r)

\* What r does concerns no other request: it adds rows of its own, and takes
\* neither rows nor effects away.
LEMMA StepOfOne ==
  ASSUME TypeOK, NEW r \in Requests, Does(r)
  PROVE  /\ \A q \in Requests \ {r} :
              /\ pc'[q] = pc[q] /\ answer'[q] = answer[q] /\ applied'[q] = applied[q]
              /\ q \in late' <=> q \in late
              /\ q \in blind' <=> q \in blind
         /\ applied[r] <= applied'[r]
         /\ r \in blind => r \in blind'
         /\ audit \subseteq audit'
         /\ \A q \in Requests \ {r} : \A action \in Finals \cup {"SQL_PENDING"} :
              Row(q, action) \in audit' => Row(q, action) \in audit
         /\ key' => key
         /\ UNCHANGED commits
<1> USE DEF ghosts, given, TypeOK
<1>1. \A action \in Finals \cup {"SQL_PENDING"} : Recorded(r, action) =>
        /\ audit \subseteq audit'
        /\ r \in blind => r \in blind'
        /\ \A q \in Requests \ {r} : q \in blind' <=> q \in blind
        /\ \A q \in Requests \ {r} : \A a \in Finals \cup {"SQL_PENDING"} :
             Row(q, a) \in audit' => Row(q, a) \in audit
  BY DEF Recorded, Row
<1>2. CASE Pop(r)
  <2>1. key' => key
    BY <1>2, Zenon DEF Pop, Popped, RedisRaises
  <2>2. \/ \E place \in {"gone", "approved"} : GoTo(r, place)
        \/ \E a \in Answers : End(r, a)
    BY <1>2, Zenon DEF Pop, RedisRaises, Answers
  <2>3. UNCHANGED <<late, audit, applied, blind, commits>>
    BY <1>2 DEF Pop
  <2> QED
    BY <2>1, <2>2, <2>3 DEF GoTo, End
<1>3. CASE Lookup(r) \/ Peek(r) \/ FindOrphan(r)
  BY <1>3 DEF Lookup, Peek, FindOrphan, GoTo, End
<1>4. CASE Prepare(r)
  <2>1. CASE Recorded(r, "SQL_PENDING")
    BY <1>1, <1>4, <2>1 DEF Prepare, GoTo, End
  <2>2. CASE audit' = audit \cup {[action |-> "SQL_PENDING", by |-> r]} /\ UNCHANGED blind
    <3>1. \A q \in Requests \ {r} : \A a \in Finals \cup {"SQL_PENDING"} :
             Row(q, a) \in audit' => Row(q, a) \in audit
      BY <2>2 DEF Row
    <3> QED
      BY <1>4, <2>2, <3>1 DEF Prepare, GoTo, End
  <2> QED
    BY <1>4, <2>1, <2>2 DEF Prepare
<1>5. CASE Run(r) \/ RunRaises(r) \/ Timeout(r) \/ LateEnd(r) \/ Crash(r)
  BY <1>5 DEF Run, RunRaises, Timeout, LateEnd, Crash, GoTo, Apply
<1>6. CASE Finish(r)
  <2>1. Recorded(r, "SQL_COMMITTED") \/ Recorded(r, "SQL_FAILED")
    BY <1>6 DEF Finish
  <2> QED
    BY <1>1, <1>6, <2>1 DEF Finish, End, Finals
<1>7. CASE Discard(r)
  <2>1. key' => key
    BY <1>7, Zenon DEF Discard, RedisRaises
  <2>2. GoTo(r, "discarded") \/ End(r, "error")
    BY <1>7, Zenon DEF Discard, RedisRaises
  <2>3. UNCHANGED <<audit, late, applied, blind, commits>>
    BY <1>7 DEF Discard
  <2> QED
    BY <2>1, <2>2, <2>3 DEF GoTo, End
<1>8. CASE RecordReject(r) \/ MarkUnknown(r)
  BY <1>1, <1>8 DEF RecordReject, MarkUnknown, End, Finals
<1> QED
  BY <1>2, <1>3, <1>4, <1>5, <1>6, <1>7, <1>8 DEF Does

\* Only a request that finds the key comes to hold the statement.
LEMMA HolderFromKey ==
  ASSUME ApprovalInv, NEW r \in Requests, Does(r)
  PROVE  \A q \in Requests : Holds(q)' => Holds(q) \/ key
<1>0. TypeOK
  BY DEF ApprovalInv
<1> SUFFICES ASSUME Holds(r)', ~Holds(r), ~key
             PROVE  FALSE
  BY <1>0, StepOfOne DEF Holds
<1> USE DEF ghosts, given
<1>1. pc[r] \notin Running /\ r \notin late /\ applied[r] = 0
  BY <1>0 DEF Holds, TypeOK
<1>2. CASE Pop(r)
  <2>1. GoTo(r, "gone") \/ End(r, "error")
    BY <1>2, Zenon DEF Pop, RedisRaises
  <2> QED
    BY <1>0, <1>1, <1>2, <2>1 DEF Pop, GoTo, End, Holds, Running, TypeOK
<1>3. CASE Lookup(r) \/ Peek(r) \/ FindOrphan(r)
  BY <1>0, <1>1, <1>3 DEF Lookup, Peek, FindOrphan, GoTo, End, Holds, Running, TypeOK
<1>4. CASE Prepare(r) \/ Run(r) \/ RunRaises(r) \/ Timeout(r) \/ LateEnd(r) \/ Finish(r)
  BY <1>1, <1>4 DEF Prepare, Run, RunRaises, Timeout, LateEnd, Finish, At, Running
<1>5. CASE Discard(r)
  <2>1. GoTo(r, "discarded") \/ End(r, "error")
    BY <1>5, Zenon DEF Discard, RedisRaises
  <2>2. UNCHANGED <<late, applied>>
    BY <1>5 DEF Discard
  <2> QED
    BY <1>0, <1>1, <2>1, <2>2 DEF GoTo, End, Holds, Running, TypeOK
<1>6. CASE RecordReject(r) \/ MarkUnknown(r)
  BY <1>0, <1>1, <1>6 DEF RecordReject, MarkUnknown, End, Holds, Running, TypeOK
<1>7. CASE Crash(r)
  BY <1>0, <1>1, <1>7 DEF Crash, GoTo, Holds, Running, TypeOK
<1> QED
  BY <1>2, <1>3, <1>4, <1>5, <1>6, <1>7 DEF Does

\* What the step of r must show for the notes of every run to stay complete.
LEMMA NotesOfOne ==
  ASSUME TypeOK, TypeOK', RunsAreNoted, NEW r \in Requests, Does(r),
         pc'[r] \in {"run", "ran", "raised"} \/ r \in late' \/ applied'[r] > 0 =>
           r \in blind' \/ Row(r, "SQL_PENDING") \in audit',
         pc'[r] = "done" /\ (r \in late' \/ applied'[r] > 0) =>
           \/ r \in blind'
           \/ Row(r, "SQL_COMMITTED") \in audit' \/ Row(r, "SQL_FAILED") \in audit',
         pc'[r] = "ran" \/ Row(r, "SQL_COMMITTED") \in audit' =>
           applied'[r] = 1 \/ ~commits,
         r \in late' \/ applied'[r] > 0 => pc'[r] \in {"ran", "raised"} \cup Ends
  PROVE  RunsAreNoted'
<1> SUFFICES ASSUME NEW q \in Requests
             PROVE  /\ pc'[q] \in {"run", "ran", "raised"} \/ q \in late' \/ applied'[q] > 0 =>
                         q \in blind' \/ Row(q, "SQL_PENDING") \in audit'
                    /\ pc'[q] = "done" /\ (q \in late' \/ applied'[q] > 0) =>
                         q \in blind' \/ HasEnded(q)'
                    /\ pc'[q] = "ran" \/ Row(q, "SQL_COMMITTED") \in audit' =>
                         applied'[q] = 1 \/ ~commits'
                    /\ q \in late' \/ applied'[q] > 0 => pc'[q] \in {"ran", "raised"} \cup Ends
  BY DEF RunsAreNoted, Row
<1>0. UNCHANGED commits
  BY StepOfOne
<1>1. CASE q = r
  BY <1>0, <1>1 DEF HasEnded, Row
<1>2. CASE q # r
  <2>1. /\ pc'[q] = pc[q] /\ applied'[q] = applied[q]
        /\ q \in late' <=> q \in late
        /\ q \in blind' <=> q \in blind
        /\ audit \subseteq audit'
        /\ Row(q, "SQL_COMMITTED") \in audit' => Row(q, "SQL_COMMITTED") \in audit
    BY <1>2, StepOfOne DEF Finals
  <2>2. HasEnded(q) => HasEnded(q)'
    BY <2>1 DEF HasEnded, Row
  <2> QED
    BY <1>0, <2>1, <2>2 DEF RunsAreNoted
<1> QED
  BY <1>1, <1>2

\* Every step of a request keeps the notes of every run complete.
LEMMA NotesStep ==
  ASSUME ApprovalInv, TypeOK', RunsAreNoted, NEW r \in Requests, Does(r)
  PROVE  RunsAreNoted'
<1>0. TypeOK
  BY DEF ApprovalInv
<1>a. /\ pc[r] \in {"run", "ran", "raised"} \/ r \in late \/ applied[r] > 0 =>
           r \in blind \/ Row(r, "SQL_PENDING") \in audit
      /\ pc[r] = "done" /\ (r \in late \/ applied[r] > 0) =>
           \/ r \in blind
           \/ Row(r, "SQL_COMMITTED") \in audit \/ Row(r, "SQL_FAILED") \in audit
      /\ pc[r] = "ran" \/ Row(r, "SQL_COMMITTED") \in audit => applied[r] = 1 \/ ~commits
      /\ r \in late \/ applied[r] > 0 => pc[r] \in {"ran", "raised"} \cup Ends
      /\ r \in late => applied[r] = 0
      /\ pc[r] \in {"approved", "run"} => applied[r] = 0 /\ r \notin late
      /\ applied[r] \in 0..1
  BY <1>0 DEF RunsAreNoted, HasEnded, ApprovalInv, NotYetApplied, TypeOK
<1>b. audit \subseteq audit' /\ (r \in blind => r \in blind')
  BY <1>0, StepOfOne
<1> USE DEF ghosts, given
<1>1. ASSUME pc[r] \in {"new", "gone", "peeked", "discarded", "listed"},
             pc'[r] \notin {"run", "ran", "raised"}, UNCHANGED <<late, applied>>,
             Row(r, "SQL_COMMITTED") \in audit' => Row(r, "SQL_COMMITTED") \in audit
      PROVE  RunsAreNoted'
  <2>1. r \notin late' /\ applied'[r] = 0
    BY <1>a, <1>1 DEF Ends
  <2> QED
    BY <1>0, <1>a, <1>1, <2>1, NotesOfOne
<1>2. CASE Pop(r) \/ Lookup(r) \/ Peek(r) \/ Discard(r) \/ FindOrphan(r)
  <2>1. UNCHANGED <<late, applied, audit>>
    BY <1>2 DEF Pop, Lookup, Peek, Discard, FindOrphan
  <2>2. pc[r] \in {"new", "gone", "peeked", "discarded", "listed"}
    BY <1>2 DEF Pop, Lookup, Peek, Discard, FindOrphan, At
  <2>3. pc'[r] \notin {"run", "ran", "raised"}
    <3>1. \/ \E place \in {"gone", "approved", "peeked", "discarded", "listed"} : GoTo(r, place)
          \/ \E a \in Answers : End(r, a)
      <4>1. CASE Pop(r)
        BY <4>1, Zenon DEF Pop, RedisRaises, Answers
      <4>2. CASE Lookup(r) \/ Peek(r) \/ FindOrphan(r)
        BY <4>2 DEF Lookup, Peek, FindOrphan, Answers
      <4>3. CASE Discard(r)
        BY <4>3, Zenon DEF Discard, RedisRaises, Answers
      <4> QED
        BY <1>2, <4>1, <4>2, <4>3
    <3> QED
      BY <1>0, <3>1 DEF GoTo, End, TypeOK
  <2> QED
    BY <1>1, <2>1, <2>2, <2>3
<1>3. CASE RecordReject(r) \/ MarkUnknown(r)
  <2>1. Row(r, "SQL_COMMITTED") \in audit' => Row(r, "SQL_COMMITTED") \in audit
    BY <1>3 DEF RecordReject, MarkUnknown, Recorded, Row
  <2> QED
    BY <1>0, <1>1, <1>3, <2>1 DEF RecordReject, MarkUnknown, At, End, TypeOK
<1>4. CASE Prepare(r)
  <2>1. /\ pc[r] = "approved" /\ pc'[r] \in {"run", "done"} /\ UNCHANGED <<late, applied>>
        /\ r \in blind' \/ Row(r, "SQL_PENDING") \in audit'
        /\ Row(r, "SQL_COMMITTED") \in audit' => Row(r, "SQL_COMMITTED") \in audit
    BY <1>0, <1>4 DEF Prepare, At, Recorded, Row, GoTo, End, TypeOK
  <2> QED
    BY <1>0, <1>a, <2>1, NotesOfOne
<1>5. CASE Run(r)
  <2>1. /\ pc[r] = "run" /\ pc'[r] = "ran" /\ UNCHANGED <<late, audit, blind>>
        /\ applied'[r] \in 0..1 /\ (applied'[r] = 1 \/ ~commits)
    BY <1>0, <1>a, <1>5 DEF Run, At, GoTo, Apply, TypeOK
  <2> QED
    BY <1>0, <1>a, <2>1, NotesOfOne
<1>6. CASE RunRaises(r) \/ Timeout(r)
  <2>1. /\ pc[r] = "run" /\ pc'[r] = "raised"
        /\ UNCHANGED <<audit, blind>>
    BY <1>0, <1>6 DEF RunRaises, Timeout, At, GoTo, TypeOK
  <2> QED
    BY <1>0, <1>a, <2>1, NotesOfOne
<1>7. CASE LateEnd(r)
  <2>1. /\ r \in late /\ r \notin late' /\ applied'[r] \in {0, 1}
        /\ UNCHANGED <<pc, audit, blind>>
    BY <1>0, <1>a, <1>7 DEF LateEnd, Apply, TypeOK
  <2> QED
    BY <1>0, <1>a, <2>1, NotesOfOne
<1>8. CASE Finish(r)
  <2>1. /\ pc'[r] = "done" /\ UNCHANGED <<late, applied>>
        /\ \/ pc[r] = "ran" /\ (r \in blind' \/ Row(r, "SQL_COMMITTED") \in audit')
           \/ /\ pc[r] = "raised" /\ (r \in blind' \/ Row(r, "SQL_FAILED") \in audit')
              /\ Row(r, "SQL_COMMITTED") \in audit' => Row(r, "SQL_COMMITTED") \in audit
    BY <1>0, <1>8 DEF Finish, At, Recorded, Row, End, TypeOK
  <2> QED
    BY <1>0, <1>a, <1>b, <2>1, NotesOfOne DEF Ends
<1>9. CASE Crash(r)
  <2>1. /\ pc'[r] = "lost" /\ UNCHANGED <<late, audit, blind>>
        /\ applied'[r] = applied[r] \/ (pc[r] = "run" /\ applied'[r] = 1)
    BY <1>0, <1>a, <1>9 DEF Crash, GoTo, Apply, TypeOK
  <2> QED
    BY <1>0, <1>a, <2>1, NotesOfOne DEF Ends
<1> QED
  BY <1>2, <1>3, <1>4, <1>5, <1>6, <1>7, <1>8, <1>9 DEF Does

\* Nobody comes to hold the statement after the row that ended a run.
LEMMA EndedStep ==
  ASSUME ApprovalInv, TypeOK', EndedIsLast, NEW r \in Requests, Does(r)
  PROVE  EndedIsLast'
<1>0. TypeOK
  BY DEF ApprovalInv
<1> USE DEF ghosts, given
<1>1. key' => key
  BY <1>0, StepOfOne
<1>2. \A q \in Requests : Holds(q)' => Holds(q) \/ key
  BY HolderFromKey
<1> SUFFICES ASSUME NEW q \in Requests, HasEnded(q)'
             PROVE  pc'[q] = "done" /\ ~key' /\ \A s \in Requests : Holds(s)' => s = q
  BY DEF EndedIsLast, HasEnded, Row
<1>3. CASE HasEnded(q)
  <2>1. pc[q] = "done" /\ ~key /\ \A s \in Requests : Holds(s) => s = q
    BY <1>3 DEF EndedIsLast
  <2>2. pc'[q] = "done"
    <3>1. CASE q # r
      BY <1>0, <2>1, <3>1, StepOfOne
    <3>2. CASE q = r
      <4>1. LateEnd(r)
        BY <2>1, <3>2
        DEF Does, Pop, Lookup, Prepare, Run, RunRaises, Timeout, Finish, Peek,
           Discard, RecordReject, FindOrphan, MarkUnknown, Crash, At, Ends
      <4> QED
        BY <2>1, <3>2, <4>1 DEF LateEnd
    <3> QED
      BY <3>1, <3>2
  <2> QED
    BY <1>1, <1>2, <2>1, <2>2
<1>4. CASE ~HasEnded(q)
  <2>1. q = r
    <3>1. q # r => (HasEnded(q)' => HasEnded(q))
      BY <1>0, StepOfOne DEF HasEnded, Finals, Row
    <3> QED
      BY <1>4, <3>1
  <2>2. Finish(r)
    <3>1. Pop(r) \/ Lookup(r) \/ Run(r) \/ RunRaises(r) \/ Timeout(r) \/ LateEnd(r)
          \/ Peek(r) \/ Discard(r) \/ FindOrphan(r) \/ Crash(r) => UNCHANGED audit
      BY DEF Pop, Lookup, Run, RunRaises, Timeout, LateEnd, Peek, Discard, FindOrphan,
           Crash
    <3>2. UNCHANGED audit => (HasEnded(q)' => HasEnded(q))
      BY DEF HasEnded, Row
    <3>3. Prepare(r) \/ RecordReject(r) \/ MarkUnknown(r) => (HasEnded(q)' => HasEnded(q))
      BY DEF Prepare, RecordReject, MarkUnknown, Recorded, HasEnded, Row
    <3> QED
      BY <1>4, <3>1, <3>2, <3>3 DEF Does
  <2>3. Holds(r) /\ pc'[r] = "done"
    BY <1>0, <2>2 DEF Finish, At, End, Holds, Running, TypeOK
  <2>4. ~key /\ \A s \in Requests : Holds(s) => s = r
    BY <2>3 DEF ApprovalInv, InOnePlace
  <2> QED
    BY <1>1, <1>2, <2>1, <2>3, <2>4
<1> QED
  BY <1>3, <1>4

\* What users hear stays true.
LEMMA AnswersStep ==
  ASSUME ApprovalInv, TypeOK', RunsAreNoted, AnswersAreTrue, NEW r \in Requests, Does(r)
  PROVE  AnswersAreTrue'
<1>0. TypeOK
  BY DEF ApprovalInv
<1> USE DEF ghosts, given
<1>1. \A q \in Requests : applied[q] > 0 \/ Noted(q, {"SQL_REJECTED"}) =>
        applied'[q] > 0 \/ Noted(q, {"SQL_REJECTED"})'
  <2>1. audit \subseteq audit' /\ \A q \in Requests : applied[q] <= applied'[q]
    BY <1>0, StepOfOne DEF TypeOK
  <2> QED
    BY <1>0, <2>1 DEF Noted, TypeOK
<1>2. ASSUME answer'[r] \in {"executed", "already"}, answer'[r] # answer[r], commits
      PROVE  \E q \in Requests : applied[q] > 0 \/ Noted(q, {"SQL_REJECTED"})
  <2>1. CASE Finish(r)
    <3>1. pc[r] = "ran"
      BY <1>0, <1>2, <2>1 DEF Finish, At, End, TypeOK
    <3> QED
      BY <1>2, <3>1 DEF RunsAreNoted
  <2>2. CASE Lookup(r)
    <3>1. Prior # {}
      BY <1>0, <1>2, <2>2 DEF Lookup, End, TypeOK
    <3>2. PICK row \in audit : row.action \in {"SQL_COMMITTED", "SQL_REJECTED"}
      BY <3>1 DEF Prior
    <3>3. row.by \in Requests /\ row = Row(row.by, row.action)
      BY <1>0, <3>2 DEF TypeOK, Rows, Row
    <3>4. CASE row.action = "SQL_COMMITTED"
      BY <1>2, <3>2, <3>3, <3>4 DEF RunsAreNoted
    <3>5. CASE row.action = "SQL_REJECTED"
      BY <3>2, <3>3, <3>5 DEF Noted
    <3> QED
      BY <3>2, <3>4, <3>5
  <2>3. CASE Pop(r) \/ Discard(r)
    <3>1. \/ UNCHANGED answer
          \/ End(r, "forbidden") \/ End(r, "error")
      BY <2>3, Zenon DEF Pop, Discard, RedisRaises, GoTo
    <3> QED
      BY <1>0, <1>2, <3>1 DEF End, TypeOK
  <2>4. CASE Prepare(r) \/ Run(r) \/ RunRaises(r) \/ Timeout(r) \/ LateEnd(r) \/ Peek(r)
             \/ RecordReject(r) \/ FindOrphan(r) \/ MarkUnknown(r) \/ Crash(r)
    BY <1>0, <1>2, <2>4
    DEF Prepare, Run, RunRaises, Timeout, LateEnd, Peek, RecordReject,
       FindOrphan, MarkUnknown, Crash, GoTo, End, TypeOK
  <2> QED
    BY <2>1, <2>2, <2>3, <2>4 DEF Does
<1>3. \A q \in Requests \ {r} : answer'[q] = answer[q]
  BY <1>0, StepOfOne
<1> SUFFICES ASSUME NEW s \in Requests, answer'[s] \in {"executed", "already"},
                    commits
             PROVE  \E q \in Requests : applied'[q] > 0 \/ Noted(q, {"SQL_REJECTED"})'
  BY <1>0, StepOfOne DEF AnswersAreTrue, Noted
<1>4. \E q \in Requests : applied[q] > 0 \/ Noted(q, {"SQL_REJECTED"})
  BY <1>2, <1>3 DEF AnswersAreTrue
<1> QED
  BY <1>1, <1>4

-----------------------------------------------------------------------------
(* The theorems *)

\* Whatever the requests do, and whatever fails, the statement takes effect at
\* most once, for its owner, and not after a rejection has taken it away.
THEOREM StatementAppliedOnce == Spec => []ApprovedOnce
<1>1. ApprovalInv => ApprovedOnce
  <2> SUFFICES ASSUME ApprovalInv
               PROVE  ApprovedOnce
    OBVIOUS
  <2>1. \A r \in Requests : applied[r] > 0 => Holds(r)
    BY DEF Holds
  <2>2. \A r \in Requests : applied[r] > 0 => own[r] /\ ~vetoed
    BY <2>1 DEF ApprovalInv, InOnePlace, NotYetApplied
  <2>3. \A r, q \in Requests : applied[r] > 0 /\ applied[q] > 0 => r = q
    BY <2>1 DEF ApprovalInv, InOnePlace
  <2> QED
    BY <2>2, <2>3 DEF ApprovedOnce, ApprovalInv, NotYetApplied
<1> QED
  BY ApprovalInit, ApprovalStep, <1>1, PTL DEF Spec

\* The audit log hides nothing: a run with an effect has left its evidence, and how
\* it ended; a run that died stays a gap of the log; and where the driver commits,
\* what the log and the users are told of success is true.
THEOREM AuditIsComplete == Spec => []AuditTellsAll
<1>1. Init => AuditInv
  <2> SUFFICES ASSUME Init
               PROVE  AuditInv
    OBVIOUS
  <2>1. /\ audit = {} /\ late = {}
        /\ \A r \in Requests : pc[r] = "new" /\ applied[r] = 0 /\ answer[r] = "none"
    BY DEF Init
  <2> QED
    BY <2>1 DEF AuditInv, RunsAreNoted, EndedIsLast, HasEnded, AnswersAreTrue
<1>2. ApprovalInv /\ AuditInv /\ [Next]_vars => AuditInv'
  <2> SUFFICES ASSUME ApprovalInv, AuditInv, [Next]_vars
               PROVE  AuditInv'
    OBVIOUS
  <2>0. TypeOK'
    BY TypeStep DEF ApprovalInv
  <2>1. ASSUME NEW r \in Requests, Does(r)
        PROVE  AuditInv'
    BY <2>0, <2>1, NotesStep, EndedStep, AnswersStep DEF AuditInv
  <2>2. CASE Expire
    <3>1. key' = FALSE /\ UNCHANGED <<pc, answer, audit, late, applied, blind, commits>>
      BY <2>2 DEF Expire, ghosts, given
    <3>2. RunsAreNoted'
      BY <3>1 DEF AuditInv, RunsAreNoted, HasEnded, Row
    <3>3. EndedIsLast'
      BY <3>1 DEF AuditInv, EndedIsLast, HasEnded, Row, Holds
    <3>4. AnswersAreTrue'
      BY <3>1 DEF AuditInv, AnswersAreTrue, Noted
    <3> QED
      BY <3>2, <3>3, <3>4 DEF AuditInv
  <2>3. CASE UNCHANGED vars
    BY <2>3 DEF vars, ghosts, given, AuditInv, RunsAreNoted, EndedIsLast, HasEnded, Row, Holds,
       AnswersAreTrue, Noted
  <2> QED
    BY <2>1, <2>2, <2>3 DEF Next, Does
<1>3. ApprovalInv /\ AuditInv => AuditTellsAll
  <2> SUFFICES ASSUME ApprovalInv, AuditInv
               PROVE  AuditTellsAll
    OBVIOUS
  <2>0. TypeOK
    BY DEF ApprovalInv
  <2>1. \A r \in Requests : \A actions : Noted(r, actions) <=>
          \E action \in actions : Row(r, action) \in audit
    <3>1. \A row \in audit : row = Row(row.by, row.action)
      BY <2>0 DEF TypeOK, Rows, Row
    <3>2. \A r, action : Row(r, action).by = r /\ Row(r, action).action = action
      BY DEF Row
    <3> QED
      BY <3>1, <3>2, Zenon DEF Noted
  <2>2. EvidenceRemains
    <3> SUFFICES ASSUME NEW r \in Requests
                 PROVE  /\ applied[r] > 0 /\ r \notin blind => Noted(r, {"SQL_PENDING"})
                        /\ applied[r] > 0 /\ pc[r] = "done" /\ r \notin blind =>
                             Noted(r, {"SQL_COMMITTED", "SQL_FAILED"})
                        /\ Noted(r, {"SQL_COMMITTED"}) => applied[r] = 1 \/ ~commits
      BY DEF EvidenceRemains
    <3> QED
      BY <2>1 DEF AuditInv, RunsAreNoted, HasEnded
  <2>3. DeadRunsShow
    <3> SUFFICES ASSUME NEW r \in Requests, pc[r] = "lost", applied[r] > 0, r \notin blind,
                        ~ \E q \in Requests : Noted(q, {"SQL_UNKNOWN", "SQL_REJECTED"})
                 PROVE  [action |-> "SQL_PENDING", by |-> r] \in Orphans
      BY DEF DeadRunsShow
    <3>1. Row(r, "SQL_PENDING") \in audit
      BY DEF AuditInv, RunsAreNoted
    <3>2. ASSUME NEW other \in audit, other.action \in Finals
          PROVE  FALSE
      <4>1. other.by \in Requests /\ other = Row(other.by, other.action)
        BY <2>0 DEF TypeOK, Rows, Row
      <4>2. other.action \in {"SQL_COMMITTED", "SQL_FAILED"}
        BY <3>2, <4>1 DEF Finals, Noted
      <4>3. HasEnded(other.by)
        BY <4>1, <4>2 DEF HasEnded
      <4>4. r = other.by /\ pc[r] = "done"
        BY <4>1, <4>3 DEF AuditInv, EndedIsLast, Holds
      <4> QED
        BY <4>4
    <3> QED
      BY <3>1, <3>2 DEF Orphans, Row
  <2> QED
    BY <2>2, <2>3 DEF AuditTellsAll, AuditInv
<1> QED
  BY ApprovalInit, ApprovalStep, <1>1, <1>2, <1>3, PTL DEF Spec

=============================================================================
