--------------------------- MODULE UiActions_proofs ---------------------------
(***************************************************************************)
(* Proofs about UiActions, for any requests, pages, processes, environment   *)
(* and number of faults: the table of futures holds what somebody waits for, *)
(* in its own process, or what was cancelled, and nothing else; and an answer *)
(* in time is under way to who waits for it.                                 *)
(***************************************************************************)
EXTENDS UiActions, TLAPS

\* A request that is under way has no outcome yet: what ended once never waits
\* again, and so never registers a second future.
OutcomeAtEnd == \A r \in Requests : pc[r] # "done" => outcome[r] = "none"

PendingInv == TypeOK /\ PendingIsAwaited /\ OutcomeAtEnd

\* Before a request is sent its process asks for the subscription, and once it
\* waits the subscription is there and the future registered - or a fault is
\* noted.
WaitingListens ==
  \A r \in Requests : r \notin shaky =>
    /\ pc[r] = "ensure" => sub[owner[r]] # "off"
    /\ pc[r] = "wait" => sub[owner[r]] = "ready" /\ r \in futures[owner[r]]

\* A process that is to publish an answer has asked for a client, and nobody
\* answers before the command is sent.
AnswerOnItsWay ==
  \A a \in Answers :
    /\ answer[a] = "ensure" /\ a[1] \notin shaky => sub[via[a]] # "off"
    /\ answer[a] # "none" => pc[a[1]] \in {"wait", "done"}

UiInv == PendingInv /\ WaitingListens /\ AnswerOnItsWay /\ AnswerUnderWay

-----------------------------------------------------------------------------
(* Type correctness *)

\* A fault leaves the counter in its range.
LEMMA FaultsTyped ==
  ASSUME faults \in 0..MaxFaults,
         NoFault \/ \E event \in EnvEvents : Fault(event)
  PROVE  faults' \in 0..MaxFaults
BY FaultsAssumption DEF NoFault, Fault

\* Whoever asks for the subscription keeps its table well typed, and opens no
\* mailbox.
LEMMA EnsureTyped ==
  ASSUME TypeOK, NEW p \in Procs, NEW r \in Requests, Ensure(p, r)
  PROVE  /\ sub' \in [Procs -> {"off", "opening", "ready"}]
         /\ shaky' \subseteq Requests
         /\ faults' \in 0..MaxFaults
         /\ \A q \in Procs : sub'[q] # "ready" => mail[q] = {}
<1>1. faults' \in 0..MaxFaults
  BY FaultsTyped DEF Ensure, TypeOK, EnvEvents
<1> QED
  BY <1>1 DEF Ensure, Ensured, TypeOK

\* A request ends, or its future is resolved, within the types.
LEMMA ResolveTyped ==
  ASSUME TypeOK, NEW p \in Procs, NEW r \in Requests, Resolve(p, r)
  PROVE  /\ pc' \in [Requests -> {"new", "ensure", "wait", "done"}]
         /\ outcome' \in [Requests -> {"none", "answered", "timeout", "cancelled",
                                       "failed", "lost"}]
         /\ futures' \in [Procs -> SUBSET Requests]
BY DEF Resolve, End, TypeOK

\* Every step keeps the types.
LEMMA TypeStep == TypeOK /\ [Next]_vars => TypeOK'
<1> SUFFICES ASSUME TypeOK, [Next]_vars
             PROVE  TypeOK'
  OBVIOUS
<1>1. ASSUME NEW r \in Requests, Begin(r)
      PROVE  TypeOK'
  <2>1. owner[r] \in Procs
    BY DEF TypeOK
  <2> QED
    BY <1>1, <2>1, EnsureTyped DEF Begin, TypeOK
<1>2. ASSUME NEW r \in Requests, Send(r)
      PROVE  TypeOK'
  <2>1. faults' \in 0..MaxFaults
    BY <1>2, FaultsTyped DEF Send, TypeOK, EnvEvents
  <2> QED
    BY <1>2, <2>1 DEF Send, End, TypeOK
<1>3. ASSUME NEW r \in Requests, Timeout(r)
      PROVE  TypeOK'
  BY <1>3 DEF Timeout, End, Expired, TypeOK
<1>4. ASSUME NEW r \in Requests, Cancel(r)
      PROVE  TypeOK'
  <2>1. faults' \in 0..MaxFaults
    BY <1>4, FaultsTyped DEF Cancel, TypeOK, EnvEvents
  <2> QED
    BY <1>4, <2>1 DEF Cancel, End, TypeOK
<1>5. ASSUME NEW a \in Answers, Reply(a)
      PROVE  TypeOK'
  <2>1. a[1] \in Requests /\ via[a] \in Procs
    BY DEF Answers, TypeOK
  <2>2. CASE a[1] \in futures[via[a]]
    BY <1>5, <2>1, <2>2, ResolveTyped DEF Reply, TypeOK
  <2>3. CASE a[1] \notin futures[via[a]]
    BY <1>5, <2>1, <2>3, EnsureTyped DEF Reply, TypeOK
  <2> QED
    BY <2>2, <2>3
<1>6. ASSUME NEW a \in Answers, Forward(a)
      PROVE  TypeOK'
  <2>1. a[1] \in Requests
    BY DEF Answers
  <2>2. faults' \in 0..MaxFaults
    BY <1>6, FaultsTyped DEF Forward, TypeOK, EnvEvents
  <2>3. /\ mail' \in [Procs -> SUBSET Answers]
        /\ \A p \in Procs : sub[p] # "ready" => mail'[p] = {}
    BY <1>6 DEF Forward, Listening, TypeOK
  <2> QED
    BY <1>6, <2>1, <2>2, <2>3 DEF Forward, TypeOK
<1>7. ASSUME NEW p \in Procs, Subscribed(p)
      PROVE  TypeOK'
  BY <1>7 DEF Subscribed, TypeOK
<1>8. ASSUME NEW p \in Procs, SubscriptionBreaks(p)
      PROVE  TypeOK'
  <2>1. faults' \in 0..MaxFaults
    BY <1>8, FaultsTyped DEF SubscriptionBreaks, TypeOK, EnvEvents
  <2> QED
    BY <1>8, <2>1 DEF SubscriptionBreaks, TypeOK
<1>9. ASSUME NEW p \in Procs, Crash(p)
      PROVE  TypeOK'
  <2>1. faults' \in 0..MaxFaults
    BY <1>9, FaultsTyped DEF Crash, TypeOK, EnvEvents
  <2>2. shaky' \subseteq Requests /\ answer' \in [Answers -> {"none", "ensure", "out"}]
    BY <1>9 DEF Crash, TypeOK, Answers
  <2>3. /\ pc' \in [Requests -> {"new", "ensure", "wait", "done"}]
        /\ outcome' \in [Requests -> {"none", "answered", "timeout", "cancelled",
                                      "failed", "lost"}]
    BY <1>9 DEF Crash, TypeOK
  <2> QED
    BY <1>9, <2>1, <2>2, <2>3 DEF Crash, TypeOK
<1>10. ASSUME NEW p \in Procs, NEW a \in Answers, Take(p, a)
       PROVE  TypeOK'
  <2>1. a[1] \in Requests
    BY DEF Answers
  <2> QED
    BY <1>10, <2>1, ResolveTyped DEF Take, TypeOK
<1>11. CASE UNCHANGED vars
  BY <1>11 DEF vars, TypeOK
<1> QED
  BY <1>1, <1>2, <1>3, <1>4, <1>5, <1>6, <1>7, <1>8, <1>9, <1>10, <1>11 DEF Next

-----------------------------------------------------------------------------
(* The table of futures *)

\* Resolving takes one entry out of one table, and ends only the request whose
\* entry it was.
LEMMA ResolveKeeps ==
  ASSUME PendingInv, TypeOK', NEW p \in Procs, NEW r \in Requests, Resolve(p, r),
         UNCHANGED owner
  PROVE  PendingIsAwaited' /\ OutcomeAtEnd'
<1>1. /\ \A q \in Procs : futures'[q] \subseteq futures[q] /\ (q = p => r \notin futures'[q])
      /\ \A s \in Requests \ {r} : pc'[s] = pc[s] /\ outcome'[s] = outcome[s]
  BY DEF Resolve, End, PendingInv, TypeOK
<1>2. ASSUME NEW q \in Procs, r \in futures'[q]
      PROVE  UNCHANGED <<pc, outcome>>
  BY <1>1, <1>2 DEF Resolve, PendingInv, PendingIsAwaited, TypeOK
<1>3. PendingIsAwaited'
  BY <1>1, <1>2 DEF PendingInv, PendingIsAwaited, TypeOK
<1>4. OutcomeAtEnd'
  BY DEF Resolve, End, PendingInv, OutcomeAtEnd, TypeOK
<1> QED
  BY <1>3, <1>4

\* Every step keeps the table of futures to what is awaited or was cancelled.
LEMMA FuturesStep == PendingInv /\ [Next]_vars => PendingInv'
<1> SUFFICES ASSUME PendingInv, [Next]_vars
             PROVE  PendingIsAwaited' /\ OutcomeAtEnd'
  BY TypeStep DEF PendingInv
<1>0. TypeOK /\ TypeOK'
  BY TypeStep DEF PendingInv
<1> USE DEF PendingInv, PendingIsAwaited, OutcomeAtEnd
<1>1. ASSUME NEW r \in Requests, Begin(r)
      PROVE  PendingIsAwaited' /\ OutcomeAtEnd'
  BY <1>0, <1>1 DEF Begin, TypeOK
<1>2. ASSUME NEW r \in Requests, Send(r)
      PROVE  PendingIsAwaited' /\ OutcomeAtEnd'
  <2>1. \A p \in Procs : r \notin futures[p]
    BY <1>0, <1>2 DEF Send, TypeOK
  <2> QED
    BY <1>0, <1>2, <2>1 DEF Send, End, TypeOK
<1>3. ASSUME NEW r \in Requests, Timeout(r)
      PROVE  PendingIsAwaited' /\ OutcomeAtEnd'
  BY <1>0, <1>3 DEF Timeout, End, Expired, TypeOK
<1>4. ASSUME NEW r \in Requests, Cancel(r)
      PROVE  PendingIsAwaited' /\ OutcomeAtEnd'
  BY <1>0, <1>4 DEF Cancel, End, TypeOK
<1>5. ASSUME NEW a \in Answers, Reply(a)
      PROVE  PendingIsAwaited' /\ OutcomeAtEnd'
  <2>1. a[1] \in Requests /\ via[a] \in Procs
    BY <1>0 DEF Answers, TypeOK
  <2>2. CASE a[1] \in futures[via[a]]
    BY <1>0, <1>5, <2>1, <2>2, ResolveKeeps DEF Reply
  <2>3. CASE a[1] \notin futures[via[a]]
    BY <1>0, <1>5, <2>3 DEF Reply
  <2> QED
    BY <2>2, <2>3
<1>6. ASSUME NEW p \in Procs, NEW a \in Answers, Take(p, a)
      PROVE  PendingIsAwaited' /\ OutcomeAtEnd'
  <2>1. a[1] \in Requests
    BY DEF Answers
  <2> QED
    BY <1>0, <1>6, <2>1, ResolveKeeps DEF Take
<1>7. ASSUME NEW p \in Procs, Crash(p)
      PROVE  PendingIsAwaited' /\ OutcomeAtEnd'
  <2>1. \A q \in Procs \ {p} : futures'[q] = futures[q] /\ futures'[p] = {}
    BY <1>0, <1>7 DEF Crash, TypeOK
  <2>2. \A r \in Requests :
          \/ pc'[r] = pc[r] /\ outcome'[r] = outcome[r]
          \/ owner[r] = p /\ pc'[r] = "done"
    BY <1>0, <1>7 DEF Crash, TypeOK
  <2>3. owner' = owner
    BY <1>7 DEF Crash
  <2>4. ASSUME NEW q \in Procs, NEW r \in futures'[q]
        PROVE  owner'[r] = q /\ (pc'[r] = "wait" \/ outcome'[r] = "cancelled")
    <3>1. q # p /\ r \in futures[q] /\ r \in Requests
      BY <1>0, <1>7, <2>1, <2>4 DEF TypeOK, Crash
    <3> QED
      BY <2>2, <2>3, <3>1
  <2>5. OutcomeAtEnd'
    BY <2>2
  <2> QED
    BY <2>4, <2>5
<1>8. ASSUME UNCHANGED <<owner, pc, outcome, futures>>
      PROVE  PendingIsAwaited' /\ OutcomeAtEnd'
  BY <1>8
<1>9. ASSUME NEW a \in Answers, Forward(a)
      PROVE  PendingIsAwaited' /\ OutcomeAtEnd'
  BY <1>8, <1>9 DEF Forward
<1>10. ASSUME NEW p \in Procs, Subscribed(p) \/ SubscriptionBreaks(p)
       PROVE  PendingIsAwaited' /\ OutcomeAtEnd'
  BY <1>8, <1>10 DEF Subscribed, SubscriptionBreaks
<1>11. CASE UNCHANGED vars
  BY <1>8, <1>11 DEF vars
<1> QED
  BY <1>1, <1>2, <1>3, <1>4, <1>5, <1>6, <1>7, <1>9, <1>10, <1>11 DEF Next

-----------------------------------------------------------------------------
(* The answers *)

\* What every step keeps of the way of an answer.
UnderWay == WaitingListens /\ AnswerOnItsWay /\ AnswerUnderWay

\* Asking for the subscription opens no mailbox and closes none.
LEMMA EnsureKeeps ==
  ASSUME TypeOK, NEW p \in Procs, NEW r \in Requests, Ensure(p, r)
  PROVE  /\ \A q \in Procs : /\ sub[q] # "off" => sub'[q] = sub[q]
                             /\ sub'[q] # "off" \/ sub'[q] = sub[q]
         /\ shaky \subseteq shaky'
         /\ r \notin shaky' => sub'[p] # "off"
BY DEF Ensure, Ensured, TypeOK

\* Resolving ends a request, or leaves all where it is.
LEMMA ResolveEnds ==
  ASSUME TypeOK, NEW p \in Procs, NEW r \in Requests, Resolve(p, r)
  PROVE  /\ \A s \in Requests : pc'[s] = pc[s] \/ (pc'[s] = "done" /\ pc[s] = "wait")
         /\ \A s \in Requests \ {r}, q \in Procs : s \in futures'[q] <=> s \in futures[q]
         /\ r \in futures[p] => pc'[r] # "wait"
         /\ r \notin futures[p] => \A q \in Procs : futures'[q] = futures[q]
BY DEF Resolve, End, TypeOK

\* Every step keeps the answers under way, or notes whom a fault may cost one.
LEMMA AnswersStep == UiInv /\ [Next]_vars => UiInv'
<1> SUFFICES ASSUME UiInv, [Next]_vars
             PROVE  UnderWay'
  BY FuturesStep DEF UiInv, UnderWay
<1>0. TypeOK /\ TypeOK'
  BY TypeStep DEF UiInv, PendingInv
<1>a. \A a \in Answers : a[1] \in Requests /\ via[a] \in Procs /\ owner[a[1]] \in Procs
  BY <1>0 DEF Answers, TypeOK
<1>b. \A r \in Requests : owner[r] \in Procs
  BY <1>0 DEF TypeOK
<1>c. /\ WaitingListens /\ AnswerOnItsWay /\ AnswerUnderWay
      /\ \A r \in Requests : pc[r] # "done" => outcome[r] = "none"
  BY DEF UiInv, PendingInv, OutcomeAtEnd
<1> USE DEF UnderWay, WaitingListens, AnswerOnItsWay, AnswerUnderWay
<1>1. ASSUME NEW r \in Requests, Begin(r)
      PROVE  UnderWay'
  <2>1. /\ \A q \in Procs : sub[q] # "off" => sub'[q] = sub[q]
        /\ shaky \subseteq shaky'
        /\ r \notin shaky' => sub'[owner[r]] # "off"
    BY <1>0, <1>1, <1>b, EnsureKeeps DEF Begin
  <2>2. /\ pc[r] = "new" /\ pc'[r] = "ensure"
        /\ \A s \in Requests \ {r} : pc'[s] = pc[s]
        /\ UNCHANGED <<owner, outcome, futures, answer, via, mail>>
    BY <1>0, <1>1 DEF Begin, TypeOK
  <2>3. WaitingListens'
    BY <1>b, <1>c, <2>1, <2>2
  <2>4. AnswerOnItsWay'
    BY <1>a, <1>c, <2>1, <2>2
  <2>5. AnswerUnderWay'
    BY <1>a, <1>c, <2>1, <2>2
  <2> QED
    BY <2>3, <2>4, <2>5
<1>2. ASSUME NEW r \in Requests, Send(r)
      PROVE  UnderWay'
  <2>1. /\ pc[r] = "ensure" /\ pc'[r] \in {"wait", "done"}
        /\ \A s \in Requests \ {r} : pc'[s] = pc[s]
        /\ shaky \subseteq shaky'
        /\ UNCHANGED <<owner, sub, answer, via, mail>>
    BY <1>0, <1>2 DEF Send, End, TypeOK
  <2>2. /\ \A q \in Procs : futures[q] \subseteq futures'[q]
        /\ pc'[r] = "wait" => r \in futures'[owner[r]]
        /\ pc'[r] = "wait" /\ r \notin shaky' => sub[owner[r]] # "opening"
    BY <1>0, <1>2, <1>b DEF Send, End, TypeOK
  <2>3. WaitingListens'
    BY <1>0, <1>b, <1>c, <2>1, <2>2 DEF TypeOK
  <2>4. AnswerOnItsWay' /\ AnswerUnderWay'
    BY <1>a, <1>c, <2>1
  <2> QED
    BY <2>3, <2>4
<1>3. ASSUME NEW r \in Requests, Timeout(r) \/ Cancel(r)
      PROVE  UnderWay'
  <2>1. /\ pc[r] \in {"ensure", "wait"} /\ pc'[r] = "done"
        /\ \A s \in Requests \ {r} : pc'[s] = pc[s]
        /\ \A s \in Requests \ {r}, q \in Procs : s \in futures'[q] <=> s \in futures[q]
        /\ UNCHANGED <<owner, sub, answer, via, mail, shaky>>
    BY <1>0, <1>3 DEF Timeout, Cancel, End, Expired, TypeOK
  <2>2. WaitingListens'
    BY <1>b, <1>c, <2>1
  <2>3. AnswerOnItsWay' /\ AnswerUnderWay'
    BY <1>a, <1>c, <2>1
  <2> QED
    BY <2>2, <2>3
<1>4. ASSUME NEW a \in Answers, Reply(a)
      PROVE  UnderWay'
  <2>1. /\ \A b \in Answers \ {a} : answer'[b] = answer[b]
        /\ pc[a[1]] \in {"wait", "done"}
        /\ UNCHANGED <<owner, via, mail>>
    BY <1>0, <1>4, <1>a, <1>c DEF Reply, TypeOK
  <2>2. CASE a[1] \in futures[via[a]]
    <3>1. /\ \A s \in Requests : pc'[s] = pc[s] \/ (pc'[s] = "done" /\ pc[s] = "wait")
          /\ \A s \in Requests \ {a[1]}, q \in Procs : s \in futures'[q] <=> s \in futures[q]
          /\ pc'[a[1]] # "wait"
      BY <1>0, <1>4, <1>a, <2>2, ResolveEnds DEF Reply
    <3>2. answer'[a] = "out" /\ UNCHANGED <<sub, shaky>>
      BY <1>0, <1>4, <2>2 DEF Reply, TypeOK
    <3>3. WaitingListens'
      BY <1>b, <1>c, <2>1, <3>1, <3>2
    <3>4. AnswerOnItsWay'
      BY <1>a, <1>c, <2>1, <3>1, <3>2
    <3>5. AnswerUnderWay'
      BY <1>a, <1>c, <2>1, <3>1, <3>2
    <3> QED
      BY <3>3, <3>4, <3>5
  <2>3. CASE a[1] \notin futures[via[a]]
    <3>1. /\ \A q \in Procs : sub[q] # "off" => sub'[q] = sub[q]
          /\ shaky \subseteq shaky'
          /\ a[1] \notin shaky' => sub'[via[a]] # "off"
      BY <1>0, <1>4, <1>a, <2>3, EnsureKeeps DEF Reply
    <3>2. answer'[a] = "ensure" /\ UNCHANGED <<pc, futures>>
      BY <1>0, <1>4, <2>3 DEF Reply, TypeOK
    <3>3. WaitingListens'
      BY <1>b, <1>c, <2>1, <3>1, <3>2
    <3>4. AnswerOnItsWay'
      BY <1>a, <1>c, <2>1, <3>1, <3>2
    <3>5. AnswerUnderWay'
      BY <1>a, <1>c, <2>1, <3>1, <3>2
    <3> QED
      BY <3>3, <3>4, <3>5
  <2> QED
    BY <2>2, <2>3
<1>5. ASSUME NEW a \in Answers, Forward(a)
      PROVE  UnderWay'
  <2>1. /\ answer[a] = "ensure" /\ answer'[a] = "out"
        /\ \A b \in Answers \ {a} : answer'[b] = answer[b]
        /\ shaky \subseteq shaky'
        /\ UNCHANGED <<owner, pc, futures, sub, via>>
    BY <1>0, <1>5, <1>a DEF Forward, TypeOK
  <2>2. \A p \in Procs : mail[p] \subseteq mail'[p]
    BY <1>0, <1>5 DEF Forward, TypeOK
  <2>3. ASSUME a[1] \notin shaky', pc[a[1]] = "wait"
        PROVE  a \in mail'[owner[a[1]]]
    <3>1. sub[via[a]] # "off" /\ owner[a[1]] \in Listening
      BY <1>a, <1>c, <2>1, <2>3 DEF Listening
    <3>2. mail' = [p \in Procs |-> IF p \in Listening THEN mail[p] \cup {a} ELSE mail[p]]
      BY <1>5, <1>a, <2>3, <3>1 DEF Forward
    <3> QED
      BY <1>a, <3>1, <3>2
  <2>4. WaitingListens' /\ AnswerOnItsWay'
    BY <1>a, <1>b, <1>c, <2>1
  <2>5. AnswerUnderWay'
    BY <1>a, <1>c, <2>1, <2>2, <2>3
  <2> QED
    BY <2>4, <2>5
<1>6. ASSUME NEW p \in Procs, NEW a \in Answers, Take(p, a)
      PROVE  UnderWay'
  <2>1. /\ \A s \in Requests : pc'[s] = pc[s] \/ (pc'[s] = "done" /\ pc[s] = "wait")
        /\ \A s \in Requests \ {a[1]}, q \in Procs : s \in futures'[q] <=> s \in futures[q]
        /\ a[1] \in futures[p] => pc'[a[1]] # "wait"
        /\ a[1] \notin futures[p] => \A q \in Procs : futures'[q] = futures[q]
    BY <1>0, <1>6, <1>a, ResolveEnds DEF Take
  <2>2. /\ mail'[p] = mail[p] \ {a} /\ \A q \in Procs \ {p} : mail'[q] = mail[q]
        /\ UNCHANGED <<owner, sub, answer, via, shaky>>
    BY <1>0, <1>6 DEF Take, TypeOK
  <2>3. WaitingListens'
    BY <1>a, <1>b, <1>c, <2>1, <2>2
  <2>4. AnswerOnItsWay'
    BY <1>a, <1>c, <2>1, <2>2
  <2>5. AnswerUnderWay'
    <3> SUFFICES ASSUME NEW b \in Answers, pc'[b[1]] = "wait", b[1] \notin shaky,
                        answer[b] # "none", answer[b] # "ensure"
                 PROVE  b \in mail'[owner[b[1]]]
      BY <2>2
    <3>1. b \in mail[owner[b[1]]] /\ b[1] \in futures[owner[b[1]]] /\ pc[b[1]] = "wait"
      BY <1>a, <1>c, <2>1
    <3>2. owner[b[1]] = p => b # a
      BY <2>1, <3>1
    <3> QED
      BY <1>a, <2>2, <3>1, <3>2
  <2> QED
    BY <2>3, <2>4, <2>5
<1>7. ASSUME NEW p \in Procs, Subscribed(p)
      PROVE  UnderWay'
  <2>1. /\ \A q \in Procs : sub'[q] = sub[q] \/ (sub[q] = "opening" /\ sub'[q] = "ready")
        /\ UNCHANGED <<owner, pc, futures, answer, via, mail, shaky>>
    BY <1>0, <1>7 DEF Subscribed, TypeOK
  <2> QED
    BY <1>a, <1>b, <1>c, <2>1
<1>8. ASSUME NEW p \in Procs, SubscriptionBreaks(p)
      PROVE  UnderWay'
  <2>1. /\ \A q \in Procs \ {p} : sub'[q] = sub[q] /\ mail'[q] = mail[q]
        /\ sub[p] = "ready" /\ sub'[p] = "opening"
        /\ shaky' = shaky \cup {r \in Requests : owner[r] = p}
        /\ UNCHANGED <<owner, pc, futures, answer, via>>
    BY <1>0, <1>8 DEF SubscriptionBreaks, TypeOK
  <2>2. WaitingListens'
    BY <1>b, <1>c, <2>1
  <2>3. AnswerOnItsWay'
    BY <1>a, <1>c, <2>1
  <2>4. AnswerUnderWay'
    BY <1>a, <1>c, <2>1
  <2> QED
    BY <2>2, <2>3, <2>4
<1>9. ASSUME NEW p \in Procs, Crash(p)
      PROVE  UnderWay'
  <2>1. /\ \A q \in Procs \ {p} : /\ sub'[q] = sub[q] /\ mail'[q] = mail[q]
                                  /\ futures'[q] = futures[q]
        /\ UNCHANGED <<owner, via>>
    BY <1>0, <1>9 DEF Crash, TypeOK
  <2>2. \A r \in Requests : /\ pc'[r] = pc[r] \/ pc'[r] = "done"
                            /\ owner[r] = p => pc'[r] \in {"new", "done"}
    BY <1>0, <1>9 DEF Crash, TypeOK
  <2>3. /\ shaky \subseteq shaky'
        /\ \A a \in Answers :
             \/ answer'[a] = answer[a] /\ (via[a] # p \/ answer[a] # "ensure")
             \/ answer[a] = "ensure" /\ answer'[a] = "out" /\ a[1] \in shaky'
    BY <1>0, <1>9, <1>a DEF Crash, TypeOK
  <2>4. WaitingListens'
    <3> SUFFICES ASSUME NEW r \in Requests, r \notin shaky', pc'[r] \in {"ensure", "wait"}
                 PROVE  /\ pc'[r] = "ensure" => sub'[owner[r]] # "off"
                        /\ pc'[r] = "wait" => /\ sub'[owner[r]] = "ready"
                                              /\ r \in futures'[owner[r]]
      BY <2>1
    <3>1. owner[r] \in Procs \ {p} /\ pc'[r] = pc[r] /\ r \notin shaky
      BY <1>b, <2>2, <2>3
    <3> QED
      BY <1>c, <2>1, <3>1
  <2>5. AnswerOnItsWay'
    <3> SUFFICES ASSUME NEW a \in Answers
                 PROVE  /\ answer'[a] = "ensure" /\ a[1] \notin shaky' => sub'[via[a]] # "off"
                        /\ answer'[a] # "none" => pc'[a[1]] \in {"wait", "done"}
      BY <2>1
    <3>1. ASSUME answer'[a] = "ensure", a[1] \notin shaky'
          PROVE  sub'[via[a]] # "off"
      <4>1. via[a] \in Procs \ {p} /\ answer[a] = "ensure" /\ a[1] \notin shaky
        BY <1>a, <2>3, <3>1
      <4> QED
        BY <1>c, <2>1, <4>1
    <3>2. answer'[a] # "none" => answer[a] # "none"
      BY <2>3
    <3> QED
      BY <1>a, <1>c, <2>2, <3>1, <3>2
  <2>6. AnswerUnderWay'
    <3> SUFFICES ASSUME NEW a \in Answers, pc'[a[1]] = "wait", a[1] \notin shaky',
                        answer'[a] # "none"
                 PROVE  answer'[a] = "ensure" \/ a \in mail'[owner[a[1]]]
      BY <2>1
    <3>1. owner[a[1]] \in Procs \ {p} /\ pc[a[1]] = "wait" /\ a[1] \notin shaky
      BY <1>a, <2>2, <2>3
    <3>2. answer'[a] = answer[a]
      BY <2>3
    <3> QED
      BY <1>c, <2>1, <3>1, <3>2
  <2> QED
    BY <2>4, <2>5, <2>6
<1>10. CASE UNCHANGED vars
  BY <1>a, <1>b, <1>c, <1>10 DEF vars
<1> QED
  BY <1>1, <1>2, <1>3, <1>4, <1>5, <1>6, <1>7, <1>8, <1>9, <1>10 DEF Next

-----------------------------------------------------------------------------
(* The theorem *)

\* No future outlives its request, except that of a cancelled one, and none is
\* registered in another process than that of its agent; and an answer to a
\* request that waits is not lost unless a fault is noted for it - whatever is
\* published twice, answered late or answered at another process.
THEOREM FuturesAreAwaited == Spec => []FuturesInv
<1>1. Init => UiInv
  <2> SUFFICES ASSUME Init
               PROVE  UiInv
    OBVIOUS
  <2>1. faults \in 0..MaxFaults
    BY FaultsAssumption DEF Init
  <2>2. TypeOK
    BY <2>1 DEF Init, TypeOK
  <2>3. \A a \in Answers : a[1] \in Requests
    BY DEF Answers
  <2>4. PendingInv
    BY <2>2 DEF Init, PendingInv, PendingIsAwaited, OutcomeAtEnd
  <2> QED
    BY <2>3, <2>4 DEF Init, UiInv, WaitingListens, AnswerOnItsWay, AnswerUnderWay
<1>2. UiInv => FuturesInv
  BY DEF UiInv, PendingInv, FuturesInv
<1> QED
  BY <1>1, <1>2, AnswersStep, PTL DEF Spec

=============================================================================
