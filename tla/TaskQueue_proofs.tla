-------------------------- MODULE TaskQueue_proofs --------------------------
(***************************************************************************)
(* Proofs about TaskQueue, for any tasks, workers, batch size, limit of      *)
(* retries and number of faults: who handles a task, how often it ends, and  *)
(* that none is silently lost.                                               *)
(***************************************************************************)
EXTENDS TaskQueue, FiniteSetTheorems, TLAPS

-----------------------------------------------------------------------------
(* The stream *)

Messages == [task : Tasks, retry : 0..RetryLimit]

\* What an xadd does to the log and the stream.
LEMMA XAddFacts ==
  ASSUME log \in Seq(Messages), NEW t \in Tasks, NEW r \in 0..RetryLimit, XAdd(t, r)
  PROVE  /\ log' \in Seq(Messages)
         /\ Len(log') = Len(log) + 1 /\ Len(log) \in Nat
         /\ Entries' = Entries \cup {Len(log) + 1} /\ Len(log) + 1 \notin Entries
         /\ \A i \in Entries : log'[i] = log[i]
         /\ log'[Len(log) + 1] = [task |-> t, retry |-> r]
         /\ stream' = stream \cup {Len(log) + 1}
<1> DEFINE m == [task |-> t, retry |-> r]
<1>1. m \in Messages
  BY DEF Messages
<1>2. log' = Append(log, m) /\ stream' = stream \cup {Len(log) + 1}
  BY DEF XAdd
<1> HIDE DEF m
<1>3. /\ log' \in Seq(Messages) /\ Len(log') = Len(log) + 1 /\ Len(log) \in Nat
      /\ \A i \in 1..Len(log) : log'[i] = log[i]
      /\ log'[Len(log) + 1] = m
  BY <1>1, <1>2
<1>4. Entries' = Entries \cup {Len(log) + 1} /\ Len(log) + 1 \notin Entries
  BY <1>3 DEF Entries
<1> QED
  BY <1>2, <1>3, <1>4 DEF Entries, m

LEMMA LogTyped ==
  ASSUME log \in Seq(Messages), NEW i \in Entries
  PROVE  log[i] \in Messages
BY DEF Entries

LEMMA LimitTyped == \A t \in Tasks : LimitOf(t) \in 0..RetryLimit
BY RetryLimitAssumption DEF LimitOf

-----------------------------------------------------------------------------
(* The batches in the hands of the workers *)

HandOk == /\ DOMAIN hand = Workers
          /\ \A w \in Workers : /\ DOMAIN hand[w] \subseteq Entries
                                /\ hand[w] \in [DOMAIN hand[w] -> Phases]

\* A message moves to another phase.
LEMMA ToFacts ==
  ASSUME HandOk, Entries \subseteq Entries', NEW w \in Workers, NEW i, i \in DOMAIN hand[w],
         NEW phase \in Phases, To(w, i, phase)
  PROVE  /\ HandOk'
         /\ \A v \in Workers : DOMAIN hand'[v] = DOMAIN hand[v]
         /\ \A v \in Workers : \A j, x : (v # w \/ j # i) => (In(v, j, x)' <=> In(v, j, x))
         /\ \A x : In(w, i, x)' <=> x = phase
<1>1. /\ DOMAIN hand' = Workers
      /\ hand'[w] = [hand[w] EXCEPT ![i] = phase]
      /\ \A v \in Workers \ {w} : hand'[v] = hand[v]
  BY DEF To, HandOk
<1>2. /\ DOMAIN hand'[w] = DOMAIN hand[w]
      /\ hand'[w] \in [DOMAIN hand'[w] -> Phases]
      /\ hand'[w][i] = phase
      /\ \A j \in DOMAIN hand[w] \ {i} : hand'[w][j] = hand[w][j]
  BY <1>1 DEF HandOk
<1>3. HandOk'
  BY <1>1, <1>2 DEF HandOk
<1>4. \A v \in Workers : DOMAIN hand'[v] = DOMAIN hand[v]
  BY <1>1, <1>2
<1>5. \A v \in Workers : \A j, x : (v # w \/ j # i) => (In(v, j, x)' <=> In(v, j, x))
  BY <1>1, <1>2 DEF In
<1>6. \A x : In(w, i, x)' <=> x = phase
  BY <1>2 DEF In
<1> QED
  BY <1>3, <1>4, <1>5, <1>6

\* A message is finished.
LEMMA DropFacts ==
  ASSUME HandOk, Entries' = Entries, NEW w \in Workers, NEW i, Drop(w, i)
  PROVE  /\ HandOk'
         /\ \A v \in Workers : \A j, x : In(v, j, x)' => In(v, j, x)
         /\ \A v \in Workers : \A j, x : (v # w \/ j # i) => (In(v, j, x)' <=> In(v, j, x))
         /\ \A x : ~In(w, i, x)'
<1>1. /\ DOMAIN hand' = Workers
      /\ hand'[w] = [j \in DOMAIN hand[w] \ {i} |-> hand[w][j]]
      /\ \A v \in Workers \ {w} : hand'[v] = hand[v]
  BY DEF Drop, HandOk
<1>2. /\ DOMAIN hand'[w] = DOMAIN hand[w] \ {i}
      /\ hand'[w] \in [DOMAIN hand'[w] -> Phases]
      /\ \A j \in DOMAIN hand[w] \ {i} : hand'[w][j] = hand[w][j]
  BY <1>1 DEF HandOk
<1>3. HandOk'
  BY <1>1, <1>2 DEF HandOk
<1>4. \A v \in Workers : \A j, x : (v # w \/ j # i) => (In(v, j, x)' <=> In(v, j, x))
  BY <1>1, <1>2 DEF In
<1>5. \A x : ~In(w, i, x)'
  BY <1>2 DEF In
<1> QED
  BY <1>3, <1>4, <1>5

\* A worker has another batch, in which every message is run, or none.
LEMMA BatchFacts ==
  ASSUME HandOk, Entries' = Entries, NEW w \in Workers, NEW S, S \subseteq Entries,
         hand' = [hand EXCEPT ![w] = [i \in S |-> "run"]]
  PROVE  /\ HandOk'
         /\ \A v \in Workers \ {w} : \A j, x : In(v, j, x)' <=> In(v, j, x)
         /\ \A j, x : In(w, j, x)' <=> j \in S /\ x = "run"
<1>1. /\ DOMAIN hand' = Workers
      /\ hand'[w] = [i \in S |-> "run"]
      /\ \A v \in Workers \ {w} : hand'[v] = hand[v]
  BY DEF HandOk
<1>2. HandOk'
  BY <1>1 DEF HandOk, Phases
<1> QED
  BY <1>1, <1>2 DEF In

LEMMA CrashFacts ==
  ASSUME HandOk, Entries' = Entries, NEW w \in Workers, Crash(w)
  PROVE  /\ HandOk'
         /\ \A v \in Workers \ {w} : \A j, x : In(v, j, x)' <=> In(v, j, x)
         /\ \A j, x : ~In(w, j, x)'
<1> DEFINE S == {}
<1>1. hand' = [hand EXCEPT ![w] = [i \in S |-> "run"]] /\ S \subseteq Entries
  BY DEF Crash, NoBatch
<1>2. \A j : j \notin S
  OBVIOUS
<1> HIDE DEF S
<1> QED
  BY <1>1, <1>2, BatchFacts

\* What a read does.
LEMMA ReadFacts ==
  ASSUME HandOk, stream \subseteq Entries, NEW w \in Workers, Read(w)
  PROVE  \E last \in Fresh, batch \in SUBSET Fresh :
           /\ batch = {i \in Fresh : i <= last}
           /\ lastId' = last /\ pel' = pel \cup (batch \X {w})
           /\ UNCHANGED <<log, stream, group, life, sweep, outcome, faults>> /\ group
           /\ Entries' = Entries
           /\ HandOk'
           /\ \A v \in Workers : v # w => \A j, x : In(v, j, x)' <=> In(v, j, x)
           /\ \A j, x : In(w, j, x)' <=> j \in batch /\ x = "run"
           /\ \A j, x : ~In(w, j, x)
<1> PICK last \in Fresh :
      /\ lastId' = last
      /\ pel' = pel \cup ({i \in Fresh : i <= last} \X {w})
      /\ hand' = [hand EXCEPT ![w] = [i \in {j \in Fresh : j <= last} |-> "run"]]
  BY DEF Read
<1> DEFINE batch == {j \in Fresh : j <= last}
<1>1. batch \in SUBSET Fresh /\ batch \subseteq Entries
  BY DEF Fresh
<1>2. /\ pel' = pel \cup (batch \X {w}) /\ hand' = [hand EXCEPT ![w] = [i \in batch |-> "run"]]
  OBVIOUS
<1>3. UNCHANGED <<log, stream, group, life, sweep, outcome, faults>> /\ group
  BY DEF Read
<1>4. Entries' = Entries
  BY <1>3 DEF Entries
<1>5. batch = {j \in Fresh : j <= last}
  OBVIOUS
<1> HIDE DEF batch
<1>6. /\ HandOk'
      /\ \A v \in Workers \ {w} : \A j, x : In(v, j, x)' <=> In(v, j, x)
      /\ \A j, x : In(w, j, x)' <=> j \in batch /\ x = "run"
  BY <1>1, <1>2, <1>4, BatchFacts
<1>7. \A j, x : ~In(w, j, x)
  BY DEF Read, Idle, In
<1> QED
  BY <1>1, <1>2, <1>3, <1>4, <1>5, <1>6, <1>7

\* What becomes of a message that failed.
LEMMA RaisedFacts ==
  ASSUME HandOk, Entries' = Entries, log \in Seq(Messages), NEW w \in Workers,
         NEW i \in Entries, i \in DOMAIN hand[w], Raised(w, i)
  PROVE  \E x \in {"backoff", "giveUp", "finish"} :
           /\ To(w, i, x)
           /\ x = "backoff" => log[i].retry < LimitOf(log[i].task)
           /\ x = "finish" <=> LimitOf(log[i].task) = 0
<1>1. log[i].task \in Tasks /\ log[i].retry \in Nat
  BY LogTyped DEF Messages
<1>2. LimitOf(log[i].task) \in Nat
  BY <1>1, LimitTyped
<1> QED
  BY <1>1, <1>2 DEF Raised

-----------------------------------------------------------------------------
(* Type correctness *)

Sweeps == [kind : {"none", "reclaim", "delete", "zombies"},
           reclaim : SUBSET Entries, doomed : SUBSET Workers]

Outcomes == [Tasks -> [ok : Nat, gaveUp : Nat]]

LEMMA TypeNamed ==
  TypeOK <=> /\ log \in Seq(Messages)
             /\ stream \subseteq Entries
             /\ group \in BOOLEAN
             /\ lastId \in 0..Len(log)
             /\ pel \subseteq Entries \X Workers
             /\ life \in [Workers -> {"new", "up", "down"}]
             /\ HandOk
             /\ sweep \in Sweeps
             /\ outcome \in Outcomes
             /\ faults \in 0..MaxFaults
BY DEF TypeOK, Messages, HandOk, Sweeps, Outcomes

\* No entry has been retried more often than its task may be, and none that is
\* about to be retried has used up its retries.
RetriesLeft ==
  /\ \A i \in Entries : log[i].retry <= LimitOf(log[i].task)
  /\ \A w \in Workers, i \in Entries :
       In(w, i, "backoff") => log[i].retry < LimitOf(log[i].task)

TypeInv == TypeOK /\ RetriesLeft

LEMMA TypeInit == Init => TypeInv
<1> SUFFICES ASSUME Init PROVE TypeInv
  OBVIOUS
<1>1. log = << >> /\ Entries = {} /\ log \in Seq(Messages) /\ Len(log) = 0
  BY DEF Init, Entries
<1>2. HandOk
  BY <1>1 DEF Init, HandOk, NoBatch
<1>3. sweep \in Sweeps /\ outcome \in Outcomes
  BY DEF Init, Sweeps, NoSweep, Outcomes
<1>4. RetriesLeft
  BY <1>1 DEF RetriesLeft
<1>5. stream \subseteq Entries /\ pel \subseteq Entries \X Workers /\ group \in BOOLEAN
  BY DEF Init
<1>6. lastId \in 0..Len(log) /\ faults \in 0..MaxFaults
  BY <1>1, FaultsAssumption DEF Init
<1>7. life \in [Workers -> {"new", "up", "down"}]
  BY DEF Init
<1> QED
  BY <1>1, <1>2, <1>3, <1>4, <1>5, <1>6, <1>7, TypeNamed DEF TypeInv

LEMMA FaultsTyped ==
  ASSUME faults \in 0..MaxFaults, NoFault \/ \E kind \in EnvEvents : Fault(kind)
  PROVE  faults' \in 0..MaxFaults
BY FaultsAssumption DEF NoFault, Fault

\* What a step must show, with the sets named.
Typed ==
  /\ log' \in Seq(Messages) /\ stream' \subseteq Entries' /\ group' \in BOOLEAN
  /\ lastId' \in 0..Len(log') /\ pel' \subseteq Entries' \X Workers
  /\ life' \in [Workers -> {"new", "up", "down"}] /\ HandOk'
  /\ sweep' \in [kind : {"none", "reclaim", "delete", "zombies"},
                 reclaim : SUBSET Entries', doomed : SUBSET Workers]
  /\ outcome' \in Outcomes /\ faults' \in 0..MaxFaults
  /\ RetriesLeft'

LEMMA TypedIsType == Typed => TypeInv'
BY DEF Typed, TypeInv, TypeOK, Messages, HandOk, Outcomes

\* The steps that leave the log alone and bring no message to a retry.
LEMMA SameLog ==
  ASSUME TypeInv, log' = log,
         \A w \in Workers, i \in Entries :
           In(w, i, "backoff")' => In(w, i, "backoff") \/ log[i].retry < LimitOf(log[i].task)
  PROVE  /\ Entries' = Entries /\ log' \in Seq(Messages) /\ Len(log') = Len(log)
         /\ RetriesLeft'
BY TypeNamed DEF TypeInv, RetriesLeft, Entries

\* A message is handed over, and nothing else is.
LEMMA CountedTyped ==
  ASSUME outcome \in Outcomes, NEW t \in Tasks
  PROVE  /\ [outcome EXCEPT ![t].ok = @ + 1] \in Outcomes
         /\ [outcome EXCEPT ![t].gaveUp = @ + 1] \in Outcomes
BY DEF Outcomes

LEMMA AckDelTyped ==
  ASSUME TypeOK, NEW i, AckDel(i), Entries' = Entries
  PROVE  stream' \subseteq Entries' /\ pel' \subseteq Entries' \X Workers
BY TypeNamed DEF AckDel

LEMMA TypeStep == TypeInv /\ [Next]_vars => TypeInv'
<1> SUFFICES ASSUME TypeInv, [Next]_vars PROVE Typed
  BY TypedIsType
<1>1. /\ log \in Seq(Messages) /\ stream \subseteq Entries /\ group \in BOOLEAN
      /\ lastId \in 0..Len(log) /\ Len(log) \in Nat /\ pel \subseteq Entries \X Workers
      /\ life \in [Workers -> {"new", "up", "down"}] /\ HandOk
      /\ sweep \in Sweeps
      /\ outcome \in Outcomes /\ faults \in 0..MaxFaults
      /\ RetriesLeft /\ TypeOK
  BY TypeNamed DEF TypeInv
<1>2. \A i \in Entries : log[i].task \in Tasks /\ log[i].retry \in 0..RetryLimit
  BY <1>1, LogTyped DEF Messages
<1>3. ASSUME NEW t \in Tasks, Publish(t) PROVE Typed
  <2>1. 0 \in 0..RetryLimit /\ 0 <= LimitOf(t)
    BY RetryLimitAssumption, LimitTyped
  <2>2. /\ log' \in Seq(Messages) /\ Len(log') = Len(log) + 1
        /\ Entries' = Entries \cup {Len(log) + 1} /\ Len(log) + 1 \notin Entries
        /\ \A i \in Entries : log'[i] = log[i]
        /\ log'[Len(log) + 1] = [task |-> t, retry |-> 0]
        /\ stream' = stream \cup {Len(log) + 1}
    BY <1>1, <1>3, <2>1, XAddFacts DEF Publish
  <2>3. HandOk' /\ \A w \in Workers : \A i, x : In(w, i, x)' <=> In(w, i, x)
    BY <1>1, <1>3, <2>2 DEF Publish, HandOk, In
  <2>4. \A w \in Workers : \A i, x : In(w, i, x) => i \in Entries
    BY <1>1 DEF HandOk, In
  <2>5. RetriesLeft'
    BY <1>1, <2>1, <2>2, <2>3, <2>4 DEF RetriesLeft
  <2>6. sweep' \in [kind : {"none", "reclaim", "delete", "zombies"},
                    reclaim : SUBSET Entries', doomed : SUBSET Workers]
    BY <1>1, <1>3, <2>2 DEF Publish, Sweeps
  <2> QED
    BY <1>1, <1>3, <2>2, <2>3, <2>5, <2>6 DEF Publish, Typed
<1>4. ASSUME NEW w \in Workers, Start(w) \/ Regroup(w) PROVE Typed
  <2>1. log' = log /\ hand' = hand /\ sweep' = sweep
    BY <1>4 DEF Start, Regroup
  <2>2. /\ Entries' = Entries /\ log' \in Seq(Messages) /\ Len(log') = Len(log)
        /\ RetriesLeft'
    BY <2>1, SameLog DEF In
  <2>3. HandOk'
    BY <1>1, <2>1, <2>2 DEF HandOk
  <2> QED
    <3>1. /\ group' = TRUE /\ lastId' \in {0, lastId}
          /\ UNCHANGED <<stream, pel, outcome, faults>>
          /\ life' \in [Workers -> {"new", "up", "down"}]
      BY <1>1, <1>4 DEF Start, Regroup, EnsureGroup
    <3> QED
      BY <1>1, <2>1, <2>2, <2>3, <3>1 DEF Sweeps, Typed
<1>5. ASSUME NEW w \in Workers, Read(w) PROVE Typed
  <2> PICK last \in Fresh, batch \in SUBSET Fresh :
        /\ lastId' = last /\ pel' = pel \cup (batch \X {w})
        /\ UNCHANGED <<log, stream, group, life, sweep, outcome, faults>>
        /\ Entries' = Entries /\ HandOk'
        /\ \A v \in Workers : v # w => \A j, x : In(v, j, x)' <=> In(v, j, x)
        /\ \A j, x : In(w, j, x)' <=> j \in batch /\ x = "run"
    BY <1>1, <1>5, ReadFacts
  <2>1. Fresh \subseteq Entries
    BY <1>1 DEF Fresh
  <2>2. \A v \in Workers : \A i, x : In(v, i, x)' => In(v, i, x) \/ x = "run"
    OBVIOUS
  <2>3. /\ Entries' = Entries /\ log' \in Seq(Messages) /\ Len(log') = Len(log)
        /\ RetriesLeft'
    BY <2>2, SameLog
  <2>4. lastId' \in 0..Len(log')
    BY <1>1, <2>1, <2>3 DEF Entries
  <2> QED
    BY <1>1, <2>1, <2>3, <2>4 DEF Sweeps, Typed
<1>6. ASSUME NEW w \in Workers, NEW i \in Entries, MessageStep(w, i),
             NEW x \in Phases, To(w, i, x), i \in DOMAIN hand[w], log' = log,
             stream' \subseteq Entries, pel' \subseteq Entries \X Workers,
             x = "backoff" => log[i].retry < LimitOf(log[i].task)
      PROVE  Typed
  <2>1. Entries' = Entries
    BY <1>6 DEF Entries
  <2>2. /\ HandOk'
        /\ \A v \in Workers : \A j, y : (v # w \/ j # i) => (In(v, j, y)' <=> In(v, j, y))
        /\ \A y : In(w, i, y)' <=> y = x
    BY <1>1, <1>6, <2>1, ToFacts
  <2>3. RetriesLeft' /\ log' \in Seq(Messages) /\ Len(log') = Len(log)
    BY <1>6, <2>2, SameLog
  <2>4. outcome' \in Outcomes
    BY <1>1, <1>2, <1>6, CountedTyped
       DEF MessageStep, HandlerReturns, HandlerRaises, Ack, Republish, GiveUp, Finish
  <2>5. faults' \in 0..MaxFaults
    BY <1>1, <1>6, FaultsTyped
    DEF MessageStep, HandlerReturns, HandlerRaises, Ack, Republish, GiveUp, Finish,
        EnvEvents, NoFault
  <2>6. UNCHANGED <<group, lastId, life, sweep>>
    BY <1>6 DEF MessageStep, HandlerReturns, HandlerRaises, Ack, Republish, GiveUp,
         Finish, redis
  <2> QED
    BY <1>1, <1>6, <2>1, <2>2, <2>3, <2>4, <2>5, <2>6 DEF Typed, Sweeps
<1>7. ASSUME NEW w \in Workers, NEW i \in Entries, HandlerReturns(w, i) \/ GiveUp(w, i) PROVE Typed
  <2>1. MessageStep(w, i) /\ log' = log /\ stream' = stream /\ pel' = pel /\ i \in DOMAIN hand[w]
    BY <1>7 DEF MessageStep, HandlerReturns, GiveUp, redis, In
  <2>2. To(w, i, "ack") \/ To(w, i, "finish")
    BY <1>7 DEF HandlerReturns, GiveUp
  <2> QED
    BY <1>1, <1>6, <2>1, <2>2 DEF Phases
<1>8. ASSUME NEW w \in Workers, NEW i \in Entries, MessageStep(w, i), Raised(w, i),
             i \in DOMAIN hand[w], log' = log,
             stream' \subseteq Entries, pel' \subseteq Entries \X Workers
      PROVE  Typed
  <2>1. Entries' = Entries
    BY <1>8 DEF Entries
  <2>2. PICK x \in {"backoff", "giveUp", "finish"} :
          To(w, i, x) /\ (x = "backoff" => log[i].retry < LimitOf(log[i].task))
    BY <1>1, <1>8, <2>1, RaisedFacts
  <2> QED
    BY <1>6, <1>8, <2>2 DEF Phases
<1>9. ASSUME NEW w \in Workers, NEW i \in Entries, HandlerRaises(w, i) PROVE Typed
  BY <1>1, <1>8, <1>9 DEF HandlerRaises, MessageStep, redis, In
<1>10. ASSUME NEW w \in Workers, NEW i \in Entries, Drop(w, i), log' = log,
              stream' \subseteq Entries, pel' \subseteq Entries \X Workers,
              faults' \in 0..MaxFaults,
              UNCHANGED <<group, lastId, life, sweep, outcome>>
       PROVE  Typed
  <2>1. Entries' = Entries
    BY <1>10 DEF Entries
  <2>2. HandOk' /\ \A v \in Workers : \A j, y : In(v, j, y)' => In(v, j, y)
    BY <1>1, <1>10, <2>1, DropFacts
  <2>3. RetriesLeft' /\ log' \in Seq(Messages) /\ Len(log') = Len(log)
    BY <1>10, <2>2, SameLog
  <2> QED
    BY <1>1, <1>10, <2>1, <2>2, <2>3 DEF Typed, Sweeps
<1>11. ASSUME NEW w \in Workers, NEW i \in Entries, Ack(w, i) \/ Finish(w, i) PROVE Typed
  <2>1. /\ log' = log /\ Entries' = Entries
        /\ stream' \subseteq Entries /\ pel' \subseteq Entries \X Workers
    BY <1>1, <1>11, AckDelTyped DEF Ack, Finish, AckDel, Entries
  <2>2. faults' \in 0..MaxFaults
    BY <1>1, <1>11, FaultsTyped DEF Ack, Finish, EnvEvents
  <2>3. CASE Drop(w, i)
    BY <1>10, <1>11, <2>1, <2>2, <2>3 DEF Ack, Finish
  <2>4. CASE Raised(w, i) /\ Ack(w, i)
    BY <1>8, <2>1, <2>4 DEF MessageStep, Ack, In
  <2> QED
    BY <1>11, <2>3, <2>4 DEF Ack, Finish
<1>12. ASSUME NEW w \in Workers, NEW i \in Entries, Republish(w, i) PROVE Typed
  <2>1. i \in DOMAIN hand[w] /\ In(w, i, "backoff") /\ To(w, i, "finish") /\ MessageStep(w, i)
    BY <1>12 DEF Republish, In, MessageStep
  <2>2. CASE UNCHANGED <<log, stream>>
    BY <1>1, <1>6, <1>12, <2>1, <2>2 DEF Republish, Phases
  <2>3. CASE NoFault /\ XAdd(log[i].task, log[i].retry + 1)
    <3>1. log[i].retry < LimitOf(log[i].task)
      BY <1>1, <2>1 DEF RetriesLeft
    <3>2. log[i].retry + 1 \in 0..RetryLimit /\ log[i].retry + 1 <= LimitOf(log[i].task)
      BY <1>2, <3>1, LimitTyped, RetryLimitAssumption
    <3>3. /\ log' \in Seq(Messages) /\ Len(log') = Len(log) + 1
          /\ Entries' = Entries \cup {Len(log) + 1} /\ Len(log) + 1 \notin Entries
          /\ \A j \in Entries : log'[j] = log[j]
          /\ log'[Len(log) + 1] = [task |-> log[i].task, retry |-> log[i].retry + 1]
          /\ stream' = stream \cup {Len(log) + 1}
      BY <1>1, <1>2, <2>3, <3>2, XAddFacts
    <3>4. /\ HandOk'
          /\ \A v \in Workers : \A j, y : (v # w \/ j # i) => (In(v, j, y)' <=> In(v, j, y))
          /\ \A y : In(w, i, y)' <=> y = "finish"
      BY <1>1, <2>1, <3>3, ToFacts DEF Phases
    <3>5. \A v \in Workers : \A j, y : In(v, j, y) => j \in Entries
      BY <1>1 DEF HandOk, In
    <3>6. RetriesLeft'
      BY <1>1, <3>2, <3>3, <3>4, <3>5 DEF RetriesLeft
    <3>7. sweep' \in [kind : {"none", "reclaim", "delete", "zombies"},
                      reclaim : SUBSET Entries', doomed : SUBSET Workers]
      BY <1>1, <1>12, <3>3 DEF Republish, Sweeps
    <3>8. faults' \in 0..MaxFaults
      BY <1>1, <2>3, FaultsTyped
    <3> QED
      BY <1>1, <1>12, <3>3, <3>4, <3>6, <3>7, <3>8 DEF Republish, Typed
  <2> QED
    BY <1>12, <2>2, <2>3 DEF Republish
<1>13. ASSUME NEW w \in Workers, Crash(w) PROVE Typed
  <2>1. log' = log /\ Entries' = Entries /\ UNCHANGED redis
    BY <1>13 DEF Crash, redis, Entries
  <2>2. HandOk' /\ \A v \in Workers : \A j, y : In(v, j, y)' => In(v, j, y)
    BY <1>1, <1>13, <2>1, CrashFacts
  <2>3. RetriesLeft' /\ log' \in Seq(Messages) /\ Len(log') = Len(log)
    BY <2>1, <2>2, SameLog
  <2>4. faults' \in 0..MaxFaults
    BY <1>1, <1>13, FaultsTyped DEF Crash, EnvEvents
  <2> QED
    BY <1>1, <1>13, <2>1, <2>2, <2>3, <2>4 DEF Crash, redis, Typed, Sweeps
<1>14. ASSUME log' = log, hand' = hand, life' = life, outcome' = outcome, faults' \in 0..MaxFaults,
              stream' \subseteq stream, pel' \subseteq pel, lastId' \in {0, lastId},
              group' \in BOOLEAN, sweep' \in Sweeps
       PROVE  Typed
  <2>1. Entries' = Entries
    BY <1>14 DEF Entries
  <2>2. HandOk'
    BY <1>1, <1>14, <2>1 DEF HandOk
  <2>3. RetriesLeft' /\ log' \in Seq(Messages) /\ Len(log') = Len(log)
    BY <1>14, SameLog DEF In
  <2> QED
    BY <1>1, <1>14, <2>1, <2>2, <2>3 DEF Typed, Sweeps
<1>15. CASE LoseGroup
  <2>1. faults' \in 0..MaxFaults
    BY <1>1, <1>15, FaultsTyped DEF LoseGroup, EnvEvents
  <2> QED
    BY <1>1, <1>14, <1>15, <2>1 DEF LoseGroup
<1>16. CASE TrimStream
  <2>1. faults' \in 0..MaxFaults
    BY <1>1, <1>16, FaultsTyped DEF TrimStream, EnvEvents
  <2> QED
    BY <1>1, <1>14, <1>16, <2>1 DEF TrimStream
<1>17. ASSUME NEW kind \in {"reclaim", "delete", "zombies"}, NEW R \in SUBSET Entries,
              NEW D \in SUBSET Workers, BeginSweep(kind, R, D)
       PROVE  Typed
  <2>1. faults' \in 0..MaxFaults
    BY <1>1, <1>17, FaultsTyped DEF BeginSweep, EnvEvents
  <2>2. sweep' \in Sweeps
    BY <1>17 DEF BeginSweep, Sweeps
  <2> QED
    BY <1>1, <1>14, <1>17, <2>1, <2>2 DEF BeginSweep, redis
<1>18. CASE ReclaimStuck
  <2>1. \A S \in SUBSET {p[1] : p \in {q \in pel : Stale(q[2])}} : S \in SUBSET Entries
    BY <1>1
  <2> QED
    BY <1>17, <1>18, <2>1 DEF ReclaimStuck
<1>19. ASSUME NEW w \in Workers, DeleteConsumer(w) PROVE Typed
  <2>1. Pending(w) \in SUBSET Entries
    BY DEF Pending
  <2> QED
    BY <1>17, <1>19, <2>1 DEF DeleteConsumer
<1>20. CASE CleanupZombies
  BY <1>17, <1>20 DEF CleanupZombies
<1>21. ASSUME NEW i \in Entries, SweepAck(i) PROVE Typed
  <2>1. NoSweep \in Sweeps /\ [sweep EXCEPT !.reclaim = @ \ {i}] \in Sweeps
    BY <1>1 DEF NoSweep, Sweeps
  <2>2. sweep' \in Sweeps
    BY <1>21, <2>1 DEF SweepAck
  <2> QED
    BY <1>1, <1>14, <1>21, <2>2 DEF SweepAck, AckDel
<1>22. ASSUME NEW w \in Workers, SweepDelete(w) PROVE Typed
  <2>1. NoSweep \in Sweeps /\ [sweep EXCEPT !.doomed = @ \ {w}] \in Sweeps
    BY <1>1 DEF NoSweep, Sweeps
  <2>2. sweep' \in Sweeps
    BY <1>22, <2>1 DEF SweepDelete
  <2> QED
    BY <1>1, <1>14, <1>22, <2>2 DEF SweepDelete
<1>23. CASE UNCHANGED vars
  BY <1>1, <1>14, <1>23 DEF vars, redis
<1> QED
  BY <1>3, <1>4, <1>5, <1>7, <1>9, <1>11, <1>12, <1>13, <1>15, <1>16, <1>18, <1>19, <1>20,
     <1>21, <1>22, <1>23
  DEF Next, WorkerStep, MessageStep, SweepStep

-----------------------------------------------------------------------------
(* One handler per task *)

GroupStarts == ~group => lastId = 0

\* What is in the hands of a worker is not read again ...
HeldIsOld == \A w \in Workers : \A i \in Fresh : \A x \in Phases : ~In(w, i, x)

\* ... nor held by another one.
OneHolder == \A w, v \in Workers : \A i \in Entries : \A x, y \in Phases :
               In(w, i, x) /\ In(v, i, y) => w = v

\* An entry that is still to be handled, or in the hands of a worker that has more
\* to do than to acknowledge it for the last time.
Alive(i) == i \in Fresh \/ \E w \in Workers : \E x \in Phases \ {"finish"} : In(w, i, x)

OneAlive == \A i, j \in Entries : Alive(i) /\ Alive(j) /\ log[i].task = log[j].task => i = j

QueueInv == TypeInv /\ GroupStarts /\ HeldIsOld /\ OneHolder /\ OneAlive

LEMMA HeldTyped ==
  ASSUME HandOk, NEW w \in Workers, NEW i, NEW x, In(w, i, x)
  PROVE  i \in Entries /\ x \in Phases /\ i \in DOMAIN hand[w]
BY DEF HandOk, In

\* A step that adds no entry, makes none readable again, and gives no worker a
\* message it did not have or had finished.
Shrinking ==
  /\ log' = log /\ GroupStarts' /\ Fresh' \subseteq Fresh
  /\ \A w \in Workers : \A i \in Entries : \A x \in Phases :
       In(w, i, x)' => \E y \in Phases : In(w, i, y) /\ (y = "finish" => x = "finish")

\* The step that publishes a retry.
Retries(w, i) == Republish(w, i) /\ XAdd(log[i].task, log[i].retry + 1)

LEMMA Shrinks ==
  ASSUME QueueInv, "destroy" \notin Env, [Next]_vars,
         \A t \in Tasks : ~Publish(t), \A w \in Workers : ~Read(w),
         \A w \in Workers : \A i \in Entries : ~Retries(w, i)
  PROVE  Shrinking
<1>1. /\ HandOk /\ log \in Seq(Messages) /\ stream \subseteq Entries /\ lastId \in Nat
      /\ GroupStarts
  BY TypeNamed DEF QueueInv, TypeInv
<1>2. ASSUME log' = log, UNCHANGED <<lastId, group>>, stream' \subseteq stream,
             \A w \in Workers : \A i \in Entries : \A x \in Phases :
               In(w, i, x)' => \E y \in Phases : In(w, i, y) /\ (y = "finish" => x = "finish")
      PROVE  Shrinking
  BY <1>1, <1>2 DEF Shrinking, GroupStarts, Fresh
<1>3. ASSUME hand' = hand
      PROVE  \A w \in Workers : \A i \in Entries : \A x \in Phases :
               In(w, i, x)' => \E y \in Phases : In(w, i, y) /\ (y = "finish" => x = "finish")
  BY <1>3 DEF In
<1>4. ASSUME NEW w \in Workers, NEW i \in Entries, NEW x \in Phases, To(w, i, x), log' = log,
             \E y \in Phases \ {"finish"} : In(w, i, y)
      PROVE  \A v \in Workers : \A j \in Entries : \A z \in Phases :
               In(v, j, z)' => \E y \in Phases : In(v, j, y) /\ (y = "finish" => z = "finish")
  <2>1. Entries' = Entries /\ i \in DOMAIN hand[w]
    BY <1>4 DEF Entries, In
  <2>2. \A v \in Workers : \A j, y : (v # w \/ j # i) => (In(v, j, y)' <=> In(v, j, y))
    BY <1>1, <1>4, <2>1, ToFacts
  <2> QED
    BY <1>4, <2>2
<1>5. ASSUME NEW w \in Workers, NEW i \in Entries, Drop(w, i), log' = log
      PROVE  \A v \in Workers : \A j \in Entries : \A z \in Phases :
               In(v, j, z)' => \E y \in Phases : In(v, j, y) /\ (y = "finish" => z = "finish")
  <2>1. Entries' = Entries
    BY <1>5 DEF Entries
  <2>2. \A v \in Workers : \A j, y : In(v, j, y)' => In(v, j, y)
    BY <1>1, <1>5, <2>1, DropFacts
  <2> QED
    BY <2>2
<1>6. ASSUME NEW w \in Workers, Start(w) \/ Regroup(w) PROVE Shrinking
  <2>1. log' = log /\ stream' = stream /\ hand' = hand /\ group' = TRUE
    BY <1>6 DEF Start, Regroup, EnsureGroup
  <2>2. lastId' = lastId
    BY <1>1, <1>6 DEF Start, Regroup, EnsureGroup, GroupStarts
  <2> QED
    BY <1>3, <2>1, <2>2 DEF Shrinking, GroupStarts, Fresh
<1>7. ASSUME NEW w \in Workers, NEW i \in Entries, HandlerReturns(w, i) \/ GiveUp(w, i)
      PROVE  Shrinking
  <2>1. \E x \in Phases : To(w, i, x)
    BY <1>7 DEF HandlerReturns, GiveUp, Phases
  <2>2. \E y \in Phases \ {"finish"} : In(w, i, y)
    BY <1>7 DEF HandlerReturns, GiveUp, Phases
  <2>3. log' = log /\ UNCHANGED <<lastId, group, stream>>
    BY <1>7 DEF HandlerReturns, GiveUp, redis
  <2> QED
    BY <1>2, <1>4, <2>1, <2>2, <2>3
<1>8. ASSUME NEW w \in Workers, NEW i \in Entries, HandlerRaises(w, i) \/ (Ack(w, i) /\ Raised(w, i))
      PROVE  Shrinking
  <2>1. log' = log /\ UNCHANGED <<lastId, group>> /\ stream' \subseteq stream
    BY <1>8 DEF HandlerRaises, Ack, AckDel, redis
  <2>2. \E y \in Phases \ {"finish"} : In(w, i, y)
    BY <1>8 DEF HandlerRaises, Ack, Phases
  <2>3. Raised(w, i) /\ Entries' = Entries /\ i \in DOMAIN hand[w]
    BY <1>8, <2>1, <2>2 DEF HandlerRaises, Entries, In
  <2>4. \E x \in Phases : To(w, i, x)
    BY <1>1, <2>3, RaisedFacts DEF Phases
  <2> QED
    BY <1>2, <1>4, <2>1, <2>2, <2>4
<1>9. ASSUME NEW w \in Workers, NEW i \in Entries, (Ack(w, i) /\ Drop(w, i)) \/ Finish(w, i)
      PROVE  Shrinking
  <2>1. log' = log /\ UNCHANGED <<lastId, group>> /\ stream' \subseteq stream /\ Drop(w, i)
    BY <1>9 DEF Ack, Finish, AckDel
  <2> QED
    BY <1>2, <1>5, <2>1
<1>10. ASSUME NEW w \in Workers, NEW i \in Entries, Republish(w, i), ~Retries(w, i) PROVE Shrinking
  <2>1. log' = log /\ UNCHANGED <<lastId, group, stream>>
    BY <1>10 DEF Republish, Retries
  <2>2. To(w, i, "finish") /\ In(w, i, "backoff")
    BY <1>10 DEF Republish
  <2>3. "finish" \in Phases /\ "backoff" \in Phases \ {"finish"}
    BY DEF Phases
  <2> QED
    BY <1>2, <1>4, <2>1, <2>2, <2>3
<1>11. ASSUME NEW w \in Workers, Crash(w) PROVE Shrinking
  <2>1. log' = log /\ UNCHANGED <<lastId, group, stream>> /\ Entries' = Entries
    BY <1>11 DEF Crash, redis, Entries
  <2>2. \A v \in Workers : \A j, x : In(v, j, x)' => In(v, j, x)
    BY <1>1, <1>11, <2>1, CrashFacts
  <2> QED
    BY <1>2, <2>1, <2>2
<1>12. CASE LoseGroup
  <2>1. log' = log /\ hand' = hand /\ stream' = {} /\ lastId' = 0
    BY <1>12 DEF LoseGroup, Fault
  <2> QED
    BY <1>3, <2>1 DEF Shrinking, GroupStarts, Fresh
<1>13. ASSUME log' = log, hand' = hand, UNCHANGED <<lastId, group>>, stream' \subseteq stream
       PROVE  Shrinking
  BY <1>2, <1>3, <1>13
<1>14. CASE TrimStream \/ UNCHANGED vars
  BY <1>13, <1>14 DEF TrimStream, vars, redis
<1>15. CASE ReclaimStuck \/ CleanupZombies \/ \E w \in Workers : DeleteConsumer(w)
  BY <1>13, <1>15 DEF ReclaimStuck, CleanupZombies, DeleteConsumer, BeginSweep, redis
<1>16. CASE SweepStep
  BY <1>13, <1>16 DEF SweepStep, SweepAck, SweepDelete, AckDel
<1>17. ASSUME NEW w \in Workers, NEW i \in Entries, MessageStep(w, i) PROVE Shrinking
  <2>1. Ack(w, i) => Drop(w, i) \/ Raised(w, i)
    BY DEF Ack
  <2> QED
    BY <1>7, <1>8, <1>9, <1>10, <1>17, <2>1 DEF MessageStep
<1> QED
  BY <1>6, <1>11, <1>12, <1>14, <1>15, <1>16, <1>17 DEF Next, WorkerStep

LEMMA QueueStep ==
  ASSUME QueueInv, "destroy" \notin Env, [Next]_vars
  PROVE  QueueInv'
<1>1. /\ TypeInv /\ TypeInv' /\ HandOk /\ log \in Seq(Messages) /\ stream \subseteq Entries
      /\ lastId \in 0..Len(log) /\ Len(log) \in Nat
      /\ GroupStarts /\ HeldIsOld /\ OneHolder /\ OneAlive
  BY TypeStep, TypeNamed DEF QueueInv, TypeInv
<1>2. CASE Shrinking
  <2>1. Entries' = Entries /\ log' = log /\ Fresh' \subseteq Fresh /\ Fresh \subseteq Entries
    BY <1>1, <1>2 DEF Shrinking, Entries, Fresh
  <2>2. \A w \in Workers : \A i \in Entries : \A x \in Phases :
          In(w, i, x)' => \E y \in Phases : In(w, i, y) /\ (y = "finish" => x = "finish")
    BY <1>2 DEF Shrinking
  <2>3. HeldIsOld'
    BY <1>1, <2>1, <2>2 DEF HeldIsOld
  <2>4. OneHolder'
    BY <1>1, <2>1, <2>2 DEF OneHolder
  <2>5. \A i \in Entries : Alive(i)' => Alive(i)
    BY <2>1, <2>2 DEF Alive
  <2>6. OneAlive'
    BY <1>1, <2>1, <2>5 DEF OneAlive
  <2> QED
    BY <1>1, <1>2, <2>3, <2>4, <2>6 DEF QueueInv, Shrinking
<1>3. ASSUME NEW w \in Workers, Read(w) PROVE QueueInv'
  <2> PICK last \in Fresh, batch \in SUBSET Fresh :
        /\ batch = {i \in Fresh : i <= last}
        /\ lastId' = last /\ pel' = pel \cup (batch \X {w})
        /\ UNCHANGED <<log, stream, group, life, sweep, outcome, faults>> /\ group
        /\ Entries' = Entries
        /\ HandOk'
        /\ \A v \in Workers : v # w => \A j, x : In(v, j, x)' <=> In(v, j, x)
        /\ \A j, x : In(w, j, x)' <=> j \in batch /\ x = "run"
        /\ \A j, x : ~In(w, j, x)
    BY <1>1, <1>3, ReadFacts
  <2>1. Fresh' = Fresh \ batch /\ Fresh \subseteq Entries
    <3>1. Fresh' = {i \in stream : i > last} /\ \A i \in stream : i \in Int
      BY <1>1 DEF Fresh, Entries
    <3>2. Fresh = {i \in stream : i > lastId} /\ last \in Int /\ last > lastId /\ lastId \in Int
      BY <1>1 DEF Fresh, Entries
    <3>3. \A i \in stream : i > last <=> i > lastId /\ ~(i <= last)
      BY <3>1, <3>2
    <3>4. Fresh' = Fresh \ batch
      BY <3>1, <3>2, <3>3
    <3> QED
      BY <1>1, <3>2, <3>4
  <2>2. GroupStarts'
    BY DEF GroupStarts
  <2>3. HeldIsOld'
    BY <1>1, <2>1 DEF HeldIsOld
  <2>4. OneHolder'
    BY <1>1 DEF OneHolder, HeldIsOld
  <2>5. \A i \in Entries : Alive(i)' => Alive(i)
    BY <2>1 DEF Alive
  <2>6. OneAlive'
    BY <1>1, <2>5 DEF OneAlive
  <2> QED
    BY <1>1, <2>2, <2>3, <2>4, <2>6 DEF QueueInv
<1>4. ASSUME NEW t \in Tasks, NEW r \in 0..RetryLimit, XAdd(t, r), UNCHANGED <<group, lastId>>,
             \A v \in Workers : \A j \in Entries : \A x \in Phases :
               In(v, j, x)' => \E y \in Phases : In(v, j, y) /\ (y = "finish" => x = "finish"),
             \A v \in Workers : \A j, x : In(v, j, x)' => j \in Entries,
             \A j \in Entries : Alive(j)' => Alive(j) /\ log[j].task # t
      PROVE  QueueInv'
  <2>1. /\ Entries' = Entries \cup {Len(log) + 1} /\ Len(log) + 1 \notin Entries
        /\ \A j \in Entries : log'[j] = log[j]
        /\ log'[Len(log) + 1] = [task |-> t, retry |-> r]
        /\ stream' = stream \cup {Len(log) + 1}
    BY <1>1, <1>4, XAddFacts
  <2>2. GroupStarts'
    BY <1>1, <1>4 DEF GroupStarts
  <2>3. Fresh' = Fresh \cup {Len(log) + 1} /\ Fresh \subseteq Entries
    BY <1>1, <1>4, <2>1 DEF Fresh
  <2>4. HeldIsOld'
    <3> SUFFICES ASSUME NEW w \in Workers, NEW i \in Fresh', NEW x \in Phases, In(w, i, x)'
                 PROVE  FALSE
      BY DEF HeldIsOld
    <3>1. i \in Fresh /\ i \in Entries
      BY <1>4, <2>1, <2>3
    <3>2. PICK y \in Phases : In(w, i, y)
      BY <1>4, <3>1
    <3> QED
      BY <1>1, <3>1, <3>2 DEF HeldIsOld
  <2>5. OneHolder'
    <3> SUFFICES ASSUME NEW w \in Workers, NEW v \in Workers, NEW i \in Entries', NEW x \in Phases,
                        NEW y \in Phases, In(w, i, x)', In(v, i, y)'
                 PROVE  w = v
      BY DEF OneHolder
    <3>1. i \in Entries
      BY <1>4, <2>1
    <3>2. (\E z \in Phases : In(w, i, z)) /\ \E z \in Phases : In(v, i, z)
      BY <1>4, <3>1
    <3> QED
      BY <1>1, <3>1, <3>2 DEF OneHolder
  <2>6. OneAlive'
    BY <1>1, <1>4, <2>1 DEF OneAlive
  <2> QED
    BY <1>1, <2>2, <2>4, <2>5, <2>6 DEF QueueInv
<1>5. \A v \in Workers : \A j, x : In(v, j, x) => j \in Entries
  BY <1>1 DEF HandOk, In
<1>6. ASSUME NEW t \in Tasks, Publish(t) PROVE QueueInv'
  <2>1. 0 \in 0..RetryLimit /\ hand' = hand
    BY <1>6, RetryLimitAssumption DEF Publish
  <2>2. /\ Entries' = Entries \cup {Len(log) + 1} /\ Len(log) + 1 \notin Entries
        /\ stream' = stream \cup {Len(log) + 1}
    BY <1>1, <1>6, <2>1, XAddFacts DEF Publish
  <2>3. \A j \in Entries : Alive(j)' => Alive(j)
    BY <1>6, <2>1, <2>2 DEF Alive, Publish, Fresh, In
  <2>4. \A v \in Workers : \A j, x : In(v, j, x)' <=> In(v, j, x)
    BY <2>1 DEF In
  <2>5. \A j \in Entries : Alive(j)' => Alive(j) /\ log[j].task # t
    BY <1>6, <2>3 DEF Publish
  <2>6. \A v \in Workers : \A j, x : In(v, j, x)' => j \in Entries
    BY <1>5, <2>4
  <2>7. \A v \in Workers : \A j \in Entries : \A x \in Phases :
          In(v, j, x)' => \E y \in Phases : In(v, j, y) /\ (y = "finish" => x = "finish")
    BY <2>4
  <2>8. XAdd(t, 0) /\ UNCHANGED <<group, lastId>>
    BY <1>6 DEF Publish
  <2> QED
    BY <1>4, <2>1, <2>5, <2>6, <2>7, <2>8
<1>7. ASSUME NEW w \in Workers, NEW i \in Entries, Retries(w, i) PROVE QueueInv'
  <2>1. In(w, i, "backoff") /\ i \in DOMAIN hand[w] /\ log[i].task \in Tasks
    BY <1>1, <1>7, LogTyped DEF Retries, Republish, In, Messages
  <2>2. log[i].retry + 1 \in 0..RetryLimit
    <3>1. log[i].retry \in Nat /\ log[i].retry < LimitOf(log[i].task)
      BY <1>1, <2>1, LogTyped DEF TypeInv, RetriesLeft, Messages
    <3> QED
      BY <2>1, <3>1, LimitTyped, RetryLimitAssumption
  <2>3. /\ Entries' = Entries \cup {Len(log) + 1} /\ Len(log) + 1 \notin Entries
        /\ stream' = stream \cup {Len(log) + 1}
    BY <1>1, <1>7, <2>1, <2>2, XAddFacts DEF Retries
  <2>4. /\ \A v \in Workers : \A j, x : (v # w \/ j # i) => (In(v, j, x)' <=> In(v, j, x))
        /\ \A x : In(w, i, x)' <=> x = "finish"
    BY <1>1, <1>7, <2>1, <2>3, ToFacts DEF Retries, Republish, Phases
  <2>5. Fresh' \cap Entries = Fresh
    BY <1>1, <1>7, <2>3 DEF Retries, Republish, Fresh
  <2>6. "backoff" \in Phases \ {"finish"}
    BY DEF Phases
  <2>7. \A j \in Entries : Alive(j)' => Alive(j) /\ j # i
    <3>1. ~Alive(i)'
      BY <1>1, <2>1, <2>4, <2>5, <2>6 DEF Alive, HeldIsOld, OneHolder
    <3>2. \A j \in Entries \ {i} : Alive(j)' => Alive(j)
      BY <2>4, <2>5 DEF Alive
    <3> QED
      BY <3>1, <3>2
  <2>8. Alive(i)
    BY <2>1, <2>6 DEF Alive
  <2>9. \A j \in Entries : Alive(j)' => Alive(j) /\ log[j].task # log[i].task
    BY <1>1, <2>7, <2>8 DEF OneAlive
  <2>10. \A v \in Workers : \A j \in Entries : \A x \in Phases :
           In(v, j, x)' => \E y \in Phases : In(v, j, y) /\ (y = "finish" => x = "finish")
    BY <2>1, <2>4, <2>6
  <2>11. \A v \in Workers : \A j, x : In(v, j, x)' => j \in Entries
    BY <1>5, <2>4
  <2> QED
    BY <1>4, <1>7, <2>1, <2>2, <2>9, <2>10, <2>11 DEF Retries, Republish
<1> QED
  BY <1>2, <1>3, <1>6, <1>7, Shrinks

LEMMA QueueInit == Init => QueueInv
<1> SUFFICES ASSUME Init PROVE QueueInv
  OBVIOUS
<1>1. TypeInv /\ Entries = {} /\ stream = {} /\ lastId = 0
  BY TypeInit DEF Init, Entries
<1> QED
  BY <1>1 DEF QueueInv, GroupStarts, HeldIsOld, OneHolder, OneAlive, Fresh

\* Unless the consumer group is destroyed under its consumers, two handlers never
\* run the same task at a time, whatever is swept, trimmed or flushed and whoever
\* dies; and no task is retried more often than its limit.
THEOREM OneHandler ==
  ASSUME "destroy" \notin Env
  PROVE  Spec => []HandlersInv
<1>1. QueueInv => HandlersInv
  <2> SUFFICES ASSUME QueueInv, NEW g \in Handling, NEW h \in Handling,
                      hand[g[1]][g[2]] = "run", hand[h[1]][h[2]] = "run",
                      log[g[2]].task = log[h[2]].task
               PROVE  g = h
    BY DEF HandlersInv, OneHandlerPerTask, QueueInv, TypeInv
  <2>1. /\ g = <<g[1], g[2]>> /\ g[1] \in Workers /\ g[2] \in Entries
        /\ h = <<h[1], h[2]>> /\ h[1] \in Workers /\ h[2] \in Entries
        /\ In(g[1], g[2], "run") /\ In(h[1], h[2], "run")
    BY DEF Handling, In
  <2>2. "run" \in Phases \ {"finish"}
    BY DEF Phases
  <2>3. Alive(g[2]) /\ Alive(h[2])
    BY <2>1, <2>2 DEF Alive
  <2>4. g[2] = h[2]
    BY <2>1, <2>3 DEF QueueInv, OneAlive
  <2>5. g[1] = h[1]
    BY <2>1, <2>2, <2>4 DEF QueueInv, OneHolder
  <2> QED
    BY <2>1, <2>4, <2>5
<1>2. QueueInv /\ [Next]_vars => QueueInv'
  BY QueueStep
<1> QED
  BY <1>1, <1>2, QueueInit, PTL DEF Spec

-----------------------------------------------------------------------------
(* One outcome per task *)

Counted(t) == outcome[t].ok + outcome[t].gaveUp

\* An entry whose handler has yet to say how it ends.
Open(i) == i \in Fresh \/ \E w \in Workers : \E x \in {"run", "backoff", "giveUp"} : In(w, i, x)

\* A task has one outcome, and none while an entry of it is open.
OutcomeInv == /\ \A i \in Entries : Open(i) => Counted(log[i].task) = 0
              /\ \A t \in Tasks : Counted(t) <= 1 /\ (Counted(t) > 0 => t \in Published)

\* The faults that let a handler that succeeded run again.
NoRepeat == Env \cap {"destroy", "ack"} = {}

\* The invariant in the next state, for the steps that leave the log alone.
LEMMA OutcomeNext ==
  ASSUME log \in Seq(Messages), log' = log, Entries' = Entries,
         \A j \in Entries : Open(j)' => \A t \in Tasks : t = log[j].task => Counted(t)' = 0,
         \A t \in Tasks : Counted(t)' <= 1 /\ (Counted(t)' > 0 => t \in Published')
  PROVE  OutcomeInv'
<1>1. \A j \in Entries : log[j].task \in Tasks
  BY LogTyped DEF Messages
<1> QED
  BY <1>1 DEF OutcomeInv, Counted

\* The steps that open no entry and count nothing.
LEMMA NoOutcome ==
  ASSUME QueueInv, OutcomeInv, log' = log, outcome' = outcome, Fresh' \subseteq Fresh,
         \A w \in Workers : \A i \in Entries : \A x \in {"run", "backoff", "giveUp"} :
           In(w, i, x)' => i \in Fresh \/ \E y \in {"run", "backoff", "giveUp"} : In(w, i, y)
  PROVE  OutcomeInv'
<1>1. Entries' = Entries /\ Published' = Published
  BY DEF Entries, Published
<1>2. \A i \in Entries : Open(i)' => Open(i)
  BY DEF Open
<1> QED
  BY <1>1, <1>2 DEF OutcomeInv, Counted

\* The step of a handler that says how its task ends.
LEMMA SaysOutcome ==
  ASSUME QueueInv, OutcomeInv, NEW w \in Workers, NEW i \in Entries,
         NEW x \in {"run", "backoff", "giveUp"}, In(w, i, x),
         NEW y \in {"ack", "finish"}, To(w, i, y), log' = log, Fresh' = Fresh,
         \/ outcome' = [outcome EXCEPT ![log[i].task].ok = @ + 1]
         \/ outcome' = [outcome EXCEPT ![log[i].task].gaveUp = @ + 1]
  PROVE  OutcomeInv'
<1>1. /\ HandOk /\ log \in Seq(Messages) /\ HeldIsOld /\ OneHolder /\ OneAlive
      /\ outcome \in Outcomes
  BY TypeNamed DEF QueueInv, TypeInv
<1>2. Entries' = Entries /\ Published' = Published /\ i \in DOMAIN hand[w]
      /\ log[i].task \in Tasks /\ log[i].task \in Published
  BY <1>1, LogTyped DEF Entries, Published, In, Messages
<1>3. /\ \A v \in Workers : \A j, z : (v # w \/ j # i) => (In(v, j, z)' <=> In(v, j, z))
      /\ \A z : In(w, i, z)' <=> z = y
  BY <1>1, <1>2, ToFacts DEF Phases
<1> PICK k \in Tasks : k = log[i].task
  BY <1>2
<1>4. (\A t \in Tasks \ {k} : Counted(t)' = Counted(t)) /\ Counted(k)' = Counted(k) + 1
  <2>1. \/ outcome' = [outcome EXCEPT ![k].ok = @ + 1]
        \/ outcome' = [outcome EXCEPT ![k].gaveUp = @ + 1]
    OBVIOUS
  <2>2. \A t \in Tasks : outcome[t].ok \in Nat /\ outcome[t].gaveUp \in Nat
    BY <1>1 DEF Outcomes
  <2>3. \A t \in Tasks \ {k} : outcome'[t] = outcome[t]
    BY <1>1, <2>1 DEF Outcomes
  <2>4. outcome'[k].ok + outcome'[k].gaveUp = outcome[k].ok + outcome[k].gaveUp + 1
    <3>1. CASE outcome' = [outcome EXCEPT ![k].ok = @ + 1]
      BY <1>1, <2>2, <3>1 DEF Outcomes
    <3>2. CASE outcome' = [outcome EXCEPT ![k].gaveUp = @ + 1]
      BY <1>1, <2>2, <3>2 DEF Outcomes
    <3> QED
      BY <2>1, <3>1, <3>2
  <2> QED
    BY <2>3, <2>4 DEF Counted
<1>5. Open(i) /\ Counted(log[i].task) = 0
  BY DEF Open, OutcomeInv
<1>6. \A j \in Entries : Open(j) => Alive(j)
  BY DEF Open, Alive, Phases
<1>7. ~Open(i)'
  <2>1. i \notin Fresh
    BY <1>1, <1>3 DEF HeldIsOld, Phases
  <2>2. \A v \in Workers : \A z \in {"run", "backoff", "giveUp"} : ~In(v, i, z)'
    BY <1>1, <1>3 DEF OneHolder, Phases
  <2> QED
    BY <2>1, <2>2 DEF Open
<1>8. \A j \in Entries : Open(j)' => Open(j) /\ j # i
  <2>1. \A j \in Entries \ {i} : Open(j)' => Open(j)
    BY <1>3 DEF Open
  <2> QED
    BY <1>7, <2>1
<1>9. \A j \in Entries : Open(j)' => Open(j) /\ log[j].task # log[i].task
  BY <1>1, <1>5, <1>6, <1>8 DEF OneAlive
<1>10. ASSUME NEW j \in Entries, Open(j)', NEW t \in Tasks, t = log[j].task PROVE Counted(t)' = 0
  <2>1. t \in Tasks \ {k} /\ Counted(t) = 0
    BY <1>9, <1>10 DEF OutcomeInv
  <2> QED
    BY <1>4, <2>1
<1>11. \A j \in Entries : Open(j)' => \A t \in Tasks : t = log[j].task => Counted(t)' = 0
  BY <1>10
<1>12. \A t \in Tasks : Counted(t)' <= 1 /\ (Counted(t)' > 0 => t \in Published')
  BY <1>2, <1>4, <1>5 DEF OutcomeInv
<1> QED
  BY <1>1, <1>2, <1>11, <1>12, OutcomeNext

LEMMA OutcomeStep ==
  ASSUME QueueInv, OutcomeInv, NoRepeat, [Next]_vars
  PROVE  OutcomeInv'
<1>1. /\ TypeInv /\ HandOk /\ log \in Seq(Messages) /\ stream \subseteq Entries
      /\ lastId \in 0..Len(log) /\ Len(log) \in Nat
  BY TypeNamed DEF QueueInv, TypeInv
<1>2. "destroy" \notin Env /\ \A w \in Workers, i \in Entries : Ack(w, i) => Drop(w, i) /\ AckDel(i)
  BY DEF NoRepeat, Ack, Fault
<1>3. \A i \in Entries : log[i].task \in Tasks
  BY <1>1, LogTyped DEF Messages
<1>4. ASSUME Shrinking, outcome' = outcome,
             \A w \in Workers : \A i \in Entries : \A x \in {"run", "backoff", "giveUp"} :
               In(w, i, x)' => \E y \in {"run", "backoff", "giveUp"} : In(w, i, y)
      PROVE  OutcomeInv'
  BY <1>4, NoOutcome DEF Shrinking
<1>5. ASSUME hand' = hand, outcome' = outcome, Shrinking PROVE OutcomeInv'
  BY <1>4, <1>5 DEF In
<1>6. ASSUME NEW w \in Workers, Read(w) PROVE OutcomeInv'
  <2> PICK last \in Fresh, batch \in SUBSET Fresh :
        /\ batch = {i \in Fresh : i <= last}
        /\ lastId' = last /\ pel' = pel \cup (batch \X {w})
        /\ UNCHANGED <<log, stream, group, life, sweep, outcome, faults>> /\ group
        /\ Entries' = Entries
        /\ HandOk'
        /\ \A v \in Workers : v # w => \A j, x : In(v, j, x)' <=> In(v, j, x)
        /\ \A j, x : In(w, j, x)' <=> j \in batch /\ x = "run"
        /\ \A j, x : ~In(w, j, x)
    BY <1>1, <1>6, ReadFacts
  <2>1. last > lastId /\ last \in Int /\ lastId \in Int /\ \A i \in stream : i \in Int
    BY <1>1 DEF Fresh, Entries
  <2>2. Fresh' = {i \in stream : i > last}
    BY DEF Fresh
  <2>3. \A i \in stream : i > last => i > lastId
    BY <2>1
  <2>4. Fresh' \subseteq Fresh
    <3>1. Fresh' = {i \in stream : i > last} /\ Fresh = {i \in stream : i > lastId}
      BY <2>2 DEF Fresh
    <3> QED
      BY <2>3, <3>1
  <2> QED
    BY <2>4, NoOutcome
<1>7. ASSUME NEW t \in Tasks, NEW r \in 0..RetryLimit, XAdd(t, r), UNCHANGED <<lastId, outcome>>,
             Counted(t) = 0,
             \A w \in Workers : \A i, x : In(w, i, x)' => i \in Entries /\ (In(w, i, x) \/ x = "finish")
      PROVE  OutcomeInv'
  <2>1. /\ Entries' = Entries \cup {Len(log) + 1} /\ Len(log) + 1 \notin Entries
        /\ \A j \in Entries : log'[j] = log[j]
        /\ log'[Len(log) + 1] = [task |-> t, retry |-> r]
        /\ stream' = stream \cup {Len(log) + 1}
    BY <1>1, <1>7, XAddFacts
  <2>2. \A j \in Entries : Open(j)' => Open(j)
    BY <1>1, <1>7, <2>1 DEF Open, Fresh
  <2>3. \A k \in Tasks : Counted(k)' = Counted(k)
    BY <1>7 DEF Counted
  <2>4. Published \subseteq Published'
    BY <2>1 DEF Published
  <2>5. \A j \in Entries' : Open(j)' => outcome'[log'[j].task].ok + outcome'[log'[j].task].gaveUp = 0
    BY <1>7, <2>1, <2>2 DEF OutcomeInv, Counted
  <2> QED
    BY <2>3, <2>4, <2>5 DEF OutcomeInv, Counted
<1>8. ASSUME NEW t \in Tasks, Publish(t) PROVE OutcomeInv'
  <2>1. t \notin Published /\ Counted(t) = 0
    <3>1. t \notin Published
      BY <1>8 DEF Publish, Published
    <3>2. Counted(t) \in Nat
      BY <1>1, TypeNamed DEF TypeInv, Outcomes, Counted
    <3> QED
      BY <3>1, <3>2 DEF OutcomeInv
  <2>2. \A w \in Workers : \A i, x : In(w, i, x)' => In(w, i, x)
    BY <1>8 DEF Publish, In
  <2>3. \A w \in Workers : \A i, x : In(w, i, x)' => i \in Entries /\ (In(w, i, x) \/ x = "finish")
    BY <1>1, <2>2 DEF HandOk, In
  <2>4. 0 \in 0..RetryLimit /\ XAdd(t, 0) /\ UNCHANGED <<lastId, outcome>>
    BY <1>8, RetryLimitAssumption DEF Publish
  <2> QED
    BY <1>7, <2>1, <2>3, <2>4
<1>9. ASSUME NEW w \in Workers, NEW i \in Entries, Retries(w, i) PROVE OutcomeInv'
  <2>1. In(w, i, "backoff") /\ i \in DOMAIN hand[w] /\ UNCHANGED <<lastId, outcome>>
    BY <1>9 DEF Retries, Republish, In
  <2>2. Counted(log[i].task) = 0
    BY <2>1 DEF OutcomeInv, Open
  <2>3. log[i].retry + 1 \in 0..RetryLimit
    <3>1. log[i].retry \in Nat /\ log[i].retry < LimitOf(log[i].task)
      BY <1>1, <2>1, LogTyped DEF TypeInv, RetriesLeft, Messages
    <3> QED
      BY <1>3, <3>1, LimitTyped, RetryLimitAssumption
  <2>4. Entries \subseteq Entries'
    BY <1>1, <1>3, <1>9, <2>3, XAddFacts DEF Retries
  <2>5. /\ \A v \in Workers : \A j, x : (v # w \/ j # i) => (In(v, j, x)' <=> In(v, j, x))
        /\ \A x : In(w, i, x)' <=> x = "finish"
    BY <1>1, <1>9, <2>1, <2>4, ToFacts DEF Retries, Republish, Phases
  <2>6. \A v \in Workers : \A j, x : In(v, j, x) => j \in Entries
    BY <1>1 DEF HandOk, In
  <2>7. \A v \in Workers : \A j, x : In(v, j, x)' => j \in Entries /\ (In(v, j, x) \/ x = "finish")
    BY <2>5, <2>6
  <2> QED
    BY <1>3, <1>7, <1>9, <2>1, <2>2, <2>3, <2>7 DEF Retries
<1>10. ASSUME NEW w \in Workers, NEW i \in Entries, MessageStep(w, i), ~Retries(w, i), Shrinking
       PROVE  OutcomeInv'
  <2>1. log' = log /\ Entries' = Entries
    BY <1>10 DEF Shrinking, Entries
  <2>2. CASE HandlerReturns(w, i) \/ GiveUp(w, i)
    BY <2>1, <2>2, SaysOutcome DEF HandlerReturns, GiveUp, redis, Fresh
  <2>3. CASE HandlerRaises(w, i)
    <3>1. In(w, i, "run") /\ i \in DOMAIN hand[w] /\ Fresh' = Fresh
      BY <2>3 DEF HandlerRaises, In, redis, Fresh
    <3>2. PICK x \in {"backoff", "giveUp", "finish"} :
            To(w, i, x) /\ (x = "finish" <=> LimitOf(log[i].task) = 0)
      BY <1>1, <2>1, <2>3, <3>1, RaisedFacts DEF HandlerRaises
    <3>3. CASE x = "finish"
      BY <2>1, <2>3, <3>1, <3>2, <3>3, SaysOutcome DEF HandlerRaises
    <3>4. CASE x # "finish"
      <4>1. \A v \in Workers : \A j, z : (v # w \/ j # i) => (In(v, j, z)' <=> In(v, j, z))
        BY <1>1, <2>1, <3>1, <3>2, ToFacts DEF Phases
      <4>2. outcome' = outcome
        BY <2>3, <3>2, <3>4 DEF HandlerRaises
      <4> QED
        BY <1>4, <1>10, <3>1, <4>1, <4>2
    <3> QED
      BY <3>3, <3>4
  <2>4. CASE Ack(w, i) \/ Finish(w, i)
    <3>1. Drop(w, i) /\ outcome' = outcome
      BY <1>2, <2>4 DEF Ack, Finish
    <3>2. \A v \in Workers : \A j, x : In(v, j, x)' => In(v, j, x)
      BY <1>1, <2>1, <3>1, DropFacts
    <3> QED
      BY <1>4, <1>10, <3>1, <3>2
  <2>5. CASE Republish(w, i)
    <3>1. To(w, i, "finish") /\ In(w, i, "backoff") /\ i \in DOMAIN hand[w] /\ outcome' = outcome
      BY <2>5 DEF Republish, In
    <3>2. /\ \A v \in Workers : \A j, x : (v # w \/ j # i) => (In(v, j, x)' <=> In(v, j, x))
          /\ \A x : In(w, i, x)' <=> x = "finish"
      BY <1>1, <2>1, <3>1, ToFacts DEF Phases
    <3> QED
      BY <1>4, <1>10, <3>1, <3>2
  <2> QED
    BY <1>10, <2>2, <2>3, <2>4, <2>5 DEF MessageStep
<1>11. ASSUME NEW w \in Workers, Crash(w), Shrinking PROVE OutcomeInv'
  <2>1. Entries' = Entries /\ outcome' = outcome
    BY <1>11 DEF Shrinking, Entries, Crash
  <2>2. \A v \in Workers : \A j, x : In(v, j, x)' => In(v, j, x)
    BY <1>1, <1>11, <2>1, CrashFacts
  <2> QED
    BY <1>4, <1>11, <2>1, <2>2
<1>12. ASSUME NEW w \in Workers, Start(w) \/ Regroup(w), Shrinking PROVE OutcomeInv'
  BY <1>5, <1>12 DEF Start, Regroup
<1>13. ASSUME NEW w \in Workers, DeleteConsumer(w), Shrinking PROVE OutcomeInv'
  BY <1>5, <1>13 DEF DeleteConsumer, BeginSweep
<1>14. ASSUME LoseGroup \/ TrimStream \/ ReclaimStuck \/ CleanupZombies, Shrinking PROVE OutcomeInv'
  BY <1>5, <1>14 DEF LoseGroup, TrimStream, ReclaimStuck, CleanupZombies, BeginSweep
<1>15. ASSUME SweepStep \/ UNCHANGED vars, Shrinking PROVE OutcomeInv'
  BY <1>5, <1>15 DEF SweepStep, SweepAck, SweepDelete, vars
<1>16. CASE Shrinking /\ \A w \in Workers : \A i \in Entries : ~Retries(w, i)
  <2>1. ASSUME NEW w \in Workers, WorkerStep(w) \/ Crash(w) \/ DeleteConsumer(w) PROVE OutcomeInv'
    BY <1>6, <1>10, <1>11, <1>12, <1>13, <1>16, <2>1 DEF WorkerStep
  <2> QED
    BY <1>8, <1>14, <1>15, <1>16, <2>1 DEF Next
<1> QED
  BY <1>2, <1>6, <1>8, <1>9, <1>16, Shrinks

LEMMA OutcomeInit == Init => OutcomeInv
BY DEF Init, OutcomeInv, Counted, Entries

\* Where acks do not fail and the consumer group is not destroyed, a task never has
\* two outcomes: it does not succeed twice, nor succeed and be given up, whoever
\* dies and whatever operators sweep, trim or flush.
THEOREM OneOutcomePerTask ==
  ASSUME NoRepeat
  PROVE  Spec => []OneOutcome
<1>1. Init => QueueInv /\ OutcomeInv
  BY QueueInit, OutcomeInit
<1>2. QueueInv /\ OutcomeInv /\ [Next]_vars => QueueInv' /\ OutcomeInv'
  BY QueueStep, OutcomeStep DEF NoRepeat
<1>3. OutcomeInv => OneOutcome
  BY DEF OutcomeInv, OneOutcome, Counted
<1> QED
  BY <1>1, <1>2, <1>3, PTL DEF Spec

-----------------------------------------------------------------------------
(* No task is silently lost *)

\* The faults that do lose a task: a retry that is not published, and entries that
\* an operator, the clean-up or a flush takes away.
LossEnv == Env \cap {"republish", "sweep", "trim", "flush"} = {}

\* The task of the entry was handled or given up.
Over(i) == Ended(log[i].task)

\* An entry that is delivered, or shown to the operator, and that nobody is about
\* to acknowledge.
Kept(i) == /\ i \in stream
           /\ i > lastId \/ i \in AllPending
           /\ \A w \in Workers : ~In(w, i, "ack") /\ ~In(w, i, "finish")

LossInv == /\ sweep = NoSweep
           /\ \A i \in Entries : Over(i) \/ \E j \in Entries : log[j].task = log[i].task /\ Kept(j)
           /\ \A w \in Workers, i \in Entries : In(w, i, "ack") => Over(i)

\* What the handlers say of a task is never taken back.
LEMMA EndedStays ==
  ASSUME TypeInv, [Next]_vars, NEW t \in Tasks, Ended(t)
  PROVE  Ended(t)'
<1>1. outcome \in Outcomes /\ \A i \in Entries : log[i].task \in Tasks
  BY TypeNamed, LogTyped DEF TypeInv, Messages
<1>2. ASSUME NEW k \in Tasks, \/ outcome' = [outcome EXCEPT ![k].ok = @ + 1]
                              \/ outcome' = [outcome EXCEPT ![k].gaveUp = @ + 1]
      PROVE  Ended(t)'
  <2>1. outcome[t].ok \in Nat /\ outcome[t].gaveUp \in Nat
    BY <1>1 DEF Outcomes
  <2>2. CASE outcome' = [outcome EXCEPT ![k].ok = @ + 1]
    BY <1>1, <2>1, <2>2 DEF Ended, Outcomes
  <2>3. CASE outcome' = [outcome EXCEPT ![k].gaveUp = @ + 1]
    BY <1>1, <2>1, <2>3 DEF Ended, Outcomes
  <2> QED
    BY <1>2, <2>2, <2>3
<1>3. CASE outcome' = outcome
  BY <1>3 DEF Ended
<1>4. ASSUME NEW w \in Workers, NEW i \in Entries, MessageStep(w, i)
      PROVE  \/ outcome' = outcome
             \/ outcome' = [outcome EXCEPT ![log[i].task].ok = @ + 1]
             \/ outcome' = [outcome EXCEPT ![log[i].task].gaveUp = @ + 1]
  BY <1>4 DEF MessageStep, HandlerReturns, HandlerRaises, Ack, Republish, GiveUp, Finish
<1>5. ASSUME NEW w \in Workers, Start(w) \/ Read(w) \/ Regroup(w) \/ Crash(w) \/ DeleteConsumer(w)
      PROVE  outcome' = outcome
  BY <1>5 DEF Start, Read, Regroup, Crash, DeleteConsumer, BeginSweep
<1>6. (\E k \in Tasks : Publish(k)) \/ LoseGroup \/ TrimStream \/ ReclaimStuck \/ CleanupZombies
      \/ SweepStep \/ UNCHANGED vars => outcome' = outcome
  BY DEF Publish, LoseGroup, TrimStream, ReclaimStuck, CleanupZombies, BeginSweep, SweepStep,
      SweepAck, SweepDelete, vars
<1> QED
  BY <1>1, <1>2, <1>3, <1>4, <1>5, <1>6 DEF Next, WorkerStep

LEMMA OverStays ==
  ASSUME TypeInv, [Next]_vars, NEW i \in Entries, log'[i] = log[i], Over(i)
  PROVE  Over(i)'
<1> PICK t \in Tasks : t = log[i].task
  BY TypeNamed, LogTyped DEF TypeInv, Messages
<1>1. Ended(t)'
  BY EndedStays DEF Over
<1> QED
  BY <1>1 DEF Over, Ended

\* A step that adds no entry keeps the invariant if whatever it stops keeping, or
\* moves to the acknowledgement, is over.
LEMMA KeepsLoss ==
  ASSUME TypeInv, LossInv, [Next]_vars, log' = log, sweep' = sweep,
         \A i \in Entries : Kept(i) => Kept(i)' \/ Over(i)',
         \A w \in Workers : \A i \in Entries : In(w, i, "ack")' => In(w, i, "ack") \/ Over(i)'
  PROVE  LossInv'
<1>1. Entries' = Entries /\ \A i \in Entries : Over(i) => Over(i)'
  BY OverStays DEF Entries
<1>2. \A i, j \in Entries : log[i].task = log[j].task => (Over(i)' <=> Over(j)')
  BY DEF Over, Ended
<1>3. \A i \in Entries : Over(i)' \/ \E j \in Entries : log'[j].task = log'[i].task /\ Kept(j)'
  BY <1>1, <1>2 DEF LossInv
<1>4. \A w \in Workers, i \in Entries : In(w, i, "ack")' => Over(i)'
  BY <1>1 DEF LossInv
<1> QED
  BY <1>1, <1>3, <1>4 DEF LossInv

\* A retry, or the first publication, adds an entry that is kept.
LEMMA AddsKept ==
  ASSUME TypeInv, LossInv, [Next]_vars, NEW t \in Tasks, NEW r \in 0..RetryLimit, XAdd(t, r),
         UNCHANGED <<lastId, pel, sweep>>,
         \A w \in Workers : \A i, x : In(w, i, x)' => i \in Entries,
         \A w \in Workers : \A i \in Entries : In(w, i, "ack")' => In(w, i, "ack"),
         \A i \in Entries : log[i].task # t =>
           \A w \in Workers : In(w, i, "finish")' => In(w, i, "finish")
  PROVE  LossInv'
<1> PICK n : n = Len(log) + 1
  OBVIOUS
<1>1. /\ log \in Seq(Messages) /\ lastId \in 0..Len(log) /\ Len(log) \in Nat
      /\ stream \subseteq Entries
  BY TypeNamed DEF TypeInv
<1>2. /\ Entries' = Entries \cup {n} /\ n \notin Entries
      /\ \A j \in Entries : log'[j] = log[j]
      /\ log'[n] = [task |-> t, retry |-> r]
      /\ stream' = stream \cup {n}
  BY <1>1, XAddFacts
<1>3. n > lastId
  BY <1>1
<1>4. Kept(n)' /\ log'[n].task = t
  BY <1>2, <1>3 DEF Kept
<1>5. \A i \in Entries : Kept(i) /\ log[i].task # t => Kept(i)'
  BY <1>2 DEF Kept, AllPending
<1>6. \A i \in Entries : Over(i) => Over(i)'
  BY <1>2, OverStays
<1>7. \A i \in Entries' : Over(i)' \/ \E j \in Entries' : log'[j].task = log'[i].task /\ Kept(j)'
  BY <1>2, <1>4, <1>5, <1>6 DEF LossInv
<1>8. \A w \in Workers, i \in Entries' : In(w, i, "ack")' => Over(i)'
  BY <1>6 DEF LossInv
<1> QED
  BY <1>7, <1>8 DEF LossInv

LEMMA LossStep ==
  ASSUME TypeInv, LossInv, LossEnv, [Next]_vars
  PROVE  LossInv'
<1>1. /\ TypeInv /\ HandOk /\ log \in Seq(Messages) /\ stream \subseteq Entries
      /\ lastId \in 0..Len(log) /\ Len(log) \in Nat /\ \A i \in Entries : i \in Int /\ i > 0
  BY TypeNamed DEF TypeInv, Entries
<1>2. /\ \A i \in Entries : log[i].task \in Tasks
      /\ \A w \in Workers : \A i, x : In(w, i, x) => i \in Entries
  BY <1>1, LogTyped DEF Messages, HandOk, In
<1>3. \A kind \in {"republish", "sweep", "trim", "flush"} : ~Fault(kind)
  BY DEF LossEnv, Fault
<1>4. ASSUME log' = log, sweep' = sweep, hand' = hand, stream' = stream,
             \/ pel' = pel /\ lastId' \in {0, lastId}
             \/ lastId' = 0
      PROVE  LossInv'
  <2>1. \A i \in Entries : i \in stream => i > 0
    BY <1>1
  <2>2. \A i \in Entries : Kept(i) => Kept(i)'
    BY <1>4, <2>1 DEF Kept, AllPending, In
  <2> QED
    BY <1>4, <2>2, KeepsLoss DEF In
<1>5. ASSUME NEW t \in Tasks, Publish(t) PROVE LossInv'
  <2>1. 0 \in 0..RetryLimit /\ hand' = hand
    BY <1>5, RetryLimitAssumption DEF Publish
  <2>2. \A w \in Workers : \A i, x : In(w, i, x)' <=> In(w, i, x)
    BY <2>1 DEF In
  <2>3. XAdd(t, 0) /\ UNCHANGED <<lastId, pel, sweep>>
    BY <1>5 DEF Publish
  <2>4. \A w \in Workers : \A i, x : In(w, i, x)' => i \in Entries
    BY <1>2, <2>2
  <2> QED
    BY <2>1, <2>2, <2>3, <2>4, AddsKept
<1>6. ASSUME NEW w \in Workers, Start(w) \/ Regroup(w) PROVE LossInv'
  BY <1>4, <1>6 DEF Start, Regroup, EnsureGroup
<1>7. ASSUME NEW w \in Workers, Read(w) PROVE LossInv'
  <2> PICK last \in Fresh, batch \in SUBSET Fresh :
        /\ batch = {i \in Fresh : i <= last}
        /\ lastId' = last /\ pel' = pel \cup (batch \X {w})
        /\ UNCHANGED <<log, stream, group, life, sweep, outcome, faults>> /\ group
        /\ Entries' = Entries
        /\ HandOk'
        /\ \A v \in Workers : v # w => \A j, x : In(v, j, x)' <=> In(v, j, x)
        /\ \A j, x : In(w, j, x)' <=> j \in batch /\ x = "run"
        /\ \A j, x : ~In(w, j, x)
    BY <1>1, <1>7, ReadFacts
  <2>1. \A v \in Workers : \A i : \A x \in {"ack", "finish"} : In(v, i, x)' => In(v, i, x)
    OBVIOUS
  <2>2. ASSUME NEW i \in Entries, Kept(i) PROVE i > lastId' \/ i \in AllPending'
    <3>1. CASE i \in AllPending
      BY <3>1 DEF AllPending
    <3>2. CASE i > lastId /\ ~(i > last)
      <4>1. i \in batch
        BY <1>1, <2>2, <3>2 DEF Kept, Fresh, Entries
      <4>2. <<i, w>> \in pel' /\ <<i, w>>[1] = i
        BY <4>1
      <4> QED
        BY <4>2 DEF AllPending
    <3> QED
      BY <2>2, <3>1, <3>2 DEF Kept
  <2>3. \A i \in Entries : Kept(i) => Kept(i)'
    BY <2>1, <2>2 DEF Kept
  <2> QED
    BY <2>1, <2>3, KeepsLoss
<1>8. ASSUME NEW w \in Workers, NEW i \in Entries, NEW x \in Phases, To(w, i, x), i \in DOMAIN hand[w],
             log' = log, stream' = stream, lastId' = lastId, sweep' = sweep,
             pel' \in {pel, {p \in pel : p[1] # i}},
             \/ Over(i)'
             \/ x \in Phases \ {"ack", "finish"} /\ pel' = pel
      PROVE  LossInv'
  <2>1. Entries' = Entries
    BY <1>8 DEF Entries
  <2>2. /\ \A v \in Workers : \A j, y : (v # w \/ j # i) => (In(v, j, y)' <=> In(v, j, y))
        /\ \A y : In(w, i, y)' <=> y = x
    BY <1>1, <1>8, <2>1, ToFacts
  <2>3. \A j \in Entries : j # i /\ j \in AllPending => j \in AllPending'
    BY <1>8 DEF AllPending
  <2>4. \A j \in Entries : Kept(j) => Kept(j)' \/ Over(j)'
    BY <1>8, <2>2, <2>3 DEF Kept, AllPending
  <2> QED
    BY <1>8, <2>2, <2>4, KeepsLoss
<1>9. ASSUME NEW i \in Entries,
             \/ outcome' = [outcome EXCEPT ![log[i].task].ok = @ + 1]
             \/ outcome' = [outcome EXCEPT ![log[i].task].gaveUp = @ + 1],
             log' = log
      PROVE  Over(i)'
  <2> PICK t \in Tasks : t = log[i].task
    BY <1>2
  <2>1. outcome \in Outcomes
    BY TypeNamed DEF TypeInv
  <2>2. outcome[t].ok \in Nat /\ outcome[t].gaveUp \in Nat
    BY <2>1 DEF Outcomes
  <2>3. CASE outcome' = [outcome EXCEPT ![t].ok = @ + 1]
    BY <1>9, <2>1, <2>2, <2>3 DEF Over, Ended, Outcomes
  <2>4. CASE outcome' = [outcome EXCEPT ![t].gaveUp = @ + 1]
    BY <1>9, <2>1, <2>2, <2>4 DEF Over, Ended, Outcomes
  <2> QED
    BY <1>9, <2>3, <2>4
<1>10. ASSUME NEW w \in Workers, NEW i \in Entries, HandlerReturns(w, i) \/ GiveUp(w, i) PROVE LossInv'
  <2>1. /\ log' = log /\ stream' = stream /\ lastId' = lastId /\ sweep' = sweep /\ pel' = pel
        /\ i \in DOMAIN hand[w] /\ \E x \in Phases : To(w, i, x)
    BY <1>10 DEF HandlerReturns, GiveUp, redis, In, Phases
  <2>2. Over(i)'
    BY <1>9, <1>10, <2>1 DEF HandlerReturns, GiveUp
  <2> QED
    BY <1>8, <2>1, <2>2
<1>11. ASSUME NEW w \in Workers, NEW i \in Entries, HandlerRaises(w, i) PROVE LossInv'
  <2>1. /\ log' = log /\ stream' = stream /\ lastId' = lastId /\ sweep' = sweep /\ pel' = pel
        /\ i \in DOMAIN hand[w] /\ Entries' = Entries
    BY <1>11 DEF HandlerRaises, redis, In, Entries
  <2>2. PICK x \in {"backoff", "giveUp", "finish"} :
          To(w, i, x) /\ (x = "finish" <=> LimitOf(log[i].task) = 0)
    BY <1>1, <1>11, <2>1, RaisedFacts DEF HandlerRaises
  <2>3. x = "finish" => Over(i)'
    BY <1>9, <1>11, <2>1, <2>2 DEF HandlerRaises
  <2> QED
    BY <1>8, <2>1, <2>2, <2>3 DEF Phases
<1>12. ASSUME NEW w \in Workers, NEW i \in Entries, Ack(w, i), Raised(w, i), ~Drop(w, i) PROVE LossInv'
  <2>1. /\ log' = log /\ stream' = stream /\ lastId' = lastId /\ sweep' = sweep
        /\ pel' \in {pel, {p \in pel : p[1] # i}}
        /\ i \in DOMAIN hand[w] /\ Entries' = Entries
    BY <1>12 DEF Ack, In, Entries
  <2>2. PICK x \in {"backoff", "giveUp", "finish"} : To(w, i, x)
    BY <1>1, <1>12, <2>1, RaisedFacts
  <2>3. Over(i)'
    BY <1>12, <2>1, OverStays DEF Ack, LossInv
  <2> QED
    BY <1>8, <2>1, <2>2, <2>3 DEF Phases
<1>13. ASSUME NEW w \in Workers, NEW i \in Entries, Ack(w, i) \/ Finish(w, i), Drop(w, i)
       PROVE  LossInv'
  <2>1. /\ log' = log /\ lastId' = lastId /\ sweep' = sweep /\ Entries' = Entries
        /\ In(w, i, "ack") \/ In(w, i, "finish")
        /\ pel' \in {pel, {p \in pel : p[1] # i}} /\ stream' \in {stream, stream \ {i}}
    BY <1>13 DEF Ack, Finish, AckDel, Entries
  <2>2. \A v \in Workers : \A j, y : In(v, j, y)' => In(v, j, y)
    BY <1>1, <1>13, <2>1, DropFacts
  <2>3. ~Kept(i)
    BY <2>1 DEF Kept
  <2>4. \A j \in Entries : j # i /\ j \in AllPending => j \in AllPending'
    BY <2>1 DEF AllPending
  <2>5. \A j \in Entries : Kept(j) => Kept(j)'
    BY <2>1, <2>2, <2>3, <2>4 DEF Kept
  <2> QED
    BY <2>1, <2>2, <2>5, KeepsLoss
<1>14. ASSUME NEW w \in Workers, NEW i \in Entries, Republish(w, i) PROVE LossInv'
  <2>1. /\ In(w, i, "backoff") /\ i \in DOMAIN hand[w] /\ To(w, i, "finish")
        /\ UNCHANGED <<lastId, pel, sweep>> /\ XAdd(log[i].task, log[i].retry + 1)
    BY <1>3, <1>14 DEF Republish, In
  <2>2. log[i].retry + 1 \in 0..RetryLimit
    <3>1. log[i].retry \in Nat /\ log[i].retry < LimitOf(log[i].task)
      BY <1>1, <2>1, LogTyped DEF TypeInv, RetriesLeft, Messages
    <3> QED
      BY <1>2, <3>1, LimitTyped, RetryLimitAssumption
  <2>3. Entries \subseteq Entries'
    BY <1>1, <1>2, <2>1, <2>2, XAddFacts
  <2>4. /\ \A v \in Workers : \A j, x : (v # w \/ j # i) => (In(v, j, x)' <=> In(v, j, x))
        /\ \A x : In(w, i, x)' <=> x = "finish"
    BY <1>1, <2>1, <2>3, ToFacts DEF Phases
  <2>5. \A v \in Workers : \A j, x : In(v, j, x)' => j \in Entries
    BY <1>2, <2>4
  <2>6. \A v \in Workers : \A j \in Entries : In(v, j, "ack")' => In(v, j, "ack")
    BY <2>4
  <2>7. \A j \in Entries : log[j].task # log[i].task =>
          \A v \in Workers : In(v, j, "finish")' => In(v, j, "finish")
    BY <2>4
  <2> QED
    BY <1>2, <2>1, <2>2, <2>5, <2>6, <2>7, AddsKept
<1>15. ASSUME NEW w \in Workers, Crash(w) PROVE LossInv'
  <2>1. /\ log' = log /\ Entries' = Entries /\ sweep' = sweep
        /\ stream' = stream /\ pel' = pel /\ lastId' = lastId
    BY <1>15 DEF Crash, redis, Entries
  <2>2. \A v \in Workers : \A j, y : In(v, j, y)' => In(v, j, y)
    BY <1>1, <1>15, <2>1, CrashFacts
  <2>3. \A i \in Entries : Kept(i) => Kept(i)'
    BY <2>1, <2>2 DEF Kept, AllPending
  <2> QED
    BY <2>1, <2>2, <2>3, KeepsLoss
<1>16. CASE LoseGroup
  BY <1>3, <1>4, <1>16 DEF LoseGroup
<1>17. CASE UNCHANGED vars
  BY <1>4, <1>17 DEF vars, redis
<1>18. ~TrimStream /\ ~ReclaimStuck /\ ~CleanupZombies /\ \A w \in Workers : ~DeleteConsumer(w)
  BY <1>3 DEF TrimStream, ReclaimStuck, CleanupZombies, DeleteConsumer, BeginSweep
<1>19. ~SweepStep
  BY DEF SweepStep, SweepAck, SweepDelete, LossInv, NoSweep
<1>20. ASSUME NEW w \in Workers, NEW i \in Entries, MessageStep(w, i) PROVE LossInv'
  <2>1. Ack(w, i) => Drop(w, i) \/ Raised(w, i)
    BY DEF Ack
  <2>2. Finish(w, i) => Drop(w, i)
    BY DEF Finish
  <2> QED
    BY <1>10, <1>11, <1>12, <1>13, <1>14, <1>20, <2>1, <2>2 DEF MessageStep
<1> QED
  BY <1>5, <1>6, <1>7, <1>15, <1>16, <1>17, <1>18, <1>19, <1>20 DEF Next, WorkerStep

LEMMA LossInit == Init => LossInv
BY DEF Init, LossInv, Entries

\* Whoever dies, whichever acks raise and however often the consumer group is
\* destroyed, no published task is silently gone: it was handled, given up, waits in
\* the stream, is with a live worker, or is listed as pending.
THEOREM NothingIsLost ==
  ASSUME LossEnv
  PROVE  Spec => []NoSilentLoss
<1>1. Init => TypeInv /\ LossInv
  BY TypeInit, LossInit
<1>2. TypeInv /\ LossInv /\ [Next]_vars => TypeInv' /\ LossInv'
  BY TypeStep, LossStep
<1>3. TypeInv /\ LossInv => NoSilentLoss
  <2> SUFFICES ASSUME LossInv, NEW i \in Entries, ~Ended(log[i].task)
               PROVE  (\E j \in Fresh : log[j].task = log[i].task)
                      \/ (\E j \in AllPending : log[j].task = log[i].task)
    BY DEF NoSilentLoss, Published
  <2>1. PICK j \in Entries : log[j].task = log[i].task /\ Kept(j)
    BY DEF LossInv, Over
  <2> QED
    BY <2>1 DEF Kept, Fresh
<1> QED
  BY <1>1, <1>2, <1>3, PTL DEF Spec

-----------------------------------------------------------------------------
(* The queue implements the abstract life of a task *)

\* The entry of a task that is alive carries the number of its retries.
CountInv == \A i \in Entries : Alive(i) => log[i].retry = Republished(log[i].task)

LifeInv == QueueInv /\ CountInv

\* Where a task is, by the entry of it that is alive.
PlaceByEntry ==
  \A t \in Tasks :
    /\ EntriesOf(t) = {} <=> Place(t) = "none"
    /\ \A i \in EntriesOf(t) : i \in Fresh => Place(t) = "queued"
    /\ \A i \in EntriesOf(t), w \in Workers :
         /\ In(w, i, "run") \/ In(w, i, "ack") => Place(t) = "busy"
         /\ In(w, i, "backoff") => Place(t) = "backoff"
         /\ In(w, i, "giveUp") => Place(t) = "givingUp"
    /\ EntriesOf(t) # {} /\ (\A i \in EntriesOf(t) : ~Alive(i)) => Place(t) = "gone"

LEMMA PlacedByEntry == QueueInv => PlaceByEntry
<1> SUFFICES ASSUME QueueInv, NEW t \in Tasks
             PROVE  /\ EntriesOf(t) = {} <=> Place(t) = "none"
                    /\ \A i \in EntriesOf(t) : i \in Fresh => Place(t) = "queued"
                    /\ \A i \in EntriesOf(t), w \in Workers :
                         /\ In(w, i, "run") \/ In(w, i, "ack") => Place(t) = "busy"
                         /\ In(w, i, "backoff") => Place(t) = "backoff"
                         /\ In(w, i, "giveUp") => Place(t) = "givingUp"
                    /\ EntriesOf(t) # {} /\ (\A i \in EntriesOf(t) : ~Alive(i)) => Place(t) = "gone"
  BY DEF PlaceByEntry
<1>1. OneAlive /\ HeldIsOld /\ OneHolder /\ HandOk
  BY TypeNamed DEF QueueInv, TypeInv
<1>2. \A i \in EntriesOf(t) : i \in Entries /\ log[i].task = t
  BY DEF EntriesOf
<1>3. EntriesOf(t) = {} <=> Place(t) = "none"
  BY DEF Place
<1>4. \A i \in EntriesOf(t) : i \in Fresh => Place(t) = "queued"
  BY DEF Place
<1>5. ASSUME NEW i \in EntriesOf(t), NEW w \in Workers, NEW x \in Phases \ {"finish"}, In(w, i, x)
      PROVE  /\ EntriesOf(t) # {} /\ EntriesOf(t) \cap Fresh = {}
             /\ \A S : HeldIn(t, S) /\ "finish" \notin S /\ S \subseteq Phases => x \in S
             /\ \A S : x \in S => HeldIn(t, S)
  <2>1. Alive(i) /\ i \notin Fresh
    BY <1>1, <1>2, <1>5 DEF Alive, HeldIsOld
  <2>2. EntriesOf(t) \cap Fresh = {}
    BY <1>1, <1>2, <2>1 DEF Alive, OneAlive
  <2>3. ASSUME NEW S, HeldIn(t, S), "finish" \notin S, S \subseteq Phases PROVE x \in S
    <3>1. PICK v \in Workers, j \in EntriesOf(t), y \in S : In(v, j, y)
      BY <2>3 DEF HeldIn
    <3>2. Alive(j) /\ y \in Phases
      BY <1>2, <2>3, <3>1 DEF Alive
    <3>3. j = i
      BY <1>1, <1>2, <2>1, <3>2 DEF OneAlive
    <3>4. v = w
      BY <1>1, <1>2, <1>5, <3>1, <3>2, <3>3 DEF OneHolder
    <3> QED
      BY <1>5, <3>1, <3>3, <3>4 DEF In
  <2>4. \A S : x \in S => HeldIn(t, S)
    BY <1>5 DEF HeldIn
  <2> QED
    BY <1>5, <2>2, <2>3, <2>4
<1>6. {"run", "ack"} \subseteq Phases /\ {"backoff"} \subseteq Phases /\ {"giveUp"} \subseteq Phases
  BY DEF Phases
<1>7. ASSUME NEW i \in EntriesOf(t), NEW w \in Workers
      PROVE  /\ In(w, i, "run") \/ In(w, i, "ack") => Place(t) = "busy"
             /\ In(w, i, "backoff") => Place(t) = "backoff"
             /\ In(w, i, "giveUp") => Place(t) = "givingUp"
  <2>1. ASSUME NEW x \in {"run", "ack"}, In(w, i, x) PROVE Place(t) = "busy"
    BY <1>5, <1>6, <2>1 DEF Place
  <2>2. ASSUME In(w, i, "backoff") PROVE Place(t) = "backoff"
    BY <1>5, <1>6, <2>2 DEF Place
  <2>3. ASSUME In(w, i, "giveUp") PROVE Place(t) = "givingUp"
    BY <1>5, <1>6, <2>3 DEF Place
  <2> QED
    BY <2>1, <2>2, <2>3
<1>8. EntriesOf(t) # {} /\ (\A i \in EntriesOf(t) : ~Alive(i)) => Place(t) = "gone"
  BY DEF Place, HeldIn, Alive, Phases
<1> QED
  BY <1>3, <1>4, <1>7, <1>8

LEMMA PlacedNext == QueueInv' => PlaceByEntry'
BY PlacedByEntry, PTL

\* A task none of whose entries changes stays where it is.
LEMMA PlaceStays ==
  ASSUME log' = log, NEW t \in Tasks,
         \A i \in EntriesOf(t) : i \in Fresh' <=> i \in Fresh,
         \A w \in Workers : \A i \in EntriesOf(t) : \A x \in Phases \ {"finish"} :
           In(w, i, x)' <=> In(w, i, x)
  PROVE  Place(t)' = Place(t)
<1>1. EntriesOf(t)' = EntriesOf(t)
  BY DEF EntriesOf, Entries
<1>2. EntriesOf(t) \cap Fresh' = EntriesOf(t) \cap Fresh
  OBVIOUS
<1>3. \A x \in Phases \ {"finish"} : HeldIn(t, {x})' <=> HeldIn(t, {x})
  BY <1>1 DEF HeldIn
<1>4. HeldIn(t, {"run", "ack"})' <=> HeldIn(t, {"run", "ack"})
  BY <1>1 DEF HeldIn, Phases
<1>5. /\ HeldIn(t, {"backoff"})' <=> HeldIn(t, {"backoff"})
      /\ HeldIn(t, {"giveUp"})' <=> HeldIn(t, {"giveUp"})
  BY <1>3 DEF Phases
<1> QED
  BY <1>1, <1>2, <1>4, <1>5 DEF Place

LEMMA SameCounts ==
  ASSUME log' = log, NEW t \in Tasks
  PROVE  EntriesOf(t)' = EntriesOf(t) /\ Republished(t)' = Republished(t)
BY DEF Republished, EntriesOf, Entries

\* A step that touches one message of one worker and not the log.
LEMMA OneMessage ==
  ASSUME QueueInv, QueueInv', NEW w \in Workers, NEW i \in Entries, NEW x \in Phases, In(w, i, x),
         log' = log, Fresh' = Fresh,
         \A v \in Workers : \A j, y : (v # w \/ j # i) => (In(v, j, y)' <=> In(v, j, y))
  PROVE  /\ \A t \in Tasks : t # log[i].task => Place(t)' = Place(t)
         /\ (\A y \in Phases \ {"finish"} : ~In(w, i, y)') =>
              \A t \in Tasks : t = log[i].task =>
                Place(t)' = IF x = "finish" THEN Place(t) ELSE "gone"
<1>1. OneAlive /\ HeldIsOld /\ OneHolder
  BY DEF QueueInv
<1>2. \A t \in Tasks : \A j \in EntriesOf(t) : j \in Entries /\ log[j].task = t
  BY DEF EntriesOf
<1>3. ASSUME NEW t \in Tasks, t # log[i].task PROVE Place(t)' = Place(t)
  BY <1>2, <1>3, PlaceStays
<1>4. ASSUME \A y \in Phases \ {"finish"} : ~In(w, i, y)', NEW t \in Tasks, t = log[i].task,
             x = "finish"
      PROVE  Place(t)' = Place(t)
  <2>1. \A y \in Phases \ {"finish"} : ~In(w, i, y)
    BY <1>4 DEF In
  <2> QED
    BY <1>4, <2>1, PlaceStays
<1>5. ASSUME \A y \in Phases \ {"finish"} : ~In(w, i, y)', NEW t \in Tasks, t = log[i].task,
             x # "finish"
      PROVE  Place(t)' = "gone"
  <2>1. Alive(i) /\ i \notin Fresh
    BY <1>1, <1>5 DEF Alive, HeldIsOld
  <2>2. ~Alive(i)'
    <3>1. \A v \in Workers : v # w => \A y \in Phases : ~In(v, i, y)
      BY <1>1 DEF OneHolder
    <3> QED
      BY <1>5, <2>1, <3>1 DEF Alive
  <2>3. \A j \in EntriesOf(t) : ~Alive(j)'
    <3> SUFFICES ASSUME NEW j \in EntriesOf(t), Alive(j)' PROVE FALSE
      OBVIOUS
    <3>1. j # i /\ Alive(j)
      BY <2>2 DEF Alive
    <3> QED
      BY <1>1, <1>2, <1>5, <2>1, <3>1 DEF OneAlive
  <2>4. EntriesOf(t)' = EntriesOf(t) /\ i \in EntriesOf(t)
    BY <1>5, SameCounts DEF EntriesOf
  <2>5. EntriesOf(t)' # {} /\ \A j \in EntriesOf(t)' : ~Alive(j)'
    BY <2>3, <2>4
  <2> QED
    BY <2>5, PlacedNext DEF PlaceByEntry
<1> QED
  BY <1>3, <1>4, <1>5

\* Steps of the abstract life of a task, by what becomes of the places.
LEMMA OneMoves ==
  ASSUME NEW k \in Tasks, \A t \in Tasks : t # k => Place(t)' = Place(t),
         \A t \in Tasks : Republished(t)' = Republished(t),
         \/ Place(k)' = Place(k)
         \/ Place(k) = "busy" /\ Place(k)' = "backoff" /\ Republished(k) < LimitOf(k)
         \/ Place(k) = "busy" /\ Place(k)' = "givingUp" /\ ~(Republished(k) < LimitOf(k))
         \/ Place(k) \in {"busy", "backoff", "givingUp"} /\ Place(k)' = "gone"
  PROVE  [Life!Next]_Life!vars
<1> DEFINE at == [t \in Tasks |-> Place(t)]
           tries == [t \in Tasks |-> Republished(t)]
           limit == [t \in Tasks |-> LimitOf(t)]
<1>1. tries' = tries /\ tries[k] = Republished(k) /\ limit[k] = LimitOf(k)
  OBVIOUS
<1>2. at' = [at EXCEPT ![k] = Place(k)'] /\ at[k] = Place(k)
  OBVIOUS
<1>3. CASE Place(k)' = Place(k)
  <2>1. at' = at
    BY <1>3
  <2> QED
    BY <1>1, <2>1 DEF Life!vars
<1>4. CASE \/ Place(k) = "busy" /\ Place(k)' = "backoff" /\ Republished(k) < LimitOf(k)
           \/ Place(k) = "busy" /\ Place(k)' = "givingUp" /\ ~(Republished(k) < LimitOf(k))
  <2>1. Life!Fail(k)
    BY <1>1, <1>2, <1>4 DEF Life!Fail, Life!Move
  <2> QED
    BY <2>1 DEF Life!Next
<1>5. CASE Place(k) \in {"busy", "backoff", "givingUp"} /\ Place(k)' = "gone"
  <2>1. Life!EndAll({k})
    BY <1>1, <1>5 DEF Life!EndAll
  <2>2. {k} \in (SUBSET Tasks) \ {{}}
    OBVIOUS
  <2> QED
    BY <2>1, <2>2 DEF Life!Next
<1> QED
  BY <1>3, <1>4, <1>5

LEMMA ManyMove ==
  ASSUME NEW T \in SUBSET Tasks, NEW from \in {"queued", "held"}, NEW to \in {"busy", "gone"},
         \A t \in T : Place(t)' = to, \A t \in Tasks : t \notin T => Place(t)' = Place(t),
         \A t \in Tasks : Republished(t)' = Republished(t),
         from = "queued" => \A t \in T : Place(t) = "queued",
         from = "held" => to = "gone" /\ \A t \in T : Place(t) \in {"busy", "backoff", "givingUp"}
  PROVE  [Life!Next]_Life!vars
<1> DEFINE at == [t \in Tasks |-> Place(t)]
           tries == [t \in Tasks |-> Republished(t)]
<1>1. tries' = tries
  OBVIOUS
<1>2. at' = [t \in Tasks |-> IF t \in T THEN to ELSE at[t]]
  OBVIOUS
<1>3. CASE T = {}
  <2>1. at' = at
    BY <1>3
  <2> QED
    BY <1>1, <2>1 DEF Life!vars
<1>4. CASE T # {}
  <2>1. T \in (SUBSET Tasks) \ {{}}
    BY <1>4
  <2>2. CASE from = "queued"
    <3>1. Life!TakeAll(T) \/ Life!DiscardAll(T)
      BY <1>1, <1>2, <2>2 DEF Life!TakeAll, Life!DiscardAll
    <3> QED
      BY <2>1, <3>1 DEF Life!Next
  <2>3. CASE from = "held"
    <3>1. Life!EndAll(T)
      BY <1>1, <1>2, <2>3 DEF Life!EndAll
    <3> QED
      BY <2>1, <3>1 DEF Life!Next
  <2> QED
    BY <2>2, <2>3
<1> QED
  BY <1>3, <1>4

\* An entry is added: its task is queued, and every other one stays.
LEMMA Added ==
  ASSUME LifeInv, QueueInv', NEW t \in Tasks, NEW r \in 0..RetryLimit, XAdd(t, r),
         lastId' = lastId, r = IF EntriesOf(t) = {} THEN 0 ELSE Republished(t) + 1,
         \A v \in Workers : \A j \in Entries : log[j].task # t =>
           \A x : In(v, j, x)' <=> In(v, j, x)
  PROVE  /\ CountInv'
         /\ Place(t)' = "queued" /\ Republished(t)' = r
         /\ \A k \in Tasks : k # t => Place(k)' = Place(k) /\ Republished(k)' = Republished(k)
<1> PICK n : n = Len(log) + 1
  OBVIOUS
<1>1. /\ log \in Seq(Messages) /\ lastId \in 0..Len(log) /\ Len(log) \in Nat /\ OneAlive'
  BY TypeNamed DEF LifeInv, QueueInv, TypeInv
<1>2. /\ Entries' = Entries \cup {n} /\ n \notin Entries /\ Entries = 1..Len(log)
      /\ \A j \in Entries : log'[j] = log[j]
      /\ log'[n] = [task |-> t, retry |-> r]
      /\ stream' = stream \cup {n}
  BY <1>1, XAddFacts DEF Entries
<1>3. n > lastId
  BY <1>1
<1>4. EntriesOf(t)' = EntriesOf(t) \cup {n} /\ n \notin EntriesOf(t)
  BY <1>2 DEF EntriesOf
<1>5. \A k \in Tasks : k # t => EntriesOf(k)' = EntriesOf(k)
  BY <1>2 DEF EntriesOf
<1>6. IsFiniteSet(EntriesOf(t))
  <2>1. IsFiniteSet(1..Len(log)) /\ EntriesOf(t) \subseteq 1..Len(log)
    BY <1>1, FS_Interval DEF EntriesOf, Entries
  <2> QED
    BY <2>1, FS_Subset
<1>7. Republished(t)' = r
  <2>1. Cardinality(EntriesOf(t) \cup {n}) = Cardinality(EntriesOf(t)) + 1
    BY <1>4, <1>6, FS_AddElement
  <2>2. Cardinality(EntriesOf(t)) \in Nat /\ (EntriesOf(t) = {} => Cardinality(EntriesOf(t)) = 0)
    BY <1>6, FS_CardinalityType, FS_EmptySet
  <2>3. Republished(t)' = Cardinality(EntriesOf(t) \cup {n}) - 1
    BY <1>4 DEF Republished
  <2> QED
    BY <2>1, <2>2, <2>3 DEF Republished
<1>8. Alive(n)' /\ n \in Fresh'
  BY <1>2, <1>3 DEF Alive, Fresh
<1>9. Place(t)' = "queued"
  BY <1>4, <1>8, PlacedNext DEF PlaceByEntry
<1>10. ASSUME NEW k \in Tasks, k # t PROVE Place(k)' = Place(k) /\ Republished(k)' = Republished(k)
  <2>1. EntriesOf(k)' = EntriesOf(k) /\ \A j \in EntriesOf(k) : j \in Entries /\ log[j].task = k
    BY <1>5, <1>10 DEF EntriesOf
  <2>2. EntriesOf(k) \cap Fresh' = EntriesOf(k) \cap Fresh
    BY <1>2, <2>1 DEF Fresh
  <2>3. \A v \in Workers : \A j \in EntriesOf(k) : \A x : In(v, j, x)' <=> In(v, j, x)
    BY <1>10, <2>1
  <2>4. /\ HeldIn(k, {"run", "ack"})' <=> HeldIn(k, {"run", "ack"})
        /\ HeldIn(k, {"backoff"})' <=> HeldIn(k, {"backoff"})
        /\ HeldIn(k, {"giveUp"})' <=> HeldIn(k, {"giveUp"})
    BY <2>1, <2>3 DEF HeldIn
  <2> QED
    BY <2>1, <2>2, <2>4 DEF Place, Republished
<1>11. CountInv'
  <2> SUFFICES ASSUME NEW j \in Entries', Alive(j)', NEW k \in Tasks, k = log'[j].task
               PROVE  log'[j].retry = Republished(k)'
    <3>1. \A j \in Entries' : log'[j].task \in Tasks
      BY <1>1, <1>2, LogTyped DEF Messages
    <3> QED
      BY <3>1 DEF CountInv, Republished, EntriesOf
  <2>1. CASE k = t
    <3>1. j = n
      <4>1. log'[n].task = log'[j].task /\ n \in Entries'
        BY <1>2, <2>1
      <4> QED
        BY <1>1, <1>8, <4>1 DEF OneAlive
    <3> QED
      BY <1>2, <1>7, <2>1, <3>1
  <2>2. CASE k # t
    <3>1. j \in Entries /\ log'[j] = log[j] /\ log[j].task = k
      BY <1>2, <2>2
    <3>2. Alive(j)
      BY <1>2, <2>2, <3>1 DEF Alive, Fresh
    <3> QED
      BY <1>10, <2>2, <3>1, <3>2 DEF LifeInv, CountInv
  <2> QED
    BY <2>1, <2>2
<1> QED
  BY <1>7, <1>9, <1>10, <1>11

\* No step but a publication gives an entry another life.
LEMMA CountStays ==
  ASSUME LifeInv, log' = log, \A i \in Entries : Alive(i)' => Alive(i)
  PROVE  CountInv'
<1>1. Entries' = Entries /\ \A i \in Entries : log[i].task \in Tasks
  BY TypeNamed, LogTyped DEF LifeInv, QueueInv, TypeInv, Entries, Messages
<1> SUFFICES ASSUME NEW i \in Entries, Alive(i)', NEW t \in Tasks, t = log[i].task
             PROVE  log[i].retry = Republished(t)'
  BY <1>1 DEF CountInv, Republished, EntriesOf
<1>2. Republished(t)' = Republished(t)
  BY SameCounts
<1> QED
  BY <1>2 DEF LifeInv, CountInv

LEMMA LifeStep ==
  ASSUME LifeInv, "destroy" \notin Env, [Next]_vars
  PROVE  CountInv' /\ [Life!Next]_Life!vars
<1>1. /\ TypeInv /\ HandOk /\ log \in Seq(Messages) /\ stream \subseteq Entries
      /\ lastId \in 0..Len(log) /\ Len(log) \in Nat
      /\ QueueInv /\ QueueInv' /\ HeldIsOld /\ OneAlive /\ OneHolder /\ PlaceByEntry /\ PlaceByEntry'
  BY QueueStep, TypeNamed, PlacedByEntry, PlacedNext DEF LifeInv, QueueInv, TypeInv
<1>2. /\ \A i \in Entries : log[i].task \in Tasks /\ log[i].retry \in Nat /\ i \in EntriesOf(log[i].task)
      /\ \A t \in Tasks : \A i \in EntriesOf(t) : i \in Entries /\ log[i].task = t
      /\ \A w \in Workers : \A i, x : In(w, i, x) => i \in Entries /\ x \in Phases
  BY <1>1, LogTyped DEF Messages, EntriesOf, HandOk, In
<1>3. ASSUME NEW t \in Tasks, Publish(t) PROVE CountInv' /\ [Life!Next]_Life!vars
  <2>1. EntriesOf(t) = {} /\ Place(t) = "none" /\ Republished(t) = 0
    <3>1. EntriesOf(t) = {}
      BY <1>3 DEF Publish, EntriesOf
    <3> QED
      BY <1>1, <3>1 DEF PlaceByEntry, Republished
  <2>2. /\ 0 \in 0..RetryLimit /\ XAdd(t, 0) /\ lastId' = lastId
        /\ \A v \in Workers : \A j, x : In(v, j, x)' <=> In(v, j, x)
    BY <1>3, RetryLimitAssumption DEF Publish, In
  <2>3. /\ CountInv'
        /\ Place(t)' = "queued" /\ Republished(t)' = 0
        /\ \A k \in Tasks : k # t => Place(k)' = Place(k) /\ Republished(k)' = Republished(k)
    BY <1>1, <2>1, <2>2, Added
  <2> DEFINE at == [k \in Tasks |-> Place(k)]
             tries == [k \in Tasks |-> Republished(k)]
  <2>4. at' = [at EXCEPT ![t] = "queued"] /\ tries' = tries /\ at[t] = "none"
    BY <2>1, <2>3
  <2>5. Life!Publish(t)
    BY <2>4 DEF Life!Publish, Life!Move
  <2> QED
    BY <2>3, <2>5 DEF Life!Next
<1>4. ASSUME NEW w \in Workers, NEW i \in Entries, Retries(w, i)
      PROVE  CountInv' /\ [Life!Next]_Life!vars
  <2> PICK t \in Tasks : t = log[i].task
    BY <1>2
  <2>1. In(w, i, "backoff") /\ i \in DOMAIN hand[w] /\ i \in EntriesOf(t) /\ lastId' = lastId
    BY <1>2, <1>4 DEF Retries, Republish, In
  <2>2. Place(t) = "backoff" /\ Alive(i)
    BY <1>1, <2>1 DEF PlaceByEntry, Alive, Phases
  <2>3. log[i].retry = Republished(t) /\ EntriesOf(t) # {}
    BY <2>1, <2>2 DEF LifeInv, CountInv
  <2>4. log[i].retry + 1 \in 0..RetryLimit
    <3>1. log[i].retry < LimitOf(t)
      BY <1>1, <2>1 DEF TypeInv, RetriesLeft
    <3> QED
      BY <1>2, <3>1, LimitTyped, RetryLimitAssumption
  <2>5. XAdd(t, log[i].retry + 1)
    BY <1>4 DEF Retries
  <2>6. Entries \subseteq Entries'
    BY <1>1, <2>4, <2>5, XAddFacts
  <2>7. \A v \in Workers : \A j, x : (v # w \/ j # i) => (In(v, j, x)' <=> In(v, j, x))
    BY <1>1, <1>4, <2>1, <2>6, ToFacts DEF Retries, Republish, Phases
  <2>8. PICK r \in 0..RetryLimit : r = log[i].retry + 1
    BY <2>4
  <2>9. /\ CountInv'
        /\ Place(t)' = "queued" /\ Republished(t)' = r
        /\ \A k \in Tasks : k # t => Place(k)' = Place(k) /\ Republished(k)' = Republished(k)
    BY <1>1, <2>1, <2>3, <2>5, <2>7, <2>8, Added
  <2> DEFINE at == [k \in Tasks |-> Place(k)]
             tries == [k \in Tasks |-> Republished(k)]
  <2>10. /\ at' = [at EXCEPT ![t] = "queued"] /\ tries' = [tries EXCEPT ![t] = @ + 1]
         /\ at[t] = "backoff"
    BY <2>2, <2>3, <2>8, <2>9
  <2>11. Life!Requeue(t)
    BY <2>10 DEF Life!Requeue, Life!Move
  <2> QED
    BY <2>9, <2>11 DEF Life!Next
<1>5. ASSUME NEW w \in Workers, Read(w) PROVE CountInv' /\ [Life!Next]_Life!vars
  <2> PICK last \in Fresh, batch \in SUBSET Fresh :
        /\ batch = {i \in Fresh : i <= last}
        /\ lastId' = last /\ pel' = pel \cup (batch \X {w})
        /\ UNCHANGED <<log, stream, group, life, sweep, outcome, faults>> /\ group
        /\ Entries' = Entries
        /\ HandOk'
        /\ \A v \in Workers : v # w => \A j, x : In(v, j, x)' <=> In(v, j, x)
        /\ \A j, x : In(w, j, x)' <=> j \in batch /\ x = "run"
        /\ \A j, x : ~In(w, j, x)
    BY <1>1, <1>5, ReadFacts
  <2>1. Fresh' = Fresh \ batch /\ Fresh \subseteq Entries
    <3>1. Fresh' = {i \in stream : i > last} /\ \A i \in stream : i \in Int
      BY <1>1 DEF Fresh, Entries
    <3>2. Fresh = {i \in stream : i > lastId} /\ last \in Int /\ last > lastId /\ lastId \in Int
      BY <1>1 DEF Fresh, Entries
    <3>3. \A i \in stream : i > last <=> i > lastId /\ ~(i <= last)
      BY <3>1, <3>2
    <3>4. Fresh' = Fresh \ batch
      BY <3>1, <3>2, <3>3
    <3> QED
      BY <1>1, <3>2, <3>4
  <2>2. CountInv'
    <3>1. \A j \in Entries : Alive(j)' => Alive(j)
      BY <2>1 DEF Alive
    <3> QED
      BY <3>1, CountStays
  <2> DEFINE T == {t \in Tasks : EntriesOf(t) \cap batch # {}}
  <2>3. \A t \in Tasks : Republished(t)' = Republished(t) /\ EntriesOf(t)' = EntriesOf(t)
    BY SameCounts
  <2>4. ASSUME NEW t \in T PROVE Place(t) = "queued" /\ Place(t)' = "busy"
    <3>1. PICK i \in EntriesOf(t) : i \in batch
      OBVIOUS
    <3>2. i \in Fresh /\ In(w, i, "run")' /\ i \in EntriesOf(t)'
      BY <2>3, <3>1
    <3> QED
      BY <1>1, <3>2 DEF PlaceByEntry
  <2>5. ASSUME NEW t \in Tasks, t \notin T PROVE Place(t)' = Place(t)
    <3>1. \A i \in EntriesOf(t) : i \notin batch
      BY <2>5
    <3>2. \A i \in EntriesOf(t) : i \in Fresh' <=> i \in Fresh
      BY <2>1, <3>1
    <3>3. \A v \in Workers : \A i \in EntriesOf(t) : \A x \in Phases \ {"finish"} :
            In(v, i, x)' <=> In(v, i, x)
      BY <3>1
    <3> QED
      BY <3>2, <3>3, PlaceStays
  <2>6. T \in SUBSET Tasks
    OBVIOUS
  <2> HIDE DEF T
  <2>7. [Life!Next]_Life!vars
    BY <2>3, <2>4, <2>5, <2>6, ManyMove
  <2> QED
    BY <2>2, <2>7
<1>6. CASE Shrinking
  <2>1. log' = log /\ Fresh' \subseteq Fresh /\ Entries' = Entries
    BY <1>6 DEF Shrinking, Entries
  <2>2. CountInv'
    <3>1. \A j \in Entries : Alive(j)' => Alive(j)
      BY <1>6, <2>1 DEF Alive, Shrinking
    <3> QED
      BY <2>1, <3>1, CountStays
  <2>3. \A t \in Tasks : Republished(t)' = Republished(t) /\ EntriesOf(t)' = EntriesOf(t)
    BY <2>1, SameCounts
  <2>4. ASSUME NEW w \in Workers, NEW i \in Entries, NEW x \in Phases, In(w, i, x), Fresh' = Fresh,
               NEW y \in Phases, To(w, i, y)
        PROVE  /\ \A v \in Workers : \A j, z : (v # w \/ j # i) => (In(v, j, z)' <=> In(v, j, z))
               /\ \A z : In(w, i, z)' <=> z = y
               /\ \A t \in Tasks : t # log[i].task => Place(t)' = Place(t)
               /\ y = "finish" => \A t \in Tasks : t = log[i].task =>
                                    Place(t)' = IF x = "finish" THEN Place(t) ELSE "gone"
    <3>1. i \in DOMAIN hand[w]
      BY <2>4 DEF In
    <3>2. /\ \A v \in Workers : \A j, z : (v # w \/ j # i) => (In(v, j, z)' <=> In(v, j, z))
          /\ \A z : In(w, i, z)' <=> z = y
      BY <1>1, <2>1, <2>4, <3>1, ToFacts
    <3> QED
      BY <1>1, <2>1, <2>4, <3>2, OneMessage
  <2>5. ASSUME NEW w \in Workers, NEW i \in Entries, NEW x \in Phases, In(w, i, x), Fresh' = Fresh,
               Drop(w, i), NEW t \in Tasks
        PROVE  Place(t)' = IF t = log[i].task /\ x # "finish" THEN "gone" ELSE Place(t)
    <3>1. /\ \A v \in Workers : \A j, z : (v # w \/ j # i) => (In(v, j, z)' <=> In(v, j, z))
          /\ \A z : ~In(w, i, z)'
      BY <1>1, <2>1, <2>5, DropFacts
    <3>2. /\ \A k \in Tasks : k # log[i].task => Place(k)' = Place(k)
          /\ \A k \in Tasks : k = log[i].task => Place(k)' = IF x = "finish" THEN Place(k) ELSE "gone"
      BY <1>1, <2>1, <2>5, <3>1, OneMessage
    <3> QED
      BY <3>2
  <2>6. ASSUME NEW w \in Workers, NEW i \in Entries, NEW t \in Tasks, t = log[i].task
        PROVE  /\ In(w, i, "run") \/ In(w, i, "ack") => Place(t) = "busy"
               /\ In(w, i, "backoff") => Place(t) = "backoff"
               /\ In(w, i, "giveUp") => Place(t) = "givingUp"
               /\ In(w, i, "run")' \/ In(w, i, "ack")' => Place(t)' = "busy"
               /\ In(w, i, "backoff")' => Place(t)' = "backoff"
               /\ In(w, i, "giveUp")' => Place(t)' = "givingUp"
               /\ In(w, i, "run") \/ In(w, i, "ack") => log[i].retry = Republished(t)
    <3>1. i \in EntriesOf(t) /\ i \in EntriesOf(t)'
      BY <1>2, <2>3, <2>6
    <3>2. In(w, i, "run") \/ In(w, i, "ack") => log[i].retry = Republished(t)
      BY <2>6 DEF LifeInv, CountInv, Alive, Phases
    <3> QED
      BY <1>1, <3>1, <3>2 DEF PlaceByEntry
  <2>7. ASSUME NEW w \in Workers, NEW i \in Entries, In(w, i, "run") \/ In(w, i, "ack"),
               Raised(w, i), Fresh' = Fresh
        PROVE  [Life!Next]_Life!vars
    <3> PICK t \in Tasks : t = log[i].task
      BY <1>2
    <3>1. PICK x \in {"run", "ack"} : In(w, i, x)
      BY <2>7
    <3>2. LimitOf(t) \in Nat /\ log[i].retry \in Nat /\ x \in Phases
      BY <1>2, <3>1, LimitTyped
    <3>3. PICK y \in {"backoff", "giveUp", "finish"} :
            /\ To(w, i, y)
            /\ y = "backoff" => log[i].retry < LimitOf(t)
            /\ y = "giveUp" => log[i].retry >= LimitOf(t)
      BY <2>7 DEF Raised
    <3>4. y \in Phases
      BY DEF Phases
    <3>5. /\ \A z : In(w, i, z)' <=> z = y
          /\ \A k \in Tasks : k # t => Place(k)' = Place(k)
          /\ y = "finish" => Place(t)' = "gone"
      BY <2>4, <2>7, <3>1, <3>2, <3>3, <3>4
    <3>6. Place(t) = "busy" /\ log[i].retry = Republished(t)
      BY <2>6, <3>1
    <3>7. /\ y = "backoff" => Place(t)' = "backoff" /\ Republished(t) < LimitOf(t)
          /\ y = "giveUp" => Place(t)' = "givingUp" /\ ~(Republished(t) < LimitOf(t))
      BY <2>6, <3>2, <3>3, <3>5, <3>6
    <3> QED
      BY <2>3, <3>5, <3>6, <3>7, OneMoves
  <2>8. ASSUME NEW w \in Workers, NEW i \in Entries, NEW x \in {"ack", "backoff", "giveUp", "finish"},
               In(w, i, x), Fresh' = Fresh, Drop(w, i) \/ To(w, i, "finish")
        PROVE  [Life!Next]_Life!vars
    <3> PICK t \in Tasks : t = log[i].task
      BY <1>2
    <3>1. x \in Phases /\ "finish" \in Phases
      BY DEF Phases
    <3>2. /\ \A k \in Tasks : k # t => Place(k)' = Place(k)
          /\ Place(t)' = IF x = "finish" THEN Place(t) ELSE "gone"
      BY <2>4, <2>5, <2>8, <3>1
    <3>3. x # "finish" => Place(t) \in {"busy", "backoff", "givingUp"}
      BY <2>6, <2>8
    <3> QED
      BY <2>3, <3>2, <3>3, OneMoves
  <2>9. ASSUME NEW w \in Workers, NEW i \in Entries, MessageStep(w, i) PROVE [Life!Next]_Life!vars
    <3>1. \A x \in Phases : In(w, i, x) => i \notin Fresh
      BY <1>1 DEF HeldIsOld
    <3>2. CASE HandlerReturns(w, i)
      <4> PICK t \in Tasks : t = log[i].task
        BY <1>2
      <4>1. In(w, i, "run") /\ To(w, i, "ack") /\ Fresh' = Fresh /\ {"run", "ack"} \subseteq Phases
        BY <3>2 DEF HandlerReturns, redis, Fresh, Phases
      <4>2. Place(t) = "busy" /\ Place(t)' = "busy" /\ \A k \in Tasks : k # t => Place(k)' = Place(k)
        BY <2>4, <2>6, <4>1
      <4> QED
        BY <2>3, <4>2, OneMoves
    <3>3. CASE HandlerRaises(w, i)
      BY <2>7, <3>3 DEF HandlerRaises, redis, Fresh
    <3>4. CASE Ack(w, i)
      <4>1. In(w, i, "ack") /\ (Drop(w, i) \/ Raised(w, i)) /\ lastId' = lastId
            /\ stream' \in {stream, stream \ {i}} /\ i \notin Fresh
        BY <3>1, <3>4 DEF Ack, AckDel, Phases
      <4>2. Fresh' = Fresh
        BY <4>1 DEF Fresh
      <4> QED
        BY <2>7, <2>8, <4>1, <4>2
    <3>5. CASE Republish(w, i)
      <4>1. In(w, i, "backoff") /\ To(w, i, "finish") /\ lastId' = lastId
        BY <3>5 DEF Republish
      <4>2. stream' = stream
        <5>1. ~XAdd(log[i].task, log[i].retry + 1)
          <6>1. ASSUME XAdd(log[i].task, log[i].retry + 1) PROVE FALSE
            <7>1. log' # log
              BY <1>1, <1>2, <6>1 DEF XAdd
            <7> QED
              BY <2>1, <7>1
          <6> QED
            BY <6>1
        <5> QED
          BY <3>5, <5>1 DEF Republish
      <4>3. Fresh' = Fresh
        BY <4>1, <4>2 DEF Fresh
      <4> QED
        BY <2>8, <4>1, <4>3
    <3>6. CASE GiveUp(w, i)
      BY <2>8, <3>6 DEF GiveUp, redis, Fresh
    <3>7. CASE Finish(w, i)
      <4>1. In(w, i, "finish") /\ Drop(w, i) /\ lastId' = lastId
            /\ stream' \in {stream, stream \ {i}} /\ i \notin Fresh
        BY <3>1, <3>7 DEF Finish, AckDel, Phases
      <4>2. Fresh' = Fresh
        BY <4>1 DEF Fresh
      <4> QED
        BY <2>8, <4>1, <4>2
    <3> QED
      BY <2>9, <3>2, <3>3, <3>4, <3>5, <3>6, <3>7 DEF MessageStep
  <2>10. ASSUME NEW w \in Workers, Crash(w) PROVE [Life!Next]_Life!vars
    <3>1. Fresh' = Fresh
      BY <2>10 DEF Crash, redis, Fresh
    <3>2. /\ \A v \in Workers : v # w => \A j, x : In(v, j, x)' <=> In(v, j, x)
          /\ \A j, x : ~In(w, j, x)'
      BY <1>1, <2>1, <2>10, CrashFacts
    <3> DEFINE T == {t \in Tasks : \E i \in EntriesOf(t) : \E x \in Phases \ {"finish"} : In(w, i, x)}
    <3>3. ASSUME NEW t \in T PROVE Place(t) \in {"busy", "backoff", "givingUp"} /\ Place(t)' = "gone"
      <4>1. PICK i \in EntriesOf(t), x \in Phases \ {"finish"} : In(w, i, x)
        OBVIOUS
      <4>2. i \in Entries /\ log[i].task = t /\ i \notin Fresh /\ Alive(i)
        BY <1>1, <1>2, <4>1 DEF HeldIsOld, Alive
      <4>3. Place(t) \in {"busy", "backoff", "givingUp"}
        BY <2>6, <4>1, <4>2 DEF Phases
      <4>4. ~Alive(i)'
        BY <1>1, <3>1, <3>2, <4>1, <4>2 DEF Alive, OneHolder
      <4>5. \A j \in EntriesOf(t) : Alive(j)' => Alive(j)
        BY <3>1, <3>2 DEF Alive
      <4>6. \A j \in EntriesOf(t) : ~Alive(j)'
        BY <1>1, <1>2, <4>2, <4>4, <4>5 DEF OneAlive
      <4> QED
        BY <1>1, <2>3, <4>1, <4>3, <4>6 DEF PlaceByEntry
    <3>4. ASSUME NEW t \in Tasks, t \notin T PROVE Place(t)' = Place(t)
      <4>1. \A v \in Workers : \A i \in EntriesOf(t) : \A x \in Phases \ {"finish"} :
              In(v, i, x)' <=> In(v, i, x)
        BY <3>2, <3>4
      <4> QED
        BY <2>1, <3>1, <4>1, PlaceStays
    <3>5. T \in SUBSET Tasks
      OBVIOUS
    <3> HIDE DEF T
    <3> QED
      BY <2>3, <3>3, <3>4, <3>5, ManyMove
  <2>11. ASSUME hand' = hand PROVE [Life!Next]_Life!vars
    <3> DEFINE T == {t \in Tasks : EntriesOf(t) \cap Fresh # {} /\ EntriesOf(t) \cap Fresh' = {}}
    <3>1. \A v \in Workers : \A j, x : In(v, j, x)' <=> In(v, j, x)
      BY <2>11 DEF In
    <3>2. ASSUME NEW t \in T PROVE Place(t) = "queued" /\ Place(t)' = "gone"
      <4>1. PICK i \in EntriesOf(t) : i \in Fresh
        OBVIOUS
      <4>2. i \in Entries /\ log[i].task = t /\ Alive(i)
        BY <1>2, <4>1 DEF Alive
      <4>3. \A j \in EntriesOf(t) : Alive(j)' => Alive(j) /\ \E v \in Workers : \E x \in Phases : In(v, j, x)
        BY <3>1 DEF Alive
      <4>4. \A j \in EntriesOf(t) : ~Alive(j)'
        BY <1>1, <1>2, <4>1, <4>2, <4>3 DEF OneAlive, HeldIsOld
      <4> QED
        BY <1>1, <2>3, <4>1, <4>4 DEF PlaceByEntry
    <3>3. ASSUME NEW t \in Tasks, t \notin T PROVE Place(t)' = Place(t)
      <4>1. CASE EntriesOf(t) \cap Fresh = {}
        BY <2>1, <3>1, <4>1, PlaceStays
      <4>2. CASE EntriesOf(t) \cap Fresh' # {}
        <5>1. PICK i \in EntriesOf(t) : i \in Fresh'
          BY <4>2
        <5>2. i \in Fresh /\ i \in EntriesOf(t)'
          BY <2>1, <2>3, <5>1
        <5> QED
          BY <1>1, <5>1, <5>2 DEF PlaceByEntry
      <4> QED
        BY <3>3, <4>1, <4>2
    <3>4. T \in SUBSET Tasks
      OBVIOUS
    <3> HIDE DEF T
    <3> QED
      BY <2>3, <3>2, <3>3, <3>4, ManyMove
  <2>12. \/ \E w \in Workers : (\E i \in Entries : MessageStep(w, i)) \/ Crash(w)
         \/ hand' = hand
         \/ (\E t \in Tasks : Publish(t)) \/ \E w \in Workers : Read(w)
    <3>1. \A w \in Workers : Start(w) \/ Regroup(w) \/ DeleteConsumer(w) => hand' = hand
      BY DEF Start, Regroup, DeleteConsumer, BeginSweep
    <3>2. LoseGroup \/ TrimStream \/ ReclaimStuck \/ CleanupZombies \/ SweepStep \/ UNCHANGED vars
          => hand' = hand
      BY DEF LoseGroup, TrimStream, ReclaimStuck, CleanupZombies, BeginSweep, SweepStep,
          SweepAck, SweepDelete, vars
    <3> QED
      BY <3>1, <3>2 DEF Next, WorkerStep
  <2> QED
    BY <1>3, <1>5, <2>2, <2>9, <2>10, <2>11, <2>12
<1> QED
  BY <1>3, <1>4, <1>5, <1>6, Shrinks DEF LifeInv

LEMMA LifeInit == Init => CountInv /\ Life!Init
<1> SUFFICES ASSUME Init PROVE CountInv /\ Life!Init
  OBVIOUS
<1>1. Entries = {} /\ \A t \in Tasks : EntriesOf(t) = {}
  BY DEF Init, Entries, EntriesOf
<1>2. \A t \in Tasks : Place(t) = "none" /\ Republished(t) = 0
  BY <1>1 DEF Place, Republished
<1> QED
  BY <1>1, <1>2 DEF CountInv, Life!Init

\* Unless the consumer group is destroyed, the stream with its consumers, operators
\* and faults gives each task the life that Delivery describes: one handler at a
\* time, at most its limit of retries, each after a failure, given up only after
\* the last one.
THEOREM QueueDelivers ==
  ASSUME "destroy" \notin Env
  PROVE  Spec => ImplementsDelivery
<1>1. Init => LifeInv /\ Life!Init
  BY QueueInit, LifeInit DEF LifeInv
<1>2. LifeInv /\ [Next]_vars => LifeInv' /\ [Life!Next]_Life!vars
  BY QueueStep, LifeStep DEF LifeInv
<1> QED
  BY <1>1, <1>2, PTL DEF Spec, ImplementsDelivery, Life!Spec

=============================================================================
