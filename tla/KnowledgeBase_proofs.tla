-------------------------- MODULE KnowledgeBase_proofs --------------------------
(***************************************************************************)
(* Proofs about a knowledge base's files.                                    *)
(*                                                                          *)
(* The list (KnowledgeFiles), for any files, uploads, processes, environment *)
(* and number of faults: the end of a batch is announced at most once, and   *)
(* after every file was dealt with; and no file falls off the list as long   *)
(* as there is one server process.                                           *)
(*                                                                          *)
(* One file on its way into it (FileProcessing), for any requests of any     *)
(* kind, any environment and number of faults: its status settles, completed *)
(* means indexed, and who is told that it was added finds it there.          *)
(***************************************************************************)
EXTENDS KnowledgeFiles, FileProcessing, FiniteSetTheorems, SequenceTheorems, TLAPS

-----------------------------------------------------------------------------
(* The file list: the inductive invariants *)

\* Where a task is once it may have counted itself done, and failed.
PastFailed == {"report", "announce", "end", "cut", "lost"}
PastDone   == PastFailed \cup {"incrFailed"}

\* The tasks the counters may know of.
Counted     == {f \in ok \cup bad : pc[f] \in PastDone}
FailCounted == {f \in Files : pc[f] \in PastFailed}

\* The counters count at most the tasks that dealt with their file, and no task
\* saw more than they count.
CountInv ==
  /\ redis.done <= Cardinality(Counted)
  /\ redis.failed <= Cardinality(FailCounted)
  /\ \A f \in Files : seen[f].done <= redis.done
  /\ \A f \in Files :
       pc[f] \in {"incr", "incrFailed", "report", "announce", "end"} => f \in ok \cup bad

\* Whoever is about to announce holds the claim, alone, and nothing was announced.
ClaimInv ==
  /\ \A f \in Files : pc[f] = "announce" => redis.finalized /\ events = << >>
  /\ \A f, g \in Files : pc[f] = "announce" /\ pc[g] = "announce" => f = g
  /\ ~redis.finalized => events = << >>
  /\ Len(events) <= 1

\* It is also past the last task of a batch of its own.
AllInv ==
  second = {} /\ (events # << >> \/ \E f \in Files : pc[f] = "announce") =>
    ok \cup bad = Files

RemovalInv == TypeOK /\ CountInv /\ ClaimInv /\ AllInv

\* What the other request that rewrites the list may hold.
OtherType == [kind : {"none", "heal", "gone", "replace"}, by : SUBSET Procs,
              file : SUBSET Files, list : SUBSET (Files \cup Uploads)]

\* With one process: whoever is to write the list back holds every file that is to
\* stay on it.
ListInv ==
  /\ NoFileVanishes
  /\ \A f \in Files : pc[f] = "write" => records \ (ok \cup {f}) \subseteq snap[f] \cup excused
  /\ other # NoOther => records \ ok \subseteq other.list \cup other.file \cup excused
  /\ other # NoOther => other.by # {}

OneProcess == \A p, q \in Procs : p = q

-----------------------------------------------------------------------------
(* Counting files *)

\* Any set of files is finite, and smaller than the set of all.
LEMMA FileSets ==
  ASSUME NEW S \in SUBSET Files
  PROVE  /\ IsFiniteSet(S) /\ Cardinality(S) \in Nat
         /\ Cardinality(S) <= Cardinality(Files) /\ Cardinality(Files) \in Nat
         /\ Cardinality(S) = Cardinality(Files) => S = Files
BY FilesAssumption, FS_Subset, FS_CardinalityType

\* A larger set of files has no fewer elements, and one more if one was added.
LEMMA LargerSets ==
  ASSUME NEW S \in SUBSET Files, NEW T \in SUBSET Files, S \subseteq T
  PROVE  /\ Cardinality(S) <= Cardinality(T)
         /\ \A f \in T \ S : Cardinality(S) + 1 <= Cardinality(T)
<1>1. Cardinality(S) \in Nat /\ Cardinality(T) \in Nat /\ IsFiniteSet(T) /\ IsFiniteSet(S)
  BY FileSets
<1>2. Cardinality(S) <= Cardinality(T)
  BY <1>1, FS_Subset
<1>3. ASSUME NEW f \in T \ S
      PROVE  Cardinality(S) + 1 <= Cardinality(T)
  <2>1. Cardinality(S \cup {f}) = Cardinality(S) + 1
    BY <1>1, <1>3, FS_AddElement
  <2>2. S \cup {f} \in SUBSET T
    BY <1>3
  <2>3. Cardinality(S \cup {f}) <= Cardinality(T)
    BY <1>1, <2>2, FS_Subset
  <2> QED
    BY <2>1, <2>3
<1> QED
  BY <1>2, <1>3

\* A fault leaves the counter in its range.
LEMMA FaultsTyped ==
  ASSUME faults \in 0..MaxFaults,
         NoFault \/ \E event \in EnvEvents : Fault(event)
  PROVE  faults' \in 0..MaxFaults
BY FaultsAssumption DEF NoFault, Fault

\* The other writers of the list leave the batch alone.
LEMMA OtherEffect ==
  ASSUME TypeOK, OtherStep
  PROVE  /\ UNCHANGED <<pc, proc, snap, ok, bad, redis, seen, events, second>>
         /\ records' \subseteq Files \cup Uploads /\ ids' \subseteq Files \cup Uploads
         /\ other' \in OtherType /\ excused' \subseteq Files \cup Uploads
         /\ faults' = faults \/ \E event \in EnvEvents : Fault(event)
<1> DEFINE Effect ==
      /\ UNCHANGED <<pc, proc, snap, ok, bad, redis, seen, events, second>>
      /\ records' \subseteq Files \cup Uploads /\ ids' \subseteq Files \cup Uploads
      /\ other' \in OtherType /\ excused' \subseteq Files \cup Uploads
      /\ faults' = faults \/ \E event \in EnvEvents : Fault(event)
<1> USE DEF TypeOK, NoOther, OtherType, EnvEvents, NoFault, list
<1>1. ASSUME NEW f \in Uploads, Upload(f) \/ UploadInThread(f)
      PROVE  Effect
  BY <1>1 DEF Upload, UploadInThread, Addition
<1>2. ASSUME NEW p \in Procs, HealRead(p)
      PROVE  Effect
  BY <1>2 DEF HealRead, Reads
<1>3. ASSUME NEW p \in Procs, NEW f \in Files, GoneRead(p, f)
      PROVE  Effect
  BY <1>3 DEF GoneRead, Reads
<1>4. ASSUME NEW p \in Procs, NEW f \in Files, ReplaceRead(p, f)
      PROVE  Effect
  BY <1>4 DEF ReplaceRead, Reads
<1>5. CASE HealCompact
  BY <1>5 DEF HealCompact, Writes
<1>6. CASE GoneWrite
  BY <1>6 DEF GoneWrite, Writes
<1>7. CASE ReplaceWrite
  BY <1>7 DEF ReplaceWrite, Writes
<1> QED
  BY <1>1, <1>2, <1>3, <1>4, <1>5, <1>6, <1>7 DEF OtherStep, OtherWrites

-----------------------------------------------------------------------------
(* The batch *)

\* What one step of the batch, or of anybody else, does to the positions of the
\* tasks and to what was dealt with.
LEMMA PlacesStep ==
  ASSUME TypeOK, CountInv, [Next]_vars
  PROVE  /\ pc' \in [Files -> PCs] /\ ok' \subseteq Files /\ bad' \subseteq Files
         /\ ok \subseteq ok' /\ bad \subseteq bad'
         /\ \A f \in Files : pc[f] \in PastDone => pc'[f] \in PastDone
         /\ \A f \in Files : pc[f] \in PastFailed => pc'[f] \in PastFailed
         /\ \A f \in Files :
              pc'[f] \in {"incr", "incrFailed", "report", "announce", "end"} =>
                f \in ok' \cup bad'
<1> USE DEF TypeOK, CountInv, PCs, PastDone, PastFailed, Goto
<1>1. ASSUME NEW f \in Files, Publish(f)
      PROVE  /\ pc' \in [Files -> PCs] /\ UNCHANGED <<ok, bad>>
             /\ \A g \in Files : pc'[g] = pc[g] \/ (pc[g] = "new" /\ pc'[g] \in {"queued", "cut"})
  <2>1. UNCHANGED <<ok, bad>>
    BY <1>1 DEF Publish
  <2>2. CASE pc' = [pc EXCEPT ![f] = "queued"]
    BY <1>1, <2>1, <2>2 DEF Publish
  <2>3. CASE pc' = [g \in Files |-> IF g \in Batch(f) /\ pc[g] = "new" THEN "cut" ELSE pc[g]]
    BY <2>1, <2>3
  <2> QED
    BY <1>1, <2>2, <2>3 DEF Publish
<1>2. ASSUME NEW f \in Files, Start(f)
      PROVE  /\ pc' = [pc EXCEPT ![f] = pc'[f]] /\ pc[f] = "queued" /\ UNCHANGED ok
             /\ \/ pc'[f] = "search" /\ bad' = bad
                \/ pc'[f] = "incr" /\ bad' = bad \cup {f}
  BY <1>2 DEF Start
<1>3. ASSUME NEW f \in Files, Remove(f)
      PROVE  /\ pc' = [pc EXCEPT ![f] = pc'[f]] /\ pc[f] = "search" /\ UNCHANGED bad
             /\ \/ pc'[f] = "write" /\ ok' = ok
                \/ pc'[f] = "incr" /\ ok' = ok \cup {f}
  BY <1>3 DEF Remove
<1>4. ASSUME NEW f \in Files, Write(f)
      PROVE  /\ pc' = [pc EXCEPT ![f] = "incr"] /\ pc[f] = "write"
             /\ ok' = ok \cup {f} /\ UNCHANGED bad
  BY <1>4 DEF Write
<1>5. ASSUME NEW f \in Files, CountDone(f) \/ CountFailed(f)
      PROVE  /\ pc' = [pc EXCEPT ![f] = pc'[f]] /\ pc[f] \in {"incr", "incrFailed"}
             /\ pc'[f] \in IF pc[f] = "incr" THEN {"incrFailed", "cut"} ELSE {"report", "cut"}
             /\ UNCHANGED <<ok, bad>>
  BY <1>5 DEF CountDone, CountFailed
<1>6. ASSUME NEW f \in Files, Report(f) \/ Announce(f)
      PROVE  /\ pc' = [pc EXCEPT ![f] = pc'[f]] /\ pc[f] \in {"report", "announce"}
             /\ pc'[f] \in {"announce", "end", "cut"} /\ UNCHANGED <<ok, bad>>
  BY <1>6 DEF Report, Announce
<1>7. ASSUME NEW p \in Procs, Crash(p)
      PROVE  /\ pc' \in [Files -> PCs] /\ UNCHANGED <<ok, bad>>
             /\ \A g \in Files : pc'[g] = pc[g] \/ pc'[g] = "lost"
  BY <1>7 DEF Crash
<1>8. ASSUME OtherStep \/ UNCHANGED vars
      PROVE  UNCHANGED <<pc, ok, bad>>
  BY <1>8, OtherEffect DEF vars
<1>9. ASSUME NEW f \in Files, TaskStep(f)
      PROVE  /\ pc' \in [Files -> PCs] /\ ok' \subseteq Files /\ bad' \subseteq Files
             /\ ok \subseteq ok' /\ bad \subseteq bad'
             /\ \A g \in Files : pc[g] \in PastDone => pc'[g] \in PastDone
             /\ \A g \in Files : pc[g] \in PastFailed => pc'[g] \in PastFailed
             /\ \A g \in Files :
                  pc'[g] \in {"incr", "incrFailed", "report", "announce", "end"} =>
                    g \in ok' \cup bad'
  <2>1. /\ pc' = [pc EXCEPT ![f] = pc'[f]]
        /\ ok' = ok \/ ok' = ok \cup {f}
        /\ bad' = bad \/ bad' = bad \cup {f}
        /\ \/ pc[f] = "queued" /\ pc'[f] \in {"search", "incr"}
           \/ pc[f] = "search" /\ pc'[f] \in {"write", "incr"}
           \/ pc[f] = "write" /\ pc'[f] = "incr"
           \/ pc[f] = "incr" /\ pc'[f] \in {"incrFailed", "cut"}
           \/ pc[f] = "incrFailed" /\ pc'[f] \in {"report", "cut"}
           \/ pc[f] \in {"report", "announce"} /\ pc'[f] \in {"announce", "end", "cut"}
        /\ pc'[f] = "incr" => f \in ok' \cup bad'
    BY <1>2, <1>3, <1>4, <1>5, <1>6, <1>9 DEF TaskStep
  <2>2. pc' \in [Files -> PCs] /\ \A g \in Files : g = f \/ pc'[g] = pc[g]
    <3>1. pc'[f] \in PCs
      BY <2>1
    <3>2. pc' = [pc EXCEPT ![f] = pc'[f]] /\ pc \in [Files -> PCs]
      BY <2>1
    <3> QED
      BY <3>1, <3>2
  <2>3. ok' \subseteq Files /\ bad' \subseteq Files /\ ok \subseteq ok' /\ bad \subseteq bad'
    BY <2>1
  <2>4. /\ pc[f] \in PastDone => pc'[f] \in PastDone
        /\ pc[f] \in PastFailed => pc'[f] \in PastFailed
        /\ pc'[f] \in {"incr", "incrFailed", "report", "announce", "end"} => f \in ok' \cup bad'
    BY <2>1, <2>3
  <2> QED
    BY <2>2, <2>3, <2>4
<1> QED
  BY <1>1, <1>7, <1>8, <1>9 DEF Next

\* The counters of the batch count no more than happened.
LEMMA RedisStep ==
  ASSUME TypeOK, CountInv, [Next]_vars
  PROVE  /\ redis' \in [done : Nat, failed : Nat, finalized : BOOLEAN]
         /\ redis'.done <= Cardinality(Counted')
         /\ redis'.failed <= Cardinality(FailCounted')
         /\ redis.done <= redis'.done
<1>1. /\ Counted \subseteq Counted' /\ Counted' \in SUBSET Files /\ Counted \in SUBSET Files
      /\ FailCounted \subseteq FailCounted'
      /\ FailCounted \in SUBSET Files /\ FailCounted' \in SUBSET Files
  BY PlacesStep DEF Counted, FailCounted, TypeOK
<1>2. /\ Cardinality(Counted) \in Nat /\ Cardinality(Counted') \in Nat
      /\ Cardinality(Counted) <= Cardinality(Counted')
      /\ Cardinality(FailCounted) \in Nat /\ Cardinality(FailCounted') \in Nat
      /\ Cardinality(FailCounted) <= Cardinality(FailCounted')
  BY <1>1, FileSets, LargerSets
<1>3. /\ redis.done \in Nat /\ redis.failed \in Nat /\ redis.finalized \in BOOLEAN
      /\ redis \in [done : Nat, failed : Nat, finalized : BOOLEAN]
  <2>1. Cardinality(Files) \in Nat
    BY FileSets
  <2> QED
    BY <2>1 DEF TypeOK
<1>4. CASE UNCHANGED redis
  BY <1>2, <1>3, <1>4 DEF CountInv
<1>5. ASSUME NEW f \in Files, CountDone(f)
      PROVE  /\ redis' \in [done : Nat, failed : Nat, finalized : BOOLEAN]
             /\ redis'.done <= Cardinality(Counted')
             /\ redis'.failed <= Cardinality(FailCounted')
             /\ redis.done <= redis'.done
  <2>1. f \in Counted' \ Counted
    BY <1>5 DEF CountDone, Goto, Counted, TypeOK, CountInv, PastDone, PastFailed
  <2>2. Cardinality(Counted) + 1 <= Cardinality(Counted')
    BY <1>1, <2>1, LargerSets
  <2>3. redis' = redis \/ redis' = [redis EXCEPT !.done = redis.done + 1]
    BY <1>5 DEF CountDone
  <2>4. /\ redis' \in [done : Nat, failed : Nat, finalized : BOOLEAN]
        /\ redis'.failed = redis.failed /\ redis'.done \in {redis.done, redis.done + 1}
    BY <1>3, <2>3
  <2> QED
    BY <1>2, <1>3, <2>2, <2>4 DEF CountInv
<1>6. ASSUME NEW f \in Files, CountFailed(f)
      PROVE  /\ redis' \in [done : Nat, failed : Nat, finalized : BOOLEAN]
             /\ redis'.done <= Cardinality(Counted')
             /\ redis'.failed <= Cardinality(FailCounted')
             /\ redis.done <= redis'.done
  <2>1. f \in FailCounted' \ FailCounted
    BY <1>6 DEF CountFailed, Goto, FailCounted, TypeOK, PastFailed
  <2>2. Cardinality(FailCounted) + 1 <= Cardinality(FailCounted')
    BY <1>1, <2>1, LargerSets
  <2>3. redis' = redis \/ redis' = [redis EXCEPT !.failed = redis.failed + 1]
    BY <1>6 DEF CountFailed
  <2>4. /\ redis' \in [done : Nat, failed : Nat, finalized : BOOLEAN]
        /\ redis'.done = redis.done /\ redis'.failed \in {redis.failed, redis.failed + 1}
    BY <1>3, <2>3
  <2> QED
    BY <1>2, <1>3, <2>2, <2>4 DEF CountInv
<1>7. ASSUME NEW f \in Files, Report(f)
      PROVE  /\ redis' \in [done : Nat, failed : Nat, finalized : BOOLEAN]
             /\ redis'.done = redis.done /\ redis'.failed = redis.failed
  <2>1. redis' = redis \/ redis' = [redis EXCEPT !.finalized = TRUE]
    BY <1>7 DEF Report
  <2> QED
    BY <1>3, <2>1
<1>8. \/ UNCHANGED redis
      \/ \E f \in Files : CountDone(f) \/ CountFailed(f) \/ Report(f)
  BY OtherEffect DEF Next, TaskStep, Publish, Start, Remove, Write, Announce, Crash, vars
<1>9. ASSUME NEW f \in Files, Report(f)
      PROVE  /\ redis' \in [done : Nat, failed : Nat, finalized : BOOLEAN]
             /\ redis'.done <= Cardinality(Counted')
             /\ redis'.failed <= Cardinality(FailCounted')
             /\ redis.done <= redis'.done
  BY <1>2, <1>3, <1>7, <1>9 DEF CountInv
<1> QED
  BY <1>4, <1>5, <1>6, <1>8, <1>9

\* Every step keeps the types and the counters true.
LEMMA TypeStep == TypeOK /\ CountInv /\ [Next]_vars => TypeOK' /\ CountInv'
<1> SUFFICES ASSUME TypeOK, CountInv, [Next]_vars
             PROVE  TypeOK' /\ CountInv'
  OBVIOUS
<1> DEFINE N == Cardinality(Files)
<1>0. N \in Nat
  BY FileSets
<1>1. /\ pc' \in [Files -> PCs] /\ ok' \subseteq Files /\ bad' \subseteq Files
      /\ redis' \in [done : Nat, failed : Nat, finalized : BOOLEAN]
      /\ redis.done <= redis'.done
  BY PlacesStep, RedisStep
<1>2. redis' \in [done : 0..N, failed : 0..N, finalized : BOOLEAN]
  <2>1. Counted' \in SUBSET Files /\ FailCounted' \in SUBSET Files
    BY <1>1 DEF Counted, FailCounted
  <2>2. /\ Cardinality(Counted') \in Nat /\ Cardinality(FailCounted') \in Nat
        /\ Cardinality(Counted') <= N /\ Cardinality(FailCounted') <= N
    BY <2>1, FileSets
  <2>3. redis'.done <= Cardinality(Counted') /\ redis'.failed <= Cardinality(FailCounted')
    BY RedisStep
  <2>4. redis'.done \in 0..N /\ redis'.failed \in 0..N
    BY <1>0, <1>1, <2>2, <2>3
  <2> QED
    BY <1>1, <2>4
<1>3. faults' \in 0..MaxFaults
  <2>1. faults' = faults \/ \E event \in EnvEvents : Fault(event)
    BY OtherEffect DEF Next, TaskStep, Publish, Start, Remove, Write, CountDone, CountFailed, Report,
        Announce, Crash, vars, NoFault, EnvEvents
  <2> QED
    BY <2>1, FaultsTyped DEF TypeOK, NoFault
<1>4. /\ seen' \in [Files -> [done : 0..N, failed : 0..N]]
      /\ \A f \in Files : seen'[f].done <= redis'.done
  <2>1. CASE UNCHANGED seen
    <3>1. \A f \in Files : seen[f].done <= redis.done /\ seen[f].done \in 0..N
      BY <2>1 DEF CountInv, TypeOK
    <3>2. redis.done \in Nat /\ redis'.done \in Nat
      BY <1>0, <1>1 DEF TypeOK
    <3> QED
      BY <1>0, <1>1, <2>1, <3>1, <3>2 DEF TypeOK
  <2>2. ASSUME NEW f \in Files, CountDone(f), seen' # seen
        PROVE  seen' = [seen EXCEPT ![f].done = redis'.done]
    BY <2>2 DEF CountDone
  <2>3. ASSUME NEW f \in Files, CountFailed(f), seen' # seen
        PROVE  seen' = [seen EXCEPT ![f].failed = redis'.failed]
    BY <2>3 DEF CountFailed
  <2>4. \/ UNCHANGED seen
        \/ \E f \in Files : /\ CountDone(f) \/ CountFailed(f)
                            /\ seen' # seen
    BY OtherEffect DEF Next, TaskStep, Publish, Start, Remove, Write, Report, Announce, Crash, vars
  <2>5. redis'.done \in 0..N /\ redis'.failed \in 0..N /\ redis.done \in 0..N
    BY <1>2 DEF TypeOK
  <2>6. \A f \in Files : /\ seen[f] \in [done : 0..N, failed : 0..N]
                         /\ seen[f].done <= redis.done
    BY DEF CountInv, TypeOK
  <2>7. ASSUME NEW f \in Files, seen' = [seen EXCEPT ![f].done = redis'.done]
        PROVE  /\ seen' \in [Files -> [done : 0..N, failed : 0..N]]
               /\ \A g \in Files : seen'[g].done <= redis'.done
    <3>1. /\ seen'[f] = [seen[f] EXCEPT !.done = redis'.done]
          /\ \A g \in Files \ {f} : seen'[g] = seen[g]
      BY <2>7 DEF TypeOK
    <3>2. \A g \in Files : /\ seen'[g] \in [done : 0..N, failed : 0..N]
                           /\ seen'[g].done <= redis'.done
      <4>1. /\ seen'[f] \in [done : 0..N, failed : 0..N]
            /\ seen'[f].done = redis'.done
        BY <2>5, <2>6, <3>1
      <4>2. \A g \in Files \ {f} : /\ seen'[g] \in [done : 0..N, failed : 0..N]
                                   /\ seen'[g].done <= redis.done /\ seen'[g].done \in 0..N
        BY <2>6, <3>1
      <4> QED
        BY <1>0, <1>1, <2>5, <2>6, <4>1, <4>2
    <3> QED
      BY <2>7, <3>2 DEF TypeOK
  <2>8. ASSUME NEW f \in Files, seen' = [seen EXCEPT ![f].failed = redis'.failed]
        PROVE  /\ seen' \in [Files -> [done : 0..N, failed : 0..N]]
               /\ \A g \in Files : seen'[g].done <= redis'.done
    <3>1. /\ seen'[f] = [seen[f] EXCEPT !.failed = redis'.failed]
          /\ \A g \in Files \ {f} : seen'[g] = seen[g]
      BY <2>8 DEF TypeOK
    <3>2. \A g \in Files : /\ seen'[g] \in [done : 0..N, failed : 0..N]
                           /\ seen'[g].done <= redis'.done
      <4>1. /\ seen'[f] \in [done : 0..N, failed : 0..N]
            /\ seen'[f].done = seen[f].done
        BY <2>5, <2>6, <3>1
      <4>2. \A g \in Files \ {f} : /\ seen'[g] \in [done : 0..N, failed : 0..N]
                                   /\ seen'[g].done <= redis.done /\ seen'[g].done \in 0..N
        BY <2>6, <3>1
      <4> QED
        BY <1>0, <1>1, <2>5, <2>6, <4>1, <4>2
    <3> QED
      BY <2>8, <3>2 DEF TypeOK
  <2> QED
    BY <2>1, <2>2, <2>3, <2>4, <2>7, <2>8
<1>5. events' \in Seq(0..N)
  <2>1. CASE UNCHANGED events
    BY <2>1 DEF TypeOK
  <2>2. ASSUME NEW f \in Files, Announce(f)
        PROVE  events' \in Seq(0..N)
    <3>1. seen[f].failed \in 0..N /\ events \in Seq(0..N)
      BY DEF TypeOK
    <3> QED
      BY <2>2, <3>1, AppendProperties DEF Announce
  <2>3. UNCHANGED events \/ \E f \in Files : Announce(f)
    BY OtherEffect DEF Next, TaskStep, Publish, Start, Remove, Write, CountDone, CountFailed,
        Report, Crash, vars
  <2> QED
    BY <2>1, <2>2, <2>3
<1>6. /\ records' \subseteq Files \cup Uploads /\ ids' \subseteq Files \cup Uploads
      /\ snap' \in [Files -> SUBSET (Files \cup Uploads)]
      /\ UNCHANGED <<proc, second>>
  BY OtherEffect DEF Next, TaskStep, Publish, Start, Remove, Write, CountDone, CountFailed, Report,
      Announce, Crash, vars, list, TypeOK
<1>7. other' \in OtherType /\ excused' \subseteq Files \cup Uploads
  <2>1. \/ other' \in {other, NoOther} /\ UNCHANGED excused
        \/ OtherStep
    BY DEF Next, TaskStep, Publish, Start, Remove, Write, CountDone, CountFailed, Report,
        Announce, Crash, vars, list
  <2> QED
    BY <2>1, OtherEffect DEF TypeOK, OtherType, NoOther
<1>8. TypeOK'
  BY <1>1, <1>2, <1>3, <1>4, <1>5, <1>6, <1>7 DEF TypeOK, OtherType
<1>9. CountInv'
  BY <1>4, PlacesStep, RedisStep DEF CountInv
<1> QED
  BY <1>8, <1>9

\* The claim goes to one task, and the announcement with it.
LEMMA ClaimStep == TypeOK /\ ClaimInv /\ [Next]_vars => ClaimInv'
<1> SUFFICES ASSUME TypeOK, ClaimInv, [Next]_vars
             PROVE  ClaimInv'
  OBVIOUS
<1> USE DEF Goto
<1>1. CASE /\ UNCHANGED <<redis, events>>
           /\ \A f \in Files : pc'[f] = "announce" => pc[f] = "announce"
  BY <1>1 DEF ClaimInv
<1>2. ASSUME NEW f \in Files, CountDone(f) \/ CountFailed(f)
      PROVE  ClaimInv'
  <2>1. redis'.finalized = redis.finalized
    BY <1>2 DEF CountDone, CountFailed, TypeOK
  <2>2. UNCHANGED events /\ \A g \in Files : pc'[g] = "announce" => pc[g] = "announce"
    BY <1>2 DEF CountDone, CountFailed, TypeOK
  <2> QED
    BY <2>1, <2>2 DEF ClaimInv
<1>3. ASSUME NEW f \in Files, Report(f)
      PROVE  ClaimInv'
  <2>1. CASE Last(f) /\ ~redis.finalized /\ redis' = [redis EXCEPT !.finalized = TRUE]
             /\ pc' = [pc EXCEPT ![f] = "announce"]
    <3>1. redis'.finalized = TRUE
      BY <2>1 DEF TypeOK
    <3>2. events' = events /\ events = << >> /\ \A g \in Files : pc[g] # "announce"
      BY <1>3, <2>1 DEF Report, ClaimInv
    <3> QED
      BY <2>1, <3>1, <3>2 DEF ClaimInv, TypeOK
  <2>2. CASE pc' = [pc EXCEPT ![f] = "end"] /\ UNCHANGED redis
    BY <1>1, <1>3, <2>2 DEF Report, TypeOK
  <2>3. CASE redis' \in {redis, [redis EXCEPT !.finalized = TRUE]} /\ pc' = [pc EXCEPT ![f] = "cut"]
    <3>1. redis'.finalized = redis.finalized \/ redis'.finalized = TRUE
      BY <2>3 DEF TypeOK
    <3>2. events' = events /\ \A g \in Files : pc'[g] = "announce" => pc[g] = "announce"
      BY <1>3, <2>3 DEF Report, TypeOK
    <3>3. redis.finalized = TRUE => redis'.finalized = TRUE
      BY <2>3 DEF TypeOK
    <3> QED
      BY <3>1, <3>2, <3>3 DEF ClaimInv, TypeOK
  <2> QED
    BY <1>3, <2>1, <2>2, <2>3 DEF Report
<1>4. ASSUME NEW f \in Files, Announce(f)
      PROVE  ClaimInv'
  <2>1. /\ redis.finalized /\ events = << >> /\ UNCHANGED redis
        /\ \A g \in Files : pc[g] = "announce" => g = f
    BY <1>4 DEF Announce, ClaimInv
  <2>2. \A g \in Files : pc'[g] # "announce"
    BY <1>4, <2>1 DEF Announce, TypeOK
  <2>3. Len(events') = 1
    <3>1. events' = <<seen[f].failed>>
      BY <1>4, <2>1 DEF Announce
    <3> QED
      BY <3>1
  <2> QED
    BY <2>1, <2>2, <2>3 DEF ClaimInv
<1>5. ASSUME NEW f \in Files, Publish(f)
      PROVE  ClaimInv'
  <2>1. \A g \in Files : pc'[g] = "announce" => pc[g] = "announce"
    <3>1. CASE pc' = [pc EXCEPT ![f] = "queued"]
      BY <3>1 DEF TypeOK
    <3>2. CASE pc' = [g \in Files |-> IF g \in Batch(f) /\ pc[g] = "new" THEN "cut" ELSE pc[g]]
      BY <3>2
    <3> QED
      BY <1>5, <3>1, <3>2 DEF Publish
  <2> QED
    BY <1>1, <1>5, <2>1 DEF Publish
<1>6. ASSUME NEW f \in Files, Start(f) \/ Remove(f) \/ Write(f)
      PROVE  ClaimInv'
  BY <1>1, <1>6 DEF Start, Remove, Write, TypeOK
<1>7. ASSUME NEW p \in Procs, Crash(p)
      PROVE  ClaimInv'
  BY <1>1, <1>7 DEF Crash
<1>8. ASSUME OtherStep \/ UNCHANGED vars
      PROVE  ClaimInv'
  BY <1>1, <1>8, OtherEffect DEF vars
<1> QED
  BY <1>2, <1>3, <1>4, <1>5, <1>6, <1>7, <1>8 DEF Next, TaskStep

\* Who sees the counter at its total comes after every file was dealt with.
LEMMA AllStep == RemovalInv /\ [Next]_vars => AllInv'
<1> SUFFICES ASSUME RemovalInv, [Next]_vars, second' = {}
             PROVE  \/ ok' \cup bad' = Files
                    \/ events' = << >> /\ \A f \in Files : pc'[f] # "announce"
  BY DEF AllInv
<1> USE DEF RemovalInv, Goto
<1>0. /\ second = {} /\ ok \cup bad \subseteq ok' \cup bad' /\ ok' \cup bad' \subseteq Files
  <2>1. UNCHANGED second
    BY OtherEffect DEF Next, TaskStep, Publish, Start, Remove, Write, CountDone, CountFailed, Report,
        Announce, Crash, vars
  <2> QED
    BY <2>1, PlacesStep
<1>1. CASE ok \cup bad = Files
  BY <1>0, <1>1
<1>2. CASE ok \cup bad # Files
  <2>1. events = << >> /\ \A f \in Files : pc[f] # "announce"
    BY <1>0, <1>2 DEF AllInv
  <2>2. ASSUME NEW f \in Files, Report(f)
        PROVE  ~Last(f)
    <3>1. Total(f) = Cardinality(Files)
      BY <1>0 DEF Total, Batch
    <3>2. Counted \in SUBSET Files
      BY DEF Counted, TypeOK
    <3>3. /\ seen[f].done <= redis.done /\ redis.done <= Cardinality(Counted)
          /\ seen[f].done \in 0..Cardinality(Files) /\ redis.done \in 0..Cardinality(Files)
      BY DEF CountInv, TypeOK
    <3>4. Cardinality(Counted) = Cardinality(Files) => Counted = Files
      BY <3>2, FileSets
    <3>5. Counted # Files
      BY <1>2 DEF Counted, TypeOK
    <3>6. Cardinality(Counted) < Cardinality(Files)
      BY <3>2, <3>4, <3>5, FileSets
    <3> QED
      BY <3>1, <3>2, <3>3, <3>6, FileSets DEF Last
  <2>3. ASSUME NEW f \in Files, TaskStep(f)
        PROVE  events' = << >> /\ \A g \in Files : pc'[g] # "announce"
    <3>1. UNCHANGED events
      BY <2>1, <2>3
      DEF TaskStep, Start, Remove, Write, CountDone, CountFailed, Report, Announce
    <3>2. CASE Report(f)
      BY <2>1, <2>2, <3>1, <3>2 DEF Report, TypeOK
    <3>3. CASE ~Report(f)
      BY <2>1, <2>3, <3>1, <3>3
      DEF TaskStep, Start, Remove, Write, CountDone, CountFailed,
         Announce, TypeOK
    <3> QED
      BY <3>2, <3>3
  <2>4. ASSUME NEW f \in Files, Publish(f)
        PROVE  events' = << >> /\ \A g \in Files : pc'[g] # "announce"
    <3>1. CASE pc' = [pc EXCEPT ![f] = "queued"]
      BY <2>1, <2>4, <3>1 DEF Publish, TypeOK
    <3>2. CASE pc' = [g \in Files |-> IF g \in Batch(f) /\ pc[g] = "new" THEN "cut" ELSE pc[g]]
      BY <2>1, <2>4, <3>2 DEF Publish
    <3> QED
      BY <2>4, <3>1, <3>2 DEF Publish
  <2>5. ASSUME NEW p \in Procs, Crash(p)
        PROVE  events' = << >> /\ \A g \in Files : pc'[g] # "announce"
    BY <2>1, <2>5 DEF Crash
  <2>6. ASSUME OtherStep \/ UNCHANGED vars
        PROVE  events' = << >> /\ \A g \in Files : pc'[g] # "announce"
    BY <2>1, <2>6, OtherEffect DEF vars
  <2> QED
    BY <2>3, <2>4, <2>5, <2>6 DEF Next
<1> QED
  BY <1>1, <1>2

\* Nothing is counted, claimed or announced at the start.
LEMMA RemovalInit == Init => RemovalInv
<1> SUFFICES ASSUME Init
             PROVE  RemovalInv
  OBVIOUS
<1>0. Cardinality(Files) \in Nat /\ 0 \in 0..Cardinality(Files)
  BY FileSets
<1>1. TypeOK
  <2>1. faults \in 0..MaxFaults
    BY FaultsAssumption DEF Init
  <2>2. events \in Seq(0..Cardinality(Files))
    BY EmptySeq DEF Init
  <2>3. other \in OtherType
    BY DEF Init, NoOther, OtherType
  <2>4. second \in SUBSET Second
    BY DEF Init
  <2> QED
    BY <1>0, <2>1, <2>2, <2>3, <2>4 DEF Init, TypeOK, PCs, OtherType
<1>2. CountInv
  <2>1. Counted = {} /\ FailCounted = {}
    BY DEF Init, Counted, FailCounted, PastDone, PastFailed
  <2> QED
    BY <2>1, FS_EmptySet DEF Init, CountInv
<1>3. ClaimInv
  <2>1. Len(events) = 0
    BY DEF Init
  <2> QED
    BY <2>1 DEF Init, ClaimInv
<1>4. AllInv
  BY DEF Init, AllInv
<1> QED
  BY <1>1, <1>2, <1>3, <1>4 DEF RemovalInv

LEMMA RemovalInvariant == Spec => []RemovalInv
<1>1. RemovalInv /\ [Next]_vars => RemovalInv'
  BY TypeStep, ClaimStep, AllStep DEF RemovalInv
<1> QED
  BY RemovalInit, <1>1, PTL DEF Spec

\* However the counters fail, and whichever requests share the job id, the end of a
\* batch is announced at most once.
THEOREM BatchAnnouncedOnce == Spec => []BatchInv
<1>1. RemovalInv => BatchInv
  <2> SUFFICES ASSUME RemovalInv
               PROVE  AnnouncedOnce
    BY DEF RemovalInv, BatchInv
  <2> DEFINE A == {f \in Files : pc[f] = "announce"}
  <2>0. Len(events) \in Nat /\ Len(events) <= 1
    BY LenProperties DEF RemovalInv, TypeOK, ClaimInv
  <2>1. CASE A = {}
    BY <2>0, <2>1, FS_EmptySet DEF AnnouncedOnce
  <2>2. CASE A # {}
    <3>1. PICK f \in Files : pc[f] = "announce"
      BY <2>2
    <3>2. A = {f} /\ events = << >>
      BY <3>1 DEF RemovalInv, ClaimInv
    <3>3. Cardinality(A) = 1 /\ Len(events) = 0
      BY <3>2, FS_Singleton
    <3> QED
      BY <3>3 DEF AnnouncedOnce
  <2> QED
    BY <2>1, <2>2
<1> QED
  BY <1>1, RemovalInvariant, PTL

\* The end of a batch that has its job id to itself is announced when every file
\* was dealt with, whatever failed on the way.
THEOREM BatchAnnouncedAfterAll == Spec => []AnnouncedAfterAll
<1>1. RemovalInv => AnnouncedAfterAll
  BY DEF RemovalInv, AllInv, AnnouncedAfterAll
<1> QED
  BY <1>1, RemovalInvariant, PTL

-----------------------------------------------------------------------------
(* The list *)

\* With one process, what is free is free of every task that is about to write and
\* of every other writer but a replacement.
LEMMA OneWriter ==
  ASSUME TypeOK, OneProcess, NEW p \in Procs, Free(p), ListInv
  PROVE  /\ \A f \in Files : pc[f] # "write"
         /\ other # NoOther => other.kind = "replace"
BY DEF TypeOK, OneProcess, Free, ListInv

\* Every step of one process keeps the list complete.
LEMMA ListStep ==
  ASSUME TypeOK, TypeOK', ListInv, OneProcess, [Next]_vars
  PROVE  ListInv'
<1> USE DEF Goto, list, TypeOK
\* A step that writes no list, and gives nobody one to write, disturbs nothing.
<1>1. CASE /\ UNCHANGED <<ids, excused>> /\ records' \subseteq records /\ ok \subseteq ok'
           /\ other' \in {other, NoOther}
           /\ \A f \in Files : pc'[f] = "write" => pc[f] = "write" /\ snap'[f] = snap[f]
  BY <1>1 DEF ListInv, NoFileVanishes
<1>2. ASSUME NEW f \in Files, Publish(f)
      PROVE  ListInv'
  <2>1. \A g \in Files : pc'[g] = "write" => pc[g] = "write"
    <3>1. CASE pc' = [pc EXCEPT ![f] = "queued"]
      BY <3>1
    <3>2. CASE pc' = [g \in Files |-> IF g \in Batch(f) /\ pc[g] = "new" THEN "cut" ELSE pc[g]]
      BY <3>2
    <3> QED
      BY <1>2, <3>1, <3>2 DEF Publish
  <2> QED
    BY <1>1, <1>2, <2>1 DEF Publish
<1>3. ASSUME NEW f \in Files,
             Start(f) \/ CountDone(f) \/ CountFailed(f) \/ Report(f) \/ Announce(f)
      PROVE  ListInv'
  <2>1. UNCHANGED <<ids, excused, records, other, ok, snap>>
    BY <1>3 DEF Start, CountDone, CountFailed, Report, Announce
  <2>2. \A g \in Files : pc'[g] = "write" => pc[g] = "write"
    BY <1>3 DEF Start, CountDone, CountFailed, Report, Announce
  <2> QED
    BY <1>1, <2>1, <2>2
<1>4. ASSUME NEW f \in Files, Remove(f)
      PROVE  ListInv'
  <2>1. \A g \in Files : pc[g] # "write"
    BY <1>4, OneWriter DEF Remove
  <2>2. /\ UNCHANGED <<ids, excused, other>> /\ records' \subseteq records /\ ok \subseteq ok'
        /\ \A g \in Files : pc'[g] = "write" => g = f /\ snap'[g] = ids
    BY <1>4, <2>1 DEF Remove
  <2> QED
    BY <2>2 DEF ListInv, NoFileVanishes
<1>5. ASSUME NEW f \in Files, Write(f)
      PROVE  ListInv'
  <2>1. records \ (ok \cup {f}) \subseteq snap[f] \cup excused
    BY <1>5 DEF Write, ListInv
  <2>2. /\ ids' = ids \/ ids' = snap[f] \ {f}
        /\ ok' = ok \cup {f} /\ UNCHANGED <<records, excused, other>>
        /\ \A g \in Files : pc'[g] = "write" => pc[g] = "write" /\ g # f /\ snap'[g] = snap[g]
    BY <1>5 DEF Write
  <2> QED
    BY <2>1, <2>2 DEF ListInv, NoFileVanishes
\* What is added is on the list, and excused if anybody is to write an older one.
<1>6. ASSUME NEW f \in Uploads, NEW between \in BOOLEAN, Addition(f, between),
             ~between => other = NoOther /\ \A g \in Files : pc[g] # "write"
      PROVE  ListInv'
  <2>1. /\ UNCHANGED <<pc, snap, ok, other>>
        /\ records' = records \cup {f} /\ ids' = ids \cup {f}
        /\ excused' = IF between THEN excused \cup {f} ELSE excused
    BY <1>6 DEF Addition
  <2> QED
    BY <1>6, <2>1 DEF ListInv, NoFileVanishes
<1>7. ASSUME NEW f \in Uploads, Upload(f) \/ UploadInThread(f)
      PROVE  ListInv'
  <2>1. CASE Upload(f)
    <3>1. other # NoOther => other.kind = "replace"
      BY <2>1, OneWriter DEF Upload
    <3>2. \A g \in Files : pc[g] # "write"
      BY <2>1, OneWriter DEF Upload
    <3> QED
      BY <1>6, <2>1, <3>1, <3>2 DEF Upload
  <2>2. CASE UploadInThread(f)
    BY <1>6, <2>2 DEF UploadInThread
  <2> QED
    BY <1>7, <2>1, <2>2
<1>8. ASSUME NEW p \in Procs,
             HealRead(p) \/ \E f \in Files : GoneRead(p, f) \/ ReplaceRead(p, f)
      PROVE  ListInv'
  <2>1. /\ UNCHANGED <<ids, excused, ok, pc, snap>> /\ records' \subseteq records
        /\ other'.by = {p} /\ ids \cap records \subseteq other'.list
    BY <1>8 DEF HealRead, GoneRead, ReplaceRead, Reads
  <2> QED
    BY <2>1 DEF ListInv, NoFileVanishes
<1>9. CASE OtherWrites
  <2>1. /\ other # NoOther /\ other' = NoOther /\ UNCHANGED <<ok, pc, snap>>
        /\ records' \subseteq records /\ excused' = excused \cup other.file
        /\ ids' = ids \/ other.list \ other.file \subseteq ids' \/ ids' = ids \cap other.list
    BY <1>9 DEF OtherWrites, HealCompact, GoneWrite, ReplaceWrite, Writes, NoOther
  <2> QED
    BY <2>1 DEF ListInv, NoFileVanishes
<1>10. ASSUME NEW p \in Procs, Crash(p)
       PROVE  ListInv'
  <2>1. /\ UNCHANGED <<ids, excused, records, ok, snap>> /\ other' \in {other, NoOther}
        /\ \A g \in Files : pc'[g] = "write" => pc[g] = "write"
    BY <1>10 DEF Crash
  <2> QED
    BY <1>1, <2>1
<1>11. CASE UNCHANGED vars
  BY <1>1, <1>11 DEF vars
<1> QED
  BY <1>2, <1>3, <1>4, <1>5, <1>7, <1>8, <1>9, <1>10, <1>11
  DEF Next, TaskStep, OtherStep

\* In one process, no writer of the list - task, addition, single removal, replacement,
\* auto-heal - takes a file off it that is not its own to take; the exceptions, what
\* is added between the read and the write of another, are on record, and only a thread
\* of the pool or an awaiting replacement makes them.  (Two processes make more.)
THEOREM NoFileFallsOff ==
  ASSUME OneProcess
  PROVE  Spec => []NoFileVanishes
<1>1. Init => ListInv
  BY DEF Init, ListInv, NoFileVanishes
<1>2. TypeOK /\ TypeOK' /\ ListInv /\ [Next]_vars => ListInv'
  BY ListStep
<1>3. RemovalInv => TypeOK
  BY DEF RemovalInv
<1>4. ListInv => NoFileVanishes
  BY DEF ListInv
<1> QED
  BY <1>1, <1>2, <1>3, <1>4, RemovalInvariant, PTL DEF Spec

-----------------------------------------------------------------------------
(* One file on its way into the knowledge base: the inductive invariant *)

\* A row as the table may hold it: what is deleted holds nothing.
FileRow(r) ==
  /\ r \in [exists : BOOLEAN, status : Statuses, content : BOOLEAN, kb : BOOLEAN]
  /\ r.exists \/ r = Gone

\* A thread that writes a stage has read a status, not a knowledge base; a call that
\* has published its task only has to write "queued".
ThreadInv ==
  \A q \in Calls :
    /\ thread[q] = "stage" => got[q] \in Statuses
    /\ thread[q] # "none" => at[q] \in {"queued", "done"}

\* Who is about to write "completed" has indexed the file, or the file read
\* "completed" when its stage was begun.
WritesIndexed ==
  \A q \in Calls :
    thread[q] = "complete" \/ (thread[q] = "stage" /\ got[q] = "completed") => Indexed

\* Who is about to announce the knowledge base has indexed the file there, then
\* listed it; the list is left only after the row, if that could be deleted.
HasBase(q) ==
  /\ Direct(q) /\ thread[q] \in {"complete", "lookup"} => Has("kb")
  /\ thread[q] \in {"dropKB", "indexKB", "list", "unpend"} => got[q] = "kb"
  /\ thread[q] \in {"list", "unpend", "finalOk", "ok"} /\ got[q] = "kb" => Has("kb")

TellsIndexed == \A q \in Calls : HasBase(q)

TellsListed ==
  \A q \in Calls :
    /\ at[q] = "unlist" => ~row.exists \/ "list" \in spoiled
    /\ thread[q] \in {"unpend", "finalOk", "ok"} /\ got[q] = "kb" => OnList

BaseInv == TellsIndexed /\ TellsListed

\* Who is to end an unfinished status: a call about to publish, or a task whose
\* thread has not passed its finally.
Live(l)    == l \notin {"none", "ok", "bad", "dead", "end"}
Settles(q) == at[q] = "publish" \/ Live(thread[q])

SettleInv ==
  row.exists /\ row.status \notin Terminal \cup {"none"} /\ "status" \notin spoiled
    => \E q \in Calls : Settles(q)

FileInv ==
  /\ FileTypeOK /\ ThreadInv
  /\ CompletedMeansIndexed /\ WritesIndexed
  /\ BaseInv
  /\ SettleInv

-----------------------------------------------------------------------------
(* One file: type correctness *)

\* A fault leaves the counter in its range.
LEMMA MishapsTyped ==
  ASSUME mishaps \in 0..MaxMishaps,
         NoMishap \/ \E event \in FileEvents : Mishap(event)
  PROVE  mishaps' \in 0..MaxMishaps
BY MishapsAssumption DEF NoMishap, Mishap

\* Whatever is written to a row leaves a row.
LEMMA RowsTyped ==
  ASSUME FileTypeOK
  PROVE  /\ FileRow(row) /\ FileRow(Gone)
         /\ \A s \in Statuses : FileRow(Written(s))
         /\ \A b \in BOOLEAN : FileRow(Pending(b))
<1>1. FileRow(row) /\ FileRow(Gone)
  BY DEF FileTypeOK, FileRow, Gone, Statuses
<1>2. ASSUME NEW s \in Statuses
      PROVE  FileRow(Written(s))
  BY <1>1, <1>2 DEF FileRow, Written
<1>3. ASSUME NEW b \in BOOLEAN
      PROVE  FileRow(Pending(b))
  BY <1>1, <1>3 DEF FileRow, Pending
<1> QED
  BY <1>1, <1>2, <1>3

\* So does a stage, though it sets the content by itself.
LEMMA StageTyped ==
  ASSUME FileTypeOK, NEW q \in Calls, got[q] \in Statuses
  PROVE  FileRow(Staged(q)) /\ FileRow([row EXCEPT !.content = row.exists])
<1>1. FileRow(Written(got[q]))
  BY RowsTyped
<1>2. CASE row.exists
  BY <1>1, <1>2, RowsTyped DEF FileRow, Staged, Written
<1>3. CASE ~row.exists
  <2>1. row = Gone
    BY <1>3 DEF FileTypeOK
  <2> QED
    BY <1>1, <1>3, <2>1 DEF FileRow, Staged, Written, Gone
<1> QED
  BY <1>2, <1>3

\* A call moves within its places and a thread within its own.
LEMMA MovesTyped ==
  ASSUME FileTypeOK, NEW q \in Calls
  PROVE  /\ \A l \in Places : [at EXCEPT ![q] = l] \in [Calls -> Places]
         /\ \A l \in Threads : [thread EXCEPT ![q] = l] \in [Calls -> Threads]
BY DEF FileTypeOK

\* What a step of a call, or the death of its process, does.  It moves the call, and
\* its thread only when the task is published; it writes an unfinished status only
\* when the call goes on to publish, or when its task has not begun, or else that is
\* noted; it takes chunks out of the index on the way to new ones or to the deletion
\* of the row, and the file off the list after that.
CallMoves(q) == CallStep(q) \/ CallDies(q)

CallEffect(q) ==
  /\ kind' = kind /\ got' = got /\ told' = told
  /\ \E l \in Places : Go(q, l)
  /\ at[q] \in {"queued", "done"} => Go(q, "done")
  /\ \/ thread' = thread
     \/ at[q] = "publish" /\ To(q, "queued") /\ Go(q, "queued")
  /\ at[q] = "publish" => "status" \in spoiled' \/ To(q, "queued")
  /\ \/ row' = row
     \/ row' = Gone
     \/ row' = Pending(TRUE) \/ row' = Pending(FALSE)
     \/ row' = Written("failed")
     \/ row' = Written("pending") /\ Go(q, "publish")
     \/ row' = Written("queued")
        /\ ("status" \in spoiled' \/ thread[q] \in {"queued", "start"})
  /\ \/ index' = index
     \/ index' = index \cup {"kb"}
     \/ index' = index \ {"kb"} /\ Go(q, "syncIndex")
     \/ index' \subseteq index /\ Go(q, "row")
  /\ at[q] = "syncIndex" => "kb" \in index' \/ "kb" \in spoiled'
  /\ \/ listed' = listed
     \/ listed' = TRUE
     \/ listed' = FALSE /\ at[q] = "unlist"
  /\ at[q] = "row" => row' = Gone \/ Collections \subseteq spoiled'
  /\ Go(q, "unlist") => row' = Gone \/ "list" \in spoiled'
  /\ chained' \subseteq chained \cup {q}
  /\ spoiled \subseteq spoiled' /\ spoiled' \subseteq Spoils
  /\ NoMishap \/ \E event \in FileEvents : Mishap(event)

\* Each step of a call does that.
LEMMA CallEffects ==
  ASSUME FileTypeOK, NEW q \in Calls, CallMoves(q)
  PROVE  CallEffect(q)
<1>0. ASSUME NEW r, Update(r)
      PROVE  /\ row' = r \/ row' = row
             /\ NoMishap \/ \E event \in FileEvents : Mishap(event)
  BY <1>0 DEF Update, FileEvents
<1> USE DEF CallEffect, At, Go, To, calls, threads, Places, Spoil, Spoils, FileEvents,
            NoMishap, ListWrite, Collections, FileTypeOK
<1>1. CASE NotFound(q)
  BY <1>1 DEF NotFound
<1>2. CASE Process(q)
  BY <1>2 DEF Process
<1>3. CASE Check(q)
  BY <1>3 DEF Check
<1>4. CASE WritePending(q)
  BY <1>0, <1>4 DEF WritePending
<1>5. CASE PublishTask(q)
  BY <1>5 DEF PublishTask
<1>6. CASE WriteQueued(q)
  BY <1>0, <1>6 DEF WriteQueued
<1>7. CASE Add(q)
  BY <1>7 DEF Add
<1>8. CASE Promise(q)
  BY <1>0, <1>8 DEF Promise
<1>9. CASE ListFirst(q)
  BY <1>9 DEF ListFirst
<1>10. CASE Sync(q)
  BY <1>10 DEF Sync
<1>11. CASE SyncDrop(q)
  BY <1>11 DEF SyncDrop
<1>12. CASE SyncIndex(q)
  BY <1>12 DEF SyncIndex
<1>13. CASE SyncList(q)
  BY <1>13 DEF SyncList
<1>14. CASE Retry(q)
  BY <1>14 DEF Retry
<1>15. CASE MarkRetry(q)
  BY <1>0, <1>15 DEF MarkRetry
<1>16. CASE BeginRemoval(q)
  BY <1>16 DEF BeginRemoval
<1>17. CASE CancelProcessing(q)
  BY <1>0, <1>17 DEF CancelProcessing
<1>18. CASE Unpend(q)
  BY <1>0, <1>18 DEF Unpend
<1>19. CASE DeleteChunks(q)
  BY <1>19 DEF DeleteChunks
<1>20. CASE DeleteRow(q)
  BY <1>20 DEF DeleteRow
<1>21. CASE Unlist(q)
  BY <1>21 DEF Unlist
<1>22. CASE View(q)
  BY <1>22 DEF View
<1>23. CASE Expire(q)
  BY <1>0, <1>23 DEF Expire
<1>24. CASE Relist(q)
  BY <1>24 DEF Relist
<1>25. CASE Tidy(q)
  BY <1>0, <1>25 DEF Tidy
<1>26. CASE CallDies(q)
  BY <1>26 DEF CallDies
<1> QED
  BY <1>1, <1>2, <1>3, <1>4, <1>5, <1>6, <1>7, <1>8, <1>9, <1>10, <1>11, <1>12,
     <1>13, <1>14, <1>15, <1>16, <1>17, <1>18, <1>19, <1>20, <1>21, <1>22,
     <1>23, <1>24, <1>25, <1>26 DEF CallMoves, CallStep

\* So it keeps the types.
LEMMA CallTyped ==
  ASSUME FileTypeOK, NEW q \in Calls, CallMoves(q)
  PROVE  FileTypeOK'
<1>1. CallEffect(q)
  BY CallEffects
<1>2. at' \in [Calls -> Places] /\ thread' \in [Calls -> Threads]
  <2>1. "queued" \in Threads /\ thread \in [Calls -> Threads]
    BY DEF Threads, FileTypeOK
  <2> QED
    BY <1>1, <2>1, MovesTyped DEF CallEffect, Go, To
<1>3. FileRow(row')
  BY <1>1, RowsTyped DEF CallEffect, Statuses
<1>4. mishaps' \in 0..MaxMishaps
  BY <1>1, MishapsTyped DEF CallEffect, FileTypeOK
<1> QED
  BY <1>1, <1>2, <1>3, <1>4 DEF CallEffect, FileTypeOK, FileRow, Collections

\* What a thread may write, and where it goes.
ThreadTyped(q) ==
  /\ calls' = calls
  /\ \E l \in Threads : To(q, l)
  /\ FileRow(row')
  /\ listed' \in BOOLEAN
  /\ index' \subseteq Collections
  /\ \E v \in Statuses \cup {"kb"} : got' = [got EXCEPT ![q] = v]
  /\ \E v \in {"nothing", "completed", "failed"} : told' = [told EXCEPT ![q] = v]
  /\ chained' \subseteq Calls
  /\ spoiled' \subseteq Spoils
  /\ mishaps' \in 0..MaxMishaps

\* Every step of a thread, its handler or a fault keeps the types.
LEMMA ThreadStepTyped ==
  ASSUME FileTypeOK, ThreadInv, NEW q \in Calls, ThreadStep(q) \/ Timeout(q) \/ ThreadDies(q)
  PROVE  FileTypeOK'
<1>1. SUFFICES ThreadTyped(q)
  BY DEF ThreadTyped, FileTypeOK, FileRow, To, calls
<1>2. /\ got[q] \in Statuses \cup {"kb"}
      /\ told[q] \in {"nothing", "completed", "failed"}
      /\ thread[q] \in Threads
      /\ got = [got EXCEPT ![q] = got[q]]
      /\ told = [told EXCEPT ![q] = told[q]]
      /\ thread = [thread EXCEPT ![q] = thread[q]]
  BY DEF FileTypeOK
<1>3. ASSUME NEW r, FileRow(r), Update(r)
      PROVE  FileRow(row') /\ mishaps' \in 0..MaxMishaps
  BY <1>3, RowsTyped, MishapsTyped DEF Update, FileEvents, FileTypeOK
<1> USE <1>2, RowsTyped, MishapsTyped
    DEF ThreadTyped, FileTypeOK, In, To, Threads, FileEvents, Spoil, Spoils,
        Collections, Own, Replaces
<1>4. CASE Deliver(q)
  BY <1>4 DEF Deliver, Statuses, NoMishap
<1>5. CASE StartFile(q)
  BY <1>5, <1>3 DEF StartFile, StatusWrite, Statuses
<1>6. CASE Load(q)
  BY <1>6 DEF Load, Statuses
<1>7. CASE Stage(q)
  BY <1>7, StageTyped DEF Stage, ThreadInv, Statuses
<1>8. CASE Index(q) \/ Save(q)
  BY <1>8 DEF Index, Save, Statuses
<1>9. CASE Complete(q)
  BY <1>9, <1>3 DEF Complete, StatusWrite, Statuses
<1>10. CASE Lookup(q)
  BY <1>10 DEF Lookup, Statuses, NoMishap
<1>11. CASE DropKB(q) \/ IndexKB(q)
  BY <1>11 DEF DropKB, IndexKB, Statuses
<1>12. CASE AddToList(q)
  BY <1>12 DEF AddToList, Statuses
<1>13. CASE ClearPending(q)
  BY <1>13, <1>3 DEF ClearPending, Statuses
<1>14. CASE Reject(q)
  BY <1>14, <1>3 DEF Reject, StatusWrite, Statuses
<1>15. CASE ListFailed(q)
  BY <1>15 DEF ListFailed, ListWrite, Statuses
<1>16. CASE Final(q)
  BY <1>16, <1>3 DEF Final, StatusWrite, Statuses
<1>17. CASE Tell(q)
  BY <1>17 DEF Tell, Statuses, NoMishap
<1>18. CASE Timeout(q)
  BY <1>18 DEF Timeout, Statuses
<1>19. CASE ThreadDies(q)
  BY <1>19 DEF ThreadDies
<1> QED
  BY <1>4, <1>5, <1>6, <1>7, <1>8, <1>9, <1>10, <1>11, <1>12, <1>13, <1>14, <1>15,
     <1>16, <1>17, <1>18, <1>19 DEF ThreadStep

\* Every step keeps the types.
LEMMA FileTypeStep ==
  ASSUME FileTypeOK, ThreadInv, [FileNext]_fileVars
  PROVE  FileTypeOK'
<1>1. CASE UNCHANGED fileVars
  BY <1>1 DEF fileVars, calls, threads, FileTypeOK
<1> QED
  BY <1>1, CallTyped, ThreadStepTyped DEF FileNext, CallMoves

-----------------------------------------------------------------------------
(* One file: what a thread does *)

\* What a step of a thread or of its handler does.  Of the calls and threads it
\* changes its own alone; it takes nothing out of the index but to replace it, nothing
\* off the list, and brings no row back; it writes "completed" after it indexed the
\* file, or after it read it; while the thread is live it has yet to end the status.
ThreadEffect(q) ==
  /\ kind' = kind /\ at' = at
  /\ \A p \in Calls \ {q} : thread'[p] = thread[p] /\ got'[p] = got[p]
  /\ thread[q] # "none"
  /\ row'.exists => row.exists
  /\ listed => listed'
  /\ \A c \in index : c \in index' \/ Replaces(q, c)'
  /\ \A c \in Collections :
       Replaces(q, c) => Replaces(q, c)' \/ c \in index' \/ c \in spoiled'
  /\ spoiled \subseteq spoiled'
  /\ row'.status = "completed" =>
       \/ row.status = "completed" \/ thread[q] = "complete"
       \/ thread[q] = "stage" /\ got[q] = "completed"
  /\ \A p \in Calls : told'[p] = "completed" =>
       told[p] = "completed" \/ (p = q /\ thread[q] = "ok")
  /\ \/ Live(thread'[q])
     \/ "status" \in spoiled' \/ ~row'.exists \/ row'.status \in Terminal
     \/ row' = row /\ ~Live(thread[q])

\* Where the thread comes from when it gets somewhere.
ThreadArrives(q) ==
  /\ thread'[q] = "stage" => got'[q] = row.status
  /\ thread'[q] = "complete" => Own(q) \in index'
  /\ thread'[q] = "lookup" => thread[q] = "complete"
  /\ thread'[q] = "dropKB" => got'[q] = "kb"
  /\ thread'[q] = "indexKB" => thread[q] = "dropKB" /\ got'[q] = got[q]
  /\ thread'[q] = "list" =>
       \/ thread[q] = "lookup" /\ Direct(q) /\ got'[q] = "kb"
       \/ thread[q] = "indexKB" /\ got'[q] = got[q] /\ "kb" \in index'
  /\ thread'[q] = "unpend" =>
       thread[q] = "list" /\ got'[q] = got[q] /\ (listed' \/ "list" \in spoiled')
  /\ thread'[q] = "finalOk" =>
       got'[q] = "none" \/ (thread[q] = "unpend" /\ got'[q] = got[q])
  /\ thread'[q] = "ok" => thread[q] = "finalOk" /\ got'[q] = got[q]

\* Each step of a thread does that; a time limit leaves it where it is.
LEMMA ThreadEffects ==
  ASSUME FileTypeOK, ThreadInv, NEW q \in Calls, ThreadStep(q) \/ Timeout(q) \/ ThreadDies(q)
  PROVE  /\ ThreadEffect(q)
         /\ ThreadArrives(q) \/ (thread'[q] = thread[q] /\ got'[q] = got[q])
<1>1. ASSUME NEW s \in Statuses
      PROVE  /\ Written(s).exists = row.exists
             /\ Written(s).status = IF row.exists THEN s ELSE row.status
  BY DEF Written, FileTypeOK
<1>2. Pending(FALSE).exists = row.exists /\ Pending(FALSE).status = row.status
  BY DEF Pending, FileTypeOK
<1>3. ASSUME got[q] \in Statuses
      PROVE  /\ Staged(q).exists = row.exists
             /\ Staged(q).status = IF row.exists THEN got[q] ELSE row.status
  BY DEF Staged, Written, FileTypeOK
<1> USE <1>1, <1>2, <1>3
    DEF ThreadEffect, ThreadArrives, Live, calls, In, To, FileTypeOK, Statuses, Terminal,
        Spoil, StatusWrite, Update, Collections, Direct, Own, Replaces
<1>4. CASE Deliver(q)
  BY <1>4 DEF Deliver
<1>5. CASE StartFile(q)
  BY <1>5 DEF StartFile
<1>6. CASE Load(q)
  BY <1>6 DEF Load
<1>7. CASE Stage(q)
  <2>1. got[q] \in Statuses
    BY <1>7 DEF Stage, ThreadInv
  <2> QED
    BY <1>7, <2>1 DEF Stage
<1>8. CASE Save(q)
  BY <1>8 DEF Save
<1>20. CASE Index(q)
  <2>1. CASE To(q, "save") /\ row' = row
    BY <1>20, <2>1 DEF Index
  <2>2. CASE To(q, "error") \/ To(q, "reject")
    BY <1>20, <2>2 DEF Index
  <2> QED
    BY <1>20, <2>1, <2>2 DEF Index
<1>9. CASE Complete(q)
  BY <1>9 DEF Complete
<1>10. CASE Lookup(q)
  BY <1>10 DEF Lookup
<1>11. CASE DropKB(q) \/ IndexKB(q)
  BY <1>11 DEF DropKB, IndexKB
<1>12. CASE AddToList(q)
  BY <1>12 DEF AddToList
<1>13. CASE ClearPending(q)
  BY <1>13 DEF ClearPending
<1>14. CASE Reject(q)
  BY <1>14 DEF Reject
<1>15. CASE ListFailed(q)
  BY <1>15 DEF ListFailed, ListWrite
<1>16. CASE Final(q)
  BY <1>16 DEF Final, Unfinished
<1>17. CASE Tell(q)
  BY <1>17 DEF Tell
<1>18. CASE Timeout(q)
  BY <1>18 DEF Timeout, Running
<1>19. CASE ThreadDies(q)
  BY <1>19 DEF ThreadDies, Running
<1> QED
  BY <1>4, <1>5, <1>6, <1>7, <1>8, <1>9, <1>10, <1>11, <1>12, <1>13, <1>14, <1>15,
     <1>16, <1>17, <1>18, <1>19, <1>20 DEF ThreadStep

-----------------------------------------------------------------------------
(* One file: the invariant is kept *)

\* No row comes back.
LEMMA RowStaysGone ==
  ASSUME FileTypeOK, ThreadInv, [FileNext]_fileVars, ~row.exists
  PROVE  ~row'.exists
<1>1. ASSUME NEW q \in Calls, CallMoves(q)
      PROVE  ~row'.exists
  <2>1. CallEffect(q)
    BY <1>1, CallEffects
  <2> QED
    BY <2>1 DEF CallEffect, Written, Pending, Gone
<1>2. ASSUME NEW q \in Calls, ThreadStep(q) \/ Timeout(q) \/ ThreadDies(q)
      PROVE  ~row'.exists
  BY <1>2, ThreadEffects DEF ThreadEffect
<1>3. CASE UNCHANGED fileVars
  BY <1>3 DEF fileVars
<1> QED
  BY <1>1, <1>2, <1>3 DEF FileNext, CallMoves

\* What is spoiled stays so.
LEMMA SpoiledStays ==
  ASSUME FileTypeOK, ThreadInv, [FileNext]_fileVars
  PROVE  spoiled \subseteq spoiled'
<1>1. CASE UNCHANGED fileVars
  BY <1>1 DEF fileVars
<1> QED
  BY <1>1, CallEffects, ThreadEffects DEF FileNext, CallMoves, CallEffect, ThreadEffect

\* A removal that is past its deletion of the chunks stays past it, or its own
\* deletion of the row failed.
LEMMA RemovingStays ==
  ASSUME FileTypeOK, ThreadInv, [FileNext]_fileVars, Removing
  PROVE  Removing' \/ Collections \subseteq spoiled'
<1>1. CASE ~row.exists
  BY <1>1, RowStaysGone DEF Removing
<1>2. ASSUME NEW p \in Calls, at[p] = "row"
      PROVE  Removing' \/ Collections \subseteq spoiled'
  <2>1. ASSUME NEW q \in Calls, CallMoves(q)
        PROVE  Removing' \/ Collections \subseteq spoiled'
    <3>1. CallEffect(q)
      BY <2>1, CallEffects
    <3> QED
      BY <1>2, <3>1 DEF CallEffect, Removing, Gone, Go, FileTypeOK
  <2>2. ASSUME NEW q \in Calls, ThreadStep(q) \/ Timeout(q) \/ ThreadDies(q)
        PROVE  Removing'
    BY <1>2, <2>2, ThreadEffects DEF ThreadEffect, Removing
  <2>3. CASE UNCHANGED fileVars
    BY <1>2, <2>3 DEF fileVars, calls, Removing
  <2> QED
    BY <2>1, <2>2, <2>3 DEF FileNext, CallMoves
<1> QED
  BY <1>1, <1>2 DEF Removing

\* A replacement ends in new chunks, or that it did not is noted.
LEMMA ReplacingStays ==
  ASSUME FileTypeOK, ThreadInv, [FileNext]_fileVars, NEW c \in Collections,
         NEW p \in Calls, Replaces(p, c)
  PROVE  Replaces(p, c)' \/ c \in index' \/ c \in spoiled'
<1>1. ASSUME NEW q \in Calls, CallMoves(q)
      PROVE  Replaces(p, c)' \/ c \in index' \/ c \in spoiled'
  <2>1. CallEffect(q)
    BY <1>1, CallEffects
  <2>2. CASE at[p] = "syncIndex" /\ c = "kb" /\ p = q
    BY <2>1, <2>2 DEF CallEffect
  <2>3. CASE at[p] = "syncIndex" /\ c = "kb" /\ p # q
    BY <2>1, <2>3 DEF CallEffect, Go, Replaces, FileTypeOK
  <2>4. CASE thread[p] \in {"indexKB", "save"}
    <3>1. at[p] \notin {"publish", "syncIndex"}
      BY <2>4 DEF ThreadInv
    <3>2. thread'[p] = thread[p] /\ kind' = kind
      BY <2>1, <2>4, <3>1 DEF CallEffect, To, FileTypeOK
    <3> QED
      BY <2>4, <3>1, <3>2 DEF Replaces, Own, Direct
  <2> QED
    BY <2>2, <2>3, <2>4 DEF Replaces
<1>2. ASSUME NEW q \in Calls, ThreadStep(q) \/ Timeout(q) \/ ThreadDies(q)
      PROVE  Replaces(p, c)' \/ c \in index' \/ c \in spoiled'
  <2>1. ThreadEffect(q)
    BY <1>2, ThreadEffects
  <2>2. CASE p = q
    BY <2>1, <2>2 DEF ThreadEffect
  <2>3. CASE p # q
    BY <2>1, <2>3 DEF ThreadEffect, Replaces, Own, Direct
  <2> QED
    BY <2>2, <2>3
<1>3. CASE UNCHANGED fileVars
  BY <1>3 DEF fileVars, calls, threads, Replaces, Own, Direct
<1> QED
  BY <1>1, <1>2, <1>3 DEF FileNext, CallMoves

\* So the chunks stay in a collection, or their absence is excused.
LEMMA ChunksStay ==
  ASSUME FileTypeOK, ThreadInv, [FileNext]_fileVars, NEW c \in Collections, Has(c)
  PROVE  Has(c)'
<1>1. CASE Removing
  BY <1>1, RemovingStays DEF Has
<1>2. ASSUME NEW p \in Calls, Replaces(p, c)
      PROVE  Has(c)'
  BY <1>2, ReplacingStays DEF Has
<1>3. CASE c \in spoiled
  BY <1>3, SpoiledStays DEF Has
<1>4. ASSUME c \in index, NEW q \in Calls, CallMoves(q)
      PROVE  Has(c)'
  <2>1. CallEffect(q)
    BY <1>4, CallEffects
  <2>2. ASSUME Go(q, "row")
        PROVE  Removing'
    BY <2>2 DEF Go, Removing, FileTypeOK
  <2>3. ASSUME Go(q, "syncIndex")
        PROVE  Replaces(q, "kb")'
    BY <2>3 DEF Go, Replaces, FileTypeOK
  <2> QED
    BY <1>4, <2>1, <2>2, <2>3 DEF CallEffect, Has
<1>5. ASSUME c \in index, NEW q \in Calls, ThreadStep(q) \/ Timeout(q) \/ ThreadDies(q)
      PROVE  Has(c)'
  BY <1>5, ThreadEffects DEF ThreadEffect, Has
<1>6. CASE c \in index /\ UNCHANGED fileVars
  BY <1>6 DEF fileVars, Has
<1> QED
  BY <1>1, <1>2, <1>3, <1>4, <1>5, <1>6 DEF FileNext, CallMoves, Has

LEMMA IndexedStays ==
  ASSUME FileTypeOK, ThreadInv, [FileNext]_fileVars, Indexed
  PROVE  Indexed'
BY ChunksStay DEF Indexed

\* The file stays on the list until its row is gone, or that it did not is noted.
LEMMA ListedStays ==
  ASSUME FileTypeOK, ThreadInv, TellsListed, [FileNext]_fileVars, OnList
  PROVE  OnList'
<1>1. CASE ~row.exists \/ "list" \in spoiled
  BY <1>1, RowStaysGone, SpoiledStays DEF OnList
<1>2. ASSUME NEW q \in Calls, CallMoves(q), row.exists, "list" \notin spoiled
      PROVE  listed'
  <2>1. CallEffect(q)
    BY <1>2, CallEffects
  <2>2. at[q] # "unlist"
    BY <1>2 DEF TellsListed
  <2> QED
    BY <1>2, <2>1, <2>2 DEF CallEffect, OnList
<1>3. ASSUME NEW q \in Calls, ThreadStep(q) \/ Timeout(q) \/ ThreadDies(q),
             row.exists, "list" \notin spoiled
      PROVE  listed'
  BY <1>3, ThreadEffects DEF ThreadEffect, OnList
<1>4. CASE UNCHANGED fileVars
  BY <1>4 DEF fileVars, OnList
<1> QED
  BY <1>1, <1>2, <1>3, <1>4 DEF FileNext, CallMoves, OnList

\* A call writes no status that a thread was to read, and moves no thread but to
\* the queue.
LEMMA CallKeepsThreads ==
  ASSUME FileTypeOK, NEW q \in Calls, CallMoves(q), NEW p \in Calls
  PROVE  got' = got /\ kind' = kind /\ (thread'[p] = thread[p] \/ thread'[p] = "queued")
<1>1. CallEffect(q)
  BY CallEffects
<1>2. thread' = thread \/ thread' = [thread EXCEPT ![q] = "queued"]
  BY <1>1 DEF CallEffect, To
<1> QED
  BY <1>1, <1>2 DEF CallEffect, FileTypeOK

\* A thread that is somewhere was there before, came from the queue, or made the
\* step and arrives.
LEMMA WhereFrom ==
  ASSUME FileTypeOK, ThreadInv, [FileNext]_fileVars, NEW p \in Calls
  PROVE  /\ kind' = kind
         /\ \/ thread'[p] = thread[p] /\ got'[p] = got[p]
            \/ thread'[p] = "queued"
            \/ ThreadArrives(p)
<1>1. ASSUME NEW q \in Calls, CallMoves(q)
      PROVE  /\ kind' = kind
             /\ (thread'[p] = thread[p] /\ got'[p] = got[p]) \/ thread'[p] = "queued"
  BY <1>1, CallKeepsThreads
<1>2. ASSUME NEW q \in Calls, ThreadStep(q) \/ Timeout(q) \/ ThreadDies(q)
      PROVE  /\ kind' = kind
             /\ (thread'[p] = thread[p] /\ got'[p] = got[p]) \/ ThreadArrives(p)
  <2>1. /\ ThreadEffect(q)
        /\ q = p => ThreadArrives(p) \/ (thread'[p] = thread[p] /\ got'[p] = got[p])
    BY <1>2, ThreadEffects
  <2> QED
    BY <2>1 DEF ThreadEffect
<1>3. CASE UNCHANGED fileVars
  BY <1>3 DEF fileVars, calls, threads
<1> QED
  BY <1>1, <1>2, <1>3 DEF FileNext, CallMoves

\* A stage is written with a status that was read, and a task is published once.
LEMMA ThreadInvStep ==
  ASSUME FileTypeOK, ThreadInv, [FileNext]_fileVars
  PROVE  ThreadInv'
<1> SUFFICES ASSUME NEW p \in Calls
             PROVE  /\ thread'[p] = "stage" => got'[p] \in Statuses
                    /\ thread'[p] # "none" => at'[p] \in {"queued", "done"}
  BY DEF ThreadInv
<1>1. thread'[p] = "stage" => got'[p] \in Statuses
  BY WhereFrom DEF ThreadInv, ThreadArrives, FileTypeOK
<1>2. ASSUME NEW q \in Calls, CallMoves(q)
      PROVE  thread'[p] # "none" => at'[p] \in {"queued", "done"}
  <2>1. CallEffect(q)
    BY <1>2, CallEffects
  <2> QED
    BY <2>1 DEF CallEffect, Go, To, ThreadInv, FileTypeOK
<1>3. ASSUME NEW q \in Calls, ThreadStep(q) \/ Timeout(q) \/ ThreadDies(q)
      PROVE  thread'[p] # "none" => at'[p] \in {"queued", "done"}
  <2>1. ThreadEffect(q)
    BY <1>3, ThreadEffects
  <2>2. thread[p] = "none" => p # q
    BY <2>1 DEF ThreadEffect
  <2> QED
    BY <2>1, <2>2 DEF ThreadEffect, ThreadInv
<1>4. CASE UNCHANGED fileVars
  BY <1>4 DEF fileVars, calls, threads, ThreadInv
<1> QED
  BY <1>1, <1>2, <1>3, <1>4 DEF FileNext, CallMoves

\* Who is about to write "completed" has the file indexed.
LEMMA WritesStep ==
  ASSUME FileTypeOK, ThreadInv, CompletedMeansIndexed, WritesIndexed, [FileNext]_fileVars
  PROVE  WritesIndexed'
<1> SUFFICES ASSUME NEW p \in Calls,
                    \/ thread'[p] = "complete"
                    \/ thread'[p] = "stage" /\ got'[p] = "completed"
             PROVE  Indexed'
  BY DEF WritesIndexed
<1>1. CASE thread'[p] = thread[p] /\ got'[p] = got[p]
  BY <1>1, IndexedStays DEF WritesIndexed
<1>2. CASE ThreadArrives(p)
  <2>1. CASE thread'[p] = "complete"
    BY <1>2, <2>1 DEF ThreadArrives, Indexed, Has, Own, Collections
  <2>2. CASE thread'[p] = "stage" /\ got'[p] = "completed"
    <3>1. row.status = "completed"
      BY <1>2, <2>2 DEF ThreadArrives
    <3> QED
      BY <3>1, IndexedStays DEF CompletedMeansIndexed
  <2> QED
    BY <2>1, <2>2
<1> QED
  BY <1>1, <1>2, WhereFrom

\* A completed file has its chunks in the index.
LEMMA CompletedStep ==
  ASSUME FileTypeOK, ThreadInv, CompletedMeansIndexed, WritesIndexed, [FileNext]_fileVars
  PROVE  CompletedMeansIndexed'
<1> SUFFICES ASSUME row'.status = "completed"
             PROVE  Indexed'
  BY DEF CompletedMeansIndexed
<1>1. CASE row.status = "completed"
  BY <1>1, IndexedStays DEF CompletedMeansIndexed
<1>2. ASSUME NEW q \in Calls, CallMoves(q)
      PROVE  row.status = "completed"
  <2>1. CallEffect(q) /\ FileTypeOK'
    BY <1>2, CallEffects, FileTypeStep DEF FileNext, CallMoves
  <2> QED
    BY <2>1 DEF CallEffect, Written, Pending, Gone, FileTypeOK, Statuses
<1>3. ASSUME NEW q \in Calls, ThreadStep(q) \/ Timeout(q) \/ ThreadDies(q)
      PROVE  row.status = "completed" \/ Indexed
  BY <1>3, ThreadEffects DEF ThreadEffect, WritesIndexed
<1>4. CASE UNCHANGED fileVars
  BY <1>1, <1>4 DEF fileVars
<1> QED
  BY <1>1, <1>2, <1>3, <1>4, IndexedStays DEF FileNext, CallMoves

\* Who is about to announce the knowledge base has the file indexed there.
LEMMA TellsIndexedStep ==
  ASSUME FileTypeOK, ThreadInv, TellsIndexed, [FileNext]_fileVars
  PROVE  TellsIndexed'
<1> SUFFICES ASSUME NEW p \in Calls
             PROVE  HasBase(p)'
  BY DEF TellsIndexed
<1>1. HasBase(p) /\ (Has("kb") => Has("kb")') /\ kind' = kind
  BY ChunksStay, WhereFrom DEF TellsIndexed, Collections
<1>2. CASE thread'[p] = thread[p] /\ got'[p] = got[p]
  BY <1>1, <1>2 DEF HasBase, Direct
<1>3. CASE thread'[p] = "queued"
  BY <1>3 DEF HasBase
<1>4. CASE ThreadArrives(p)
  <2>1. CASE thread'[p] = "complete"
    BY <1>1, <1>4, <2>1 DEF ThreadArrives, HasBase, Direct, Own, Has
  <2>2. CASE thread'[p] = "lookup"
    BY <1>1, <1>4, <2>2 DEF ThreadArrives, HasBase, Direct
  <2>3. CASE thread'[p] = "dropKB"
    BY <1>4, <2>3 DEF ThreadArrives, HasBase
  <2>4. CASE thread'[p] = "indexKB"
    BY <1>1, <1>4, <2>4 DEF ThreadArrives, HasBase
  <2>5. CASE thread'[p] = "list"
    BY <1>1, <1>4, <2>5 DEF ThreadArrives, HasBase, Has
  <2>6. CASE thread'[p] = "unpend"
    BY <1>1, <1>4, <2>6 DEF ThreadArrives, HasBase
  <2>7. CASE thread'[p] = "finalOk"
    BY <1>1, <1>4, <2>7 DEF ThreadArrives, HasBase
  <2>8. CASE thread'[p] = "ok"
    BY <1>1, <1>4, <2>8 DEF ThreadArrives, HasBase
  <2> QED
    BY <2>1, <2>2, <2>3, <2>4, <2>5, <2>6, <2>7, <2>8 DEF HasBase
<1> QED
  BY <1>2, <1>3, <1>4, WhereFrom

\* And on the list, which is left only after the row.
LEMMA TellsListedStep ==
  ASSUME FileTypeOK, ThreadInv, TellsIndexed, TellsListed, [FileNext]_fileVars
  PROVE  TellsListed'
<1> SUFFICES ASSUME NEW p \in Calls
             PROVE  /\ at'[p] = "unlist" => ~row'.exists \/ "list" \in spoiled'
                    /\ thread'[p] \in {"unpend", "finalOk", "ok"} /\ got'[p] = "kb"
                         => OnList'
  BY DEF TellsListed
<1>1. at'[p] = "unlist" => ~row'.exists \/ "list" \in spoiled'
  <2>1. CASE at[p] = "unlist"
    BY <2>1, RowStaysGone, SpoiledStays DEF TellsListed
  <2>2. ASSUME NEW q \in Calls, CallMoves(q), at[p] # "unlist", at'[p] = "unlist"
        PROVE  ~row'.exists \/ "list" \in spoiled'
    <3>1. CallEffect(q)
      BY <2>2, CallEffects
    <3>2. PICK l \in Places : Go(q, l)
      BY <3>1 DEF CallEffect
    <3>3. l = "unlist"
      BY <2>2, <3>2 DEF Go, FileTypeOK
    <3> QED
      BY <3>1, <3>2, <3>3 DEF CallEffect, Gone
  <2>3. ASSUME NEW q \in Calls, ThreadStep(q) \/ Timeout(q) \/ ThreadDies(q)
        PROVE  at' = at
    BY <2>3, ThreadEffects DEF ThreadEffect
  <2>4. CASE UNCHANGED fileVars
    BY <2>1, <2>4 DEF fileVars, calls
  <2> QED
    BY <2>1, <2>2, <2>3, <2>4 DEF FileNext, CallMoves
<1>2. ASSUME thread'[p] \in {"unpend", "finalOk", "ok"}, got'[p] = "kb"
      PROVE  OnList'
  <2>1. CASE thread'[p] = thread[p] /\ got'[p] = got[p]
    BY <1>2, <2>1, ListedStays DEF TellsListed
  <2>2. CASE ThreadArrives(p) /\ thread'[p] = "unpend"
    BY <2>2 DEF ThreadArrives, OnList
  <2>3. CASE ThreadArrives(p) /\ thread'[p] # "unpend"
    BY <1>2, <2>3, ListedStays DEF ThreadArrives, TellsListed
  <2> QED
    BY <1>2, <2>1, <2>2, <2>3, WhereFrom
<1> QED
  BY <1>1, <1>2

\* Somebody is to end an unfinished status, or a fault is noted.
LEMMA SettleStep ==
  ASSUME FileTypeOK, ThreadInv, SettleInv, [FileNext]_fileVars
  PROVE  SettleInv'
<1> SUFFICES ASSUME row'.exists, row'.status \notin Terminal \cup {"none"}, "status" \notin spoiled'
             PROVE  \E q \in Calls : Settles(q)'
  BY DEF SettleInv
<1>1. ASSUME NEW q \in Calls, CallMoves(q)
      PROVE  \E p \in Calls : Settles(p)'
  <2>1. CallEffect(q) /\ "status" \notin spoiled
    BY <1>1, CallEffects DEF CallEffect, FileTypeOK
  <2>2. ASSUME NEW p \in Calls, Settles(p)
        PROVE  Settles(p)'
    <3>1. CASE p # q
      BY <2>1, <2>2, <3>1 DEF CallEffect, Go, To, Settles, FileTypeOK
    <3>2. CASE p = q /\ at[q] = "publish"
      BY <2>1, <3>2 DEF CallEffect, To, Settles, Live, FileTypeOK
    <3>3. CASE p = q /\ at[q] # "publish"
      BY <2>1, <2>2, <3>3 DEF CallEffect, Settles
    <3> QED
      BY <3>1, <3>2, <3>3
  <2>3. CASE row' = row \/ row' = Pending(TRUE) \/ row' = Pending(FALSE)
    <3>1. row.exists /\ row.status = row'.status
      BY <2>3 DEF Pending, FileTypeOK
    <3> QED
      BY <2>1, <2>2, <3>1 DEF SettleInv
  <2>4. CASE row' = Written("pending") /\ Go(q, "publish")
    BY <2>4 DEF Go, Settles, FileTypeOK
  <2>5. CASE row' = Written("queued") /\ thread[q] \in {"queued", "start"}
    <3>1. Settles(q)
      BY <2>5 DEF Settles, Live
    <3> QED
      BY <2>2, <3>1
  <2>6. CASE row' = Gone \/ row' = Written("failed")
    BY <2>6 DEF Gone, Written, Terminal, FileTypeOK
  <2> QED
    BY <2>1, <2>3, <2>4, <2>5, <2>6 DEF CallEffect
<1>2. ASSUME NEW q \in Calls, ThreadStep(q) \/ Timeout(q) \/ ThreadDies(q)
      PROVE  \E p \in Calls : Settles(p)'
  <2>1. ThreadEffect(q)
    BY <1>2, ThreadEffects
  <2>2. CASE Live(thread'[q])
    BY <2>2 DEF Settles
  <2>3. CASE row' = row /\ ~Live(thread[q])
    <3>1. "status" \notin spoiled
      BY <2>1 DEF ThreadEffect, FileTypeOK
    <3>2. PICK p \in Calls : Settles(p)
      BY <2>3, <3>1 DEF SettleInv
    <3> QED
      BY <2>1, <2>3, <3>2 DEF ThreadEffect, Settles
  <2> QED
    BY <2>1, <2>2, <2>3 DEF ThreadEffect
<1>3. CASE UNCHANGED fileVars
  BY <1>3 DEF fileVars, calls, threads, SettleInv, Settles
<1> QED
  BY <1>1, <1>2, <1>3 DEF FileNext, CallMoves

\* At first no task has begun and no status is unfinished.
LEMMA FileInvInit == FileInit => FileInv
<1> SUFFICES ASSUME FileInit
             PROVE  FileInv
  OBVIOUS
<1>1. FileTypeOK
  <2>1. mishaps \in 0..MaxMishaps
    BY MishapsAssumption DEF FileInit
  <2>2. /\ at \in [Calls -> Places] /\ thread \in [Calls -> Threads]
        /\ got \in [Calls -> Statuses \cup {"kb"}]
        /\ told \in [Calls -> {"nothing", "completed", "failed"}]
    BY DEF FileInit, Statuses, Places, Threads
  <2>3. /\ row \in [exists : BOOLEAN, status : Statuses, content : BOOLEAN, kb : BOOLEAN]
        /\ row.exists \/ row = Gone
    BY DEF FileInit, Statuses
  <2> QED
    BY <2>1, <2>2, <2>3 DEF FileInit, FileTypeOK
<1> QED
  BY <1>1 DEF FileInit, FileInv, ThreadInv, CompletedMeansIndexed, WritesIndexed, BaseInv,
    TellsIndexed, HasBase, TellsListed, SettleInv, Terminal

\* Every step keeps the invariant.
LEMMA FileInvStep == FileInv /\ [FileNext]_fileVars => FileInv'
BY FileTypeStep, ThreadInvStep, CompletedStep, WritesStep, TellsIndexedStep, TellsListedStep,
   SettleStep
   DEF FileInv, BaseInv

\* So it always holds.
LEMMA FileInvHolds == FileSpec => []FileInv
BY FileInvInit, FileInvStep, PTL DEF FileSpec

-----------------------------------------------------------------------------
(* One file: the theorems *)

\* However requests, threads and time limits overwrite each other's status, it is
\* terminal once all are over: whatever is unfinished has somebody to end it - a
\* request about to publish or a task before its finally - or a fault is noted.
THEOREM StatusAlwaysSettles == FileSpec => []StatusSettles
<1>1. FileInv => StatusSettles
  BY DEF FileInv, SettleInv, Settles, Live, StatusSettles, Over, FileTypeOK
<1> QED
  BY <1>1, FileInvHolds, PTL

\* A file that reads "completed" has its chunks in the index, unless its removal
\* is past deleting them, and a row that is gone stays empty: nobody who is still
\* under way brings it back.
THEOREM CompletedIsIndexed == FileSpec => []ContentInv
<1>1. FileInv => ContentInv
  BY DEF FileInv, ContentInv
<1> QED
  BY <1>1, FileInvHolds, PTL

\* Who is told that the file was added to the knowledge base finds it on the list
\* and its chunks in the collection, unless a removal came first, whatever other
\* requests and threads do to the row, the list and the index meanwhile.
THEOREM ToldIsThere == FileSpec => AnnouncedIsTrue
<1>1. ASSUME FileInv, [FileNext]_fileVars
      PROVE  \A q \in Calls :
               told'[q] = "completed" /\ told[q] # "completed" /\ got[q] = "kb"
                 => Has("kb") /\ OnList
  <2> SUFFICES ASSUME NEW p \in Calls, told'[p] = "completed", told[p] # "completed",
                      got[p] = "kb"
               PROVE  Has("kb") /\ OnList
    OBVIOUS
  <2>1. ASSUME NEW q \in Calls, CallMoves(q)
        PROVE  FALSE
    BY <1>1, <2>1, CallEffects DEF CallEffect, FileInv
  <2>2. ASSUME NEW q \in Calls, ThreadStep(q) \/ Timeout(q) \/ ThreadDies(q)
        PROVE  thread[p] = "ok"
    BY <1>1, <2>2, ThreadEffects DEF ThreadEffect, FileInv
  <2>3. ASSUME UNCHANGED fileVars
        PROVE  FALSE
    BY <2>3 DEF fileVars, threads
  <2>4. thread[p] = "ok"
    BY <1>1, <2>1, <2>2, <2>3 DEF FileNext, CallMoves
  <2> QED
    BY <1>1, <2>4 DEF FileInv, BaseInv, TellsIndexed, HasBase, TellsListed
<1> QED
  BY <1>1, FileInvHolds, PTL DEF FileSpec, AnnouncedIsTrue

=============================================================================
