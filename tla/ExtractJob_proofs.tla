-------------------------- MODULE ExtractJob_proofs --------------------------
(***************************************************************************)
(* Proofs about ExtractJob, for any chunks, producer, number of retries and *)
(* faults: type correctness; the finalisation happens at most once, and a   *)
(* completed job has dealt with all its chunks; its progress is exact and   *)
(* somebody is left to finalise it; what is recorded was extracted; the row *)
(* is a barrier over the chunks and a cancellation of it final; and each    *)
(* chunk lives the life of a queued task.                                   *)
(***************************************************************************)
EXTENDS ExtractJobInv, FiniteSetTheorems, TLAPS

-----------------------------------------------------------------------------
(* Type correctness *)

\* A fault leaves the counter in its range, and so does its absence.
LEMMA FaultsTyped ==
  ASSUME faults \in 0..MaxFaults,
         NoFault \/ \E kind \in EnvEvents : Fault(kind)
  PROVE  faults' \in 0..MaxFaults
BY FaultsAssumption DEF NoFault, Fault

\* Counting moves a job row of the right type to one.
LEMMA IncrementedTyped ==
  ASSUME NEW j \in Jobs, NEW s \in Nat, NEW f \in Nat
  PROVE  Incremented(j, s, f) \in Jobs
<1>1. /\ j.status \in Status
      /\ j.current + s + f \in Nat
      /\ j.succ + s \in Nat
      /\ j.fail + f \in Nat
  BY DEF Jobs
<1> QED
  BY <1>1 DEF Incremented, Jobs

\* complete_job and try_claim keep the row's type.
LEMMA CompletedTyped ==
  ASSUME NEW j \in Jobs
  PROVE  Completed(j) \in Jobs /\ Claimed(j) \in Jobs
BY DEF Completed, Claimed, Jobs, Status

\* Any set of chunks is finite, and counting it gives a natural number.
LEMMA ChunkSets ==
  ASSUME NEW S \in SUBSET Chunks
  PROVE  IsFiniteSet(S) /\ Cardinality(S) \in Nat
BY ChunksAssumption, FS_Subset, FS_CardinalityType

\* A handler exception sends the chunk to a known place, and to "backoff" only
\* while it has a retry left.
LEMMA RaisedTyped ==
  ASSUME TypeInv, NEW c \in Chunks, Raised(c), UNCHANGED tries
  PROVE  /\ pc' \in [Chunks -> PCs]
         /\ \A d \in Chunks : pc'[d] = "backoff" => tries'[d] < MaxRetries
BY RetriesAssumption DEF Raised, Goto, TypeInv, TypeOK, PCs

\* Every reachable state is well typed: TypeOK, with the bound of the retries
\* that makes it inductive.
LEMMA TypeStep == TypeInv /\ [Next]_vars => TypeInv'
<1> SUFFICES ASSUME TypeInv, [Next]_vars
             PROVE  TypeInv'
  OBVIOUS
<1> USE DEF TypeInv, TypeOK
<1>1. CASE ProducerStep
  <2>1. CASE RejectPlan
    BY <2>1 DEF RejectPlan, Jobs, Status, Stages, store
  <2>2. CASE PlanNothing
    BY <2>2, CompletedTyped DEF PlanNothing, Stages, store
  <2>3. CASE PlanChunks
    <3>1. PICK P \in (SUBSET Chunks) \ {{}} :
            /\ planned' = P
            /\ \/ NoFault /\ job' = [job EXCEPT !.total = Cardinality(P)]
               \/ Fault("total") /\ UNCHANGED job
      BY <2>3 DEF PlanChunks
    <3>2. Cardinality(P) \in Nat
      BY ChunkSets
    <3>3. job' \in Jobs
      BY <3>1, <3>2 DEF Jobs
    <3>4. faults' \in 0..MaxFaults
      BY <3>1, FaultsTyped DEF EnvEvents
    <3> QED
      BY <2>3, <3>1, <3>3, <3>4 DEF PlanChunks, Stages, store
  <2>4. ASSUME NEW c \in Chunks, Publish(c) PROVE TypeInv'
    <3>1. faults' \in 0..MaxFaults
      BY <2>4, FaultsTyped DEF Publish, EnvEvents
    <3> QED
      BY <2>4, <3>1 DEF Publish, PCs, store
  <2>5. CASE PublishEnd
    BY <2>5 DEF PublishEnd, Stages, store
  <2>6. CASE AccountUnsent
    <3>1. faults' \in 0..MaxFaults
      BY <2>6, FaultsTyped DEF AccountUnsent, EnvEvents
    <3>2. Cardinality(Unsent) \in Nat
      BY ChunkSets DEF Unsent
    <3>3. job' \in Jobs
      BY <2>6, <3>2, IncrementedTyped DEF AccountUnsent
    <3> QED
      BY <2>6, <3>1, <3>3 DEF AccountUnsent, Stages, PCs, store
  <2>7. CASE CloseKbExtract
    <3>1. faults' \in 0..MaxFaults
      BY <2>7, FaultsTyped DEF CloseKbExtract, EnvEvents
    <3>2. job' \in Jobs
      BY <2>7, CompletedTyped DEF CloseKbExtract
    <3> QED
      BY <2>7, <3>1, <3>2 DEF CloseKbExtract, Stages, store
  <2>8. CASE CloseDocExtract
    BY <2>8 DEF CloseDocExtract, Stages, store
  <2>9. CASE CompleteEmpty
    <3>1. faults' \in 0..MaxFaults
      BY <2>9, FaultsTyped DEF CompleteEmpty, EnvEvents
    <3> QED
      BY <2>9, <3>1, CompletedTyped DEF CompleteEmpty, Stages, store
  <2>10. CASE FinalizeByProducer
    BY <2>10 DEF FinalizeByProducer, Stages, store
  <2> QED
    BY <1>1, <2>1, <2>2, <2>3, <2>4, <2>5, <2>6, <2>7, <2>8, <2>9, <2>10
       DEF ProducerStep
<1>2. ASSUME NEW c \in Chunks, ChunkStep(c) PROVE TypeInv'
  <2>1. CASE Deliver(c)
    BY <2>1 DEF Deliver, Goto, PCs, store
  <2>2. CASE CheckCancelled(c)
    <3>1. faults' \in 0..MaxFaults
      BY <2>2, FaultsTyped DEF CheckCancelled, EnvEvents
    <3> QED
      BY <2>2, <3>1 DEF CheckCancelled, AfterCheck, Goto, PCs, store
  <2>3. CASE Extract(c)
    BY <2>3 DEF Extract, Goto, PCs
  <2>4. CASE ExtractFails(c)
    BY <2>4, RaisedTyped DEF ExtractFails, store
  <2>5. CASE Record(c)
    <3>1. faults' \in 0..MaxFaults
      BY <2>5, FaultsTyped DEF Record, EnvEvents
    <3> QED
      BY <2>5, <3>1 DEF Record, Goto, PCs
  <2>6. CASE InsertRow(c)
    BY <2>6 DEF InsertRow, Goto, PCs
  <2>7. CASE Count(c)
    <3>1. faults' \in 0..MaxFaults
      BY <2>7, FaultsTyped DEF Count, EnvEvents
    <3>2. job' \in Jobs
      BY <2>7, IncrementedTyped DEF Count
    <3> QED
      BY <2>7, <3>1, <3>2 DEF Count, Goto, PCs, store
  <2>8. CASE TryClaim(c)
    <3>1. faults' \in 0..MaxFaults
      BY <2>8, FaultsTyped DEF TryClaim, EnvEvents
    <3>2. job' \in Jobs
      BY <2>8, CompletedTyped DEF TryClaim
    <3> QED
      BY <2>8, <3>1, <3>2 DEF TryClaim, AfterHandler, Goto, PCs, store
  <2>9. CASE Finalize(c)
    BY <2>9 DEF Finalize, AfterHandler, Goto, PCs, store
  <2>10. CASE Ack(c)
    <3>1. faults' \in 0..MaxFaults
      BY <2>10, FaultsTyped DEF Ack, EnvEvents
    <3>2. /\ pc' \in [Chunks -> PCs]
          /\ \A d \in Chunks : pc'[d] = "backoff" => tries'[d] < MaxRetries
      BY <2>10, RaisedTyped DEF Ack, Goto, PCs
    <3> QED
      BY <2>10, <3>1, <3>2 DEF Ack, store
  <2>11. CASE Republish(c)
    <3>1. faults' \in 0..MaxFaults
      BY <2>11, FaultsTyped DEF Republish, EnvEvents
    <3> QED
      BY <2>11, <3>1, RetriesAssumption DEF Republish, Goto, PCs, store
  <2> QED
    BY <1>2, <2>1, <2>2, <2>3, <2>4, <2>5, <2>6, <2>7, <2>8, <2>9, <2>10, <2>11
       DEF ChunkStep
<1>3. CASE EnvStep
  <2>1. CASE Cancel
    BY <2>1 DEF Cancel, Jobs, Status, store
  <2>2. CASE WatchdogRead
    BY <2>2 DEF WatchdogRead, store
  <2>3. CASE WatchdogCommit
    BY <2>3 DEF WatchdogCommit, Jobs, Status, store
  <2>4. ASSUME NEW c \in Chunks, ConsumerCrash(c) PROVE TypeInv'
    <3>1. faults' \in 0..MaxFaults
      BY <2>4, FaultsTyped DEF ConsumerCrash, EnvEvents
    <3> QED
      BY <2>4, <3>1 DEF ConsumerCrash, Goto, PCs, store
  <2>5. CASE ProducerCrash
    <3>1. faults' \in 0..MaxFaults
      BY <2>5, FaultsTyped DEF ProducerCrash, EnvEvents
    <3> QED
      BY <2>5, <3>1 DEF ProducerCrash, Stages, store
  <2> QED
    BY <1>3, <2>1, <2>2, <2>3, <2>4, <2>5 DEF EnvStep
<1>4. CASE UNCHANGED vars
  BY <1>4 DEF vars
<1> QED
  BY <1>1, <1>2, <1>3, <1>4 DEF Next

\* The initial states are well typed.
LEMMA TypeInit == Init => TypeInv
<1> SUFFICES ASSUME Init PROVE TypeInv
  OBVIOUS
<1>1. job \in Jobs
  BY InitTotalAssumption DEF Init, StartedJob, Jobs, Status
<1>2. pc \in [Chunks -> PCs] /\ tries \in [Chunks -> 0..MaxRetries]
  BY RetriesAssumption DEF Init, PCs
<1>3. stage \in Stages /\ finals \in Nat /\ faults \in 0..MaxFaults
  BY FaultsAssumption DEF Init, Stages
<1>4. \A c \in Chunks : pc[c] # "backoff"
  BY DEF Init
<1> QED
  BY <1>1, <1>2, <1>3, <1>4 DEF Init, TypeInv, TypeOK

\* The inductive form of type correctness holds in every reachable state.
LEMMA TypeInvariant == Spec => []TypeInv
BY TypeInit, TypeStep, PTL DEF Spec

\* The states of the model are well typed, and the retries of a chunk stay
\* within max_retries.
THEOREM TypeCorrect == Spec => []TypeOK
<1>1. TypeInv => TypeOK
  BY DEF TypeInv
<1> QED
  BY <1>1, TypeInvariant, PTL

-----------------------------------------------------------------------------
(* The finalisation happens at most once *)

\* Nothing the producer does brings a second finalisation about.
LEMMA FinalProducerStep ==
  ASSUME TypeInv, FinalInv, ProducerStep
  PROVE  FinalInv'
<1> USE DEF FinalInv, Finalizing, Barren, Untouched, TypeInv, TypeOK
<1>1. CASE RejectPlan
  BY <1>1 DEF RejectPlan, store
<1>2. CASE PlanNothing
  BY <1>2 DEF PlanNothing, Completed, store
<1>3. CASE PlanChunks
  BY <1>3 DEF PlanChunks, store
<1>4. ASSUME NEW c \in Chunks, Publish(c) PROVE FinalInv'
  BY <1>4 DEF Publish, store
<1>5. CASE PublishEnd
  BY <1>5 DEF PublishEnd, store
<1>6. CASE AccountUnsent
  BY <1>6 DEF AccountUnsent, Unsent, Incremented, Jobs, store
<1>7. CASE CloseKbExtract
  BY <1>7 DEF CloseKbExtract, Claimable, Claimed, Jobs, store
<1>8. CASE CloseDocExtract
  BY <1>8 DEF CloseDocExtract, store
<1>9. CASE CompleteEmpty
  BY <1>9 DEF CompleteEmpty, Completed, Jobs, store
<1>10. CASE FinalizeByProducer
  BY <1>10 DEF FinalizeByProducer, store
<1> QED
  BY <1>1, <1>2, <1>3, <1>4, <1>5, <1>6, <1>7, <1>8, <1>9, <1>10 DEF ProducerStep

\* Of the chunks that reach the claim, only the one that finds the job running
\* finalises it.
LEMMA FinalChunkStep ==
  ASSUME TypeInv, FinalInv, NEW c \in Chunks, ChunkStep(c)
  PROVE  FinalInv'
<1> USE DEF FinalInv, Finalizing, Barren, Untouched, TypeInv, TypeOK, Goto
<1>1. CASE Deliver(c)
  BY <1>1 DEF Deliver, store
<1>2. CASE CheckCancelled(c)
  BY <1>2 DEF CheckCancelled, AfterCheck, store
<1>3. CASE Extract(c)
  BY <1>3 DEF Extract
<1>4. CASE ExtractFails(c)
  BY <1>4 DEF ExtractFails, Raised, store
<1>5. CASE Record(c)
  BY <1>5 DEF Record
<1>6. CASE InsertRow(c)
  BY <1>6 DEF InsertRow
<1>7. CASE Count(c)
  <2>1. job'.status = job.status
    BY <1>7 DEF Count, Incremented, Jobs
  <2> QED
    BY <1>7, <2>1 DEF Count, store
<1>8. CASE TryClaim(c)
  BY <1>8 DEF TryClaim, Claimable, Claimed, AfterHandler, Jobs, store
<1>9. CASE Finalize(c)
  BY <1>9 DEF Finalize, AfterHandler, store
<1>10. CASE Ack(c)
  BY <1>10 DEF Ack, Raised, store
<1>11. CASE Republish(c)
  BY <1>11 DEF Republish, store
<1> QED
  BY <1>1, <1>2, <1>3, <1>4, <1>5, <1>6, <1>7, <1>8, <1>9, <1>10, <1>11
     DEF ChunkStep

\* Cancellation, the watchdog and crashes never make an ended job run again.
LEMMA FinalEnvStep ==
  ASSUME TypeInv, FinalInv, EnvStep
  PROVE  FinalInv'
<1> USE DEF FinalInv, Finalizing, Barren, Untouched, TypeInv, TypeOK
<1>1. CASE Cancel
  BY <1>1 DEF Cancel, Jobs, store
<1>2. CASE WatchdogRead
  BY <1>2 DEF WatchdogRead, store
<1>3. CASE WatchdogCommit
  BY <1>3 DEF WatchdogCommit, Jobs, store
<1>4. ASSUME NEW c \in Chunks, ConsumerCrash(c) PROVE FinalInv'
  BY <1>4 DEF ConsumerCrash, Goto, Held, PastCount, PCs, store
<1>5. CASE ProducerCrash
  BY <1>5 DEF ProducerCrash, store
<1> QED
  BY <1>1, <1>2, <1>3, <1>4, <1>5 DEF EnvStep

\* Every step keeps what FinalInv says of who may finalise.
LEMMA FinalStep == TypeInv /\ FinalInv /\ [Next]_vars => FinalInv'
<1> SUFFICES ASSUME TypeInv, FinalInv, [Next]_vars
             PROVE  FinalInv'
  OBVIOUS
<1>1. CASE UNCHANGED vars
  BY <1>1 DEF vars, FinalInv, Finalizing, Barren, Untouched
<1> QED
  BY <1>1, FinalProducerStep, FinalChunkStep, FinalEnvStep DEF Next

\* Nobody finalises in an initial state.
LEMMA FinalInit == Init => FinalInv
BY DEF Init, StartedJob, FinalInv, Finalizing, Barren

\* Whoever may finalise is alone, so the set of the finalising chunks has at
\* most one element.
LEMMA FinalMeansOnce == TypeInv /\ FinalInv => FinalizedAtMostOnce
<1> SUFFICES ASSUME TypeInv, FinalInv
             PROVE  FinalizedAtMostOnce
  OBVIOUS
<1>1. Cardinality(Finalizing) <= 1
  <2>1. CASE Finalizing = {}
    BY <2>1, FS_EmptySet
  <2>2. CASE Finalizing # {}
    <3>1. PICK c \in Finalizing : Finalizing = {c}
      BY <2>2 DEF FinalInv
    <3> QED
      BY <3>1, FS_Singleton
  <2> QED
    BY <2>1, <2>2
<1> QED
  BY <1>1 DEF FinalInv, FinalizedAtMostOnce, TypeInv, TypeOK

\* Whatever fails, is cancelled, is retried or crashes, the finalisation code
\* of a job runs at most once.
THEOREM FinalizedOnce == Spec => []FinalizedAtMostOnce
<1>1. Spec => []FinalInv
  BY TypeInvariant, FinalInit, FinalStep, PTL DEF Spec
<1> QED
  BY <1>1, TypeInvariant, FinalMeansOnce, PTL

-----------------------------------------------------------------------------
(* A completed job has dealt with all its chunks *)

\* A chunk that settles moves the number of settled chunks up by one.
LEMMA OneMoreSettled ==
  ASSUME TypeInv, NEW c \in planned, c \notin Settled, Settled' = Settled \cup {c}
  PROVE  Cardinality(Settled') = Cardinality(Settled) + 1
BY ChunkSets, FS_AddElement DEF Settled, TypeInv, TypeOK

\* Settled chunks only become more: so does their number.
LEMMA MoreSettled ==
  ASSUME TypeInv, TypeInv', Settled \subseteq Settled'
  PROVE  /\ Cardinality(Settled) \in Nat /\ Cardinality(Settled') \in Nat
         /\ Cardinality(Settled) <= Cardinality(Settled')
<1>1. Settled \in SUBSET Chunks /\ Settled' \in SUBSET Chunks
  BY DEF Settled, TypeInv, TypeOK
<1> QED
  BY <1>1, ChunkSets, FS_Subset

\* The chunk that finds the job claimable is right: all of them are settled.
LEMMA ClaimableMeansSettled ==
  ASSUME TypeInv, CountInv, Claimable(job)
  PROVE  planned \subseteq Settled
<1>1. CASE planned = {}
  BY <1>1
<1>2. CASE planned # {}
  <2>1. Cardinality(planned) <= Cardinality(Settled)
    <3>1. /\ job.current \in Nat /\ job.total \in Nat
          /\ Cardinality(Settled) \in Nat /\ Cardinality(planned) \in Nat
      BY ChunkSets DEF Settled, TypeInv, TypeOK, Jobs
    <3> QED
      BY <1>2, <3>1 DEF Claimable, CountInv
  <2>2. Settled \in SUBSET planned /\ IsFiniteSet(planned)
    BY ChunkSets DEF Settled, TypeInv, TypeOK
  <2>3. Cardinality(Settled) <= Cardinality(planned)
    BY <2>2, FS_Subset
  <2>4. Cardinality(Settled) = Cardinality(planned)
    BY <2>1, <2>2, <2>3, ChunkSets, FS_CardinalityType, FS_Subset
  <2> QED
    BY <2>2, <2>4, FS_Subset
<1> QED
  BY <1>1, <1>2

\* The steps that leave the row and the plan alone and unsettle no chunk.
LEMMA CountUndisturbed ==
  ASSUME TypeInv, TypeInv', CountInv, Settled \subseteq Settled',
         UNCHANGED <<job, planned>>,
         stage' = "plan" => stage = "plan" /\ UNCHANGED pc,
         \A c \in Chunks : pc'[c] # "planned" => c \in planned,
         stage' = "complete" => planned' \subseteq Settled'
  PROVE  CountInv'
<1>1. /\ job.current \in Nat
      /\ Cardinality(Settled) \in Nat /\ Cardinality(Settled') \in Nat
      /\ Cardinality(Settled) <= Cardinality(Settled')
  BY MoreSettled DEF TypeInv, TypeOK, Jobs
<1> QED
  BY <1>1 DEF CountInv, Barren

\* The producer. AccountUnsent counts the unsent chunks in the step that writes
\* them off.
LEMMA CountProducerStep ==
  ASSUME TypeInv, TypeInv', CountInv, ProducerStep, "total" \notin Env
  PROVE  CountInv'
<1> USE DEF TypeInv, TypeOK
<1>1. CASE RejectPlan
  BY <1>1 DEF RejectPlan, CountInv, Jobs
<1>2. CASE PlanNothing
  <2>1. Settled' = Settled
    BY <1>2 DEF PlanNothing, Settled
  <2>2. planned = {} /\ Barren /\ job.status # "completed" /\ UNCHANGED <<planned, pc>>
    BY <1>2 DEF PlanNothing, CountInv
  <2>3. CASE job' = Completed(job) /\ stage' = "done"
    <3>1. job'.status = "completed"
      BY <2>3 DEF Completed, Jobs
    <3> QED
      BY <2>1, <2>2, <2>3, <3>1 DEF CountInv
  <2>4. CASE UNCHANGED job /\ stage' = "complete"
    BY <2>1, <2>2, <2>4 DEF CountInv
  <2> QED
    BY <1>2, <2>3, <2>4 DEF PlanNothing
<1>3. CASE PlanChunks
  <2>1. PICK P \in (SUBSET Chunks) \ {{}} :
          planned' = P /\ job' = [job EXCEPT !.total = Cardinality(P)]
    BY <1>3 DEF PlanChunks, Fault
  <2>2. Settled \subseteq Settled'
    BY <1>3 DEF PlanChunks, CountInv, Settled
  <2>3. /\ job.current \in Nat
        /\ Cardinality(Settled) \in Nat /\ Cardinality(Settled') \in Nat
        /\ Cardinality(Settled) <= Cardinality(Settled')
    BY <2>2, MoreSettled DEF Jobs
  <2>4. job' = [job EXCEPT !.total = Cardinality(P)] /\ job \in Jobs
    BY <2>1
  <2>5. /\ job'.status = job.status /\ job'.current = job.current
        /\ job'.total = Cardinality(P)
    BY <2>4 DEF Jobs
  <2> QED
    BY <1>3, <2>1, <2>2, <2>3, <2>5 DEF PlanChunks, CountInv, Barren
<1>4. ASSUME NEW c \in Chunks, Publish(c) PROVE CountInv'
  <2>1. Settled \subseteq Settled'
    BY <1>4 DEF Publish, Settled, PastCount
  <2> QED
    BY <1>4, <2>1, CountUndisturbed DEF Publish, CountInv
<1>5. CASE PublishEnd
  <2>1. Settled' = Settled
    BY <1>5 DEF PublishEnd, Settled
  <2> QED
    BY <1>5, <2>1, CountUndisturbed DEF PublishEnd, CountInv
<1>6. CASE AccountUnsent
  <2> DEFINE n == Cardinality(Unsent)
  <2>1. Settled' = Settled \cup Unsent /\ Settled \cap Unsent = {}
    BY <1>6 DEF AccountUnsent, Settled, Unsent, PastCount
  <2>2. IsFiniteSet(Settled) /\ IsFiniteSet(Unsent) /\ n \in Nat
        /\ Cardinality(Settled) \in Nat
    BY ChunkSets DEF Settled, Unsent
  <2>3. Cardinality(Settled') = Cardinality(Settled) + n
    BY <2>1, <2>2, FS_Union, FS_EmptySet
  <2>4. /\ job'.status = job.status /\ job'.total = job.total
        /\ job'.current \in {job.current, job.current + n}
    <3>1. CASE UNCHANGED job
      BY <3>1
    <3>2. CASE job' = Incremented(job, 0, n)
      BY <3>2, <2>2 DEF Incremented, Jobs
    <3> QED
      BY <1>6, <3>1, <3>2 DEF AccountUnsent
  <2>5. job.current \in Nat
    BY DEF Jobs
  <2>6. /\ stage' = "close" /\ planned' = planned
        /\ \A c \in Chunks : pc'[c] # "planned" => c \in planned
    BY <1>6 DEF AccountUnsent, CountInv, Unsent
  <2> QED
    BY <2>1, <2>2, <2>3, <2>4, <2>5, <2>6 DEF CountInv
<1>7. CASE CloseKbExtract
  <2>1. Settled' = Settled
    BY <1>7 DEF CloseKbExtract, Settled
  <2>2. CASE UNCHANGED job
    BY <1>7, <2>1, <2>2, CountUndisturbed DEF CloseKbExtract, CountInv
  <2>3. CASE Claimable(job) /\ job' = Claimed(job)
    <3>1. planned \subseteq Settled
      BY <2>3, ClaimableMeansSettled
    <3> QED
      BY <1>7, <2>1, <2>3, <3>1 DEF CloseKbExtract, CountInv, Claimed, Jobs
  <2> QED
    BY <1>7, <2>2, <2>3 DEF CloseKbExtract
<1>8. CASE CloseDocExtract
  <2>1. Settled' = Settled
    BY <1>8 DEF CloseDocExtract, Settled
  <2>2. stage' = "complete" => planned' \subseteq Settled'
    BY <1>8, <2>1 DEF CloseDocExtract, Settled
  <2> QED
    BY <1>8, <2>1, <2>2, CountUndisturbed DEF CloseDocExtract, CountInv
<1>9. CASE CompleteEmpty
  <2>1. Settled' = Settled
    BY <1>9 DEF CompleteEmpty, Settled
  <2> QED
    BY <1>9, <2>1 DEF CompleteEmpty, CountInv, Completed, Jobs
<1>10. CASE FinalizeByProducer
  <2>1. Settled' = Settled
    BY <1>10 DEF FinalizeByProducer, Settled
  <2> QED
    BY <1>10, <2>1, CountUndisturbed DEF FinalizeByProducer, CountInv
<1> QED
  BY <1>1, <1>2, <1>3, <1>4, <1>5, <1>6, <1>7, <1>8, <1>9, <1>10 DEF ProducerStep

\* The chunks. Only Count and TryClaim touch the row; a chunk is counted before
\* or together with its settling, never after.
LEMMA CountChunkStep ==
  ASSUME TypeInv, TypeInv', CountInv, NEW c \in Chunks, ChunkStep(c), "ack" \notin Env
  PROVE  CountInv'
<1> USE DEF TypeInv, TypeOK, Goto
<1>1. CASE Deliver(c) \/ Extract(c) \/ InsertRow(c) \/ Finalize(c)
  <2>1. Settled \subseteq Settled'
    BY <1>1 DEF Deliver, Extract, InsertRow, Finalize, AfterHandler, Settled, PastCount
  <2> QED
    BY <1>1, <2>1, CountUndisturbed
       DEF Deliver, Extract, InsertRow, Finalize, CountInv, Barren
<1>2. CASE CheckCancelled(c) \/ Record(c) \/ Republish(c)
  <2>1. Settled \subseteq Settled'
    BY <1>2 DEF CheckCancelled, Record, Republish, Settled, PastCount
  <2> QED
    BY <1>2, <2>1, CountUndisturbed
       DEF CheckCancelled, Record, Republish, CountInv, Barren
<1>3. CASE ExtractFails(c)
  <2>1. Settled \subseteq Settled'
    BY <1>3 DEF ExtractFails, Raised, Settled, PastCount
  <2> QED
    BY <1>3, <2>1, CountUndisturbed DEF ExtractFails, Raised, CountInv, Barren
<1>4. CASE Ack(c)
  <2>1. pc[c] = "ack" /\ pc' = [pc EXCEPT ![c] = "done"] /\ UNCHANGED <<job, stage, planned>>
    BY <1>4 DEF Ack, Fault
  <2>2. Settled \subseteq Settled'
    BY <2>1 DEF Settled, PastCount
  <2> QED
    BY <2>1, <2>2, CountUndisturbed DEF CountInv, Barren
<1>5. CASE Count(c)
  <2>1. c \in planned /\ c \notin Settled /\ stage # "plan" /\ Settled' = Settled \cup {c}
    BY <1>5 DEF Count, Settled, PastCount, CountInv, Barren
  <2>2. Cardinality(Settled') = Cardinality(Settled) + 1 /\ Cardinality(Settled) \in Nat
    BY <2>1, OneMoreSettled, MoreSettled
  <2>3. /\ job'.status = job.status /\ job'.total = job.total
        /\ job'.current \in {job.current, job.current + 1}
    <3>1. CASE UNCHANGED job
      BY <3>1
    <3>2. CASE job' = Incremented(job, 1, 0)
      BY <3>2 DEF Incremented, Jobs
    <3>3. CASE job' = Incremented(job, 0, 1)
      BY <3>3 DEF Incremented, Jobs
    <3> QED
      BY <1>5, <3>1, <3>2, <3>3 DEF Count
  <2>4. /\ UNCHANGED <<stage, planned>>
        /\ \A d \in Chunks : pc'[d] # "planned" => d \in planned
    BY <1>5, <2>1 DEF Count, CountInv
  <2>5. job.current \in Nat
    BY DEF Jobs
  <2> QED
    BY <2>1, <2>2, <2>3, <2>4, <2>5 DEF CountInv
<1>6. CASE TryClaim(c)
  <2>1. Settled \subseteq Settled'
    BY <1>6 DEF TryClaim, AfterHandler, Settled, PastCount
  <2>2. /\ UNCHANGED <<stage, planned>> /\ stage # "plan"
        /\ \A d \in Chunks : pc'[d] # "planned" => d \in planned
    BY <1>6 DEF TryClaim, CountInv, Barren
  <2>3. CASE UNCHANGED job
    BY <2>1, <2>2, <2>3, CountUndisturbed DEF CountInv
  <2>4. CASE Claimable(job) /\ job' = Claimed(job)
    <3>1. planned \subseteq Settled /\ job'.status = "completed"
      BY <2>4, ClaimableMeansSettled DEF Claimed, Jobs
    <3> QED
      BY <2>1, <2>2, <3>1 DEF CountInv
  <2> QED
    BY <1>6, <2>3, <2>4 DEF TryClaim
<1> QED
  BY <1>1, <1>2, <1>3, <1>4, <1>5, <1>6 DEF ChunkStep

\* Cancellation, the watchdog and crashes settle no chunk and un-settle none.
LEMMA CountEnvStep ==
  ASSUME TypeInv, TypeInv', CountInv, EnvStep
  PROVE  CountInv'
<1> USE DEF TypeInv, TypeOK
<1>1. CASE Cancel \/ WatchdogCommit
  <2>1. Settled' = Settled /\ job'.status \in {"cancelled", "failed"}
        /\ UNCHANGED <<stage, planned, pc>>
    BY <1>1 DEF Cancel, WatchdogCommit, Settled, Jobs
  <2> QED
    BY <2>1 DEF CountInv, Barren
<1>2. CASE WatchdogRead \/ ProducerCrash
  <2>1. Settled' = Settled
    BY <1>2 DEF WatchdogRead, ProducerCrash, Settled
  <2> QED
    BY <1>2, <2>1, CountUndisturbed DEF WatchdogRead, ProducerCrash, CountInv
<1>3. ASSUME NEW c \in Chunks, ConsumerCrash(c) PROVE CountInv'
  <2>1. Settled \subseteq Settled'
    BY <1>3 DEF ConsumerCrash, Goto, Held, PCs, Settled, PastCount
  <2> QED
    BY <1>3, <2>1, CountUndisturbed
       DEF ConsumerCrash, Goto, Held, PCs, CountInv, Barren
<1> QED
  BY <1>1, <1>2, <1>3 DEF EnvStep

\* Every step keeps the counters in line with the chunks dealt with, where acks
\* succeed and progress_total is written.
LEMMA CountStep ==
  ASSUME Env \cap {"ack", "total"} = {}
  PROVE  TypeInv /\ TypeInv' /\ CountInv /\ [Next]_vars => CountInv'
<1> SUFFICES ASSUME TypeInv, TypeInv', CountInv, [Next]_vars
             PROVE  CountInv'
  OBVIOUS
<1>1. CASE UNCHANGED vars
  BY <1>1 DEF vars, CountInv, Barren, Settled
<1> QED
  BY <1>1, CountProducerStep, CountChunkStep, CountEnvStep DEF Next

\* Nothing is planned or counted in an initial state.
LEMMA CountInit == Init => CountInv
<1> SUFFICES ASSUME Init PROVE CountInv
  OBVIOUS
<1>1. Settled = {}
  BY DEF Init, Settled
<1> QED
  BY <1>1, FS_EmptySet DEF Init, StartedJob, CountInv, Barren

\* Where acks and the write of progress_total do not fail, a job that reads
\* "completed" has dealt with every chunk it planned - whatever is cancelled,
\* timed out by the watchdog, not published, not counted, lost or crashed.
THEOREM CompletedSettled ==
  ASSUME Env \cap {"ack", "total"} = {}
  PROVE  Spec => []CompletedMeansAllSettled
<1>1. Spec => []CountInv
  BY TypeInvariant, CountInit, CountStep, PTL DEF Spec
<1>2. CountInv => CompletedMeansAllSettled
  BY DEF CountInv, CompletedMeansAllSettled
<1> QED
  BY <1>1, <1>2, PTL

-----------------------------------------------------------------------------
(* The progress is exact *)

\* Published chunks stay planned, and a plan is made once.
LEMMA BegunStep == TypeInv /\ Begun /\ [Next]_vars => Begun'
<1> SUFFICES ASSUME TypeInv, Begun, [Next]_vars
             PROVE  Begun'
  OBVIOUS
<1> USE DEF TypeInv, TypeOK, Begun, Barren
<1>1. CASE ProducerStep
  <2>1. CASE PlanNothing
    <3>1. UNCHANGED <<planned, pc>> /\ stage' # "plan"
      BY <2>1 DEF PlanNothing
    <3> QED
      BY <3>1
  <2>2. CASE PlanChunks
    <3>1. stage' = "publish" /\ UNCHANGED pc /\ \A c \in Chunks : pc[c] = "planned"
      BY <2>2 DEF PlanChunks
    <3> QED
      BY <3>1
  <2>3. CASE RejectPlan \/ PublishEnd \/ AccountUnsent \/ CloseKbExtract \/ CloseDocExtract
             \/ CompleteEmpty \/ FinalizeByProducer
    <3>1. stage' # "plan" /\ UNCHANGED planned
      BY <2>3
      DEF RejectPlan, PublishEnd, AccountUnsent, CloseKbExtract, CloseDocExtract,
         CompleteEmpty, FinalizeByProducer
    <3>2. \A c \in Chunks : pc'[c] # "planned" => pc[c] # "planned"
      BY <2>3
      DEF RejectPlan, PublishEnd, AccountUnsent, CloseKbExtract, CloseDocExtract,
         CompleteEmpty, FinalizeByProducer, Unsent
    <3> QED
      BY <3>1, <3>2
  <2>4. ASSUME NEW c \in Chunks, Publish(c)
        PROVE  Begun'
    BY <2>4 DEF Publish
  <2> QED
    BY <1>1, <2>1, <2>2, <2>3, <2>4 DEF ProducerStep
<1>2. ASSUME NEW c \in Chunks, ChunkStep(c)
      PROVE  Begun'
  <2>1. pc[c] \notin {"planned", "writtenOff"}
    BY <1>2
    DEF ChunkStep, Deliver, CheckCancelled, Extract, ExtractFails, Record, InsertRow,
        Count, TryClaim, Finalize, Ack, Republish
  <2>2. UNCHANGED <<stage, planned>> /\ \A d \in Chunks \ {c} : pc'[d] = pc[d]
    BY <1>2
    DEF ChunkStep, Deliver, CheckCancelled, Extract, ExtractFails, Raised, Record,
       InsertRow, Count, TryClaim, Finalize, Ack, Republish, Goto
  <2> QED
    BY <2>1, <2>2
<1>3. CASE EnvStep
  <2>1. CASE Cancel \/ WatchdogCommit
    BY <2>1 DEF Cancel, WatchdogCommit, Jobs
  <2>2. CASE WatchdogRead \/ ProducerCrash
    BY <2>2 DEF WatchdogRead, ProducerCrash
  <2>3. ASSUME NEW c \in Chunks, ConsumerCrash(c)
        PROVE  Begun'
    BY <2>3 DEF ConsumerCrash, Goto, Held, PCs
  <2> QED
    BY <1>3, <2>1, <2>2, <2>3 DEF EnvStep
<1>4. CASE UNCHANGED vars
  BY <1>4 DEF vars
<1> QED
  BY <1>1, <1>2, <1>3, <1>4 DEF Next

\* A chunk step that settles or unsettles: only Count settles, and only a failed
\* ack unsettles.  Neither Count nor TryClaim aside, the row is left alone.
LEMMA SettledByChunk ==
  ASSUME TypeInv, NEW c \in Chunks, ChunkStep(c)
  PROVE  \/ Count(c) \/ TryClaim(c) \/ Ack(c)
         \/ Settled' = Settled /\ Claimers' = Claimers /\ UNCHANGED <<job, planned, stage>>
<1> USE DEF TypeInv, TypeOK, Goto
<1>1. ASSUME pc[c] \notin PastCount \cup {"writtenOff"}, pc'[c] \notin PastCount \cup {"writtenOff"},
             \A d \in Chunks \ {c} : pc'[d] = pc[d], UNCHANGED <<job, planned, stage>>
      PROVE  Settled' = Settled /\ Claimers' = Claimers /\ UNCHANGED <<job, planned, stage>>
  BY <1>1 DEF Settled, Claimers, PastCount
<1>2. CASE Deliver(c) \/ Extract(c) \/ InsertRow(c) \/ Record(c) \/ Republish(c)
  <2>1. /\ pc[c] \notin PastCount \cup {"writtenOff"}
        /\ pc'[c] \notin PastCount \cup {"writtenOff"}
    BY <1>2 DEF Deliver, Extract, InsertRow, Record, Republish, PastCount
  <2>2. (\A d \in Chunks \ {c} : pc'[d] = pc[d]) /\ UNCHANGED <<job, planned, stage>>
    BY <1>2 DEF Deliver, Extract, InsertRow, Record, Republish
  <2> QED
    BY <1>1, <2>1, <2>2
<1>3. CASE CheckCancelled(c)
  <2>1. AfterCheck(c, FALSE) \in {"countFail", "record", "work"}
        /\ AfterCheck(c, job.status = "cancelled") \in {"countFail", "record", "work"}
    BY DEF AfterCheck
  <2>2. pc[c] = "check" /\ pc'[c] \in {"countFail", "record", "work"}
    BY <1>3, <2>1 DEF CheckCancelled
  <2>3. (\A d \in Chunks \ {c} : pc'[d] = pc[d]) /\ UNCHANGED <<job, planned, stage>>
    BY <1>3 DEF CheckCancelled
  <2> QED
    BY <1>1, <2>2, <2>3 DEF PastCount
<1>4. CASE ExtractFails(c)
  <2>1. pc[c] = "work" /\ pc'[c] \in {"backoff", "permCount"}
    BY <1>4 DEF ExtractFails, Raised
  <2>2. (\A d \in Chunks \ {c} : pc'[d] = pc[d]) /\ UNCHANGED <<job, planned, stage>>
    BY <1>4 DEF ExtractFails, Raised
  <2> QED
    BY <1>1, <2>1, <2>2 DEF PastCount
<1>5. CASE Finalize(c)
  <2>1. /\ pc[c] \in {"finalize", "permFinalize"} /\ pc'[c] \in {"ack", "done"}
        /\ (\A d \in Chunks \ {c} : pc'[d] = pc[d]) /\ UNCHANGED <<job, planned, stage>>
    BY <1>5 DEF Finalize, AfterHandler
  <2> QED
    BY <2>1 DEF Settled, Claimers, PastCount
<1> QED
  BY <1>2, <1>3, <1>4, <1>5 DEF ChunkStep

\* What Count does: the chunk settles, is left to try the claim, and moves the
\* progress, unless a database error is swallowed.
LEMMA CountCounts ==
  ASSUME TypeInv, Begun, NEW c \in Chunks, Count(c)
  PROVE  /\ UNCHANGED <<planned, stage>>
         /\ Cardinality(Settled) \in Nat /\ Cardinality(Settled') = Cardinality(Settled) + 1
         /\ c \in Claimers'
         /\ \/ /\ job'.status = job.status /\ job'.total = job.total
               /\ job'.current = job.current + 1
               /\ job'.succ + job'.fail = job.succ + job.fail + 1
            \/ "db" \in Env /\ UNCHANGED job
<1> USE DEF TypeInv, TypeOK, Goto
<1>1. c \in planned /\ c \notin Settled /\ Settled' = Settled \cup {c}
  BY DEF Count, Settled, PastCount, Begun
<1>2. Cardinality(Settled') = Cardinality(Settled) + 1 /\ Cardinality(Settled) \in Nat
  BY <1>1, OneMoreSettled, ChunkSets DEF Settled
<1>3. CASE job' = Incremented(job, 1, 0)
  BY <1>2, <1>3 DEF Count, Incremented, Jobs, Claimers
<1>4. CASE job' = Incremented(job, 0, 1)
  BY <1>2, <1>4 DEF Count, Incremented, Jobs, Claimers
<1>5. CASE UNCHANGED job /\ "db" \in Env
  BY <1>2, <1>5 DEF Count, Claimers
<1> QED
  BY <1>3, <1>4, <1>5 DEF Count, Fault

\* What AccountUnsent does: the unsent chunks settle and move the progress.
LEMMA AccountCounts ==
  ASSUME TypeInv, AccountUnsent
  PROVE  /\ UNCHANGED planned /\ stage' = "close" /\ Claimers' = Claimers
         /\ Cardinality(Unsent) \in Nat /\ Cardinality(Settled) \in Nat
         /\ Cardinality(Settled') = Cardinality(Settled) + Cardinality(Unsent)
         /\ \/ /\ job'.status = job.status /\ job'.total = job.total
               /\ job'.current = job.current + Cardinality(Unsent)
               /\ job'.succ + job'.fail = job.succ + job.fail + Cardinality(Unsent)
            \/ "db" \in Env /\ UNCHANGED job
<1> USE DEF TypeInv, TypeOK
<1> DEFINE n == Cardinality(Unsent)
<1>1. Settled' = Settled \cup Unsent /\ Settled \cap Unsent = {}
  BY DEF AccountUnsent, Settled, Unsent, PastCount
<1>2. /\ IsFiniteSet(Settled) /\ IsFiniteSet(Unsent) /\ n \in Nat
      /\ Cardinality(Settled) \in Nat
  BY ChunkSets DEF Settled, Unsent
<1>3. Cardinality(Settled') = Cardinality(Settled) + n
  BY <1>1, <1>2, FS_Union, FS_EmptySet
<1>4. UNCHANGED planned /\ stage' = "close" /\ Claimers' = Claimers
  BY DEF AccountUnsent, Claimers, Unsent
<1>5. CASE UNCHANGED job /\ "db" \in Env
  BY <1>2, <1>3, <1>4, <1>5
<1>6. CASE job' = Incremented(job, 0, n)
  <2>1. /\ job'.status = job.status /\ job'.total = job.total
        /\ job'.current = job.current + n
        /\ job'.succ + job'.fail = job.succ + job.fail + n
    BY <1>2, <1>6 DEF Incremented, Jobs
  <2> QED
    BY <1>2, <1>3, <1>4, <2>1
<1> QED
  BY <1>5, <1>6 DEF AccountUnsent, Fault

\* Where acks and database calls succeed, every step keeps the progress exact.
LEMMA ExactStep ==
  ASSUME Env \cap {"ack", "db"} = {}
  PROVE  TypeInv /\ Begun /\ ProgressExact /\ [Next]_vars => ProgressExact'
<1> SUFFICES ASSUME TypeInv, Begun, ProgressExact, [Next]_vars, job'.status = "running"
             PROVE  job'.current = Cardinality(Settled') /\ job'.succ + job'.fail = job'.current
  BY DEF ProgressExact
<1> USE DEF TypeInv, TypeOK, Goto
<1>0. job.current \in Nat /\ job.succ \in Nat /\ job.fail \in Nat
  BY DEF Jobs
<1>1. CASE Settled' = Settled /\ job' = job
  BY <1>1 DEF ProgressExact
<1>2. CASE ProducerStep
  <2>1. CASE PlanChunks
    <3>1. /\ job'.status = job.status /\ job'.current = job.current
          /\ job'.succ = job.succ /\ job'.fail = job.fail
      BY <2>1 DEF PlanChunks, Jobs
    <3>2. Settled' = Settled
      BY <2>1 DEF PlanChunks, Begun, Barren, Settled, PastCount
    <3> QED
      BY <3>1, <3>2 DEF ProgressExact
  <2>2. CASE RejectPlan \/ CompleteEmpty
    BY <2>2 DEF RejectPlan, CompleteEmpty, Fault, Completed, Jobs
  <2>3. CASE PlanNothing
    <3>1. Settled' = Settled
      BY <2>3 DEF PlanNothing, Settled
    <3>2. job' = job \/ job'.status = "completed"
      BY <2>3 DEF PlanNothing, Completed, Jobs
    <3> QED
      BY <1>1, <3>1, <3>2
  <2>4. CASE PublishEnd \/ CloseDocExtract \/ FinalizeByProducer
    BY <1>1, <2>4 DEF PublishEnd, CloseDocExtract, FinalizeByProducer, Settled
  <2>5. ASSUME NEW c \in Chunks, Publish(c)
        PROVE  Settled' = Settled /\ job' = job
    BY <2>5 DEF Publish, Settled, PastCount
  <2>6. CASE AccountUnsent
    BY <1>0, <2>6, AccountCounts DEF ProgressExact
  <2>7. CASE CloseKbExtract
    <3>1. Settled' = Settled
      BY <2>7 DEF CloseKbExtract, Settled
    <3>2. job' = job \/ job'.status = "completed"
      BY <2>7 DEF CloseKbExtract, Claimed, Jobs
    <3> QED
      BY <1>1, <3>1, <3>2
  <2> QED
    BY <1>1, <1>2, <2>1, <2>2, <2>3, <2>4, <2>5, <2>6, <2>7 DEF ProducerStep
<1>3. ASSUME NEW c \in Chunks, ChunkStep(c)
      PROVE  job'.current = Cardinality(Settled') /\ job'.succ + job'.fail = job'.current
  <2>1. CASE Count(c)
    BY <1>0, <2>1, CountCounts DEF ProgressExact
  <2>2. CASE TryClaim(c)
    <3>1. Settled' = Settled
      BY <2>2 DEF TryClaim, AfterHandler, Settled, PastCount
    <3>2. job' = job \/ job'.status = "completed"
      BY <2>2 DEF TryClaim, Claimed, Jobs
    <3> QED
      BY <1>1, <3>1, <3>2
  <2>3. CASE Ack(c)
    <3>1. pc[c] = "ack" /\ pc' = [pc EXCEPT ![c] = "done"] /\ UNCHANGED <<job, planned>>
      BY <2>3 DEF Ack, Fault
    <3> QED
      BY <1>1, <3>1 DEF Settled, PastCount
  <2> QED
    BY <1>1, <1>3, <2>1, <2>2, <2>3, SettledByChunk
<1>4. CASE EnvStep
  <2>1. CASE Cancel \/ WatchdogCommit
    BY <2>1 DEF Cancel, WatchdogCommit, Jobs
  <2>2. CASE WatchdogRead \/ ProducerCrash
    BY <1>1, <2>2 DEF WatchdogRead, ProducerCrash, Settled
  <2>3. ASSUME NEW c \in Chunks, ConsumerCrash(c)
        PROVE  Settled' = Settled /\ job' = job
    BY <2>3 DEF ConsumerCrash, Held, PCs, Settled, PastCount
  <2> QED
    BY <1>1, <1>4, <2>1, <2>2, <2>3 DEF EnvStep
<1>5. CASE UNCHANGED vars
  BY <1>1, <1>5 DEF vars, Settled
<1> QED
  BY <1>2, <1>3, <1>4, <1>5 DEF Next

\* Nothing is planned, published or counted in an initial state.
LEMMA BegunInit == Init => Begun /\ ProgressExact
<1> SUFFICES ASSUME Init PROVE Begun /\ ProgressExact
  OBVIOUS
<1>1. Settled = {}
  BY DEF Init, Settled
<1> QED
  BY <1>1, FS_EmptySet DEF Init, StartedJob, Begun, Barren, ProgressExact

\* Where acks and database calls succeed, the progress of a running job is the
\* number of chunks dealt with, and its successes and failures add up to it -
\* whatever is not published, lost or crashed, and whatever its total says.
THEOREM ProgressIsExact ==
  ASSUME Env \cap {"ack", "db"} = {}
  PROVE  Spec => []ProgressExact
<1>1. TypeInv /\ (Begun /\ ProgressExact) /\ [Next]_vars => (Begun /\ ProgressExact)'
  BY BegunStep, ExactStep
<1> QED
  BY TypeInvariant, BegunInit, <1>1, PTL DEF Spec

-----------------------------------------------------------------------------
(* No job is left running *)

\* The parts of LeftInv about the producer alone.
LeftPlan ==
  /\ stage \in {"publish", "account", "close"} => planned # {}
  /\ stage \in {"done", "finalize"} /\ planned = {} => job.status # "running"
  /\ Producer = "doc_extract" => \A c \in Chunks : pc[c] \notin {"unsent", "writtenOff"}

\* The parts about the row of a running job.
LeftCount ==
  job.status = "running" =>
    /\ job.current >= Cardinality(Settled)
    /\ planned # {} => job.total = Cardinality(planned)
    /\ planned # {} /\ job.current >= job.total =>
         \/ Claimers # {}
         \/ Producer = "kb_extract" /\ stage \in {"publish", "account", "close"}

LEMMA LeftParts == LeftInv <=> Begun /\ LeftPlan /\ LeftCount
BY DEF LeftInv, LeftPlan, LeftCount

\* A producer that is done has planned something or ended the job.
LEMMA LeftPlanStep ==
  ASSUME LeftEnv
  PROVE  TypeInv /\ Begun /\ LeftPlan /\ [Next]_vars => LeftPlan'
<1> SUFFICES ASSUME TypeInv, Begun, LeftPlan, [Next]_vars
             PROVE  LeftPlan'
  OBVIOUS
<1> USE DEF LeftPlan, TypeInv, TypeOK
<1>1. CASE ProducerStep
  <2>1. CASE RejectPlan
    BY <2>1 DEF RejectPlan, Jobs
  <2>2. CASE PlanNothing
    <3>1. UNCHANGED <<planned, pc>>
      BY <2>2 DEF PlanNothing
    <3>2. stage' = "complete" \/ (stage' = "done" /\ job'.status = "completed")
      BY <2>2 DEF PlanNothing, Completed, Jobs
    <3> QED
      BY <3>1, <3>2
  <2>3. CASE PlanChunks
    <3>1. planned' # {} /\ stage' = "publish" /\ UNCHANGED pc
      BY <2>3 DEF PlanChunks
    <3> QED
      BY <3>1
  <2>4. ASSUME NEW c \in Chunks, Publish(c)
        PROVE  LeftPlan'
    <3>1. UNCHANGED <<planned, stage, job>>
      BY <2>4 DEF Publish
    <3>2. Producer = "doc_extract" => \A d \in Chunks : pc'[d] \notin {"unsent", "writtenOff"}
      BY <2>4, ProducerAssumption DEF Publish, Fault, LeftEnv
    <3> QED
      BY <3>1, <3>2
  <2>5. CASE PublishEnd
    BY <2>5 DEF PublishEnd
  <2>6. CASE AccountUnsent
    <3>1. stage' = "close" /\ UNCHANGED planned
      BY <2>6 DEF AccountUnsent
    <3>2. Producer = "doc_extract" => Unsent = {}
      BY DEF Unsent
    <3> QED
      BY <2>6, <3>1, <3>2 DEF AccountUnsent
  <2>7. CASE CloseKbExtract
    <3>1. UNCHANGED <<planned, pc>> /\ stage = "close"
      BY <2>7 DEF CloseKbExtract
    <3>2. stage' \in {"done", "finalize"}
      BY <2>7 DEF CloseKbExtract
    <3> QED
      BY <3>1, <3>2
  <2>8. CASE CloseDocExtract
    BY <2>8 DEF CloseDocExtract
  <2>9. CASE CompleteEmpty
    <3>1. job'.status = "completed" /\ stage' = "finalize" /\ UNCHANGED <<planned, pc>>
      BY <2>9 DEF CompleteEmpty, Completed, Jobs, Fault, LeftEnv
    <3> QED
      BY <3>1
  <2>10. CASE FinalizeByProducer
    BY <2>10 DEF FinalizeByProducer
  <2> QED
    BY <1>1, <2>1, <2>2, <2>3, <2>4, <2>5, <2>6, <2>7, <2>8, <2>9, <2>10
    DEF ProducerStep
<1>2. ASSUME NEW c \in Chunks, ChunkStep(c)
      PROVE  LeftPlan'
  <2>1. \E l \in PCs \ {"unsent", "writtenOff"} : pc' = [pc EXCEPT ![c] = l]
    BY <1>2 DEF ChunkStep, Deliver, CheckCancelled, AfterCheck, Extract, ExtractFails,
                Raised, Record, InsertRow, Count, TryClaim, Finalize, AfterHandler,
                Ack, Republish, Goto, PCs
  <2>2. UNCHANGED <<stage, planned>>
    BY <1>2 DEF ChunkStep, Deliver, CheckCancelled, Extract, ExtractFails, Record,
                InsertRow, Count, TryClaim, Finalize, Ack, Republish
  <2>3. job'.status = "running" => job.status = "running"
    <3>1. CASE UNCHANGED job
      BY <3>1
    <3>2. CASE Count(c)
      BY <3>2 DEF Count, Incremented, Jobs
    <3>3. CASE TryClaim(c)
      BY <3>3 DEF TryClaim, Claimed, Jobs
    <3> QED
      BY <1>2, <3>1, <3>2, <3>3
      DEF ChunkStep, Deliver, CheckCancelled, Extract, ExtractFails,
         Record, InsertRow, Finalize, Ack, Republish
  <2>4. Producer = "doc_extract" => \A d \in Chunks : pc'[d] \notin {"unsent", "writtenOff"}
    BY <2>1
  <2> QED
    BY <2>2, <2>3, <2>4
<1>3. CASE EnvStep
  <2>1. CASE Cancel \/ WatchdogCommit
    BY <2>1 DEF Cancel, WatchdogCommit, Jobs
  <2>2. CASE WatchdogRead
    BY <2>2 DEF WatchdogRead
  <2>3. ~ProducerCrash /\ \A c \in Chunks : ~ConsumerCrash(c)
    BY DEF ProducerCrash, ConsumerCrash, Fault, LeftEnv
  <2> QED
    BY <1>3, <2>1, <2>2, <2>3 DEF EnvStep
<1>4. CASE UNCHANGED vars
  BY <1>4 DEF vars
<1> QED
  BY <1>1, <1>2, <1>3, <1>4 DEF Next

\* Every step of a job that goes on running leaves somebody to try the claim.
LEMMA LeftCountStep ==
  ASSUME LeftEnv
  PROVE  TypeInv /\ Begun /\ LeftPlan /\ LeftCount /\ [Next]_vars => LeftCount'
<1> SUFFICES ASSUME TypeInv, Begun, LeftPlan, LeftCount, [Next]_vars, job'.status = "running"
             PROVE  /\ job'.current >= Cardinality(Settled')
                    /\ planned' # {} => job'.total = Cardinality(planned')
                    /\ planned' # {} /\ job'.current >= job'.total =>
                         \/ Claimers' # {}
                         \/ Producer = "kb_extract" /\ stage' \in {"publish", "account", "close"}
  BY DEF LeftCount
<1> USE DEF TypeInv, TypeOK, Goto
<1>0. /\ job.current \in Nat /\ job.total \in Nat
      /\ Cardinality(planned) \in Nat /\ (planned # {} => Cardinality(planned) > 0)
  BY ChunkSets, FS_EmptySet DEF Jobs
<1>1. ASSUME job' = job, planned' = planned, Cardinality(Settled') <= Cardinality(Settled),
             Claimers \subseteq Claimers',
             \/ stage' = stage \/ stage' \in {"publish", "account", "close"}
             \/ Producer = "doc_extract"
             \/ planned # {} => job.current < job.total
      PROVE  /\ job'.current >= Cardinality(Settled')
             /\ planned' # {} => job'.total = Cardinality(planned')
             /\ planned' # {} /\ job'.current >= job'.total =>
                  \/ Claimers' # {}
                  \/ Producer = "kb_extract" /\ stage' \in {"publish", "account", "close"}
  <2>1. Cardinality(Settled) \in Nat /\ Cardinality(Settled') \in Nat
    <3>1. Settled \in SUBSET Chunks /\ Settled' \in SUBSET Chunks
      BY <1>1 DEF Settled
    <3> QED
      BY <3>1, ChunkSets
  <2>2. /\ job.current >= Cardinality(Settled)
        /\ planned # {} => job.total = Cardinality(planned)
        /\ planned # {} /\ job.current >= job.total =>
             \/ Claimers # {}
             \/ Producer = "kb_extract" /\ stage \in {"publish", "account", "close"}
    BY <1>1 DEF LeftCount
  <2> QED
    BY <1>0, <1>1, <2>1, <2>2
<1>a. Cardinality(Settled) \in Nat
  BY ChunkSets DEF Settled
<1>2. CASE ProducerStep
  <2>1. CASE PlanChunks
    <3>1. PICK P \in (SUBSET Chunks) \ {{}} :
            planned' = P /\ job' = [job EXCEPT !.total = Cardinality(P)]
      BY <2>1 DEF PlanChunks, Fault, LeftEnv
    <3>2. job'.total = Cardinality(P) /\ job'.current = 0 /\ job'.status = job.status
      BY <2>1, <3>1 DEF PlanChunks, Begun, Jobs
    <3>3. Settled' = Settled /\ Settled = {}
      BY <2>1 DEF PlanChunks, Begun, Barren, Settled, PastCount
    <3>4. Cardinality(P) \in Nat /\ Cardinality(P) > 0 /\ Cardinality(Settled') = 0
      BY <3>1, <3>3, ChunkSets, FS_EmptySet
    <3> QED
      BY <3>1, <3>2, <3>3, <3>4
  <2>2. CASE RejectPlan \/ CompleteEmpty
    BY <2>2 DEF RejectPlan, CompleteEmpty, Fault, LeftEnv, Completed, Jobs
  <2>3. CASE PlanNothing
    <3>1. /\ Settled' = Settled /\ Claimers' = Claimers /\ UNCHANGED planned
          /\ planned = {}
      BY <2>3 DEF PlanNothing, Settled, Claimers, Begun
    <3>2. job' = job \/ job'.status = "completed"
      BY <2>3 DEF PlanNothing, Completed, Jobs
    <3> QED
      BY <1>1, <1>a, <3>1, <3>2
  <2>4. CASE PublishEnd
    BY <1>1, <1>a, <2>4 DEF PublishEnd, Settled, Claimers
  <2>5. ASSUME NEW c \in Chunks, Publish(c)
        PROVE  /\ Settled' = Settled /\ Claimers' = Claimers
               /\ UNCHANGED <<job, planned, stage>>
    BY <2>5 DEF Publish, Settled, PastCount, Claimers
  <2>6. CASE AccountUnsent
    <3>1. /\ UNCHANGED planned /\ stage' = "close" /\ Claimers' = Claimers
          /\ Cardinality(Unsent) \in Nat
          /\ Cardinality(Settled') = Cardinality(Settled) + Cardinality(Unsent)
          /\ job'.status = job.status /\ job'.total = job.total
          /\ job'.current = job.current + Cardinality(Unsent)
      BY <2>6, AccountCounts DEF LeftEnv
    <3>2. CASE Producer = "kb_extract"
      BY <1>0, <1>a, <3>1, <3>2 DEF LeftCount
    <3>3. CASE Producer = "doc_extract"
      <4>1. Unsent = {}
        BY <3>3 DEF LeftPlan, Unsent
      <4>2. Cardinality(Unsent) = 0
        BY <4>1, FS_EmptySet
      <4> QED
        BY <1>0, <1>a, <3>1, <3>3, <4>2 DEF LeftCount
    <3> QED
      BY <3>2, <3>3, ProducerAssumption
  <2>7. CASE CloseKbExtract
    <3>1. Settled' = Settled /\ Claimers' = Claimers /\ UNCHANGED planned
      BY <2>7 DEF CloseKbExtract, Settled, Claimers
    <3>2. CASE job' = Claimed(job)
      BY <3>2 DEF Claimed, Jobs
    <3>3. CASE UNCHANGED job /\ ~Claimable(job)
      <4>1. planned # {} => job.current < job.total
        BY <1>0, <3>3 DEF Claimable, LeftCount
      <4> QED
        BY <1>1, <1>a, <3>1, <3>3, <4>1
    <3> QED
      BY <2>7, <3>2, <3>3 DEF CloseKbExtract, Fault, LeftEnv
  <2>8. CASE CloseDocExtract
    BY <1>1, <1>a, <2>8 DEF CloseDocExtract, Settled, Claimers
  <2>9. CASE FinalizeByProducer
    <3>1. /\ UNCHANGED <<job, planned>> /\ Settled' = Settled /\ Claimers' = Claimers
          /\ stage = "finalize" /\ stage' = "done"
      BY <2>9 DEF FinalizeByProducer, Settled, Claimers
    <3> QED
      BY <1>0, <1>a, <3>1 DEF LeftCount
  <2> QED
    BY <1>1, <1>2, <1>a, <2>1, <2>2, <2>3, <2>4, <2>5, <2>6, <2>7, <2>8, <2>9
    DEF ProducerStep
<1>3. ASSUME NEW c \in Chunks, ChunkStep(c)
      PROVE  /\ job'.current >= Cardinality(Settled')
             /\ planned' # {} => job'.total = Cardinality(planned')
             /\ planned' # {} /\ job'.current >= job'.total =>
                  \/ Claimers' # {}
                  \/ Producer = "kb_extract" /\ stage' \in {"publish", "account", "close"}
  <2>1. CASE Count(c)
    <3>1. /\ UNCHANGED <<planned, stage>> /\ Claimers' # {}
          /\ Cardinality(Settled') = Cardinality(Settled) + 1
          /\ job'.status = job.status /\ job'.total = job.total
          /\ job'.current = job.current + 1
      BY <2>1, CountCounts DEF LeftEnv
    <3> QED
      BY <1>0, <1>a, <3>1 DEF LeftCount
  <2>2. CASE TryClaim(c)
    <3>1. Settled' = Settled /\ UNCHANGED <<planned, stage>>
      BY <2>2 DEF TryClaim, AfterHandler, Settled, PastCount
    <3>2. CASE job' = Claimed(job)
      BY <3>2 DEF Claimed, Jobs
    <3>3. CASE UNCHANGED job /\ ~Claimable(job)
      <4>1. planned # {} => job.current < job.total
        BY <1>0, <3>3 DEF Claimable, LeftCount
      <4> QED
        BY <1>0, <1>a, <3>1, <3>3, <4>1 DEF LeftCount
    <3> QED
      BY <2>2, <3>2, <3>3 DEF TryClaim, Fault, LeftEnv
  <2>3. CASE Ack(c)
    <3>1. /\ pc[c] = "ack" /\ UNCHANGED <<job, planned, stage>>
          /\ pc'[c] \in {"done", "backoff", "permCount"}
          /\ \A d \in Chunks \ {c} : pc'[d] = pc[d]
      BY <2>3 DEF Ack, Raised
    <3>2. Settled' \subseteq Settled /\ Claimers' = Claimers
      BY <3>1 DEF Settled, Claimers, PastCount
    <3>3. Cardinality(Settled') <= Cardinality(Settled)
      BY <3>2, ChunkSets, FS_Subset DEF Settled
    <3> QED
      BY <1>1, <3>1, <3>2, <3>3
  <2> QED
    BY <1>1, <1>3, <1>a, <2>1, <2>2, <2>3, SettledByChunk
<1>4. CASE EnvStep
  <2>1. CASE Cancel \/ WatchdogCommit
    BY <2>1 DEF Cancel, WatchdogCommit, Jobs
  <2>2. CASE WatchdogRead
    BY <1>1, <1>a, <2>2 DEF WatchdogRead, Settled, Claimers
  <2>3. ~ProducerCrash /\ \A c \in Chunks : ~ConsumerCrash(c)
    BY DEF ProducerCrash, ConsumerCrash, Fault, LeftEnv
  <2> QED
    BY <1>4, <2>1, <2>2, <2>3 DEF EnvStep
<1>5. CASE UNCHANGED vars
  BY <1>1, <1>a, <1>5 DEF vars, Settled, Claimers
<1> QED
  BY <1>2, <1>3, <1>4, <1>5 DEF Next

\* Once the producer has returned and every chunk was handled, the job does not read
\* "running": somebody was left to finalise it, also when acks fail, chunks are
\* retried, and kb_extract cannot publish some of them.
THEOREM NobodyLeavesItRunning ==
  ASSUME LeftEnv
  PROVE  Spec => []NotLeftRunning
<1>1. Init => LeftInv
  <2> SUFFICES ASSUME Init PROVE LeftInv
    OBVIOUS
  <2>1. Settled = {}
    BY DEF Init, Settled
  <2>2. Begun /\ job.current = 0 /\ planned = {} /\ stage = "plan"
        /\ \A c \in Chunks : pc[c] = "planned"
    BY BegunInit DEF Init, StartedJob
  <2> QED
    BY <2>1, <2>2, FS_EmptySet DEF LeftInv
<1>2. TypeInv /\ LeftInv /\ [Next]_vars => LeftInv'
  <2>1. (Begun /\ LeftPlan /\ LeftCount)' <=> LeftInv'
    BY DEF LeftInv, LeftPlan, LeftCount
  <2> QED
    BY <2>1, LeftParts, BegunStep, LeftPlanStep, LeftCountStep
<1>3. TypeInv /\ LeftInv => NotLeftRunning
  <2> SUFFICES ASSUME TypeInv, LeftInv, Quiet, job.status = "running"
               PROVE  FALSE
    BY DEF NotLeftRunning
  <2>1. planned # {} /\ stage = "done"
    BY DEF LeftInv, Quiet
  <2>2. Settled = planned
    BY DEF Settled, Quiet, PastCount
  <2>3. job.current >= job.total
    BY <2>1, <2>2 DEF LeftInv
  <2>4. PICK c \in Chunks : pc[c] \in {"claim", "permClaim"}
    BY <2>1, <2>3 DEF LeftInv, Claimers
  <2>5. c \in planned
    BY <2>4 DEF LeftInv, Begun
  <2> QED
    BY <2>4, <2>5 DEF Quiet
<1> QED
  BY TypeInvariant, <1>1, <1>2, <1>3, PTL DEF Spec

-----------------------------------------------------------------------------
(* What is recorded was extracted *)

\* A chunk that is about to be recorded has reached the graph.
RecordInv ==
  /\ RecordedMeansExtracted
  /\ \A c \in Anchored : pc[c] \in {"record", "insert"} => c \in applied

\* A chunk of a file that has anchors is marked as processed only when its extraction
\* reached the graph, whatever fails.  (One without anchors - any of kb_extract, and of
\* doc_extract those of a file without a glossary match - is marked without one.)
THEOREM RecordedWasExtracted == Spec => []RecordedMeansExtracted
<1>1. Init => RecordInv
  BY AnchoredAssumption DEF Init, RecordInv, RecordedMeansExtracted
<1>2. TypeInv /\ RecordInv /\ [Next]_vars => RecordInv'
  <2> SUFFICES ASSUME TypeInv, RecordInv, [Next]_vars
               PROVE  RecordInv'
    OBVIOUS
  <2> USE AnchoredAssumption DEF TypeInv, TypeOK, RecordInv, RecordedMeansExtracted, Goto, store
  <2>1. CASE /\ UNCHANGED <<applied, recorded>>
             /\ \A c \in Anchored : pc'[c] \in {"record", "insert"} => pc[c] \in {"record", "insert"}
    BY <2>1
  <2>2. CASE ProducerStep
    <3>1. UNCHANGED store
      BY <2>2
      DEF ProducerStep, RejectPlan, PlanNothing, PlanChunks, Publish, PublishEnd,
         AccountUnsent, CloseKbExtract, CloseDocExtract, CompleteEmpty, FinalizeByProducer
    <3>2. \A c \in Chunks : pc'[c] = pc[c] \/ pc'[c] \in {"queued", "unsent", "writtenOff"}
      BY <2>2
      DEF ProducerStep, RejectPlan, PlanNothing, PlanChunks, Publish, PublishEnd,
         AccountUnsent, CloseKbExtract, CloseDocExtract, CompleteEmpty, FinalizeByProducer
    <3> QED
      BY <2>1, <3>1, <3>2
  <2>3. ASSUME NEW c \in Chunks, ChunkStep(c)
        PROVE  RecordInv'
    <3>1. CASE CheckCancelled(c)
      <4>1. ASSUME c \in Anchored
            PROVE  /\ AfterCheck(c, FALSE) \in {"countFail", "work"}
                   /\ AfterCheck(c, job.status = "cancelled") \in {"countFail", "work"}
        BY <4>1 DEF AfterCheck
      <4>2. /\ pc' = [pc EXCEPT ![c] = pc'[c]]
            /\ c \in Anchored => pc'[c] \in {"countFail", "work"}
        BY <3>1, <4>1 DEF CheckCancelled
      <4> QED
        BY <2>1, <3>1, <4>2 DEF CheckCancelled
    <3>2. CASE Extract(c)
      BY <3>2 DEF Extract
    <3>3. CASE Record(c)
      BY <3>3 DEF Record
    <3>4. CASE InsertRow(c)
      BY <3>4 DEF InsertRow
    <3>5. CASE Deliver(c) \/ ExtractFails(c) \/ Count(c) \/ TryClaim(c) \/ Finalize(c)
               \/ Ack(c) \/ Republish(c)
      <4>1. UNCHANGED store
        BY <3>5 DEF Deliver, ExtractFails, Count, TryClaim, Finalize, Ack, Republish
      <4>2. \A d \in Chunks : pc'[d] = pc[d] \/ pc'[d] \notin {"record", "insert"}
        BY <3>5
        DEF Deliver, ExtractFails, Raised, Count, TryClaim, Finalize, AfterHandler, Ack,
            Republish
      <4> QED
        BY <2>1, <4>1, <4>2
    <3> QED
      BY <2>3, <3>1, <3>2, <3>3, <3>4, <3>5 DEF ChunkStep
  <2>4. CASE EnvStep
    BY <2>1, <2>4
    DEF EnvStep, Cancel, WatchdogRead, WatchdogCommit, ConsumerCrash, ProducerCrash
  <2>5. CASE UNCHANGED vars
    BY <2>1, <2>5 DEF vars
  <2> QED
    BY <2>2, <2>3, <2>4, <2>5 DEF Next
<1>3. RecordInv => RecordedMeansExtracted
  BY DEF RecordInv
<1> QED
  BY TypeInvariant, <1>1, <1>2, <1>3, PTL DEF Spec

-----------------------------------------------------------------------------
(* The job is a barrier over its chunks *)

\* The producer has not moved in an initial state.
LEMMA BarrierInvInit == Init => BarrierInv
BY DEF Init, BarrierInv

\* complete_job stays reserved to jobs without chunks.
LEMMA BarrierInvStep ==
  ASSUME BarrierEnv
  PROVE  TypeInv /\ CountInv /\ BarrierInv /\ [Next]_vars => BarrierInv'
<1> SUFFICES ASSUME TypeInv, CountInv, BarrierInv, [Next]_vars
             PROVE  BarrierInv'
  OBVIOUS
<1> USE DEF BarrierInv, TypeInv, TypeOK
<1>1. CASE ProducerStep
  <2>0. CASE RejectPlan \/ PlanChunks
    <3>1. CASE RejectPlan
      BY <3>1 DEF RejectPlan
    <3>2. CASE PlanChunks
      <4>1. PICK P \in (SUBSET Chunks) \ {{}} : planned' = P
        BY <3>2 DEF PlanChunks
      <4>2. stage' = "publish" /\ pc' = pc
        BY <3>2 DEF PlanChunks
      <4>3. doomed' = doomed
        BY <3>2 DEF PlanChunks
      <4>4. planned' # {}
        BY <4>1
      <4> QED
        BY <4>2, <4>3, <4>4
    <3> QED
      BY <2>0, <3>1, <3>2
  <2>1. CASE PlanNothing
    <3>1. planned = {} /\ UNCHANGED <<planned, pc, doomed>>
      BY <2>1 DEF PlanNothing, CountInv
    <3>2. stage' = "done" \/ (stage' = "complete" /\ Producer = "doc_extract")
      BY <2>1, ProducerAssumption DEF PlanNothing
    <3> QED
      BY <3>1, <3>2
  <2>2. ASSUME NEW c \in Chunks, Publish(c) PROVE BarrierInv'
    BY <2>2, ProducerAssumption DEF Publish, Fault, BarrierEnv
  <2>3. CASE PublishEnd \/ AccountUnsent
    BY <2>3 DEF PublishEnd, AccountUnsent, Unsent
  <2>4. CASE CloseKbExtract \/ CompleteEmpty \/ FinalizeByProducer
    BY <2>4 DEF CloseKbExtract, CompleteEmpty, FinalizeByProducer
  <2>5. CASE CloseDocExtract
    BY <2>5 DEF CloseDocExtract
  <2> QED
    BY <1>1, <2>0, <2>1, <2>2, <2>3, <2>4, <2>5 DEF ProducerStep
<1>2. ASSUME NEW c \in Chunks, ChunkStep(c) PROVE BarrierInv'
  <2>1. \E l \in PCs \ {"unsent", "writtenOff"} : pc' = [pc EXCEPT ![c] = l]
    BY <1>2 DEF ChunkStep, Deliver, CheckCancelled, AfterCheck, Extract, ExtractFails,
                Raised, Record, InsertRow, Count, TryClaim, Finalize, AfterHandler,
                Ack, Republish, Goto, PCs
  <2>2. UNCHANGED <<stage, planned, doomed>>
    BY <1>2 DEF ChunkStep, Deliver, CheckCancelled, Extract, ExtractFails, Record,
                InsertRow, Count, TryClaim, Finalize, Ack, Republish
  <2> QED
    BY <2>1, <2>2
<1>3. CASE EnvStep
  <2>1. CASE Cancel \/ WatchdogRead \/ WatchdogCommit \/ ProducerCrash
    BY <2>1 DEF Cancel, WatchdogRead, WatchdogCommit, ProducerCrash, BarrierEnv
  <2>2. ASSUME NEW c \in Chunks, ConsumerCrash(c) PROVE BarrierInv'
    BY <2>2 DEF ConsumerCrash, Goto
  <2> QED
    BY <1>3, <2>1, <2>2 DEF EnvStep
<1>4. CASE UNCHANGED vars
  BY <1>4 DEF vars
<1> QED
  BY <1>1, <1>2, <1>3, <1>4 DEF Next

\* The steps of a job that stutter or settle chunks.
LEMMA SettlingStep ==
  ASSUME UNCHANGED <<job, planned>>, Settled \subseteq Settled'
  PROVE  [Barrier!Next]_Barrier!vars
BY DEF Barrier!Next, Barrier!Settle, Barrier!vars, Phase, Settled

\* The producer's steps: planning joins the chunks, writing off settles them,
\* claiming closes the job.
LEMMA BarrierProducerStep ==
  ASSUME TypeInv, CountInv, BarrierInv, ProducerStep
  PROVE  [Barrier!Next]_Barrier!vars
<1> USE DEF TypeInv, TypeOK
<1>1. CASE RejectPlan
  <2>1. Settled' = Settled /\ planned' = planned /\ job'.status = "failed"
    BY <1>1 DEF RejectPlan, Settled, Jobs
  <2>2. job.status \in {"running", "cancelled", "failed"}
    BY <1>1 DEF RejectPlan, CountInv, Jobs, Status
  <2> QED
    BY <2>1, <2>2 DEF Barrier!Next, Barrier!Abort, Barrier!vars, Phase
<1>2. CASE PlanNothing
  <2>1. Settled' = Settled /\ planned' = planned /\ planned = {}
    BY <1>2 DEF PlanNothing, Settled, CountInv
  <2>2. CASE job' = Completed(job)
    <3>1. job'.status = "completed"
      BY <2>2 DEF Completed, Jobs
    <3> QED
      BY <2>1, <3>1 DEF Barrier!Next, Barrier!CloseEmpty, Phase
  <2>3. CASE UNCHANGED job
    BY <2>1, <2>3, SettlingStep
  <2> QED
    BY <1>2, <2>2, <2>3 DEF PlanNothing
<1>3. CASE PlanChunks
  <2>1. planned = {} /\ planned' \in (SUBSET Chunks) \ {{}} /\ job'.status = job.status
    BY <1>3 DEF PlanChunks, CountInv, Jobs
  <2>2. Settled' = Settled
    BY <1>3 DEF PlanChunks, CountInv, Settled, PastCount
  <2> QED
    BY <2>1, <2>2 DEF Barrier!Next, Barrier!Join, Phase
<1>4. ASSUME NEW c \in Chunks, Publish(c) PROVE [Barrier!Next]_Barrier!vars
  <2>1. Settled \subseteq Settled' /\ UNCHANGED <<job, planned>>
    BY <1>4 DEF Publish, Settled, PastCount
  <2> QED
    BY <2>1, SettlingStep
<1>5. CASE PublishEnd \/ CloseDocExtract \/ FinalizeByProducer
  <2>1. Settled' = Settled /\ UNCHANGED <<job, planned>>
    BY <1>5 DEF PublishEnd, CloseDocExtract, FinalizeByProducer, Settled
  <2> QED
    BY <2>1, SettlingStep
<1>6. CASE AccountUnsent
  <2>1. /\ Settled \subseteq Settled' /\ Settled' \subseteq planned
        /\ planned' = planned
    BY <1>6 DEF AccountUnsent, Settled, Unsent, PastCount
  <2>2. job'.status = job.status
    BY <1>6 DEF AccountUnsent, Incremented, Jobs
  <2> QED
    BY <2>1, <2>2 DEF Barrier!Next, Barrier!Settle, Phase
<1>7. CASE CloseKbExtract
  <2>1. Settled' = Settled /\ planned' = planned
    BY <1>7 DEF CloseKbExtract, Settled
  <2>2. CASE UNCHANGED job
    BY <2>1, <2>2, SettlingStep
  <2>3. CASE Claimable(job) /\ job' = Claimed(job)
    <3>1. job.status = "running" /\ job'.status = "completed" /\ Settled = planned
      BY <2>3, ClaimableMeansSettled DEF Claimable, Claimed, Jobs, Settled
    <3> QED
      BY <2>1, <3>1 DEF Barrier!Next, Barrier!Close, Phase
  <2> QED
    BY <1>7, <2>2, <2>3 DEF CloseKbExtract
<1>8. CASE CompleteEmpty
  <2>1. Settled' = Settled /\ planned' = planned /\ planned = {}
    BY <1>8 DEF CompleteEmpty, Settled, BarrierInv
  <2>2. CASE UNCHANGED job
    BY <2>1, <2>2, SettlingStep
  <2>3. CASE job' = Completed(job)
    <3>1. job'.status = "completed"
      BY <2>3 DEF Completed, Jobs
    <3> QED
      BY <2>1, <3>1 DEF Barrier!Next, Barrier!CloseEmpty, Phase
  <2> QED
    BY <1>8, <2>2, <2>3 DEF CompleteEmpty
<1> QED
  BY <1>1, <1>2, <1>3, <1>4, <1>5, <1>6, <1>7, <1>8 DEF ProducerStep

\* The chunks' steps: counting settles, claiming closes.
LEMMA BarrierChunkStep ==
  ASSUME BarrierEnv, TypeInv, CountInv, NEW c \in Chunks, ChunkStep(c)
  PROVE  [Barrier!Next]_Barrier!vars
<1> USE DEF TypeInv, TypeOK, Goto
<1>1. CASE Deliver(c) \/ Extract(c) \/ InsertRow(c) \/ Finalize(c) \/ Record(c)
  <2>1. Settled \subseteq Settled' /\ UNCHANGED <<job, planned>>
    BY <1>1 DEF Deliver, Extract, InsertRow, Finalize, Record, AfterHandler, Settled,
                PastCount
  <2> QED
    BY <2>1, SettlingStep
<1>2. CASE CheckCancelled(c) \/ ExtractFails(c) \/ Republish(c)
  <2>1. Settled \subseteq Settled' /\ UNCHANGED <<job, planned>>
    BY <1>2 DEF CheckCancelled, ExtractFails, Raised, Republish, Settled, PastCount
  <2> QED
    BY <2>1, SettlingStep
<1>3. CASE Ack(c)
  <2>1. Settled \subseteq Settled' /\ UNCHANGED <<job, planned>>
    BY <1>3 DEF Ack, Fault, BarrierEnv, Settled, PastCount
  <2> QED
    BY <2>1, SettlingStep
<1>4. CASE Count(c)
  <2>1. /\ Settled \subseteq Settled' /\ Settled' \subseteq planned
        /\ planned' = planned
    BY <1>4 DEF Count, Settled, PastCount
  <2>2. job'.status = job.status
    BY <1>4 DEF Count, Incremented, Jobs
  <2> QED
    BY <2>1, <2>2 DEF Barrier!Next, Barrier!Settle, Phase
<1>5. CASE TryClaim(c)
  <2>1. Settled' = Settled /\ planned' = planned
    BY <1>5 DEF TryClaim, AfterHandler, Settled, PastCount
  <2>2. CASE UNCHANGED job
    BY <2>1, <2>2, SettlingStep
  <2>3. CASE Claimable(job) /\ job' = Claimed(job)
    <3>1. job.status = "running" /\ job'.status = "completed" /\ Settled = planned
      BY <2>3, ClaimableMeansSettled DEF Claimable, Claimed, Jobs, Settled
    <3> QED
      BY <2>1, <3>1 DEF Barrier!Next, Barrier!Close, Phase
  <2> QED
    BY <1>5, <2>2, <2>3 DEF TryClaim
<1> QED
  BY <1>1, <1>2, <1>3, <1>4, <1>5 DEF ChunkStep

\* A cancellation aborts the barrier; a crash leaves it as it is.
LEMMA BarrierEnvStep ==
  ASSUME BarrierEnv, TypeInv, BarrierInv, EnvStep
  PROVE  [Barrier!Next]_Barrier!vars
<1> USE DEF TypeInv, TypeOK
<1>1. CASE Cancel
  <2>1. /\ Settled' = Settled /\ planned' = planned
        /\ job.status = "running" /\ job'.status = "cancelled"
    BY <1>1 DEF Cancel, Settled, Jobs
  <2> QED
    BY <2>1 DEF Barrier!Next, Barrier!Abort, Phase
<1>2. CASE WatchdogRead \/ WatchdogCommit
  BY <1>2 DEF WatchdogRead, WatchdogCommit, BarrierEnv, BarrierInv
<1>3. ASSUME NEW c \in Chunks, ConsumerCrash(c) PROVE [Barrier!Next]_Barrier!vars
  <2>1. Settled \subseteq Settled' /\ UNCHANGED <<job, planned>>
    BY <1>3 DEF ConsumerCrash, Goto, Held, PCs, Settled, PastCount
  <2> QED
    BY <2>1, SettlingStep
<1>4. CASE ProducerCrash
  <2>1. Settled \subseteq Settled' /\ UNCHANGED <<job, planned>>
    BY <1>4 DEF ProducerCrash, Settled
  <2> QED
    BY <2>1, SettlingStep
<1> QED
  BY <1>1, <1>2, <1>3, <1>4 DEF EnvStep

\* A job whose parent publishes its chunks, or counts and claims for those it
\* could not, is a barrier: it closes exactly when all its chunks are settled,
\* and never changes once it was closed or aborted.
THEOREM JobIsBarrier ==
  ASSUME BarrierEnv
  PROVE  Spec => ImplementsBarrier
<1>1. Init => Barrier!Init
  BY DEF Init, StartedJob, Barrier!Init, Phase, Settled
<1>2. TypeInv /\ CountInv /\ BarrierInv /\ [Next]_vars => [Barrier!Next]_Barrier!vars
  <2> SUFFICES ASSUME TypeInv, CountInv, BarrierInv, [Next]_vars
               PROVE  [Barrier!Next]_Barrier!vars
    OBVIOUS
  <2>1. CASE UNCHANGED vars
    BY <2>1 DEF vars, Barrier!vars, Phase, Settled
  <2> QED
    BY <2>1, BarrierProducerStep, BarrierChunkStep, BarrierEnvStep DEF Next
<1>3. Env \cap {"ack", "total"} = {}
  BY DEF BarrierEnv
<1>4. Spec => [](CountInv /\ BarrierInv)
  BY <1>3, TypeInvariant, CountInit, CountStep, BarrierInvInit, BarrierInvStep, PTL
  DEF Spec
<1> QED
  BY <1>1, <1>2, <1>4, TypeInvariant, PTL DEF Spec, ImplementsBarrier, Barrier!Spec

-----------------------------------------------------------------------------
(* A cancelled job stays cancelled *)

\* Without the watchdog nothing is about to fail the job.
LEMMA CancelInvStep ==
  ASSUME "watchdog" \notin Env
  PROVE  CancelInv /\ [Next]_vars => CancelInv'
<1> SUFFICES ASSUME CancelInv, [Next]_vars
             PROVE  CancelInv'
  OBVIOUS
<1> USE DEF CancelInv
<1>1. CASE ProducerStep
  <2>1. stage' = "complete" => Producer = "doc_extract"
    BY <1>1, ProducerAssumption
       DEF ProducerStep, RejectPlan, PlanNothing, PlanChunks, Publish, PublishEnd,
           AccountUnsent, CloseKbExtract, CloseDocExtract, CompleteEmpty,
           FinalizeByProducer
  <2>2. UNCHANGED doomed
    BY <1>1
       DEF ProducerStep, RejectPlan, PlanNothing, PlanChunks, Publish, PublishEnd,
           AccountUnsent, CloseKbExtract, CloseDocExtract, CompleteEmpty,
           FinalizeByProducer
  <2> QED
    BY <2>1, <2>2
<1>2. ASSUME NEW c \in Chunks, ChunkStep(c) PROVE CancelInv'
  <2>1. UNCHANGED <<stage, doomed>>
    BY <1>2 DEF ChunkStep, Deliver, CheckCancelled, Extract, ExtractFails, Record,
                InsertRow, Count, TryClaim, Finalize, Ack, Republish
  <2>2. stage' = stage /\ doomed' = doomed
    BY <2>1
  <2> QED
    BY <2>2, Zenon
<1>3. CASE EnvStep
  BY <1>3
  DEF EnvStep, Cancel, WatchdogRead, WatchdogCommit, ConsumerCrash, ProducerCrash
<1>4. CASE UNCHANGED vars
  BY <1>4 DEF vars
<1> QED
  BY <1>1, <1>2, <1>3, <1>4 DEF Next

\* The steps of a kb_extract job that planned chunks leave a cancelled row
\* cancelled: they count on it, and find it not claimable.
LEMMA CancelStep ==
  ASSUME Producer = "kb_extract", TypeInv, FinalInv, CancelInv, [Next]_vars,
         job.status = "cancelled", planned # {}
  PROVE  job'.status = "cancelled"
<1> USE DEF TypeInv, TypeOK
<1>1. CASE ProducerStep
  <2>1. CASE AccountUnsent
    BY <2>1 DEF AccountUnsent, Incremented, Jobs
  <2>2. stage \notin {"plan", "complete"}
    BY DEF FinalInv, CancelInv
  <2> QED
    BY <1>1, <2>1, <2>2
       DEF ProducerStep, RejectPlan, PlanNothing, PlanChunks, Publish, PublishEnd,
           CloseKbExtract, Claimable, CloseDocExtract, CompleteEmpty, FinalizeByProducer
<1>2. ASSUME NEW c \in Chunks, ChunkStep(c) PROVE job'.status = "cancelled"
  <2>1. CASE Count(c)
    BY <2>1 DEF Count, Incremented, Jobs
  <2> QED
    BY <1>2, <2>1 DEF ChunkStep, Deliver, CheckCancelled, Extract, ExtractFails, Record,
                      InsertRow, TryClaim, Claimable, Finalize, Ack, Republish
<1>3. CASE EnvStep
  BY <1>3 DEF EnvStep, Cancel, WatchdogRead, WatchdogCommit, ConsumerCrash,
              ProducerCrash, CancelInv
<1>4. CASE UNCHANGED vars
  BY <1>4 DEF vars
<1> QED
  BY <1>1, <1>2, <1>3, <1>4 DEF Next

\* Without the watchdog, a kb_extract job that was cancelled after its chunks
\* were planned reads "cancelled" for ever, whatever its chunks still do.
THEOREM CancelIsFinal ==
  ASSUME Producer = "kb_extract", "watchdog" \notin Env
  PROVE  Spec => CancelSticksOncePlanned
<1>1. Spec => []CancelInv
  <2>1. Init => CancelInv
    BY DEF Init, CancelInv
  <2> QED
    BY <2>1, CancelInvStep, PTL DEF Spec
<1>2. Spec => []FinalInv
  BY TypeInvariant, FinalInit, FinalStep, PTL DEF Spec
<1>3. TypeInv /\ FinalInv /\ CancelInv /\ [Next]_vars
        => [job.status = "cancelled" /\ planned # {} => job'.status = "cancelled"]_vars
  BY CancelStep
<1> QED
  BY <1>1, <1>2, <1>3, TypeInvariant, PTL DEF Spec, CancelSticksOncePlanned

-----------------------------------------------------------------------------
(* Each chunk's task is a Delivery *)

\* Where a chunk is in its handler decides where its task is in its life.
LEMMA PlaceOf ==
  ASSUME NEW l
  PROVE  /\ l \in {"planned", "unsent", "writtenOff"} => TaskPlace(l) = "none"
         /\ l = "queued" => TaskPlace(l) = "queued"
         /\ l = "backoff" => TaskPlace(l) = "backoff"
         /\ l \in {"permCount", "permClaim", "permFinalize"} => TaskPlace(l) = "givingUp"
         /\ l \in {"done", "lost"} => TaskPlace(l) = "gone"
         /\ l \in {"check", "work", "record", "insert", "countOk", "countFail",
                   "claim", "finalize", "ack"} => TaskPlace(l) = "busy"
<1>1. l \in {"planned", "unsent", "writtenOff"} => TaskPlace(l) = "none"
  BY Zenon DEF TaskPlace
<1>2. l = "queued" => TaskPlace(l) = "queued"
  BY Zenon DEF TaskPlace
<1>3. l = "backoff" => TaskPlace(l) = "backoff"
  BY Zenon DEF TaskPlace
<1>4. l \in {"permCount", "permClaim", "permFinalize"} => TaskPlace(l) = "givingUp"
  BY Zenon DEF TaskPlace
<1>5. l \in {"done", "lost"} => TaskPlace(l) = "gone"
  BY Zenon DEF TaskPlace
<1>6. l \in {"check", "work", "record", "insert", "countOk", "countFail",
             "claim", "finalize", "ack"} => TaskPlace(l) = "busy"
  BY Zenon DEF TaskPlace
<1> QED
  BY <1>1, <1>2, <1>3, <1>4, <1>5, <1>6

LifeNext == [ChunkLife!Next]_ChunkLife!vars

\* A step that leaves every task where it is stutters.
LEMMA LifeStays ==
  ASSUME UNCHANGED tries, \A d \in Chunks : TaskPlace(pc'[d]) = TaskPlace(pc[d])
  PROVE  LifeNext
<1>1. [d \in Chunks |-> TaskPlace(pc'[d])] = [d \in Chunks |-> TaskPlace(pc[d])]
  OBVIOUS
<1> QED
  BY <1>1 DEF LifeNext, ChunkLife!vars

\* A step of one chunk moves one task: from any place of its life to a place
\* the life allows next, or to where it is.
LEMMA LifeMoves ==
  ASSUME TypeInv, NEW c \in Chunks, NEW l, Goto(c, l), UNCHANGED tries,
         \/ TaskPlace(pc[c]) = TaskPlace(l)
         \/ TaskPlace(pc[c]) = "none" /\ TaskPlace(l) = "queued"
         \/ TaskPlace(pc[c]) = "queued" /\ TaskPlace(l) = "busy"
         \/ TaskPlace(pc[c]) = "busy" /\ TaskPlace(l) = "backoff" /\ tries[c] < MaxRetries
         \/ TaskPlace(pc[c]) = "busy" /\ TaskPlace(l) = "givingUp" /\ ~ (tries[c] < MaxRetries)
         \/ TaskPlace(pc[c]) \in {"busy", "backoff", "givingUp"} /\ TaskPlace(l) = "gone"
  PROVE  LifeNext
<1> DEFINE now == [d \in Chunks |-> TaskPlace(pc[d])]
           then == [d \in Chunks |-> TaskPlace(pc'[d])]
<1>1. pc' = [pc EXCEPT ![c] = l] /\ pc \in [Chunks -> PCs]
  BY DEF Goto, TypeInv, TypeOK
<1>2. then = [now EXCEPT ![c] = TaskPlace(l)]
  BY <1>1
<1>3. then = [d \in Chunks |-> IF d \in {c} THEN TaskPlace(l) ELSE now[d]]
  BY <1>2
<1>4. now[c] = TaskPlace(pc[c]) /\ (\A d \in {c} : now[d] = now[c]) /\ {c} \in (SUBSET Chunks) \ {{}}
  OBVIOUS
<1>5. CASE TaskPlace(pc[c]) = TaskPlace(l)
  BY <1>1, <1>5, LifeStays
<1> HIDE DEF now, then
<1>6. CASE now[c] = "none" /\ TaskPlace(l) = "queued"
  <2>1. ChunkLife!Publish(c)
    BY <1>2, <1>6 DEF ChunkLife!Publish, ChunkLife!Move, now, then
  <2> QED
    BY <2>1 DEF LifeNext, ChunkLife!Next
<1>7. CASE now[c] = "queued" /\ TaskPlace(l) = "busy"
  <2>1. ChunkLife!TakeAll({c})
    BY <1>3, <1>4, <1>7 DEF ChunkLife!TakeAll, now, then
  <2> QED
    BY <1>4, <2>1 DEF LifeNext, ChunkLife!Next
<1>8. CASE /\ now[c] = "busy"
           /\ IF tries[c] < MaxRetries THEN TaskPlace(l) = "backoff" ELSE TaskPlace(l) = "givingUp"
  <2>1. ChunkLife!Fail(c)
    BY <1>2, <1>8 DEF ChunkLife!Fail, ChunkLife!Move, now, then
  <2> QED
    BY <2>1 DEF LifeNext, ChunkLife!Next
<1>9. CASE now[c] \in {"busy", "backoff", "givingUp"} /\ TaskPlace(l) = "gone"
  <2>1. ChunkLife!EndAll({c})
    BY <1>3, <1>4, <1>9 DEF ChunkLife!EndAll, now, then
  <2> QED
    BY <1>4, <2>1 DEF LifeNext, ChunkLife!Next
<1> QED
  BY <1>4, <1>5, <1>6, <1>7, <1>8, <1>9

\* The steps of a chunk's task.
LEMMA LifeChunkStep ==
  ASSUME TypeInv, NEW c \in Chunks, ChunkStep(c)
  PROVE  LifeNext
<1>1. CASE Deliver(c)
  BY <1>1, LifeMoves, PlaceOf DEF Deliver
<1>2. CASE CheckCancelled(c)
  <2>1. PICK l \in {"countFail", "record", "work"} : pc[c] = "check" /\ Goto(c, l) /\ UNCHANGED tries
    BY <1>2 DEF CheckCancelled, AfterCheck
  <2> QED
    BY <2>1, LifeMoves, PlaceOf
<1>3. CASE Extract(c)
  BY <1>3, LifeMoves, PlaceOf DEF Extract
<1>4. ASSUME TaskPlace(pc[c]) = "busy", Raised(c), UNCHANGED tries
      PROVE  LifeNext
  <2>1. CASE tries[c] < MaxRetries
    BY <1>4, <2>1, LifeMoves, PlaceOf DEF Raised
  <2>2. CASE ~ (tries[c] < MaxRetries)
    BY <1>4, <2>2, LifeMoves, PlaceOf DEF Raised
  <2> QED
    BY <2>1, <2>2
<1>5. CASE ExtractFails(c)
  BY <1>4, <1>5, PlaceOf DEF ExtractFails
<1>6. CASE Record(c) \/ InsertRow(c)
  <2>1. PICK l \in {"countOk", "insert"} :
          pc[c] \in {"record", "insert"} /\ Goto(c, l) /\ UNCHANGED tries
    BY <1>6 DEF Record, InsertRow
  <2> QED
    BY <2>1, LifeMoves, PlaceOf
<1>7. CASE Count(c)
  <2>1. CASE pc[c] = "permCount"
    BY <1>7, <2>1, LifeMoves, PlaceOf DEF Count
  <2>2. CASE pc[c] # "permCount"
    BY <1>7, <2>2, LifeMoves, PlaceOf DEF Count
  <2> QED
    BY <2>1, <2>2
<1>8. CASE TryClaim(c) \/ Finalize(c)
  <2>1. CASE pc[c] \in {"claim", "finalize"}
    <3>1. PICK l \in {"finalize", "ack"} : Goto(c, l) /\ UNCHANGED tries
      BY <1>8, <2>1 DEF TryClaim, Finalize, AfterHandler
    <3> QED
      BY <2>1, <3>1, LifeMoves, PlaceOf
  <2>2. CASE pc[c] \in {"permClaim", "permFinalize"}
    <3>1. PICK l \in {"permFinalize", "done"} : Goto(c, l) /\ UNCHANGED tries
      BY <1>8, <2>2 DEF TryClaim, Finalize, AfterHandler
    <3> QED
      BY <2>2, <3>1, LifeMoves, PlaceOf
  <2> QED
    BY <1>8, <2>1, <2>2 DEF TryClaim, Finalize
<1>9. CASE Ack(c)
  <2>1. CASE Goto(c, "done")
    BY <1>9, <2>1, LifeMoves, PlaceOf DEF Ack
  <2> QED
    BY <1>4, <1>9, <2>1, PlaceOf DEF Ack
<1>10. CASE Republish(c)
  <2>1. CASE Goto(c, "lost") /\ UNCHANGED tries
    BY <1>10, <2>1, LifeMoves, PlaceOf DEF Republish
  <2>2. CASE Goto(c, "queued") /\ tries' = [tries EXCEPT ![c] = @ + 1]
    <3>1. [d \in Chunks |-> TaskPlace(pc'[d])]
            = [[d \in Chunks |-> TaskPlace(pc[d])] EXCEPT ![c] = "queued"]
      BY <2>2, PlaceOf DEF Goto, TypeInv, TypeOK
    <3>2. TaskPlace(pc[c]) = "backoff"
      BY <1>10, PlaceOf DEF Republish
    <3>3. ChunkLife!Requeue(c)
      BY <2>2, <3>1, <3>2 DEF ChunkLife!Requeue, ChunkLife!Move
    <3> QED
      BY <3>3 DEF LifeNext, ChunkLife!Next
  <2> QED
    BY <1>10, <2>1, <2>2 DEF Republish
<1> QED
  BY <1>1, <1>2, <1>3, <1>5, <1>6, <1>7, <1>8, <1>9, <1>10 DEF ChunkStep

\* The other steps that reach a chunk: publishing, writing off what could not
\* be published, and the crash of a consumer.
LEMMA LifeOtherStep ==
  ASSUME TypeInv, ProducerStep \/ EnvStep
  PROVE  LifeNext
<1>1. ASSUME UNCHANGED <<pc, tries>> PROVE LifeNext
  BY <1>1, LifeStays
<1>2. ASSUME NEW c \in Chunks, Publish(c) PROVE LifeNext
  BY <1>2, LifeMoves, PlaceOf DEF Publish, Goto
<1>3. CASE AccountUnsent
  <2>1. \A d \in Chunks : pc'[d] = pc[d] \/ (pc[d] = "unsent" /\ pc'[d] = "writtenOff")
    BY <1>3 DEF AccountUnsent, Unsent
  <2>2. \A d \in Chunks : TaskPlace(pc'[d]) = TaskPlace(pc[d])
    BY <2>1, PlaceOf
  <2> QED
    BY <1>3, <2>2, LifeStays DEF AccountUnsent
<1>4. ASSUME NEW c \in Chunks, ConsumerCrash(c) PROVE LifeNext
  <2>1. TaskPlace(pc[c]) \in {"busy", "backoff", "givingUp"}
    BY <1>4, PlaceOf DEF ConsumerCrash, Held, PCs
  <2>2. PICK l \in {"done", "lost"} : Goto(c, l) /\ UNCHANGED tries
    BY <1>4 DEF ConsumerCrash
  <2> QED
    BY <2>1, <2>2, LifeMoves, PlaceOf
<1>5. CASE ProducerStep
  BY <1>1, <1>2, <1>3, <1>5
  DEF ProducerStep, RejectPlan, PlanNothing, PlanChunks, PublishEnd, CloseKbExtract,
      CloseDocExtract, CompleteEmpty, FinalizeByProducer
<1>6. CASE EnvStep
  BY <1>1, <1>4, <1>6 DEF EnvStep, Cancel, WatchdogRead, WatchdogCommit, ProducerCrash
<1> QED
  BY <1>5, <1>6

\* Each chunk's task lives the life of a queued task, whatever the job, its
\* producer and the faults do to it: one handler at a time, at most max_retries
\* retries, given up only after the last one.  (kb_chunk_worker.py under the
\* consumer of task_queue.py)
THEOREM ChunksAreDelivered == Spec => ImplementsDelivery
<1>1. Init => ChunkLife!Init
  BY PlaceOf DEF Init, ChunkLife!Init
<1>2. TypeInv /\ [Next]_vars => [ChunkLife!Next]_ChunkLife!vars
  <2>1. TypeInv /\ UNCHANGED vars => LifeNext
    BY LifeStays DEF vars
  <2> QED
    BY <2>1, LifeChunkStep, LifeOtherStep DEF Next, LifeNext
<1> QED
  BY <1>1, <1>2, TypeInvariant, PTL DEF Spec, ImplementsDelivery, ChunkLife!Spec

=============================================================================
