-------------------------- MODULE LinkSync_proofs --------------------------
(***************************************************************************)
(* Proofs about LinkSync, for any links, parts, knowledge bases and number  *)
(* of faults.  What a step does to one link is classified once, as one of   *)
(* the kinds of steps below, and each invariant is proved of those: the      *)
(* links share nothing but the maps.                                        *)
(***************************************************************************)
EXTENDS LinkSync, FiniteSetTheorems, TLAPS

-----------------------------------------------------------------------------
(* One link *)

Statuses == {"none", "running", "completed", "failed", "cancelled"}
TaskAt   == {"none", "queued", "run", "end", "lost"}
ChildAt  == {"none", "todo", "queued", "write", "count", "claim", "end", "lost"}
FinAt    == {"none", "chain", "publish", "tell", "end", "lost"}

LinkStates ==
  [row : [Phases -> [status : Statuses, current : Nat, total : Nat]],
   task : [Phases -> TaskAt], child : [Children -> ChildAt], fin : [Phases -> FinAt],
   begun : 0..4, told : 0..1, cancelled : SUBSET Phases, scope : SUBSET KBs]

\* The state of link l.
At(l) ==
  [row |-> row[l], task |-> task[l], child |-> child[l], fin |-> fin[l],
   begun |-> begun[l], told |-> told[l],
   cancelled |-> {i \in Phases : <<l, i>> \in cancelled}, scope |-> scope[l]]

\* What a step leaves alone.
SameRow(v, w)   == w.row = v.row /\ w.cancelled = v.cancelled
SameTask(v, w)  == w.task = v.task /\ w.begun = v.begun
SameChild(v, w) == w.child = v.child
SameFin(v, w)   == w.fin = v.fin
SameTold(v, w)  == w.told = v.told

\* The request, whose publish or whose start of the job may fail.
Requested(v, w) ==
  /\ v.begun = 0 /\ v.row[1].status = "none"
  /\ w.row = v.row \/ w.row = [v.row EXCEPT ![1] = Started(1)]
  /\ \/ w.begun = 1 /\ w.task = [v.task EXCEPT ![1] = "queued"]
     \/ w.begun = 0 /\ w.task = v.task
  /\ w.cancelled = v.cancelled
  /\ SameChild(v, w) /\ SameFin(v, w) /\ SameTold(v, w)

\* The task of phase i ends; it may finalise the phase itself.
TaskEnds(v, w, i) ==
  /\ v.task[i] = "queued" \/ (i = 4 /\ v.task[i] = "run")
  /\ w.task = [v.task EXCEPT ![i] = "end"] /\ w.begun = v.begun
  /\ w.row = v.row \/ \E s \in {"completed", "failed"} :
                        w.row = [v.row EXCEPT ![i] = Ended(v.row[i], s)]
  /\ w.fin = v.fin \/ \E x \in {"none", "tell", "chain"} :
       /\ w.fin = [v.fin EXCEPT ![i] = x]
       /\ x = "chain" => i # 1 /\ (i = 2 => v.scope = {})
  /\ w.cancelled = v.cancelled /\ SameChild(v, w) /\ SameTold(v, w)

\* It plans its children D, whose number is the new total unless the code
\* fails to write it.
TaskPlans(v, w, i) ==
  /\ i \in {1, 2} /\ v.task[i] = "queued"
  /\ w.task = [v.task EXCEPT ![i] = "run"] /\ w.begun = v.begun
  /\ \E D \in SUBSET Children :
       /\ \A e \in D : PhaseOf(e) = i
       /\ w.child = [e \in Children |-> IF e \in D THEN "todo" ELSE v.child[e]]
       /\ \/ "total" \in Env /\ w.row = v.row
          \/ w.row = [v.row EXCEPT ![i] = Dispatched(v.row[i], Cardinality(D))]
  /\ w.cancelled = v.cancelled /\ SameFin(v, w) /\ SameTold(v, w)

\* It goes on publishing, or working through chunks, or dies.
TaskGoesOn(v, w, i) ==
  /\ v.task[i] \in {"queued", "run"}
  /\ \E x \in {"run", "end", "lost"} : w.task = [v.task EXCEPT ![i] = x]
  /\ w.begun = v.begun
  /\ w.child \in [Children -> ChildAt]
  /\ \A e \in Children : \/ w.child[e] = v.child[e]
                         \/ v.child[e] = "todo" /\ w.child[e] \in {"none", "queued"}
  /\ SameRow(v, w) /\ SameFin(v, w) /\ SameTold(v, w)

\* The task of a child goes on, perhaps to its claim without counting, or dies.
ChildMoves(v, w, e) ==
  /\ v.child[e] \in {"queued", "write", "count", "claim"}
  /\ \E x \in {"write", "count", "claim", "end", "lost"} :
       /\ w.child = [v.child EXCEPT ![e] = x]
       /\ v.child[e] = "claim" => x = "end"
  /\ SameRow(v, w) /\ SameTask(v, w) /\ SameFin(v, w) /\ SameTold(v, w)

\* It counts.
ChildCounts(v, w, e) ==
  /\ v.child[e] \in {"queued", "count"}
  /\ w.child = [v.child EXCEPT ![e] = "claim"]
  /\ v.row[PhaseOf(e)].status # "none"
  /\ w.row = [v.row EXCEPT ![PhaseOf(e)] =
                [status |-> @.status, current |-> @.current + 1, total |-> @.total]]
  /\ w.cancelled = v.cancelled
  /\ SameTask(v, w) /\ SameFin(v, w) /\ SameTold(v, w)

\* It claims the job of its phase.
ChildClaims(v, w, e) ==
  /\ v.child[e] = "claim"
  /\ w.child = [v.child EXCEPT ![e] = "end"]
  /\ Claimable(v.row[PhaseOf(e)])
  /\ w.row = [v.row EXCEPT ![PhaseOf(e)] = Ended(v.row[PhaseOf(e)], "completed")]
  /\ w.fin = [v.fin EXCEPT ![PhaseOf(e)] = "chain"]
  /\ w.cancelled = v.cancelled /\ SameTask(v, w) /\ SameTold(v, w)

\* The finaliser of phase i starts the next job ...
Chains(v, w, i) ==
  /\ i \in 1..3 /\ v.fin[i] = "chain"
  /\ w.fin = [v.fin EXCEPT ![i] = "publish"]
  /\ w.row = v.row \/ \E n \in Nat : w.row = [v.row EXCEPT ![i + 1] = Started(n)]
  /\ w.cancelled = v.cancelled
  /\ SameTask(v, w) /\ SameChild(v, w) /\ SameTold(v, w)

\* ... and publishes its task,
Publishes(v, w, i) ==
  /\ i \in 1..3 /\ v.fin[i] = "publish"
  /\ w.fin = [v.fin EXCEPT ![i] = "end"]
  /\ w.task = [v.task EXCEPT ![i + 1] = "queued"] /\ w.begun = v.begun + 1
  /\ SameRow(v, w) /\ SameChild(v, w) /\ SameTold(v, w)

\* ... or gives up, or dies,
StopsShort(v, w, i) ==
  /\ v.fin[i] \in {"chain", "publish", "tell"}
  /\ \E x \in {"tell", "lost"} : w.fin = [v.fin EXCEPT ![i] = x]
  /\ SameRow(v, w) /\ SameTask(v, w) /\ SameChild(v, w) /\ SameTold(v, w)

\* ... or tells the user.
Tells(v, w, i) ==
  /\ v.fin[i] = "tell"
  /\ w.fin = [v.fin EXCEPT ![i] = "end"] /\ w.told = v.told + 1
  /\ SameRow(v, w) /\ SameTask(v, w) /\ SameChild(v, w)

\* A user or the watchdog stops the job of phase i.
Stopped(v, w, i) ==
  /\ \/ /\ v.row[i].status = "running"
        /\ w.row = [v.row EXCEPT ![i] = [status |-> "cancelled", current |-> @.current,
                                         total |-> @.total]]
        /\ w.cancelled = v.cancelled \cup {i}
     \/ w.row = [v.row EXCEPT ![i] = Ended(v.row[i], "failed")] /\ w.cancelled = v.cancelled
  /\ SameTask(v, w) /\ SameChild(v, w) /\ SameFin(v, w) /\ SameTold(v, w)

LinkStep(v, w) ==
  /\ w.scope = v.scope
  /\ \/ w = v
     \/ Requested(v, w)
     \/ \E i \in Phases :
          \/ TaskEnds(v, w, i) \/ TaskPlans(v, w, i) \/ TaskGoesOn(v, w, i)
          \/ Chains(v, w, i) \/ Publishes(v, w, i) \/ StopsShort(v, w, i) \/ Tells(v, w, i)
          \/ Stopped(v, w, i)
     \/ \E e \in Children : ChildMoves(v, w, e) \/ ChildCounts(v, w, e) \/ ChildClaims(v, w, e)

-----------------------------------------------------------------------------
(* Which step an action is *)

LEMMA LinkTyped ==
  ASSUME TypeOK, NEW l \in Links
  PROVE  At(l) \in LinkStates
<1> MaxTotal \in Nat
  BY FiniteAssumption, FS_CardinalityType DEF MaxTotal
<1>1. row[l] \in [Phases -> [status : Statuses, current : Nat, total : Nat]]
  BY DEF TypeOK, Rows, Statuses
<1>2. scope[l] \in SUBSET KBs /\ child[l] \in [Children -> ChildAt]
  BY DEF TypeOK, AllLinks, ChildAt
<1>3. task[l] \in [Phases -> TaskAt] /\ fin[l] \in [Phases -> FinAt]
  BY DEF TypeOK, TaskAt, FinAt
<1> QED
  BY <1>1, <1>2, <1>3 DEF TypeOK, At, LinkStates

\* An update of one entry, seen from one link.
LEMMA Updated ==
  ASSUME NEW S, NEW T, NEW V, NEW g \in [S -> [T -> V]], NEW l \in S, NEW i \in T, NEW x
  PROVE  /\ [g EXCEPT ![l][i] = x][l] = [g[l] EXCEPT ![i] = x]
         /\ \A m \in S \ {l} : [g EXCEPT ![l][i] = x][m] = g[m]
OBVIOUS

LEMMA UpdatedRow ==
  ASSUME TypeOK, NEW l \in Links, NEW i \in Phases, NEW x, SetRow(l, i, x)
  PROVE  /\ row'[l] = [row[l] EXCEPT ![i] = x]
         /\ \A m \in Links \ {l} : row'[m] = row[m]
BY Updated DEF TypeOK, SetRow

LEMMA UpdatedTask ==
  ASSUME TypeOK, NEW l \in Links, NEW i \in Phases, NEW x, SetTask(l, i, x)
  PROVE  /\ task'[l] = [task[l] EXCEPT ![i] = x]
         /\ \A m \in Links \ {l} : task'[m] = task[m]
BY Updated DEF TypeOK, SetTask

LEMMA UpdatedFin ==
  ASSUME TypeOK, NEW l \in Links, NEW i \in Phases, NEW x, SetFin(l, i, x)
  PROVE  /\ fin'[l] = [fin[l] EXCEPT ![i] = x]
         /\ \A m \in Links \ {l} : fin'[m] = fin[m]
BY Updated DEF TypeOK, SetFin

LEMMA UpdatedChild ==
  ASSUME TypeOK, NEW l \in AllLinks, NEW e \in Children, NEW x, SetChild(l, e, x)
  PROVE  /\ child'[l] = [child[l] EXCEPT ![e] = x]
         /\ \A m \in AllLinks \ {l} : child'[m] = child[m]
BY Updated DEF TypeOK, SetChild

\* A step of link l: nothing happens to another one.
StepOf(l) ==
  /\ LinkStep(At(l), At(l)')
  /\ \A m \in Links \ {l} : At(m)' = At(m)

LEMMA EndersStep ==
  ASSUME TypeOK, NEW l \in Links,
         \/ RejectSync(l) \/ PlanNothing(l) \/ MatchNothing(l)
         \/ DeriveFails(l) \/ DeriveDone(l)
         \/ DocRejected(l) \/ DocNothing(l) \/ DocEnd(l)
  PROVE  StepOf(l)
<1> DEFINE Changed(i) ==
      /\ task[l][i] = "queued" \/ (i = 4 /\ task[l][i] = "run")
      /\ SetTask(l, i, "end")
      /\ UNCHANGED row \/ \E s \in {"completed", "failed"} : SetRow(l, i, Ended(row[l][i], s))
      /\ UNCHANGED fin \/ \E x \in {"none", "tell", "chain"} :
           SetFin(l, i, x) /\ (x = "chain" => i # 1 /\ (i = 2 => scope[l] = {}))
<1>1. /\ \E i \in Phases : Changed(i)
      /\ UNCHANGED <<scope, cancelled, child, begun, told>>
  <2>1. CASE RejectSync(l)
    <3> Changed(1)
      BY <2>1 DEF RejectSync, GlossarySync
    <3> QED
      BY <2>1 DEF RejectSync, Phases
  <2>2. CASE PlanNothing(l)
    <3> Changed(1)
      BY <2>2 DEF PlanNothing, GlossarySync
    <3> QED
      BY <2>2 DEF PlanNothing, Phases
  <2>3. CASE MatchNothing(l)
    <3> Changed(2)
      BY <2>3 DEF MatchNothing, KbMatch
    <3> QED
      BY <2>3 DEF MatchNothing, Phases
  <2>4. CASE DeriveFails(l)
    <3> Changed(3)
      BY <2>4 DEF DeriveFails, DbDerivation
    <3> QED
      BY <2>4 DEF DeriveFails, Phases
  <2>5. CASE DeriveDone(l)
    <3> Changed(3)
      BY <2>5 DEF DeriveDone, DbDerivation
    <3> QED
      BY <2>5 DEF DeriveDone, Phases
  <2>6. CASE DocRejected(l)
    <3> Changed(4)
      BY <2>6 DEF DocRejected, DocExtract
    <3> QED
      BY <2>6 DEF DocRejected, Phases
  <2>7. CASE DocNothing(l)
    <3> Changed(4)
      BY <2>7 DEF DocNothing, DocExtract
    <3> QED
      BY <2>7 DEF DocNothing, Phases
  <2>8. CASE DocEnd(l)
    <3> Changed(4)
      BY <2>8 DEF DocEnd, DocExtract
    <3> QED
      BY <2>8 DEF DocEnd, Phases
  <2> QED
    BY <2>1, <2>2, <2>3, <2>4, <2>5, <2>6, <2>7, <2>8
<1>2. PICK i \in Phases : Changed(i)
  BY <1>1
<1>3. /\ task'[l] = [task[l] EXCEPT ![i] = "end"]
      /\ \A m \in Links \ {l} : task'[m] = task[m]
  BY <1>2, UpdatedTask
<1>4. /\ row'[l] = row[l] \/ \E s \in {"completed", "failed"} :
                            row'[l] = [row[l] EXCEPT ![i] = Ended(row[l][i], s)]
      /\ \A m \in Links \ {l} : row'[m] = row[m]
  BY <1>2, UpdatedRow
<1>5. /\ fin'[l] = fin[l] \/ \E x \in {"none", "tell", "chain"} :
           fin'[l] = [fin[l] EXCEPT ![i] = x] /\ (x = "chain" => i # 1 /\ (i = 2 => scope[l] = {}))
      /\ \A m \in Links \ {l} : fin'[m] = fin[m]
  BY <1>2, UpdatedFin
<1>6. TaskEnds(At(l), At(l)', i)
  BY <1>1, <1>2, <1>3, <1>4, <1>5 DEF TaskEnds, At, SameChild, SameTold
<1>7. At(l)'.scope = At(l).scope
  BY <1>1 DEF At
<1>8. \A m \in Links \ {l} : At(m)' = At(m)
  BY <1>1, <1>3, <1>4, <1>5 DEF At
<1> QED
  BY <1>6, <1>7, <1>8 DEF StepOf, LinkStep

LEMMA RequestStep ==
  ASSUME TypeOK, NEW l \in Links, Request(l)
  PROVE  StepOf(l)
<1>1. /\ begun[l] = 0 /\ row[l][1].status = "none"
      /\ UNCHANGED <<scope, cancelled, child, fin, told>>
  BY DEF Request, GlossarySync, NoRow, maps
<1>2. \/ SetRow(l, 1, Started(1)) \/ UNCHANGED row
  BY DEF Request, GlossarySync
<1>3. \/ SetTask(l, 1, "queued") /\ begun' = [begun EXCEPT ![l] = 1]
      \/ UNCHANGED <<task, begun>>
  BY DEF Request, GlossarySync
<1>4. /\ row'[l] = row[l] \/ row'[l] = [row[l] EXCEPT ![1] = Started(1)]
      /\ \A m \in Links \ {l} : row'[m] = row[m]
  BY <1>2, UpdatedRow DEF Phases
<1>5. /\ \/ begun'[l] = 1 /\ task'[l] = [task[l] EXCEPT ![1] = "queued"]
         \/ begun'[l] = 0 /\ task'[l] = task[l]
      /\ \A m \in Links \ {l} : task'[m] = task[m] /\ begun'[m] = begun[m]
  <2>1. CASE UNCHANGED <<task, begun>>
    BY <2>1, <1>1
  <2>2. CASE SetTask(l, 1, "queued") /\ begun' = [begun EXCEPT ![l] = 1]
    BY <2>2, UpdatedTask DEF Phases, TypeOK
  <2> QED
    BY <1>3, <2>1, <2>2
<1>6. Requested(At(l), At(l)')
  BY <1>1, <1>4, <1>5 DEF Requested, At, SameChild, SameFin, SameTold
<1>7. \A m \in Links \ {l} : At(m)' = At(m)
  BY <1>1, <1>4, <1>5 DEF At
<1> QED
  BY <1>1, <1>6, <1>7 DEF StepOf, LinkStep, At

LEMMA PlansStep ==
  ASSUME TypeOK, NEW l \in Links, PlanParts(l) \/ PlanMatch(l)
  PROVE  StepOf(l)
<1> DEFINE Changed(i, D) ==
      /\ i \in {1, 2} /\ task[l][i] = "queued"
      /\ D \subseteq Children /\ \A e \in D : PhaseOf(e) = i
      /\ child' = [child EXCEPT ![l] = [c \in Children |->
                     IF c \in D THEN "todo" ELSE child[l][c]]]
      /\ \/ "total" \in Env /\ UNCHANGED row
         \/ SetRow(l, i, Dispatched(row[l][i], Cardinality(D)))
      /\ SetTask(l, i, "run")
<1>1. /\ \E i \in Phases : \E D \in SUBSET Children : Changed(i, D)
      /\ UNCHANGED <<scope, cancelled, fin, begun, told>>
  <2>1. CASE PlanParts(l)
    <3>1. PICK D \in SUBSET Parts :
            /\ child' = [child EXCEPT ![l] = [c \in Children |->
                           IF c \in D THEN "todo" ELSE child[l][c]]]
            /\ \/ "total" \in Env /\ UNCHANGED row
               \/ SetRow(l, 1, Dispatched(row[l][1], Cardinality(D)))
      BY <2>1 DEF PlanParts, GlossarySync, Fault
    <3>2. Changed(1, D)
      BY <2>1, <3>1 DEF PlanParts, GlossarySync, Children, PhaseOf
    <3> QED
      BY <2>1, <3>2 DEF PlanParts, Phases, Children, maps
  <2>2. CASE PlanMatch(l)
    <3>1. scope[l] \subseteq KBs
      BY DEF TypeOK, AllLinks
    <3>2. \A e \in scope[l] : PhaseOf(e) = 2
      BY <3>1, DisjointAssumption DEF PhaseOf, KbMatch
    <3>3. Changed(2, scope[l])
      BY <2>2, <3>1, <3>2 DEF PlanMatch, KbMatch, Children, Fault
    <3> QED
      BY <2>2, <3>1, <3>3 DEF PlanMatch, Phases, Children, maps
  <2> QED
    BY <2>1, <2>2
<1>2. PICK i \in Phases : \E D \in SUBSET Children : Changed(i, D)
  BY <1>1
<1>3. PICK D \in SUBSET Children : Changed(i, D)
  BY <1>2
<1>4. /\ task'[l] = [task[l] EXCEPT ![i] = "run"]
      /\ \A m \in Links \ {l} : task'[m] = task[m]
  BY <1>3, UpdatedTask
<1>5. /\ \/ "total" \in Env /\ row'[l] = row[l]
         \/ row'[l] = [row[l] EXCEPT ![i] = Dispatched(row[l][i], Cardinality(D))]
      /\ \A m \in Links \ {l} : row'[m] = row[m]
  BY <1>3, UpdatedRow
<1>6. /\ child'[l] = [c \in Children |-> IF c \in D THEN "todo" ELSE child[l][c]]
      /\ \A m \in Links \ {l} : child'[m] = child[m]
  BY <1>3 DEF TypeOK, AllLinks
<1>7. TaskPlans(At(l), At(l)', i)
  BY <1>1, <1>3, <1>4, <1>5, <1>6 DEF TaskPlans, At, SameFin, SameTold
<1>8. \A m \in Links \ {l} : At(m)' = At(m)
  BY <1>1, <1>4, <1>5, <1>6 DEF At
<1> QED
  BY <1>1, <1>7, <1>8 DEF StepOf, LinkStep, At

LEMMA TasksStep ==
  ASSUME TypeOK, NEW l \in Links,
         \/ \E i \in {GlossarySync, KbMatch}, c \in Children : PublishChild(l, i, c)
         \/ DocPlan(l)
         \/ \E i \in Phases : TaskCrash(l, i)
  PROVE  StepOf(l)
<1> DEFINE Left == [d \in Children |-> IF child[l][d] = "todo" THEN "none" ELSE child[l][d]]
           Changed(i) ==
      /\ task[l][i] \in {"queued", "run"}
      /\ \E x \in {"run", "end", "lost"} : SetTask(l, i, x)
      /\ \/ UNCHANGED child
         \/ child' = [child EXCEPT ![l] = Left]
         \/ \E c \in Children : child[l][c] = "todo" /\ SetChild(l, c, "queued")
           Kept == UNCHANGED <<scope, row, cancelled, fin, begun, told>>
<1>1. (\E j \in Phases : Changed(j)) /\ Kept
  <2>1. CASE DocPlan(l)
    <3>1. Changed(4)
      BY <2>1 DEF DocPlan, DocExtract
    <3> QED
      BY <2>1, <3>1 DEF DocPlan, Phases, jobs
  <2>2. ASSUME NEW i \in Phases, TaskCrash(l, i)
        PROVE  (\E j \in Phases : Changed(j)) /\ Kept
    BY <2>2 DEF TaskCrash, jobs, maps
  <2>3. ASSUME NEW i \in {GlossarySync, KbMatch}, NEW c \in Children, PublishChild(l, i, c)
        PROVE  (\E j \in Phases : Changed(j)) /\ Kept
    <3>1. \E x \in {"run", "end", "lost"} : SetTask(l, i, x)
      BY <2>3 DEF PublishChild
    <3>2. Changed(i)
      BY <2>3, <3>1 DEF PublishChild
    <3> QED
      BY <2>3, <3>2 DEF PublishChild, GlossarySync, KbMatch, Phases, jobs, maps
  <2> QED
    BY <2>1, <2>2, <2>3
<1>2. PICK i \in Phases : Changed(i)
  BY <1>1
<1>3. /\ \E x \in {"run", "end", "lost"} : task'[l] = [task[l] EXCEPT ![i] = x]
      /\ \A m \in Links \ {l} : task'[m] = task[m]
  BY <1>2, UpdatedTask
<1>4. /\ \/ child'[l] = child[l]
         \/ child'[l] = Left
         \/ \E c \in Children : child[l][c] = "todo" /\ child'[l] = [child[l] EXCEPT ![c] = "queued"]
      /\ \A m \in Links \ {l} : child'[m] = child[m]
  <2>1. CASE child' = [child EXCEPT ![l] = Left]
    BY <2>1 DEF TypeOK, AllLinks
  <2>2. CASE \E c \in Children : child[l][c] = "todo" /\ SetChild(l, c, "queued")
    BY <2>2, UpdatedChild DEF AllLinks
  <2> QED
    BY <1>2, <2>1, <2>2
<1>5. child[l] \in [Children -> ChildAt]
  BY DEF TypeOK, AllLinks, ChildAt
<1>6. /\ child'[l] \in [Children -> ChildAt]
      /\ \A e \in Children : \/ child'[l][e] = child[l][e]
                             \/ child[l][e] = "todo" /\ child'[l][e] \in {"none", "queued"}
  <2>1. CASE child'[l] = Left
    BY <2>1, <1>5 DEF ChildAt
  <2>2. CASE \E c \in Children : child[l][c] = "todo" /\ child'[l] = [child[l] EXCEPT ![c] = "queued"]
    BY <2>2, <1>5 DEF ChildAt
  <2> QED
    BY <1>4, <1>5, <2>1, <2>2
<1>7. TaskGoesOn(At(l), At(l)', i)
  BY <1>1, <1>2, <1>3, <1>6 DEF TaskGoesOn, At, SameRow, SameFin, SameTold
<1>8. \A m \in Links \ {l} : At(m)' = At(m)
  BY <1>1, <1>3, <1>4 DEF At
<1> QED
  BY <1>1, <1>7, <1>8 DEF StepOf, LinkStep, At

LEMMA ChildrenStep ==
  ASSUME TypeOK, NEW l \in Links, NEW c \in Children, Count(l, c) \/ Claim(l, c)
  PROVE  StepOf(l)
<1>1. PhaseOf(c) \in Phases
  BY DEF PhaseOf, GlossarySync, KbMatch, Phases
<1> DEFINE i == PhaseOf(c)
<1> HIDE DEF i
<1>2. l \in AllLinks
  BY DEF AllLinks
<1>3. CASE Count(l, c)
  <2>1. /\ child[l][c] \in {"queued", "count"}
        /\ UNCHANGED <<scope, cancelled, task, fin, begun, told>>
    BY <1>3 DEF Count
  <2>2. \/ /\ Job(l, i) /\ SetRow(l, i, [row[l][i] EXCEPT !.current = @ + 1])
           /\ SetChild(l, c, "claim")
        \/ (\E x \in {"end", "claim"} : SetChild(l, c, x)) /\ UNCHANGED row
    BY <1>3 DEF Count, i
  <2>3. row[l][i] \in Rows
    BY <1>1 DEF TypeOK, i
  <2>4. CASE Job(l, i) /\ SetRow(l, i, [row[l][i] EXCEPT !.current = @ + 1])
                       /\ SetChild(l, c, "claim")
    <3>1. [row[l][i] EXCEPT !.current = @ + 1] =
            [status |-> row[l][i].status, current |-> row[l][i].current + 1, total |-> row[l][i].total]
      BY <2>3 DEF Rows
    <3>2. /\ row'[l] = [row[l] EXCEPT ![i] = [row[l][i] EXCEPT !.current = @ + 1]]
          /\ \A m \in Links \ {l} : row'[m] = row[m]
      BY <2>4, <1>1, UpdatedRow DEF i
    <3>3. row'[l] = [row[l] EXCEPT ![i] = [status |-> @.status, current |-> @.current + 1,
                                           total |-> @.total]]
      BY <3>1, <3>2, <1>1 DEF TypeOK, i
    <3>4. /\ child'[l] = [child[l] EXCEPT ![c] = "claim"]
          /\ \A m \in Links \ {l} : child'[m] = child[m]
      BY <2>4, <1>2, UpdatedChild DEF AllLinks
    <3>5. ChildCounts(At(l), At(l)', c)
      BY <2>1, <2>4, <3>3, <3>4 DEF ChildCounts, At, SameTask, SameFin, SameTold, Job, i
    <3>6. \A m \in Links \ {l} : At(m)' = At(m)
      BY <2>1, <3>2, <3>4 DEF At
    <3> QED
      BY <2>1, <3>5, <3>6 DEF StepOf, LinkStep, At
  <2>5. CASE (\E x \in {"end", "claim"} : SetChild(l, c, x)) /\ UNCHANGED row
    <3>1. /\ \E x \in {"end", "claim"} : child'[l] = [child[l] EXCEPT ![c] = x]
          /\ \A m \in Links \ {l} : child'[m] = child[m]
      BY <2>5, <1>2, UpdatedChild DEF AllLinks
    <3>2. ChildMoves(At(l), At(l)', c)
      BY <2>1, <2>5, <3>1 DEF ChildMoves, At, SameRow, SameTask, SameFin, SameTold
    <3>3. \A m \in Links \ {l} : At(m)' = At(m)
      BY <2>1, <2>5, <3>1 DEF At
    <3> QED
      BY <2>1, <3>2, <3>3 DEF StepOf, LinkStep, At
  <2> QED
    BY <2>2, <2>4, <2>5
<1>4. CASE Claim(l, c)
  <2>1. /\ child[l][c] = "claim"
        /\ child'[l] = [child[l] EXCEPT ![c] = "end"]
        /\ \A m \in Links \ {l} : child'[m] = child[m]
        /\ UNCHANGED <<scope, cancelled, task, begun, told>>
    BY <1>4, <1>2, UpdatedChild DEF Claim, AllLinks
  <2>2. \/ /\ Claimable(row[l][i]) /\ SetRow(l, i, Ended(row[l][i], "completed"))
           /\ SetFin(l, i, "chain")
        \/ UNCHANGED <<row, fin>>
    BY <1>4 DEF Claim, i
  <2>3. CASE Claimable(row[l][i]) /\ SetRow(l, i, Ended(row[l][i], "completed"))
                                  /\ SetFin(l, i, "chain")
    <3>1. /\ row'[l] = [row[l] EXCEPT ![i] = Ended(row[l][i], "completed")]
          /\ fin'[l] = [fin[l] EXCEPT ![i] = "chain"]
          /\ \A m \in Links \ {l} : row'[m] = row[m] /\ fin'[m] = fin[m]
      BY <2>3, <1>1, UpdatedRow, UpdatedFin DEF i
    <3>2. ChildClaims(At(l), At(l)', c)
      BY <2>1, <2>3, <3>1 DEF ChildClaims, At, SameTask, SameTold, i
    <3>3. \A m \in Links \ {l} : At(m)' = At(m)
      BY <2>1, <3>1 DEF At
    <3> QED
      BY <2>1, <3>2, <3>3 DEF StepOf, LinkStep, At
  <2>4. CASE UNCHANGED <<row, fin>>
    <3>1. ChildMoves(At(l), At(l)', c)
      BY <2>1, <2>4 DEF ChildMoves, At, SameRow, SameTask, SameFin, SameTold
    <3>2. \A m \in Links \ {l} : At(m)' = At(m)
      BY <2>1, <2>4 DEF At
    <3> QED
      BY <2>1, <3>1, <3>2 DEF StepOf, LinkStep, At
  <2> QED
    BY <2>2, <2>3, <2>4
<1> QED
  BY <1>3, <1>4

\* The task of the child of a knowledge base, whose link may be one of the
\* others, moves on, or dies.
LEMMA MovesStep ==
  ASSUME TypeOK, NEW l \in AllLinks, NEW c \in Children,
         child[l][c] \in {"queued", "write", "count", "claim"},
         \/ UNCHANGED child
         \/ \E x \in {"write", "count", "claim", "end", "lost"} :
              SetChild(l, c, x) /\ (child[l][c] = "claim" => x = "end"),
         UNCHANGED <<scope, row, cancelled, task, fin, begun, told>>
  PROVE  \A m \in Links : LinkStep(At(m), At(m)')
<1>1. ASSUME NEW m \in Links, child'[m] = child[m]
      PROVE  At(m)' = At(m)
  BY <1>1 DEF At
<1>2. CASE UNCHANGED child
  BY <1>1, <1>2 DEF LinkStep
<1>3. CASE \E x \in {"write", "count", "claim", "end", "lost"} :
             SetChild(l, c, x) /\ (child[l][c] = "claim" => x = "end")
  <2>1. /\ \E x \in {"write", "count", "claim", "end", "lost"} :
             child'[l] = [child[l] EXCEPT ![c] = x] /\ (child[l][c] = "claim" => x = "end")
        /\ \A m \in AllLinks \ {l} : child'[m] = child[m]
    BY <1>3, UpdatedChild
  <2>2. ASSUME l \in Links
        PROVE  LinkStep(At(l), At(l)')
    <3>1. ChildMoves(At(l), At(l)', c)
      BY <2>1 DEF ChildMoves, At, SameRow, SameTask, SameFin, SameTold
    <3> QED
      BY <3>1 DEF LinkStep, At
  <2>3. ASSUME NEW m \in Links, m # l
        PROVE  LinkStep(At(m), At(m)')
    BY <2>1, <2>3, <1>1 DEF LinkStep, AllLinks
  <2> QED
    BY <2>2, <2>3
<1> QED
  BY <1>2, <1>3

LEMMA MatchingStep ==
  ASSUME TypeOK, NEW l \in AllLinks, NEW k \in KBs, NEW p \in Procs,
         Match(p, l, k)
  PROVE  \A m \in Links : LinkStep(At(m), At(m)')
<1>1. k \in Children
  BY DEF Children
<1>2. \E x \in {"write", "count"} : SetChild(l, k, x)
  BY DEF Match
<1> QED
  BY <1>1, <1>2, MovesStep DEF Match, jobs

LEMMA SaveStep ==
  ASSUME TypeOK, NEW p \in Procs, Save(p),
         hold[p] # NoHold => child[hold[p].link][hold[p].kb] = "write"
  PROVE  \A m \in Links : LinkStep(At(m), At(m)')
<1>1. hold[p] \in Holds /\ child[hold[p].link][hold[p].kb] = "write"
  BY DEF Save, TypeOK
<1>2. PICK l \in AllLinks, k \in KBs : hold[p].link = l /\ hold[p].kb = k
  BY <1>1 DEF Holds
<1>3. UNCHANGED child \/ SetChild(l, k, "count")
  BY <1>2 DEF Save
<1>4. k \in Children /\ child[l][k] = "write"
  BY <1>1, <1>2 DEF Children
<1> QED
  BY <1>3, <1>4, MovesStep DEF Save, jobs

LEMMA ChildCrashStep ==
  ASSUME TypeOK, NEW l \in Links, NEW c \in Children, ChildCrash(l, c)
  PROVE  \A m \in Links : LinkStep(At(m), At(m)')
<1>1. \E x \in {"end", "lost"} : SetChild(l, c, x) /\ (child[l][c] = "claim" => x = "end")
  BY DEF ChildCrash
<1>2. l \in AllLinks
  BY DEF AllLinks
<1> QED
  BY <1>1, <1>2, MovesStep DEF ChildCrash, jobs

LEMMA FinalizerStep ==
  ASSUME TypeOK, NEW l \in Links, NEW i \in Phases, fin[l][DocExtract] # "publish",
         Chain(l, i) \/ PublishPhase(l, i) \/ Tell(l, i) \/ FinalizerCrash(l, i)
  PROVE  StepOf(l)
<1>1. CASE Chain(l, i)
  <2>1. fin[l][i] = "chain" /\ UNCHANGED <<scope, cancelled, task, child, begun, told>>
    BY <1>1 DEF Chain
  <2>2. CASE chains[l] /\ i # DocExtract
    <3>1. i \in 1..3 /\ i + 1 \in Phases
      BY <2>2 DEF DocExtract, Phases
    <3>2. /\ fin'[l] = [fin[l] EXCEPT ![i] = "publish"]
          /\ \A m \in Links \ {l} : fin'[m] = fin[m]
      BY <1>1, <2>2, UpdatedFin DEF Chain
    <3>3. InitTotal(l, i + 1) \in Nat
      <4>1. scope[l] \subseteq KBs
        BY DEF TypeOK, AllLinks
      <4>2. Cardinality(scope[l]) \in Nat
        BY <4>1, FiniteAssumption, FS_Subset, FS_CardinalityType
      <4> QED
        BY <4>2 DEF InitTotal
    <3>4. \/ SetRow(l, i + 1, Started(InitTotal(l, i + 1))) \/ UNCHANGED row
      BY <1>1, <2>2 DEF Chain
    <3>5. /\ row'[l] = row[l] \/ row'[l] = [row[l] EXCEPT ![i + 1] = Started(InitTotal(l, i + 1))]
          /\ \A m \in Links \ {l} : row'[m] = row[m]
      BY <3>1, <3>4, UpdatedRow
    <3>6. Chains(At(l), At(l)', i)
      BY <2>1, <3>1, <3>2, <3>3, <3>5 DEF Chains, At, SameTask, SameChild, SameTold
    <3>7. \A m \in Links \ {l} : At(m)' = At(m)
      BY <2>1, <3>2, <3>5 DEF At
    <3> QED
      BY <2>1, <3>6, <3>7 DEF StepOf, LinkStep, At
  <2>3. CASE ~(chains[l] /\ i # DocExtract)
    <3>1. SetFin(l, i, "tell") /\ UNCHANGED row
      BY <1>1, <2>3 DEF Chain
    <3>2. /\ fin'[l] = [fin[l] EXCEPT ![i] = "tell"]
          /\ \A m \in Links \ {l} : fin'[m] = fin[m]
      BY <3>1, UpdatedFin
    <3>3. StopsShort(At(l), At(l)', i)
      BY <2>1, <3>1, <3>2 DEF StopsShort, At, SameRow, SameTask, SameChild, SameTold
    <3>4. \A m \in Links \ {l} : At(m)' = At(m)
      BY <2>1, <3>1, <3>2 DEF At
    <3> QED
      BY <2>1, <3>3, <3>4 DEF StepOf, LinkStep, At
  <2> QED
    BY <2>2, <2>3
<1>2. CASE PublishPhase(l, i)
  <2>1. fin[l][i] = "publish" /\ UNCHANGED <<scope, row, cancelled, child, told>>
    BY <1>2 DEF PublishPhase, jobs
  <2>2. i \in 1..3 /\ i + 1 \in Phases
    BY <2>1 DEF DocExtract, Phases
  <2>3. CASE SetFin(l, i, "end") /\ SetTask(l, i + 1, "queued") /\ begun' = [begun EXCEPT ![l] = @ + 1]
    <3>1. /\ fin'[l] = [fin[l] EXCEPT ![i] = "end"]
          /\ task'[l] = [task[l] EXCEPT ![i + 1] = "queued"]
          /\ \A m \in Links \ {l} : fin'[m] = fin[m] /\ task'[m] = task[m]
      BY <2>2, <2>3, UpdatedFin, UpdatedTask
    <3>2. begun'[l] = begun[l] + 1 /\ \A m \in Links \ {l} : begun'[m] = begun[m]
      BY <2>3 DEF TypeOK
    <3>3. Publishes(At(l), At(l)', i)
      BY <2>1, <2>2, <3>1, <3>2 DEF Publishes, At, SameRow, SameChild, SameTold
    <3>4. \A m \in Links \ {l} : At(m)' = At(m)
      BY <2>1, <3>1, <3>2 DEF At
    <3> QED
      BY <2>1, <3>3, <3>4 DEF StepOf, LinkStep, At
  <2>4. CASE SetFin(l, i, "tell") /\ UNCHANGED <<task, begun>>
    <3>1. /\ fin'[l] = [fin[l] EXCEPT ![i] = "tell"]
          /\ \A m \in Links \ {l} : fin'[m] = fin[m]
      BY <2>4, UpdatedFin
    <3>2. StopsShort(At(l), At(l)', i)
      BY <2>1, <2>4, <3>1 DEF StopsShort, At, SameRow, SameTask, SameChild, SameTold
    <3>3. \A m \in Links \ {l} : At(m)' = At(m)
      BY <2>1, <2>4, <3>1 DEF At
    <3> QED
      BY <2>1, <3>2, <3>3 DEF StepOf, LinkStep, At
  <2> QED
    BY <1>2, <2>3, <2>4 DEF PublishPhase
<1>3. CASE Tell(l, i)
  <2>1. fin[l][i] = "tell" /\ UNCHANGED <<scope, row, cancelled, task, child, begun>>
    BY <1>3 DEF Tell, jobs
  <2>2. /\ fin'[l] = [fin[l] EXCEPT ![i] = "end"]
        /\ \A m \in Links \ {l} : fin'[m] = fin[m]
    BY <1>3, UpdatedFin DEF Tell
  <2>3. told'[l] = told[l] + 1 /\ \A m \in Links \ {l} : told'[m] = told[m]
    BY <1>3 DEF Tell, TypeOK
  <2>4. Tells(At(l), At(l)', i)
    BY <2>1, <2>2, <2>3 DEF Tells, At, SameRow, SameTask, SameChild
  <2>5. \A m \in Links \ {l} : At(m)' = At(m)
    BY <2>1, <2>2, <2>3 DEF At
  <2> QED
    BY <2>1, <2>4, <2>5 DEF StepOf, LinkStep, At
<1>4. CASE FinalizerCrash(l, i)
  <2>1. /\ fin[l][i] \in {"chain", "publish", "tell"}
        /\ UNCHANGED <<scope, row, cancelled, task, child, begun, told>>
    BY <1>4 DEF FinalizerCrash, jobs
  <2>2. /\ fin'[l] = [fin[l] EXCEPT ![i] = "lost"]
        /\ \A m \in Links \ {l} : fin'[m] = fin[m]
    BY <1>4, UpdatedFin DEF FinalizerCrash
  <2>3. StopsShort(At(l), At(l)', i)
    BY <2>1, <2>2 DEF StopsShort, At, SameRow, SameTask, SameChild, SameTold
  <2>4. \A m \in Links \ {l} : At(m)' = At(m)
    BY <2>1, <2>2 DEF At
  <2> QED
    BY <2>1, <2>3, <2>4 DEF StepOf, LinkStep, At
<1> QED
  BY <1>1, <1>2, <1>3, <1>4

LEMMA StopStep ==
  ASSUME TypeOK, NEW l \in Links, NEW i \in Phases,
         Cancel(l, i) \/ WatchdogRead(l, i) \/ WatchdogCommit(l, i)
  PROVE  StepOf(l)
<1>1. UNCHANGED <<scope, task, child, fin, begun, told>>
  BY DEF Cancel, WatchdogRead, WatchdogCommit, tasks
<1>2. CASE Cancel(l, i)
  <2>1. row[l][i] \in Rows /\ row[l][i].status = "running"
    BY <1>2 DEF TypeOK, Cancel
  <2>2. [row[l][i] EXCEPT !.status = "cancelled"] =
          [status |-> "cancelled", current |-> row[l][i].current, total |-> row[l][i].total]
    BY <2>1 DEF Rows
  <2>3. /\ row'[l] = [row[l] EXCEPT ![i] = [row[l][i] EXCEPT !.status = "cancelled"]]
        /\ \A m \in Links \ {l} : row'[m] = row[m]
    BY <1>2, UpdatedRow DEF Cancel
  <2>4. row'[l] = [row[l] EXCEPT ![i] = [status |-> "cancelled", current |-> @.current,
                                         total |-> @.total]]
    BY <2>2, <2>3 DEF TypeOK
  <2>5. /\ {j \in Phases : <<l, j>> \in cancelled'} = {j \in Phases : <<l, j>> \in cancelled} \cup {i}
        /\ \A m \in Links \ {l} : {j \in Phases : <<m, j>> \in cancelled'}
                                  = {j \in Phases : <<m, j>> \in cancelled}
    BY <1>2 DEF Cancel
  <2>6. Stopped(At(l), At(l)', i)
    BY <1>1, <2>1, <2>4, <2>5 DEF Stopped, At, SameTask, SameChild, SameFin, SameTold
  <2>7. \A m \in Links \ {l} : At(m)' = At(m)
    BY <1>1, <2>3, <2>5 DEF At
  <2> QED
    BY <1>1, <2>6, <2>7 DEF StepOf, LinkStep, At
<1>3. CASE WatchdogRead(l, i)
  <2>1. \A m \in Links : At(m)' = At(m)
    BY <1>1, <1>3 DEF WatchdogRead, At
  <2> QED
    BY <2>1 DEF StepOf, LinkStep
<1>4. CASE WatchdogCommit(l, i)
  <2>1. /\ row'[l] = [row[l] EXCEPT ![i] = Ended(row[l][i], "failed")]
        /\ \A m \in Links \ {l} : row'[m] = row[m]
        /\ cancelled' = cancelled
    BY <1>4, UpdatedRow DEF WatchdogCommit
  <2>2. Stopped(At(l), At(l)', i)
    BY <1>1, <2>1 DEF Stopped, At, SameTask, SameChild, SameFin, SameTold
  <2>3. \A m \in Links \ {l} : At(m)' = At(m)
    BY <1>1, <2>1 DEF At
  <2> QED
    BY <1>1, <2>2, <2>3 DEF StepOf, LinkStep, At
<1> QED
  BY <1>2, <1>3, <1>4

-----------------------------------------------------------------------------
(* The shape of a chain *)

\* The phases up to the latest one were published, those before it are
\* finalised; the user is told after the last one.
Latest(v) ==
  /\ \A i \in Phases : i > v.begun => v.task[i] = "none" /\ v.fin[i] = "none"
  /\ \A i \in Phases : i < v.begun => v.fin[i] = "end"
  /\ v.told # 0 => v.begun > 0 /\ v.fin[v.begun] = "end"

\* A phase that is finalised has no task that could plan or finalise it again,
\* and a job stands only behind a finaliser that has started it.
Once(v) ==
  /\ \A i \in Phases : v.fin[i] # "none" => v.task[i] # "queued" /\ (i = 4 => v.task[i] # "run")
  /\ \A i \in 2..4 : v.row[i].status # "none" => v.fin[i - 1] \notin {"none", "chain"}
  /\ v.fin[4] # "publish"

\* Children exist once their task has planned them, and none of them is left to
\* claim a job that somebody else finalises.
ChildrenOfRuns(v) == \A e \in Children : v.child[e] # "none" =>
  /\ v.task[PhaseOf(e)] \notin {"none", "queued"}
  /\ v.fin[PhaseOf(e)] # "none" => v.row[PhaseOf(e)].status # "running"

Shape(v) == Latest(v) /\ Once(v) /\ ChildrenOfRuns(v)

LEMMA PhaseTyped == \A e \in Children : PhaseOf(e) \in {1, 2}
BY DEF PhaseOf, GlossarySync, KbMatch

\* A claim that succeeds is that of the latest phase, which nobody finalises.
LEMMA ClaimOfLatest ==
  ASSUME NEW v \in LinkStates, Shape(v), NEW e \in Children,
         v.child[e] = "claim", Claimable(v.row[PhaseOf(e)])
  PROVE  v.fin[PhaseOf(e)] = "none" /\ v.begun = PhaseOf(e)
<1>1. v.fin[PhaseOf(e)] = "none" /\ v.task[PhaseOf(e)] # "none"
  BY DEF Shape, ChildrenOfRuns, Claimable
<1> QED
  BY <1>1, PhaseTyped DEF Shape, Latest, LinkStates, Phases

\* So is the phase whose task is at work or whose finaliser has not ended.
LEMMA AtWorkIsLatest ==
  ASSUME NEW v \in LinkStates, Shape(v), NEW i \in Phases
  PROVE  /\ v.task[i] = "queued" => v.begun = i /\ v.fin[i] = "none"
         /\ i = 4 /\ v.task[i] = "run" => v.begun = i /\ v.fin[i] = "none"
         /\ v.fin[i] \notin {"none", "end"} => v.begun = i
         /\ v.fin[i] # "none" => i <= v.begun
BY DEF Shape, Latest, Once, LinkStates, Phases

LEMMA ShapeKept ==
  ASSUME NEW v \in LinkStates, Shape(v), NEW w, LinkStep(v, w)
  PROVE  Shape(w)
<1> USE DEF LinkStates, Phases
<1>1. CASE w = v
  BY <1>1
<1>2. CASE Requested(v, w)
  <2>1. /\ v.begun = 0 /\ w.begun \in {0, 1}
        /\ \A i \in Phases : v.task[i] = "none" /\ v.fin[i] = "none"
        /\ v.told = 0
    BY <1>2 DEF Shape, Latest, Requested
  <2>a. \A i \in 2..4 : w.row[i] = v.row[i]
    <3>1. w.row = v.row \/ w.row = [v.row EXCEPT ![1] = Started(1)]
      BY <1>2 DEF Requested
    <3>2. \A x : \A i \in 2..4 : [v.row EXCEPT ![1] = x][i] = v.row[i]
      OBVIOUS
    <3> QED
      BY <3>1, <3>2
  <2>b. /\ \A i \in 2..4 : w.task[i] = "none"
        /\ w.begun = 0 => w.task = v.task
    BY <1>2, <2>1 DEF Requested
  <2>2. /\ w.child = v.child /\ w.fin = v.fin /\ w.told = v.told
        /\ \A i \in 2..4 : w.row[i] = v.row[i] /\ w.task[i] = "none"
        /\ w.begun = 0 => w.task = v.task
    BY <1>2, <2>a, <2>b DEF Requested, SameChild, SameFin, SameTold
  <2>3. \A e \in Children : w.child[e] = "none"
    BY <2>1, <2>2, PhaseTyped DEF Shape, ChildrenOfRuns
  <2>4. Latest(w)
    BY <2>1, <2>2 DEF Latest
  <2>5. Once(w)
    BY <2>1, <2>2 DEF Shape, Once
  <2> QED
    BY <2>3, <2>4, <2>5 DEF Shape, ChildrenOfRuns
<1>3. ASSUME NEW i \in Phases, TaskEnds(v, w, i)
      PROVE  Shape(w)
  <2>1. Latest(w)
    BY <1>3, AtWorkIsLatest, PhaseTyped
    DEF Shape, Latest, TaskEnds, SameRow, SameTask, SameChild, SameFin, SameTold
  <2>2. Once(w)
    BY <1>3, AtWorkIsLatest, PhaseTyped
    DEF Shape, Once, Latest, TaskEnds, SameRow, SameTask, SameChild, SameFin,
       SameTold, Ended, Dispatched, Started
  <2>3. ChildrenOfRuns(w)
    BY <1>3, AtWorkIsLatest, PhaseTyped
    DEF Shape, Latest, Once, ChildrenOfRuns, TaskEnds, SameRow, SameTask, SameChild,
       SameFin, SameTold, Ended, Dispatched, Started, Claimable
  <2> QED
    BY <2>1, <2>2, <2>3 DEF Shape
<1>4. ASSUME NEW i \in Phases, TaskPlans(v, w, i)
      PROVE  Shape(w)
  <2>1. Latest(w)
    BY <1>4, AtWorkIsLatest, PhaseTyped
    DEF Shape, Latest, TaskPlans, SameRow, SameTask, SameChild, SameFin, SameTold
  <2>2. Once(w)
    BY <1>4, AtWorkIsLatest, PhaseTyped
    DEF Shape, Once, Latest, TaskPlans, SameRow, SameTask, SameChild, SameFin,
       SameTold, Ended, Dispatched, Started
  <2>3. ChildrenOfRuns(w)
    BY <1>4, AtWorkIsLatest, PhaseTyped
    DEF Shape, Latest, Once, ChildrenOfRuns, TaskPlans, SameRow, SameTask, SameChild,
        SameFin, SameTold, Ended, Dispatched, Started, Claimable
  <2> QED
    BY <2>1, <2>2, <2>3 DEF Shape
<1>5. ASSUME NEW i \in Phases, TaskGoesOn(v, w, i)
      PROVE  Shape(w)
  <2>1. Latest(w)
    BY <1>5, AtWorkIsLatest, PhaseTyped
    DEF Shape, Latest, TaskGoesOn, SameRow, SameTask, SameChild, SameFin, SameTold
  <2>2. Once(w)
    BY <1>5, AtWorkIsLatest, PhaseTyped
    DEF Shape, Once, Latest, TaskGoesOn, SameRow, SameTask, SameChild, SameFin,
       SameTold, Ended, Dispatched, Started
  <2>3. ChildrenOfRuns(w)
    BY <1>5, AtWorkIsLatest, PhaseTyped
    DEF Shape, Latest, Once, ChildrenOfRuns, TaskGoesOn, SameRow, SameTask, SameChild,
        SameFin, SameTold, Ended, Dispatched, Started, Claimable
  <2> QED
    BY <2>1, <2>2, <2>3 DEF Shape
<1>6. ASSUME NEW i \in Phases, Chains(v, w, i)
      PROVE  Shape(w)
  <2>1. /\ v.begun = i /\ i \in 1..3 /\ v.fin[i] = "chain"
        /\ w.fin = [v.fin EXCEPT ![i] = "publish"]
        /\ w.task = v.task /\ w.child = v.child /\ w.begun = i /\ w.told = v.told
    BY <1>6, AtWorkIsLatest DEF Chains, SameTask, SameChild, SameTold
  <2>a. \A j \in Phases : j # i + 1 => w.row[j] = v.row[j]
    BY <1>6 DEF Chains
  <2>2. Latest(w)
    BY <2>1 DEF Shape, Latest
  <2>3. Once(w)
    BY <2>1, <2>a DEF Shape, Once
  <2>4. \A e \in Children : v.child[e] # "none" => PhaseOf(e) # i + 1
    BY <2>1, PhaseTyped DEF Shape, Latest, ChildrenOfRuns
  <2>5. ChildrenOfRuns(w)
    BY <2>1, <2>a, <2>4, PhaseTyped DEF Shape, ChildrenOfRuns
  <2> QED
    BY <2>2, <2>3, <2>5 DEF Shape
<1>7. ASSUME NEW i \in Phases, Publishes(v, w, i)
      PROVE  Shape(w)
  <2>1. Latest(w)
    BY <1>7, AtWorkIsLatest, PhaseTyped
    DEF Shape, Latest, Publishes, SameRow, SameTask, SameChild, SameFin, SameTold
  <2>2. Once(w)
    BY <1>7, AtWorkIsLatest, PhaseTyped
    DEF Shape, Once, Latest, Publishes, SameRow, SameTask, SameChild, SameFin,
       SameTold, Ended, Dispatched, Started
  <2>3. ChildrenOfRuns(w)
    BY <1>7, AtWorkIsLatest, PhaseTyped
    DEF Shape, Latest, Once, ChildrenOfRuns, Publishes, SameRow, SameTask, SameChild,
        SameFin, SameTold, Ended, Dispatched, Started, Claimable
  <2> QED
    BY <2>1, <2>2, <2>3 DEF Shape
<1>8. ASSUME NEW i \in Phases, StopsShort(v, w, i)
      PROVE  Shape(w)
  <2>1. Latest(w)
    BY <1>8, AtWorkIsLatest, PhaseTyped
    DEF Shape, Latest, StopsShort, SameRow, SameTask, SameChild, SameFin, SameTold
  <2>2. Once(w)
    BY <1>8, AtWorkIsLatest, PhaseTyped
    DEF Shape, Once, Latest, StopsShort, SameRow, SameTask, SameChild, SameFin,
       SameTold, Ended, Dispatched, Started
  <2>3. ChildrenOfRuns(w)
    BY <1>8, AtWorkIsLatest, PhaseTyped
    DEF Shape, Latest, Once, ChildrenOfRuns, StopsShort, SameRow, SameTask, SameChild,
        SameFin, SameTold, Ended, Dispatched, Started, Claimable
  <2> QED
    BY <2>1, <2>2, <2>3 DEF Shape
<1>9. ASSUME NEW i \in Phases, Tells(v, w, i)
      PROVE  Shape(w)
  <2>1. Latest(w)
    BY <1>9, AtWorkIsLatest, PhaseTyped
    DEF Shape, Latest, Tells, SameRow, SameTask, SameChild, SameFin, SameTold
  <2>2. Once(w)
    BY <1>9, AtWorkIsLatest, PhaseTyped
    DEF Shape, Once, Latest, Tells, SameRow, SameTask, SameChild, SameFin,
       SameTold, Ended, Dispatched, Started
  <2>3. ChildrenOfRuns(w)
    BY <1>9, AtWorkIsLatest, PhaseTyped
    DEF Shape, Latest, Once, ChildrenOfRuns, Tells, SameRow, SameTask, SameChild,
       SameFin, SameTold, Ended, Dispatched, Started, Claimable
  <2> QED
    BY <2>1, <2>2, <2>3 DEF Shape
<1>10. ASSUME NEW i \in Phases, Stopped(v, w, i)
      PROVE  Shape(w)
  <2>1. Latest(w)
    BY <1>10, AtWorkIsLatest, PhaseTyped
    DEF Shape, Latest, Stopped, SameRow, SameTask, SameChild, SameFin, SameTold
  <2>2. Once(w)
    BY <1>10, AtWorkIsLatest, PhaseTyped
    DEF Shape, Once, Latest, Stopped, SameRow, SameTask, SameChild, SameFin,
       SameTold, Ended, Dispatched, Started
  <2>3. ChildrenOfRuns(w)
    BY <1>10, AtWorkIsLatest, PhaseTyped
    DEF Shape, Latest, Once, ChildrenOfRuns, Stopped, SameRow, SameTask, SameChild,
       SameFin, SameTold, Ended, Dispatched, Started, Claimable
  <2> QED
    BY <2>1, <2>2, <2>3 DEF Shape
<1>11. ASSUME NEW e \in Children, ChildMoves(v, w, e)
      PROVE  Shape(w)
  <2>1. Latest(w)
    BY <1>11, AtWorkIsLatest, PhaseTyped
    DEF Shape, Latest, ChildMoves, SameRow, SameTask, SameChild, SameFin, SameTold
  <2>2. Once(w)
    BY <1>11, AtWorkIsLatest, PhaseTyped
    DEF Shape, Once, Latest, ChildMoves, SameRow, SameTask, SameChild, SameFin,
       SameTold, Ended, Dispatched, Started
  <2>3. ChildrenOfRuns(w)
    BY <1>11, AtWorkIsLatest, PhaseTyped
    DEF Shape, Latest, Once, ChildrenOfRuns, ChildMoves, SameRow, SameTask, SameChild,
        SameFin, SameTold, Ended, Dispatched, Started, Claimable
  <2> QED
    BY <2>1, <2>2, <2>3 DEF Shape
<1>12. ASSUME NEW e \in Children, ChildCounts(v, w, e)
      PROVE  Shape(w)
  <2>1. Latest(w)
    BY <1>12, AtWorkIsLatest, PhaseTyped
    DEF Shape, Latest, ChildCounts, SameRow, SameTask, SameChild, SameFin, SameTold
  <2>2. Once(w)
    BY <1>12, AtWorkIsLatest, PhaseTyped
    DEF Shape, Once, Latest, ChildCounts, SameRow, SameTask, SameChild, SameFin,
       SameTold, Ended, Dispatched, Started
  <2>3. ChildrenOfRuns(w)
    BY <1>12, AtWorkIsLatest, PhaseTyped
    DEF Shape, Latest, Once, ChildrenOfRuns, ChildCounts, SameRow, SameTask, SameChild,
        SameFin, SameTold, Ended, Dispatched, Started, Claimable
  <2> QED
    BY <2>1, <2>2, <2>3 DEF Shape
<1>13. ASSUME NEW e \in Children, ChildClaims(v, w, e)
      PROVE  Shape(w)
  <2>1. Latest(w)
    BY <1>13, ClaimOfLatest, PhaseTyped
    DEF Shape, Latest, ChildClaims, SameRow, SameTask, SameChild, SameFin, SameTold
  <2>2. Once(w)
    <3>1. PICK i \in {1, 2} : i = PhaseOf(e)
      BY PhaseTyped
    <3>2. /\ v.fin[i] = "none" /\ v.row[i].status = "running"
          /\ v.task[i] \notin {"none", "queued"} /\ w.task = v.task
          /\ w.fin = [v.fin EXCEPT ![i] = "chain"]
          /\ \A j \in Phases : j # i => w.row[j] = v.row[j]
      BY <1>13, <3>1, ClaimOfLatest
      DEF ChildClaims, SameTask, Claimable, Shape, ChildrenOfRuns
    <3>3. v.row[i + 1].status = "none"
      BY <3>2 DEF Shape, Once
    <3>4. i = 2 => v.fin[1] \notin {"none", "chain"}
      BY <3>2 DEF Shape, Once
    <3> QED
      BY <3>2, <3>3, <3>4 DEF Shape, Once
  <2>3. ChildrenOfRuns(w)
    BY <1>13, ClaimOfLatest, PhaseTyped
    DEF Shape, Latest, Once, ChildrenOfRuns, ChildClaims, SameRow, SameTask, SameChild,
        SameFin, SameTold, Ended, Dispatched, Started, Claimable
  <2> QED
    BY <2>1, <2>2, <2>3 DEF Shape
<1> QED
  BY <1>1, <1>2, <1>3, <1>4, <1>5, <1>6, <1>7, <1>8, <1>9, <1>10, <1>11, <1>12, <1>13
  DEF LinkStep

-----------------------------------------------------------------------------
(* The counter and the total *)

\* The children of phase i that were planned, and those past their count.
PlannedIn(v, i) == {e \in Children : PhaseOf(e) = i /\ v.child[e] # "none"}
PassedIn(v, i)  == {e \in Children : PhaseOf(e) = i /\ v.child[e] \in {"claim", "end"}}

CurrentBounded(v) == \A i \in Phases : v.row[i].current <= Cardinality(PassedIn(v, i))

TotalCounts(v) == \A i \in Phases :
  v.row[i].status # "none" => Cardinality(PlannedIn(v, i)) <= v.row[i].total

Settled == {"none", "claim", "end"}

\* Who finalises a phase left no child of it behind.
Quiet(v) == \A e \in Children : v.fin[PhaseOf(e)] # "none" => v.child[e] \in Settled

LEMMA SomeChildren ==
  ASSUME NEW D \in SUBSET Children
  PROVE  /\ IsFiniteSet(D) /\ Cardinality(D) \in Nat
         /\ Cardinality(D) <= Cardinality(Parts) + Cardinality(KBs)
         /\ \A E \in SUBSET D : Cardinality(E) <= Cardinality(D)
<1>1. IsFiniteSet(Children) /\ Cardinality(Children) = Cardinality(Parts) + Cardinality(KBs)
  <2>1. Cardinality(Parts \cap KBs) = 0
    BY DisjointAssumption, FS_EmptySet
  <2>2. /\ IsFiniteSet(Parts \cup KBs)
        /\ Cardinality(Parts \cup KBs) = Cardinality(Parts) + Cardinality(KBs) - Cardinality(Parts \cap KBs)
    BY FiniteAssumption, FS_Union
  <2>3. Cardinality(Parts) \in Nat /\ Cardinality(KBs) \in Nat
    BY FiniteAssumption, FS_CardinalityType
  <2> QED
    BY <2>1, <2>2, <2>3 DEF Children
<1>2. IsFiniteSet(D) /\ Cardinality(D) <= Cardinality(Children)
  BY <1>1, FS_Subset
<1>3. Cardinality(D) \in Nat
  BY <1>2, FS_CardinalityType
<1> QED
  BY <1>1, <1>2, <1>3, FS_Subset

\* The sets of children, compared before and after.
LEMMA Compared ==
  ASSUME NEW v, NEW w, NEW i \in Phases
  PROVE  /\ Cardinality(PassedIn(v, i)) \in Nat /\ Cardinality(PlannedIn(v, i)) \in Nat
         /\ (\A e \in Children : v.child[e] \in {"claim", "end"} => w.child[e] \in {"claim", "end"})
              => Cardinality(PassedIn(v, i)) <= Cardinality(PassedIn(w, i))
         /\ (\A e \in Children : PhaseOf(e) = i /\ w.child[e] # "none" => v.child[e] # "none")
              => Cardinality(PlannedIn(w, i)) <= Cardinality(PlannedIn(v, i))
         /\ PlannedIn(v, i) = {} => Cardinality(PlannedIn(v, i)) = 0
<1>1. /\ PassedIn(v, i) \in SUBSET Children /\ PlannedIn(v, i) \in SUBSET Children
      /\ PassedIn(w, i) \in SUBSET Children /\ PlannedIn(w, i) \in SUBSET Children
  BY DEF PassedIn, PlannedIn
<1>2. ASSUME \A e \in Children : v.child[e] \in {"claim", "end"} => w.child[e] \in {"claim", "end"}
      PROVE  PassedIn(v, i) \subseteq PassedIn(w, i)
  BY <1>2 DEF PassedIn
<1>3. ASSUME \A e \in Children : PhaseOf(e) = i /\ w.child[e] # "none" => v.child[e] # "none"
      PROVE  PlannedIn(w, i) \subseteq PlannedIn(v, i)
  BY <1>3 DEF PlannedIn
<1> QED
  BY <1>1, <1>2, <1>3, SomeChildren, FS_EmptySet

\* Nobody who counted uncounts.
LEMMA PassedStay ==
  ASSUME NEW v \in LinkStates, Shape(v), NEW w, LinkStep(v, w)
  PROVE  \A e \in Children : v.child[e] \in {"claim", "end"} => w.child[e] \in {"claim", "end"}
<1> USE PhaseTyped DEF LinkStates, Phases, SameChild
<1>1. CASE w = v
  BY <1>1
<1>2. CASE Requested(v, w)
  BY <1>2 DEF Requested
<1>3. ASSUME NEW i \in Phases,
             \/ TaskEnds(v, w, i) \/ Chains(v, w, i) \/ Publishes(v, w, i) \/ StopsShort(v, w, i)
             \/ Tells(v, w, i) \/ Stopped(v, w, i)
      PROVE  w.child = v.child
  BY <1>3 DEF TaskEnds, Chains, Publishes, StopsShort, Tells, Stopped
<1>4. ASSUME NEW i \in Phases, TaskGoesOn(v, w, i), NEW e \in Children, v.child[e] \in {"claim", "end"}
      PROVE  w.child[e] \in {"claim", "end"}
  BY <1>4 DEF TaskGoesOn
<1>5. ASSUME NEW i \in Phases, TaskPlans(v, w, i), NEW e \in Children, v.child[e] \in {"claim", "end"}
      PROVE  w.child[e] \in {"claim", "end"}
  BY <1>5 DEF TaskPlans, Shape, ChildrenOfRuns
<1>6. ASSUME NEW d \in Children, ChildMoves(v, w, d) \/ ChildCounts(v, w, d) \/ ChildClaims(v, w, d),
             NEW e \in Children, v.child[e] \in {"claim", "end"}
      PROVE  w.child[e] \in {"claim", "end"}
  BY <1>6 DEF ChildMoves, ChildCounts, ChildClaims
<1> QED
  BY <1>1, <1>2, <1>3, <1>4, <1>5, <1>6 DEF LinkStep

\* What a step does to the counters: only a child that counts raises one.
LEMMA CountersFall ==
  ASSUME NEW v \in LinkStates, NEW w, LinkStep(v, w), NEW j \in Phases
  PROVE  \/ w.row[j].current \in Nat /\ w.row[j].current <= v.row[j].current
         \/ \E e \in Children : ChildCounts(v, w, e) /\ j = PhaseOf(e)
<1> USE PhaseTyped DEF LinkStates, Phases, SameRow
<1>1. CASE w = v
  BY <1>1
<1>2. CASE Requested(v, w)
  BY <1>2 DEF Requested, Started
<1>3. ASSUME NEW i \in Phases,
             TaskGoesOn(v, w, i) \/ Publishes(v, w, i) \/ StopsShort(v, w, i) \/ Tells(v, w, i)
      PROVE  w.row = v.row
  BY <1>3 DEF TaskGoesOn, Publishes, StopsShort, Tells
<1>4. ASSUME NEW i \in Phases, TaskEnds(v, w, i)
      PROVE  w.row[j].current = v.row[j].current
  BY <1>4 DEF TaskEnds, Ended
<1>5. ASSUME NEW i \in Phases, TaskPlans(v, w, i)
      PROVE  w.row[j].current \in {0, v.row[j].current}
  <2>1. PICK D \in SUBSET Children :
          w.row = v.row \/ w.row = [v.row EXCEPT ![i] = Dispatched(v.row[i], Cardinality(D))]
    BY <1>5 DEF TaskPlans
  <2>2. Dispatched(v.row[i], Cardinality(D)).current \in {0, v.row[i].current}
    BY DEF Dispatched
  <2> QED
    BY <2>1, <2>2
<1>6. ASSUME NEW i \in Phases, Chains(v, w, i)
      PROVE  w.row[j].current \in {0, v.row[j].current}
  <2>1. PICK n \in Nat : w.row = v.row \/ w.row = [v.row EXCEPT ![i + 1] = Started(n)]
    BY <1>6 DEF Chains
  <2>2. Started(n).current = 0
    BY DEF Started
  <2>3. i + 1 \in Phases
    BY <1>6 DEF Chains
  <2>4. \A x : [v.row EXCEPT ![i + 1] = x][j] = IF j = i + 1 THEN x ELSE v.row[j]
    BY <2>3
  <2> QED
    BY <2>1, <2>2, <2>4
<1>7. ASSUME NEW i \in Phases, Stopped(v, w, i)
      PROVE  w.row[j].current = v.row[j].current
  BY <1>7 DEF Stopped, Ended
<1>8. ASSUME NEW e \in Children, ChildMoves(v, w, e)
      PROVE  w.row = v.row
  BY <1>8 DEF ChildMoves
<1>9. ASSUME NEW e \in Children, ChildClaims(v, w, e)
      PROVE  w.row[j].current = v.row[j].current
  BY <1>9 DEF ChildClaims, Ended
<1>10. ASSUME NEW e \in Children, ChildCounts(v, w, e), j # PhaseOf(e)
       PROVE  w.row[j] = v.row[j]
  BY <1>10 DEF ChildCounts
<1>11. v.row[j].current \in Nat
  OBVIOUS
<1> QED
  BY <1>1, <1>2, <1>3, <1>4, <1>5, <1>6, <1>7, <1>8, <1>9, <1>10, <1>11 DEF LinkStep

LEMMA CurrentKept ==
  ASSUME NEW v \in LinkStates, Shape(v), CurrentBounded(v), NEW w, LinkStep(v, w)
  PROVE  CurrentBounded(w)
<1> SUFFICES ASSUME NEW j \in Phases
             PROVE  w.row[j].current <= Cardinality(PassedIn(w, j))
  BY DEF CurrentBounded
<1>1. /\ v.row[j].current \in Nat /\ v.row[j].current <= Cardinality(PassedIn(v, j))
      /\ Cardinality(PassedIn(v, j)) \in Nat /\ Cardinality(PassedIn(w, j)) \in Nat
      /\ Cardinality(PassedIn(v, j)) <= Cardinality(PassedIn(w, j))
  <2>1. v.row[j].current \in Nat /\ v.row[j].current <= Cardinality(PassedIn(v, j))
    BY DEF LinkStates, CurrentBounded
  <2> QED
    BY <2>1, PassedStay, Compared
<1>2. CASE w.row[j].current \in Nat /\ w.row[j].current <= v.row[j].current
  BY <1>1, <1>2
<1>3. ASSUME NEW e \in Children, ChildCounts(v, w, e), j = PhaseOf(e)
      PROVE  w.row[j].current <= Cardinality(PassedIn(w, j))
  <2>1. /\ v.child[e] \in {"queued", "count"} /\ w.child = [v.child EXCEPT ![e] = "claim"]
        /\ w.row[j].current = v.row[j].current + 1
    BY <1>3 DEF ChildCounts, LinkStates
  <2>2. PassedIn(w, j) = PassedIn(v, j) \cup {e} /\ e \notin PassedIn(v, j)
    BY <1>3, <2>1 DEF PassedIn, LinkStates
  <2>3. IsFiniteSet(PassedIn(v, j))
    <3>1. PassedIn(v, j) \in SUBSET Children
      BY DEF PassedIn
    <3> QED
      BY <3>1, SomeChildren
  <2>4. Cardinality(PassedIn(w, j)) = Cardinality(PassedIn(v, j)) + 1
    BY <2>2, <2>3, FS_AddElement
  <2> QED
    BY <1>1, <2>1, <2>4
<1> QED
  BY <1>2, <1>3, CountersFall

\* What a step does to the totals: the job of a phase without children is
\* started anew, or a plan writes the number of its children.
LEMMA TotalsMove ==
  ASSUME NEW v \in LinkStates, Shape(v), NEW w, LinkStep(v, w), NEW j \in Phases, "total" \notin Env
  PROVE  \/ w.row[j].status = "none"
         \/ w.row[j].total = v.row[j].total /\ v.row[j].status # "none"
         \/ w.row[j].total \in Nat /\ PlannedIn(w, j) = {}
         \/ w.row[j].total = Cardinality(PlannedIn(w, j))
<1> USE PhaseTyped DEF LinkStates, Phases, SameRow
<1> SUFFICES ASSUME w.row[j].status # "none"
             PROVE  \/ w.row[j].total = v.row[j].total /\ v.row[j].status # "none"
                    \/ w.row[j].total \in Nat /\ PlannedIn(w, j) = {}
                    \/ w.row[j].total = Cardinality(PlannedIn(w, j))
  OBVIOUS
<1>1. CASE w = v
  BY <1>1
<1>2. CASE Requested(v, w)
  <2>1. \A e \in Children : w.child[e] = "none"
    BY <1>2 DEF Shape, Latest, ChildrenOfRuns, Requested, SameChild
  <2>2. PlannedIn(w, j) = {}
    BY <2>1 DEF PlannedIn
  <2>3. w.row[j] = v.row[j] \/ w.row[j] = Started(1)
    BY <1>2 DEF Requested
  <2> QED
    BY <2>2, <2>3 DEF Started
<1>3. ASSUME NEW i \in Phases,
             TaskGoesOn(v, w, i) \/ Publishes(v, w, i) \/ StopsShort(v, w, i) \/ Tells(v, w, i)
      PROVE  w.row = v.row
  BY <1>3 DEF TaskGoesOn, Publishes, StopsShort, Tells
<1>4. ASSUME NEW i \in Phases, TaskEnds(v, w, i)
      PROVE  w.row[j].total = v.row[j].total /\ v.row[j].status # "none"
  BY <1>4 DEF TaskEnds, Ended
<1>5. ASSUME NEW i \in Phases, TaskPlans(v, w, i)
      PROVE  \/ w.row[j].total = v.row[j].total /\ v.row[j].status # "none"
             \/ w.row[j].total = Cardinality(PlannedIn(w, j))
  <2>1. PICK D \in SUBSET Children :
          /\ \A e \in D : PhaseOf(e) = i
          /\ w.child = [e \in Children |-> IF e \in D THEN "todo" ELSE v.child[e]]
          /\ w.row = [v.row EXCEPT ![i] = Dispatched(v.row[i], Cardinality(D))]
    BY <1>5 DEF TaskPlans
  <2>2. \A e \in Children : PhaseOf(e) = i => v.child[e] = "none"
    BY <1>5 DEF TaskPlans, Shape, ChildrenOfRuns
  <2>3. PlannedIn(w, i) = D
    BY <2>1, <2>2 DEF PlannedIn
  <2>4. CASE j = i
    <3>1. w.row[i] = Dispatched(v.row[i], Cardinality(D))
      BY <2>1
    <3>2. v.row[i].status # "none"
      BY <3>1, <2>4 DEF Dispatched
    <3>3. w.row[i].total = Cardinality(D)
      BY <3>1, <3>2 DEF Dispatched
    <3> QED
      BY <2>3, <2>4, <3>3
  <2>5. CASE j # i
    BY <2>1, <2>5
  <2> QED
    BY <2>4, <2>5
<1>6. ASSUME NEW i \in Phases, Chains(v, w, i)
      PROVE  \/ w.row[j].total = v.row[j].total /\ v.row[j].status # "none"
             \/ w.row[j].total \in Nat /\ PlannedIn(w, j) = {}
  <2>1. PICK n \in Nat : w.row = v.row \/ w.row = [v.row EXCEPT ![i + 1] = Started(n)]
    BY <1>6 DEF Chains
  <2>2. v.begun = i /\ i + 1 \in Phases /\ w.child = v.child
    BY <1>6, AtWorkIsLatest DEF Chains, SameChild
  <2>3. v.task[i + 1] = "none"
    BY <2>2 DEF Shape, Latest
  <2>4. PlannedIn(w, i + 1) = {}
    BY <2>2, <2>3 DEF Shape, ChildrenOfRuns, PlannedIn
  <2>5. \A x : [v.row EXCEPT ![i + 1] = x][j] = IF j = i + 1 THEN x ELSE v.row[j]
    BY <2>2
  <2>6. Started(n).total = n
    BY DEF Started
  <2> QED
    BY <2>1, <2>4, <2>5, <2>6
<1>7. ASSUME NEW i \in Phases, Stopped(v, w, i)
      PROVE  w.row[j].total = v.row[j].total /\ v.row[j].status # "none"
  BY <1>7 DEF Stopped, Ended
<1>8. ASSUME NEW e \in Children, ChildMoves(v, w, e)
      PROVE  w.row = v.row
  BY <1>8 DEF ChildMoves
<1>9. ASSUME NEW e \in Children, ChildClaims(v, w, e) \/ ChildCounts(v, w, e)
      PROVE  w.row[j].total = v.row[j].total /\ v.row[j].status # "none"
  BY <1>9 DEF ChildClaims, ChildCounts, Ended
<1> QED
  BY <1>1, <1>2, <1>3, <1>4, <1>5, <1>6, <1>7, <1>8, <1>9 DEF LinkStep

\* Children are planned by nobody but the plan of their phase.
LEMMA PlannedFall ==
  ASSUME NEW v \in LinkStates, NEW w, LinkStep(v, w), NEW e \in Children, w.child[e] # "none"
  PROVE  \/ v.child[e] # "none"
         \/ \E i \in {1, 2} : TaskPlans(v, w, i) /\ PhaseOf(e) = i
<1> USE PhaseTyped DEF LinkStates, Phases, SameChild
<1>1. CASE w = v \/ Requested(v, w)
  BY <1>1 DEF Requested
<1>2. ASSUME NEW i \in Phases,
             \/ TaskEnds(v, w, i) \/ Chains(v, w, i) \/ Publishes(v, w, i) \/ StopsShort(v, w, i)
             \/ Tells(v, w, i) \/ Stopped(v, w, i)
      PROVE  w.child = v.child
  BY <1>2 DEF TaskEnds, Chains, Publishes, StopsShort, Tells, Stopped
<1>3. ASSUME NEW i \in Phases, TaskGoesOn(v, w, i)
      PROVE  v.child[e] # "none"
  BY <1>3 DEF TaskGoesOn
<1>4. ASSUME NEW i \in Phases, TaskPlans(v, w, i)
      PROVE  v.child[e] # "none" \/ (i \in {1, 2} /\ PhaseOf(e) = i)
  BY <1>4 DEF TaskPlans
<1>5. ASSUME NEW d \in Children, ChildMoves(v, w, d) \/ ChildCounts(v, w, d) \/ ChildClaims(v, w, d)
      PROVE  v.child[e] # "none"
  BY <1>5 DEF ChildMoves, ChildCounts, ChildClaims
<1> QED
  BY <1>1, <1>2, <1>3, <1>4, <1>5 DEF LinkStep

LEMMA TotalKept ==
  ASSUME NEW v \in LinkStates, Shape(v), TotalCounts(v), NEW w, LinkStep(v, w), "total" \notin Env
  PROVE  TotalCounts(w)
<1> SUFFICES ASSUME NEW j \in Phases, w.row[j].status # "none"
             PROVE  Cardinality(PlannedIn(w, j)) <= w.row[j].total
  BY DEF TotalCounts
<1>1. /\ Cardinality(PlannedIn(w, j)) \in Nat /\ Cardinality(PlannedIn(v, j)) \in Nat
      /\ PlannedIn(w, j) = {} => Cardinality(PlannedIn(w, j)) = 0
  BY Compared
<1>2. CASE w.row[j].total \in Nat /\ PlannedIn(w, j) = {}
  BY <1>1, <1>2
<1>3. CASE w.row[j].total = Cardinality(PlannedIn(w, j))
  BY <1>1, <1>3
<1>4. CASE w.row[j].total = v.row[j].total /\ v.row[j].status # "none"
  <2>1. v.row[j].total \in Nat /\ Cardinality(PlannedIn(v, j)) <= v.row[j].total
    BY <1>4 DEF TotalCounts, LinkStates
  <2>2. CASE \A e \in Children : PhaseOf(e) = j /\ w.child[e] # "none" => v.child[e] # "none"
    BY <1>1, <1>4, <2>1, <2>2, Compared
  <2>3. ASSUME NEW e \in Children, PhaseOf(e) = j, w.child[e] # "none", v.child[e] = "none"
        PROVE  Cardinality(PlannedIn(w, j)) <= w.row[j].total
    <3>1. TaskPlans(v, w, j)
      BY <2>3, PlannedFall
    <3>2. PICK D \in SUBSET Children :
            /\ \A d \in D : PhaseOf(d) = j
            /\ w.child = [d \in Children |-> IF d \in D THEN "todo" ELSE v.child[d]]
            /\ w.row = [v.row EXCEPT ![j] = Dispatched(v.row[j], Cardinality(D))]
      BY <3>1 DEF TaskPlans
    <3>3. \A d \in Children : PhaseOf(d) = j => v.child[d] = "none"
      BY <3>1 DEF TaskPlans, Shape, ChildrenOfRuns
    <3>4. PlannedIn(w, j) = D
      BY <3>2, <3>3 DEF PlannedIn
    <3>5. w.row[j].total = Cardinality(D)
      BY <1>4, <3>2 DEF Dispatched, LinkStates
    <3> QED
      BY <1>1, <3>4, <3>5
  <2> QED
    BY <2>2, <2>3
<1> QED
  BY <1>2, <1>3, <1>4, TotalsMove

\* A job can be claimed only when every child of its phase is past its count.
LEMMA ClaimableIsQuiet ==
  ASSUME NEW v \in LinkStates, CurrentBounded(v), TotalCounts(v), NEW j \in Phases,
         Claimable(v.row[j]), NEW e \in Children, PhaseOf(e) = j
  PROVE  v.child[e] \in Settled
<1>1. Cardinality(PlannedIn(v, j)) <= Cardinality(PassedIn(v, j))
  <2>1. /\ v.row[j].total \in Nat /\ v.row[j].current \in Nat
        /\ v.row[j].current >= v.row[j].total
        /\ Cardinality(PlannedIn(v, j)) <= v.row[j].total
        /\ v.row[j].current <= Cardinality(PassedIn(v, j))
    BY DEF Claimable, CurrentBounded, TotalCounts, LinkStates
  <2> QED
    BY <2>1, Compared
<1>2. PassedIn(v, j) \subseteq PlannedIn(v, j) /\ PlannedIn(v, j) \in SUBSET Children
  BY DEF PassedIn, PlannedIn
<1>3. PassedIn(v, j) = PlannedIn(v, j)
  <2>1. IsFiniteSet(PlannedIn(v, j))
    BY <1>2, SomeChildren
  <2>2. /\ Cardinality(PassedIn(v, j)) <= Cardinality(PlannedIn(v, j))
        /\ Cardinality(PassedIn(v, j)) = Cardinality(PlannedIn(v, j)) => PassedIn(v, j) = PlannedIn(v, j)
    BY <1>2, <2>1, FS_Subset
  <2> QED
    BY <1>1, <2>2, Compared
<1> QED
  BY <1>3 DEF PassedIn, PlannedIn, Settled

LEMMA QuietKept ==
  ASSUME NEW v \in LinkStates, Shape(v), CurrentBounded(v), TotalCounts(v), Quiet(v),
         NEW w, LinkStep(v, w)
  PROVE  Quiet(w)
<1> USE PhaseTyped DEF LinkStates, Phases, SameChild, SameFin
<1> SUFFICES ASSUME NEW e \in Children, w.fin[PhaseOf(e)] # "none"
             PROVE  w.child[e] \in Settled
  BY DEF Quiet
<1>a. v.fin[PhaseOf(e)] # "none" => v.child[e] \in Settled
  BY DEF Quiet
<1> USE DEF Settled
<1>1. CASE w = v \/ Requested(v, w)
  BY <1>a, <1>1 DEF Requested
<1>2. ASSUME NEW i \in Phases, TaskEnds(v, w, i)
      PROVE  w.child[e] \in Settled
  <2>1. w.child = v.child /\ v.task[i] \in {"queued", "run"} /\ (i # 4 => v.task[i] = "queued")
    BY <1>2 DEF TaskEnds
  <2>2. PhaseOf(e) = i => v.child[e] = "none"
    BY <2>1 DEF Shape, ChildrenOfRuns
  <2>3. PhaseOf(e) # i => w.fin[PhaseOf(e)] = v.fin[PhaseOf(e)]
    BY <1>2 DEF TaskEnds
  <2> QED
    BY <1>a, <2>1, <2>2, <2>3
<1>3. ASSUME NEW i \in Phases, TaskPlans(v, w, i)
      PROVE  w.child[e] \in Settled
  <2>1. v.fin[i] = "none" /\ w.fin = v.fin
    BY <1>3, AtWorkIsLatest DEF TaskPlans
  <2>2. PhaseOf(e) # i => w.child[e] = v.child[e]
    BY <1>3 DEF TaskPlans
  <2> QED
    BY <1>a, <2>1, <2>2
<1>4. ASSUME NEW i \in Phases, TaskGoesOn(v, w, i)
      PROVE  w.child[e] \in Settled
  BY <1>a, <1>4 DEF TaskGoesOn
<1>5. ASSUME NEW i \in Phases,
             Chains(v, w, i) \/ Publishes(v, w, i) \/ StopsShort(v, w, i) \/ Tells(v, w, i)
      PROVE  w.child[e] \in Settled
  BY <1>a, <1>5 DEF Chains, Publishes, StopsShort, Tells
<1>6. ASSUME NEW i \in Phases, Stopped(v, w, i)
      PROVE  w.child[e] \in Settled
  BY <1>a, <1>6 DEF Stopped
<1>7. ASSUME NEW d \in Children, ChildMoves(v, w, d)
      PROVE  w.child[e] \in Settled
  BY <1>a, <1>7 DEF ChildMoves
<1>8. ASSUME NEW d \in Children, ChildCounts(v, w, d)
      PROVE  w.child[e] \in Settled
  BY <1>a, <1>8 DEF ChildCounts
<1>9. ASSUME NEW d \in Children, ChildClaims(v, w, d)
      PROVE  w.child[e] \in Settled
  <2>1. PhaseOf(e) = PhaseOf(d) => v.child[e] \in Settled
    BY <1>9, ClaimableIsQuiet DEF ChildClaims
  <2>2. PhaseOf(e) # PhaseOf(d) => w.fin[PhaseOf(e)] = v.fin[PhaseOf(e)]
    BY <1>9 DEF ChildClaims
  <2>3. w.child[e] = v.child[e] \/ w.child[e] = "end"
    BY <1>9 DEF ChildClaims
  <2> QED
    BY <1>a, <2>1, <2>2, <2>3
<1> QED
  BY <1>1, <1>2, <1>3, <1>4, <1>5, <1>6, <1>7, <1>8, <1>9 DEF LinkStep

-----------------------------------------------------------------------------
(* Cancellation *)

\* Phase i is left to the last of its children.
FansOut(v, i) == i = 1 \/ (i = 2 /\ v.scope # {})

\* Nothing follows phase i.
NothingFollows(v, i) ==
  v.fin[i] \notin {"chain", "publish"} /\ v.row[i + 1].status = "none" /\ v.task[i + 1] = "none"

\* A job that was cancelled never runs again, and neither it nor one that
\* still runs has a successor.
Halts(v) == \A i \in {1, 2} :
  /\ i \in v.cancelled => v.row[i].status \notin {"none", "running"}
  /\ FansOut(v, i) /\ (i \in v.cancelled \/ v.row[i].status = "running") => NothingFollows(v, i)

LEMMA HaltsKept ==
  ASSUME NEW v \in LinkStates, Shape(v), Halts(v), NEW w, LinkStep(v, w)
  PROVE  Halts(w)
<1> USE PhaseTyped DEF LinkStates, Phases
<1> SUFFICES ASSUME NEW j \in {1, 2}
             PROVE  /\ j \in w.cancelled => w.row[j].status \notin {"none", "running"}
                    /\ FansOut(w, j) /\ (j \in w.cancelled \/ w.row[j].status = "running")
                         => NothingFollows(w, j)
  BY DEF Halts
<1> DEFINE Goal == /\ j \in w.cancelled => w.row[j].status \notin {"none", "running"}
                   /\ FansOut(w, j) /\ (j \in w.cancelled \/ w.row[j].status = "running")
                        => NothingFollows(w, j)
<1>a. /\ j \in v.cancelled => v.row[j].status \notin {"none", "running"}
      /\ FansOut(v, j) /\ (j \in v.cancelled \/ v.row[j].status = "running") => NothingFollows(v, j)
  BY DEF Halts
<1>b. FansOut(w, j) <=> FansOut(v, j)
  BY DEF LinkStep, FansOut
<1>1. CASE w = v
  BY <1>a, <1>1
<1>2. CASE Requested(v, w)
  <2>1. /\ \A i \in Phases : v.fin[i] = "none" /\ v.task[i] = "none"
        /\ \A i \in 2..4 : v.row[i].status = "none"
    BY <1>2 DEF Requested, Shape, Latest, Once
  <2>2. w.cancelled = v.cancelled /\ w.fin = v.fin
    BY <1>2 DEF Requested, SameFin
  <2>3. \A i \in 2..4 : w.row[i] = v.row[i] /\ w.task[i] = v.task[i]
    BY <1>2 DEF Requested
  <2>4. 1 \notin v.cancelled
    BY <1>2 DEF Halts, Requested
  <2>5. NothingFollows(w, j)
    BY <2>1, <2>2, <2>3 DEF NothingFollows
  <2>6. j # 1 => w.row[j] = v.row[j]
    BY <2>3
  <2> QED
    BY <1>a, <2>2, <2>4, <2>5, <2>6
<1>3. ASSUME NEW i \in Phases, TaskEnds(v, w, i)
      PROVE  Goal
  <2>1. v.begun = i /\ v.fin[i] = "none"
    BY <1>3, AtWorkIsLatest DEF TaskEnds
  <2>2. \A k \in Phases : k > i => v.task[k] = "none" /\ v.fin[k] = "none"
    BY <2>1 DEF Shape, Latest
  <2>3. w.cancelled = v.cancelled /\ \A k \in Phases \ {i} : w.row[k] = v.row[k] /\ w.fin[k] = v.fin[k]
                                                           /\ w.task[k] = v.task[k]
    BY <1>3 DEF TaskEnds
  <2>4. /\ w.row[i].status = "none" <=> v.row[i].status = "none"
        /\ w.row[i].status = "running" => v.row[i].status = "running"
    BY <1>3 DEF TaskEnds, Ended
  <2>5. FansOut(v, i) => w.fin[i] \notin {"chain", "publish"}
    BY <1>3, <2>1 DEF TaskEnds, FansOut
  <2>6. j = i /\ FansOut(v, j) /\ (j \in v.cancelled \/ v.row[j].status = "running") => NothingFollows(w, j)
    BY <1>a, <2>3, <2>5 DEF NothingFollows
  <2>7. j + 1 = i => v.task[j + 1] # "none"
    BY <1>3 DEF TaskEnds
  <2>8. j # i /\ FansOut(v, j) /\ (j \in v.cancelled \/ v.row[j].status = "running") => NothingFollows(w, j)
    BY <1>a, <2>3, <2>7 DEF NothingFollows
  <2> QED
    BY <1>a, <1>b, <2>3, <2>4, <2>6, <2>8
<1>4. ASSUME NEW i \in Phases, TaskPlans(v, w, i)
      PROVE  Goal
  <2>1. w.cancelled = v.cancelled /\ w.fin = v.fin /\ v.task[i] = "queued"
        /\ \A k \in Phases \ {i} : w.row[k] = v.row[k] /\ w.task[k] = v.task[k]
    BY <1>4 DEF TaskPlans, SameFin
  <2>2. w.row[i].status = v.row[i].status
    <3>1. PICK n : w.row = v.row \/ w.row = [v.row EXCEPT ![i] = Dispatched(v.row[i], n)]
      BY <1>4 DEF TaskPlans
    <3>2. Dispatched(v.row[i], n).status = v.row[i].status
      BY DEF Dispatched
    <3> QED
      BY <3>1, <3>2
  <2>3. NothingFollows(v, j) => NothingFollows(w, j)
    BY <2>1 DEF NothingFollows
  <2> QED
    BY <1>a, <1>b, <2>1, <2>2, <2>3
<1>5. ASSUME NEW i \in Phases, TaskGoesOn(v, w, i)
      PROVE  Goal
  <2>1. /\ w.cancelled = v.cancelled /\ w.fin = v.fin /\ v.task[i] # "none" /\ w.row = v.row
        /\ \A k \in Phases \ {i} : w.task[k] = v.task[k]
    BY <1>5 DEF TaskGoesOn, SameFin, SameRow
  <2>2. NothingFollows(v, j) => NothingFollows(w, j)
    BY <2>1 DEF NothingFollows
  <2> QED
    BY <1>a, <1>b, <2>1, <2>2
<1>6. ASSUME NEW i \in Phases, Chains(v, w, i)
      PROVE  Goal
  <2>1. i \in 1..3 /\ v.fin[i] = "chain" /\ w.fin = [v.fin EXCEPT ![i] = "publish"]
        /\ v.begun = i /\ w.cancelled = v.cancelled /\ w.task = v.task
    BY <1>6, AtWorkIsLatest DEF Chains, SameTask
  <2>2. \A k \in Phases : k # i + 1 => w.row[k] = v.row[k]
    BY <1>6 DEF Chains
  <2>3. v.row[i + 1].status = "none"
    BY <2>1 DEF Shape, Once
  <2>4. \A k \in Phases : k > i => v.task[k] = "none" /\ v.fin[k] = "none"
    BY <2>1 DEF Shape, Latest
  <2>5. j = i => Goal
    BY <1>a, <1>b, <2>1, <2>2 DEF NothingFollows
  <2>6. CASE j = i + 1
    <3>1. j \notin w.cancelled
      BY <1>a, <2>1, <2>3, <2>6
    <3>2. v.row[j + 1].status = "none"
      BY <2>1, <2>4, <2>6 DEF Shape, Once
    <3>3. NothingFollows(w, j)
      BY <2>1, <2>2, <2>4, <2>6, <3>2 DEF NothingFollows
    <3> QED
      BY <3>1, <3>3
  <2>7. CASE j # i /\ j # i + 1
    <3>1. NothingFollows(v, j) => NothingFollows(w, j)
      <4>1. CASE j = i - 1
        <5>1. v.begun = i /\ i \in Phases
          BY <2>1
        <5>2. v.fin[i] # "none" /\ v.fin[i] = "chain"
          BY <2>1
        <5>3. w.row[j + 1] = v.row[j + 1]
          BY <2>2, <4>1
        <5> QED
          BY <2>1, <4>1, <5>3 DEF NothingFollows
      <4>2. CASE j # i - 1
        BY <2>1, <2>2, <2>7, <4>2 DEF NothingFollows
      <4> QED
        BY <4>1, <4>2
    <3> QED
      BY <1>a, <1>b, <2>1, <2>2, <2>7, <3>1
  <2> QED
    BY <2>5, <2>6, <2>7
<1>7. ASSUME NEW i \in Phases, Publishes(v, w, i)
      PROVE  Goal
  <2>1. /\ w.cancelled = v.cancelled /\ w.row = v.row /\ i \in 1..3 /\ v.fin[i] = "publish"
        /\ w.fin = [v.fin EXCEPT ![i] = "end"] /\ w.task = [v.task EXCEPT ![i + 1] = "queued"]
    BY <1>7 DEF Publishes, SameRow
  <2>2. NothingFollows(v, j) => j # i
    BY <2>1 DEF NothingFollows
  <2>3. NothingFollows(v, j) => NothingFollows(w, j)
    BY <2>1, <2>2 DEF NothingFollows
  <2> QED
    BY <1>a, <1>b, <2>1, <2>3
<1>8. ASSUME NEW i \in Phases, StopsShort(v, w, i) \/ Tells(v, w, i)
      PROVE  Goal
  <2>1. /\ w.cancelled = v.cancelled /\ w.row = v.row /\ w.task = v.task
        /\ \E x \in {"tell", "lost", "end"} : w.fin = [v.fin EXCEPT ![i] = x]
    BY <1>8 DEF StopsShort, Tells, SameRow, SameTask
  <2>2. NothingFollows(v, j) => NothingFollows(w, j)
    BY <2>1 DEF NothingFollows
  <2> QED
    BY <1>a, <1>b, <2>1, <2>2
<1>9. ASSUME NEW i \in Phases, Stopped(v, w, i)
      PROVE  Goal
  <2>1. w.fin = v.fin /\ w.task = v.task /\ \A k \in Phases \ {i} : w.row[k] = v.row[k]
    BY <1>9 DEF Stopped, SameTask, SameFin
  <2>2. w.row[i].status = "none" <=> v.row[i].status = "none"
    BY <1>9 DEF Stopped, Ended
  <2>3. NothingFollows(v, j) => NothingFollows(w, j)
    BY <2>1, <2>2 DEF NothingFollows
  <2>4. CASE j # i
    <3>1. w.row[j] = v.row[j] /\ (j \in w.cancelled <=> j \in v.cancelled)
      BY <1>9, <2>1, <2>4 DEF Stopped
    <3> QED
      BY <1>a, <1>b, <2>3, <3>1
  <2>5. CASE j = i
    <3>1. CASE /\ v.row[j].status = "running" /\ w.row[j].status = "cancelled"
      BY <1>a, <1>b, <2>3, <3>1
    <3>2. CASE w.row[j] = Ended(v.row[j], "failed") /\ w.cancelled = v.cancelled
      BY <1>a, <1>b, <2>3, <3>2 DEF Ended
    <3> QED
      BY <1>9, <2>5, <3>1, <3>2 DEF Stopped
  <2> QED
    BY <2>4, <2>5
<1>10. ASSUME NEW e \in Children, ChildMoves(v, w, e) \/ ChildCounts(v, w, e)
       PROVE  Goal
  <2>1. /\ w.cancelled = v.cancelled /\ w.fin = v.fin /\ w.task = v.task
        /\ \A k \in Phases : w.row[k].status = v.row[k].status
    BY <1>10 DEF ChildMoves, ChildCounts, SameRow, SameTask, SameFin
  <2>2. NothingFollows(v, j) => NothingFollows(w, j)
    BY <2>1 DEF NothingFollows
  <2> QED
    BY <1>a, <1>b, <2>1, <2>2
<1>11. ASSUME NEW e \in Children, ChildClaims(v, w, e)
       PROVE  Goal
  <2>1. PICK i \in {1, 2} : i = PhaseOf(e)
    OBVIOUS
  <2>2. /\ w.cancelled = v.cancelled /\ w.task = v.task /\ v.row[i].status = "running"
        /\ w.fin = [v.fin EXCEPT ![i] = "chain"] /\ w.row[i].status = "completed"
        /\ \A k \in Phases \ {i} : w.row[k] = v.row[k]
    BY <1>11, <2>1 DEF ChildClaims, SameTask, Claimable, Ended
  <2>3. i \notin w.cancelled
    BY <2>2 DEF Halts
  <2>4. CASE j = i
    BY <2>2, <2>3, <2>4
  <2>5. CASE j # i
    <3>1. NothingFollows(v, j) => NothingFollows(w, j)
      BY <2>2, <2>5 DEF NothingFollows
    <3> QED
      BY <1>a, <1>b, <2>2, <2>5, <3>1
  <2> QED
    BY <2>4, <2>5
<1> QED
  BY <1>1, <1>2, <1>3, <1>4, <1>5, <1>6, <1>7, <1>8, <1>9, <1>10, <1>11 DEF LinkStep

-----------------------------------------------------------------------------
(* The maps *)

\* A process that holds maps has a child between its read and its writes, no
\* two processes the same one; and no child is of a base its link lacks.
HoldInv ==
  /\ \A p \in Procs : hold[p] # NoHold => child[hold[p].link][hold[p].kb] = "write"
  /\ \A p, q \in Procs : p # q /\ hold[p] # NoHold /\ hold[q] # NoHold =>
       hold[p].link # hold[q].link \/ hold[p].kb # hold[q].kb
  /\ \A l \in AllLinks : \A k \in KBs : child[l][k] # "none" => k \in scope[l]

\* What a process read of the maps it has still to write is what they are, and
\* what was saved is in them, and in what doc_extract took from them.
MapInv ==
  /\ \A p \in Procs : hold[p] # NoHold => \A m \in hold[p].todo : hold[p].snap[m] = map[m]
  /\ \A l \in AllLinks : saved[l] \subseteq map[l] \cap scope[l]
  /\ \A l \in Links : plan[l] # {} =>
       saved[l] \subseteq plan[l] /\ task[l][4] \notin {"none", "queued"}

LinksInv == \A l \in Links : Shape(At(l)) /\ CurrentBounded(At(l)) /\ Halts(At(l))

\* A chain, whatever fails.
SyncInv == TypeOK /\ HoldInv /\ LinksInv

\* With the right totals.
TotalInv == \A l \in Links : TotalCounts(At(l)) /\ Quiet(At(l))

\* A step is that of one link, or that of the child of a knowledge base.
LEMMA OneLink ==
  ASSUME SyncInv, [Next]_vars
  PROVE  \/ \E l \in Links : StepOf(l)
         \/ \E l \in AllLinks, k \in KBs, p \in Procs : Match(p, l, k)
         \/ \E p \in Procs : Save(p)
         \/ \E l \in Links, c \in Children : ChildCrash(l, c)
         \/ UNCHANGED vars
<1>1. TypeOK /\ \A l \in Links : fin[l][DocExtract] # "publish"
  BY DEF SyncInv, LinksInv, Shape, Once, At, DocExtract
<1>2. ASSUME NEW l \in AllLinks, NEW k \in KBs, Matching(l, k)
      PROVE  \E p \in Procs : Match(p, l, k) \/ Save(p)
  BY <1>2 DEF Matching
<1>3. ASSUME NEW l \in Links, Request(l)
      PROVE  StepOf(l)
  BY <1>1, <1>3, RequestStep
<1>4. ASSUME NEW l \in Links, SyncStep(l), ~ \E k \in KBs : Matching(l, k)
      PROVE  StepOf(l)
  <2>1. CASE PlanNothing(l) \/ MatchNothing(l) \/ DeriveFails(l) \/ DeriveDone(l) \/ DocNothing(l) \/ DocEnd(l)
    BY <1>1, <2>1, EndersStep
  <2>2. CASE PlanParts(l) \/ PlanMatch(l)
    BY <1>1, <2>2, PlansStep
  <2>3. CASE \/ \E i \in {GlossarySync, KbMatch}, c \in Children : PublishChild(l, i, c)
             \/ DocPlan(l)
    BY <1>1, <2>3, TasksStep
  <2>4. CASE \E c \in Children : Count(l, c) \/ Claim(l, c)
    BY <1>1, <2>4, ChildrenStep
  <2>5. CASE \E i \in Phases : Chain(l, i) \/ PublishPhase(l, i) \/ Tell(l, i)
    BY <1>1, <2>5, FinalizerStep
  <2> QED
    BY <1>4, <2>1, <2>2, <2>3, <2>4, <2>5 DEF SyncStep
<1>5. ASSUME NEW l \in Links, EnvStep(l), ~ \E c \in Children : ChildCrash(l, c)
      PROVE  StepOf(l)
  <2>1. CASE RejectSync(l) \/ DocRejected(l)
    BY <1>1, <2>1, EndersStep
  <2>2. ASSUME NEW i \in Phases, Cancel(l, i) \/ WatchdogRead(l, i) \/ WatchdogCommit(l, i)
        PROVE  StepOf(l)
    BY <1>1, <2>2, StopStep
  <2>3. ASSUME NEW i \in Phases, TaskCrash(l, i)
        PROVE  StepOf(l)
    BY <1>1, <2>3, TasksStep
  <2>4. ASSUME NEW i \in Phases, FinalizerCrash(l, i)
        PROVE  StepOf(l)
    BY <1>1, <2>4, FinalizerStep
  <2> QED
    BY <1>5, <2>1, <2>2, <2>3, <2>4 DEF EnvStep
<1>6. Links \subseteq AllLinks /\ Others \subseteq AllLinks
  BY DEF AllLinks
<1> QED
  BY <1>2, <1>3, <1>4, <1>5, <1>6 DEF Next

LEMMA SyncStepKinds ==
  ASSUME SyncInv, [Next]_vars
  PROVE  \A m \in Links : LinkStep(At(m), At(m)')
<1>1. TypeOK /\ HoldInv
  BY DEF SyncInv
<1>2. ASSUME NEW l \in Links, StepOf(l)
      PROVE  \A m \in Links : LinkStep(At(m), At(m)')
  <2>1. \A m \in Links \ {l} : LinkStep(At(m), At(m)')
    BY <1>2 DEF StepOf, LinkStep
  <2> QED
    BY <1>2, <2>1 DEF StepOf
<1>3. ASSUME NEW p \in Procs, Save(p)
      PROVE  \A m \in Links : LinkStep(At(m), At(m)')
  <2>1. hold[p] # NoHold => child[hold[p].link][hold[p].kb] = "write"
    BY <1>1 DEF HoldInv
  <2> QED
    BY <1>1, <1>3, <2>1, SaveStep
<1>4. CASE UNCHANGED vars
  <2>1. \A m \in Links : At(m)' = At(m)
    BY <1>4 DEF vars, jobs, tasks, maps, At
  <2> QED
    BY <2>1 DEF LinkStep
<1> QED
  BY <1>1, <1>2, <1>3, <1>4, OneLink, MatchingStep, ChildCrashStep

-----------------------------------------------------------------------------
(* Types *)

LEMMA TotalsTyped ==
  /\ MaxTotal \in Nat /\ 1 \in 0..MaxTotal
  /\ \A D \in SUBSET Children : Cardinality(D) \in 0..MaxTotal /\ Cardinality(D) + 1 \in 0..MaxTotal
<1>1. Cardinality(Parts) \in Nat /\ Cardinality(KBs) \in Nat
  BY FiniteAssumption, FS_CardinalityType
<1> QED
  BY <1>1, SomeChildren DEF MaxTotal

LEMMA RowsTyped ==
  ASSUME NEW r \in Rows
  PROVE  /\ NoRow \in Rows
         /\ \A s \in {"completed", "failed"} : Ended(r, s) \in Rows
         /\ [r EXCEPT !.status = "cancelled"] \in Rows
         /\ \A n \in 0..MaxTotal : Started(n) \in Rows /\ Dispatched(r, n) \in Rows
<1>1. NoRow \in Rows
  BY TotalsTyped DEF Rows, NoRow
<1>2. \A s \in {"completed", "failed"} : Ended(r, s) \in Rows
  BY DEF Rows, Ended
<1>3. [r EXCEPT !.status = "cancelled"] \in Rows
  BY DEF Rows
<1>4. \A n \in 0..MaxTotal : Started(n) \in Rows
  BY TotalsTyped DEF Rows, Started
<1>5. ASSUME NEW n \in 0..MaxTotal
      PROVE  Dispatched(r, n) \in Rows
  <2>1. [r EXCEPT !.current = 0] \in Rows
    BY TotalsTyped DEF Rows
  <2>2. [[r EXCEPT !.current = 0] EXCEPT !.total = n] \in Rows
    BY <2>1 DEF Rows
  <2>3. Dispatched(r, n) \in {r, [[r EXCEPT !.current = 0] EXCEPT !.total = n]}
    BY DEF Dispatched
  <2> QED
    BY <2>2, <2>3
<1> QED
  BY <1>1, <1>2, <1>3, <1>4, <1>5

LEMMA SetRowTyped ==
  ASSUME TypeOK, NEW l \in Links, NEW i \in Phases, NEW r \in Rows, SetRow(l, i, r)
  PROVE  row' \in [Links -> [Phases -> Rows]]
BY DEF TypeOK, SetRow

LEMMA SetTaskTyped ==
  ASSUME TypeOK, NEW l \in Links, NEW i \in Phases,
         NEW x \in {"none", "queued", "run", "end", "lost"}, SetTask(l, i, x)
  PROVE  task' \in [Links -> [Phases -> {"none", "queued", "run", "end", "lost"}]]
BY DEF TypeOK, SetTask

LEMMA SetFinTyped ==
  ASSUME TypeOK, NEW l \in Links, NEW i \in Phases,
         NEW x \in {"none", "chain", "publish", "tell", "end", "lost"}, SetFin(l, i, x)
  PROVE  fin' \in [Links -> [Phases -> {"none", "chain", "publish", "tell", "end", "lost"}]]
BY DEF TypeOK, SetFin

LEMMA SetChildTyped ==
  ASSUME TypeOK, NEW l \in AllLinks, NEW e \in Children,
         NEW x \in {"none", "todo", "queued", "write", "count", "claim", "end", "lost"},
         SetChild(l, e, x)
  PROVE  child' \in [AllLinks -> [Children ->
           {"none", "todo", "queued", "write", "count", "claim", "end", "lost"}]]
BY DEF TypeOK, SetChild

LEMMA FaultsTyped ==
  ASSUME TypeOK, NoFault \/ \E kind \in EnvEvents : Fault(kind)
  PROVE  faults' \in 0..MaxFaults
BY FaultsAssumption DEF TypeOK, NoFault, Fault

LEMMA PhasesTyped == /\ GlossarySync \in Phases /\ KbMatch \in Phases /\ DbDerivation \in Phases
                     /\ DocExtract \in Phases
                     /\ \A e \in Children : PhaseOf(e) \in Phases
                     /\ \A l \in Links : l \in AllLinks
                     /\ \A k \in KBs : k \in Children
BY PhaseTyped
DEF GlossarySync, KbMatch, DbDerivation, DocExtract, Phases, AllLinks, Children

LEMMA EndersTyped ==
  ASSUME TypeOK, NEW l \in Links,
         \/ RejectSync(l) \/ PlanNothing(l) \/ MatchNothing(l)
         \/ DeriveFails(l) \/ DeriveDone(l)
         \/ DocRejected(l) \/ DocNothing(l) \/ DocEnd(l)
  PROVE  TypeOK'
<1> DEFINE Typed(i) ==
      /\ SetTask(l, i, "end")
      /\ UNCHANGED row \/ \E s \in {"completed", "failed"} : SetRow(l, i, Ended(row[l][i], s))
      /\ UNCHANGED fin \/ \E x \in {"none", "tell", "chain"} : SetFin(l, i, x)
<1>1. /\ \E i \in Phases : Typed(i)
      /\ UNCHANGED <<scope, chains, suspect, cancelled, child, begun, maps, told>>
      /\ NoFault \/ \E kind \in EnvEvents : Fault(kind)
  <2> USE DEF Phases, EnvEvents
  <2>1. CASE RejectSync(l)
    <3> Typed(1)
      BY <2>1 DEF RejectSync, GlossarySync
    <3> QED
      BY <2>1 DEF RejectSync
  <2>2. CASE PlanNothing(l)
    <3> Typed(1)
      BY <2>2 DEF PlanNothing, GlossarySync
    <3> QED
      BY <2>2 DEF PlanNothing
  <2>3. CASE MatchNothing(l)
    <3> Typed(2)
      BY <2>3 DEF MatchNothing, KbMatch
    <3> QED
      BY <2>3 DEF MatchNothing
  <2>4. CASE DeriveFails(l)
    <3> Typed(3)
      BY <2>4 DEF DeriveFails, DbDerivation
    <3> QED
      BY <2>4 DEF DeriveFails
  <2>5. CASE DeriveDone(l)
    <3> Typed(3)
      BY <2>5 DEF DeriveDone, DbDerivation
    <3> QED
      BY <2>5 DEF DeriveDone
  <2>6. CASE DocRejected(l)
    <3> Typed(4)
      BY <2>6 DEF DocRejected, DocExtract
    <3> QED
      BY <2>6 DEF DocRejected
  <2>7. CASE DocNothing(l)
    <3> Typed(4)
      BY <2>7 DEF DocNothing, DocExtract
    <3> QED
      BY <2>7 DEF DocNothing
  <2>8. CASE DocEnd(l)
    <3> Typed(4)
      BY <2>8 DEF DocEnd, DocExtract
    <3> QED
      BY <2>8 DEF DocEnd, NoFault
  <2> QED
    BY <2>1, <2>2, <2>3, <2>4, <2>5, <2>6, <2>7, <2>8
<1>2. PICK i \in Phases : Typed(i)
  BY <1>1
<1>3. row[l][i] \in Rows
  BY DEF TypeOK
<1>4. row' \in [Links -> [Phases -> Rows]]
  BY <1>2, <1>3, RowsTyped, SetRowTyped DEF TypeOK
<1>5. task' \in [Links -> [Phases -> {"none", "queued", "run", "end", "lost"}]]
  BY <1>2, SetTaskTyped
<1>6. fin' \in [Links -> [Phases -> {"none", "chain", "publish", "tell", "end", "lost"}]]
  BY <1>2, SetFinTyped DEF TypeOK
<1>7. faults' \in 0..MaxFaults
  BY <1>1, FaultsTyped
<1> QED
  BY <1>1, <1>4, <1>5, <1>6, <1>7 DEF TypeOK, maps

LEMMA RequestTyped ==
  ASSUME TypeOK, NEW l \in Links, Request(l)
  PROVE  TypeOK'
<1>1. row' \in [Links -> [Phases -> Rows]]
  <2>1. row[l][GlossarySync] \in Rows
    BY PhasesTyped DEF TypeOK
  <2> QED
    BY <2>1, PhasesTyped, RowsTyped, SetRowTyped, TotalsTyped DEF Request, TypeOK
<1>2. task' \in [Links -> [Phases -> {"none", "queued", "run", "end", "lost"}]]
  BY PhasesTyped, SetTaskTyped DEF Request, TypeOK
<1>3. begun' \in [Links -> 0..4]
  BY DEF Request, TypeOK
<1>4. faults' \in 0..MaxFaults
  BY FaultsTyped DEF Request, EnvEvents
<1> QED
  BY <1>1, <1>2, <1>3, <1>4 DEF Request, TypeOK, maps

LEMMA PlansTyped ==
  ASSUME TypeOK, NEW l \in Links, PlanParts(l) \/ PlanMatch(l)
  PROVE  TypeOK'
<1>1. CASE PlanParts(l)
  <2>1. PICK D \in SUBSET Parts :
          /\ child' = [child EXCEPT ![l] = [c \in Children |->
                         IF c \in D THEN "todo" ELSE child[l][c]]]
          /\ \/ UNCHANGED row
             \/ SetRow(l, GlossarySync, Dispatched(row[l][GlossarySync], Cardinality(D)))
          /\ UNCHANGED chains \/ chains' = [chains EXCEPT ![l] = FALSE]
          /\ NoFault \/ \E kind \in EnvEvents : Fault(kind)
    BY <1>1 DEF PlanParts, EnvEvents
  <2>2. row' \in [Links -> [Phases -> Rows]]
    <3>1. row[l][GlossarySync] \in Rows
      BY PhasesTyped DEF TypeOK
    <3>2. Cardinality(D) \in 0..MaxTotal
      BY TotalsTyped DEF Children
    <3> QED
      BY <2>1, <3>1, <3>2, PhasesTyped, RowsTyped, SetRowTyped DEF TypeOK
  <2>3. task' \in [Links -> [Phases -> {"none", "queued", "run", "end", "lost"}]]
    BY <1>1, PhasesTyped, SetTaskTyped DEF PlanParts
  <2>4. child' \in [AllLinks -> [Children ->
           {"none", "todo", "queued", "write", "count", "claim", "end", "lost"}]]
    BY <2>1, PhasesTyped DEF TypeOK
  <2>5. chains' \in [Links -> BOOLEAN]
    BY <2>1 DEF TypeOK
  <2>6. faults' \in 0..MaxFaults
    BY <2>1, FaultsTyped
  <2> QED
    BY <1>1, <2>2, <2>3, <2>4, <2>5, <2>6 DEF PlanParts, TypeOK, maps
<1>2. CASE PlanMatch(l)
  <2>1. /\ child' = [child EXCEPT ![l] = [c \in Children |->
                       IF c \in scope[l] THEN "todo" ELSE child[l][c]]]
        /\ \/ UNCHANGED row
           \/ SetRow(l, KbMatch, Dispatched(row[l][KbMatch], Cardinality(scope[l])))
        /\ NoFault \/ \E kind \in EnvEvents : Fault(kind)
    BY <1>2 DEF PlanMatch, EnvEvents
  <2>2. row' \in [Links -> [Phases -> Rows]]
    <3>1. row[l][KbMatch] \in Rows /\ scope[l] \in SUBSET Children
      BY PhasesTyped DEF TypeOK
    <3>2. Cardinality(scope[l]) \in 0..MaxTotal
      BY <3>1, TotalsTyped
    <3> QED
      BY <2>1, <3>1, <3>2, PhasesTyped, RowsTyped, SetRowTyped DEF TypeOK
  <2>3. task' \in [Links -> [Phases -> {"none", "queued", "run", "end", "lost"}]]
    BY <1>2, PhasesTyped, SetTaskTyped DEF PlanMatch
  <2>4. child' \in [AllLinks -> [Children ->
           {"none", "todo", "queued", "write", "count", "claim", "end", "lost"}]]
    BY <2>1, PhasesTyped DEF TypeOK
  <2>5. faults' \in 0..MaxFaults
    BY <2>1, FaultsTyped
  <2> QED
    BY <1>2, <2>2, <2>3, <2>4, <2>5 DEF PlanMatch, TypeOK, maps
<1> QED
  BY <1>1, <1>2

LEMMA TasksTyped ==
  ASSUME TypeOK, NEW l \in Links,
         \/ \E i \in {GlossarySync, KbMatch}, c \in Children : PublishChild(l, i, c)
         \/ DocPlan(l)
         \/ \E i \in Phases : TaskCrash(l, i)
  PROVE  TypeOK'
<1> USE PhasesTyped
<1>1. CASE DocPlan(l)
  <2>1. task' \in [Links -> [Phases -> {"none", "queued", "run", "end", "lost"}]]
    BY <1>1, SetTaskTyped DEF DocPlan
  <2>2. plan' \in [Links -> SUBSET KBs]
    BY <1>1 DEF DocPlan, TypeOK
  <2> QED
    BY <1>1, <2>1, <2>2 DEF DocPlan, TypeOK, jobs
<1> DEFINE Left == [child EXCEPT ![l] = [d \in Children |->
                      IF child[l][d] = "todo" THEN "none" ELSE child[l][d]]]
<1>2. Left \in [AllLinks -> [Children ->
        {"none", "todo", "queued", "write", "count", "claim", "end", "lost"}]]
  BY DEF TypeOK
<1>3. ASSUME NEW i \in Phases, TaskCrash(l, i)
      PROVE  TypeOK'
  <2>1. task' \in [Links -> [Phases -> {"none", "queued", "run", "end", "lost"}]]
    BY <1>3, SetTaskTyped DEF TaskCrash
  <2>2. faults' \in 0..MaxFaults
    BY <1>3, FaultsTyped DEF TaskCrash, EnvEvents
  <2> QED
    BY <1>2, <1>3, <2>1, <2>2 DEF TaskCrash, TypeOK, jobs, maps
<1>4. ASSUME NEW i \in {GlossarySync, KbMatch}, NEW c \in Children, PublishChild(l, i, c)
      PROVE  TypeOK'
  <2>1. task' \in [Links -> [Phases -> {"none", "queued", "run", "end", "lost"}]]
    BY <1>4, SetTaskTyped DEF PublishChild
  <2>2. faults' \in 0..MaxFaults
    BY <1>4, FaultsTyped DEF PublishChild, EnvEvents
  <2>3. child' \in [AllLinks -> [Children ->
           {"none", "todo", "queued", "write", "count", "claim", "end", "lost"}]]
    BY <1>2, <1>4, SetChildTyped DEF PublishChild
  <2> QED
    BY <1>4, <2>1, <2>2, <2>3 DEF PublishChild, TypeOK, jobs, maps
<1> QED
  BY <1>1, <1>3, <1>4

LEMMA ChildrenTyped ==
  ASSUME TypeOK, NEW l \in Links, CurrentBounded(At(l)), NEW c \in Children,
         Count(l, c) \/ Claim(l, c)
  PROVE  TypeOK'
<1> USE PhasesTyped
<1> DEFINE i == PhaseOf(c)
<1>1. i \in Phases /\ row[l][i] \in Rows
  BY DEF TypeOK
<1> HIDE DEF i
<1>2. CASE Count(l, c)
  <2>1. \E x \in {"claim", "end"} : SetChild(l, c, x)
    BY <1>2 DEF Count
  <2>2. UNCHANGED row \/ SetRow(l, i, [row[l][i] EXCEPT !.current = @ + 1])
    BY <1>2 DEF Count, i
  <2>3. [row[l][i] EXCEPT !.current = @ + 1] \in Rows
    <3>1. row[l][i].current <= Cardinality(PassedIn(At(l), i))
      BY <1>1 DEF CurrentBounded, At
    <3>2. PassedIn(At(l), i) \in SUBSET Children
      BY DEF PassedIn
    <3>3. Cardinality(PassedIn(At(l), i)) + 1 \in 0..MaxTotal
      BY <3>2, TotalsTyped
    <3>4. row[l][i].current \in Nat /\ Cardinality(PassedIn(At(l), i)) \in Nat
      BY <1>1, <3>2, SomeChildren DEF Rows
    <3>5. row[l][i].current + 1 \in 0..MaxTotal
      BY <3>1, <3>3, <3>4, TotalsTyped
    <3> QED
      BY <1>1, <3>5 DEF Rows
  <2>4. row' \in [Links -> [Phases -> Rows]]
    BY <1>1, <2>2, <2>3, SetRowTyped DEF TypeOK
  <2>5. child' \in [AllLinks -> [Children ->
          {"none", "todo", "queued", "write", "count", "claim", "end", "lost"}]]
    BY <2>1, SetChildTyped
  <2>6. faults' \in 0..MaxFaults
    BY <1>2, FaultsTyped DEF Count, EnvEvents
  <2> QED
    BY <1>2, <2>4, <2>5, <2>6 DEF Count, TypeOK, maps
<1>3. CASE Claim(l, c)
  <2>1. \/ UNCHANGED <<row, fin>>
        \/ SetRow(l, i, Ended(row[l][i], "completed")) /\ SetFin(l, i, "chain")
    BY <1>3 DEF Claim, i
  <2>2. row' \in [Links -> [Phases -> Rows]]
    BY <1>1, <2>1, RowsTyped, SetRowTyped DEF TypeOK
  <2>3. fin' \in [Links -> [Phases -> {"none", "chain", "publish", "tell", "end", "lost"}]]
    BY <1>1, <2>1, SetFinTyped DEF TypeOK
  <2>4. child' \in [AllLinks -> [Children ->
          {"none", "todo", "queued", "write", "count", "claim", "end", "lost"}]]
    BY <1>3, SetChildTyped DEF Claim
  <2>5. faults' \in 0..MaxFaults
    BY <1>3, FaultsTyped DEF Claim, EnvEvents
  <2> QED
    BY <1>3, <2>2, <2>3, <2>4, <2>5 DEF Claim, TypeOK, maps
<1> QED
  BY <1>2, <1>3

LEMMA MatchTyped ==
  ASSUME TypeOK, NEW l \in AllLinks, NEW k \in KBs, NEW p \in Procs, Match(p, l, k)
  PROVE  TypeOK'
<1>1. child' \in [AllLinks -> [Children ->
        {"none", "todo", "queued", "write", "count", "claim", "end", "lost"}]]
  BY PhasesTyped, SetChildTyped DEF Match
<1>2. [link |-> l, kb |-> k, snap |-> map, todo |-> {m \in AllLinks : k \in scope[m]}] \in Holds
  BY DEF TypeOK, Holds
<1>3. hold' \in [Procs -> {NoHold} \cup Holds]
  BY <1>2 DEF Match, TypeOK
<1> QED
  BY <1>1, <1>3 DEF Match, TypeOK, jobs

LEMMA SaveTyped ==
  ASSUME TypeOK, NEW p \in Procs, Save(p)
  PROVE  TypeOK'
<1> USE PhasesTyped
<1>1. hold[p] \in Holds
  BY DEF Save, TypeOK
<1>2. /\ hold[p].link \in AllLinks /\ hold[p].kb \in KBs
      /\ hold[p].snap \in [AllLinks -> SUBSET KBs] /\ hold[p].todo \subseteq AllLinks
  BY <1>1 DEF Holds
<1>3. PICK m \in hold[p].todo :
        /\ \/ /\ NoFault
              /\ map' = [map EXCEPT ![m] = Merged(hold[p].snap[m], hold[p].kb)]
              /\ saved' = IF m = hold[p].link THEN [saved EXCEPT ![m] = @ \cup {hold[p].kb}] ELSE saved
           \/ Fault("db") /\ UNCHANGED <<map, saved>>
        /\ IF hold[p].todo = {m}
             THEN hold' = [hold EXCEPT ![p] = NoHold] /\ SetChild(hold[p].link, hold[p].kb, "count")
             ELSE hold' = [hold EXCEPT ![p].todo = @ \ {m}] /\ UNCHANGED child
  BY DEF Save
<1>4. m \in AllLinks
  BY <1>2
<1>5. map' \in [AllLinks -> SUBSET KBs] /\ saved' \in [AllLinks -> SUBSET KBs]
  <2>1. Merged(hold[p].snap[m], hold[p].kb) \in SUBSET KBs
    BY <1>2, <1>4 DEF Merged
  <2>2. map' \in [AllLinks -> SUBSET KBs]
    BY <1>3, <2>1 DEF TypeOK
  <2>3. saved[m] \cup {hold[p].kb} \in SUBSET KBs
    BY <1>2, <1>4 DEF TypeOK
  <2>4. saved' = saved \/ saved' = [saved EXCEPT ![m] = saved[m] \cup {hold[p].kb}]
    BY <1>3
  <2>5. saved' \in [AllLinks -> SUBSET KBs]
    BY <2>3, <2>4 DEF TypeOK
  <2> QED
    BY <2>2, <2>5
<1>6. hold' \in [Procs -> {NoHold} \cup Holds]
  <2>1. [hold[p] EXCEPT !.todo = @ \ {m}] \in Holds
    BY <1>1, <1>2 DEF Holds
  <2>2. CASE hold' = [hold EXCEPT ![p] = NoHold]
    BY <2>2 DEF TypeOK
  <2>3. CASE hold' = [hold EXCEPT ![p].todo = @ \ {m}]
    BY <2>1, <2>3 DEF TypeOK
  <2> QED
    BY <1>3, <2>2, <2>3
<1>7. child' \in [AllLinks -> [Children ->
        {"none", "todo", "queued", "write", "count", "claim", "end", "lost"}]]
  <2>1. CASE SetChild(hold[p].link, hold[p].kb, "count")
    BY <1>2, <2>1, SetChildTyped
  <2> QED
    BY <1>3, <2>1 DEF TypeOK
<1>8. faults' \in 0..MaxFaults
  BY <1>3, FaultsTyped DEF EnvEvents
<1> QED
  BY <1>5, <1>6, <1>7, <1>8 DEF Save, TypeOK, jobs

LEMMA ChildCrashTyped ==
  ASSUME TypeOK, NEW l \in Links, NEW c \in Children, ChildCrash(l, c)
  PROVE  TypeOK'
<1>1. child' \in [AllLinks -> [Children ->
        {"none", "todo", "queued", "write", "count", "claim", "end", "lost"}]]
  BY PhasesTyped, SetChildTyped DEF ChildCrash
<1>2. hold' \in [Procs -> {NoHold} \cup Holds]
  BY DEF ChildCrash, TypeOK
<1>3. faults' \in 0..MaxFaults
  BY FaultsTyped DEF ChildCrash, EnvEvents
<1> QED
  BY <1>1, <1>2, <1>3 DEF ChildCrash, TypeOK, jobs

LEMMA FinalizerTyped ==
  ASSUME TypeOK, NEW l \in Links, Shape(At(l)), NEW i \in Phases,
         Chain(l, i) \/ PublishPhase(l, i) \/ Tell(l, i) \/ FinalizerCrash(l, i)
  PROVE  TypeOK'
<1> USE PhasesTyped
<1>a. At(l) \in LinkStates
  BY LinkTyped
<1>b. fin[l][i] \in {"chain", "publish", "tell"}
  BY DEF Chain, PublishPhase, Tell, FinalizerCrash
<1>c. begun[l] = i /\ (fin[l][i] = "publish" => i \in 1..3) /\ (fin[l][i] # "end" => told[l] = 0)
  <2>1. begun[l] = i
    BY <1>a, <1>b, AtWorkIsLatest DEF At
  <2>2. fin[l][4] # "publish"
    BY DEF Shape, Once, At
  <2>3. told[l] # 0 => fin[l][begun[l]] = "end"
    BY DEF Shape, Latest, At
  <2> QED
    BY <2>1, <2>2, <2>3 DEF Phases
<1>d. fin' \in [Links -> [Phases -> {"none", "chain", "publish", "tell", "end", "lost"}]]
  BY SetFinTyped DEF Chain, PublishPhase, Tell, FinalizerCrash
<1>1. CASE Chain(l, i)
  <2>1. row' \in [Links -> [Phases -> Rows]]
    <3>1. ASSUME i # DocExtract, SetRow(l, i + 1, Started(InitTotal(l, i + 1)))
          PROVE  row' \in [Links -> [Phases -> Rows]]
      <4>1. i + 1 \in Phases /\ row[l][i] \in Rows
        BY <3>1 DEF DocExtract, Phases, TypeOK
      <4>2. InitTotal(l, i + 1) \in 0..MaxTotal
        <5>1. scope[l] \in SUBSET Children
          BY DEF TypeOK
        <5> QED
          BY <5>1, TotalsTyped DEF InitTotal
      <4>3. Started(InitTotal(l, i + 1)) \in Rows
        BY <4>1, <4>2, RowsTyped
      <4> QED
        BY <3>1, <4>1, <4>3, SetRowTyped
    <3> QED
      BY <1>1, <3>1 DEF Chain, TypeOK
  <2>2. faults' \in 0..MaxFaults
    BY <1>1, FaultsTyped DEF Chain, EnvEvents
  <2> QED
    BY <1>1, <1>d, <2>1, <2>2 DEF Chain, TypeOK, maps
<1>2. CASE PublishPhase(l, i)
  <2>1. i \in 1..3 /\ i + 1 \in Phases
    BY <1>2, <1>c DEF PublishPhase, Phases
  <2>2. task' \in [Links -> [Phases -> {"none", "queued", "run", "end", "lost"}]]
    BY <1>2, <2>1, SetTaskTyped DEF PublishPhase, TypeOK
  <2>3. begun' \in [Links -> 0..4]
    BY <1>2, <1>c, <2>1 DEF PublishPhase, TypeOK
  <2>4. faults' \in 0..MaxFaults
    BY <1>2, FaultsTyped DEF PublishPhase, EnvEvents
  <2> QED
    BY <1>2, <1>d, <2>2, <2>3, <2>4 DEF PublishPhase, TypeOK, jobs, maps
<1>3. CASE Tell(l, i)
  <2>1. told' \in [Links -> 0..1]
    BY <1>3, <1>c DEF Tell, TypeOK
  <2> QED
    BY <1>3, <1>d, <2>1 DEF Tell, TypeOK, jobs, maps
<1>4. CASE FinalizerCrash(l, i)
  <2>1. faults' \in 0..MaxFaults
    BY <1>4, FaultsTyped DEF FinalizerCrash, EnvEvents
  <2> QED
    BY <1>4, <1>d, <2>1 DEF FinalizerCrash, TypeOK, jobs, maps
<1> QED
  BY <1>1, <1>2, <1>3, <1>4

LEMMA StopTyped ==
  ASSUME TypeOK, NEW l \in Links, NEW i \in Phases,
         Cancel(l, i) \/ WatchdogRead(l, i) \/ WatchdogCommit(l, i)
  PROVE  TypeOK'
<1>1. row[l][i] \in Rows
  BY DEF TypeOK
<1>2. row' \in [Links -> [Phases -> Rows]]
  BY <1>1, RowsTyped, SetRowTyped DEF Cancel, WatchdogRead, WatchdogCommit, TypeOK
<1>3. suspect' \subseteq Links \X Phases /\ cancelled' \subseteq Links \X Phases
  BY DEF Cancel, WatchdogRead, WatchdogCommit, TypeOK
<1>4. faults' \in 0..MaxFaults
  BY FaultsTyped DEF Cancel, WatchdogRead, WatchdogCommit, EnvEvents, NoFault
<1> QED
  BY <1>2, <1>3, <1>4 DEF Cancel, WatchdogRead, WatchdogCommit, TypeOK, tasks, maps

LEMMA TypesKept ==
  ASSUME SyncInv, [Next]_vars
  PROVE  TypeOK'
<1>1. TypeOK
  BY DEF SyncInv
<1>2. ASSUME NEW l \in AllLinks, NEW k \in KBs, Matching(l, k)
      PROVE  TypeOK'
  BY <1>1, <1>2, MatchTyped, SaveTyped DEF Matching
<1>3. ASSUME NEW l \in Links, SyncStep(l)
      PROVE  TypeOK'
  <2>1. CASE PlanNothing(l) \/ MatchNothing(l) \/ DeriveFails(l) \/ DeriveDone(l) \/ DocNothing(l) \/ DocEnd(l)
    BY <1>1, <2>1, EndersTyped
  <2>2. CASE PlanParts(l) \/ PlanMatch(l)
    BY <1>1, <2>2, PlansTyped
  <2>3. CASE \/ \E i \in {GlossarySync, KbMatch}, c \in Children : PublishChild(l, i, c)
             \/ DocPlan(l)
    BY <1>1, <2>3, TasksTyped
  <2>4. CASE \E c \in Children : Count(l, c) \/ Claim(l, c)
    BY <1>1, <2>4, ChildrenTyped DEF SyncInv, LinksInv
  <2>5. CASE \E i \in Phases : Chain(l, i) \/ PublishPhase(l, i) \/ Tell(l, i)
    BY <1>1, <2>5, FinalizerTyped DEF SyncInv, LinksInv
  <2>6. CASE \E k \in KBs : Matching(l, k)
    BY <1>2, <2>6, PhasesTyped
  <2> QED
    BY <1>3, <2>1, <2>2, <2>3, <2>4, <2>5, <2>6 DEF SyncStep
<1>4. ASSUME NEW l \in Links, EnvStep(l)
      PROVE  TypeOK'
  <2>1. CASE RejectSync(l) \/ DocRejected(l)
    BY <1>1, <2>1, EndersTyped
  <2>2. ASSUME NEW i \in Phases, Cancel(l, i) \/ WatchdogRead(l, i) \/ WatchdogCommit(l, i)
        PROVE  TypeOK'
    BY <1>1, <2>2, StopTyped
  <2>3. ASSUME NEW i \in Phases, TaskCrash(l, i)
        PROVE  TypeOK'
    BY <1>1, <2>3, TasksTyped
  <2>4. ASSUME NEW i \in Phases, FinalizerCrash(l, i)
        PROVE  TypeOK'
    BY <1>1, <2>4, FinalizerTyped DEF SyncInv, LinksInv
  <2>5. ASSUME NEW c \in Children, ChildCrash(l, c)
        PROVE  TypeOK'
    BY <1>1, <2>5, ChildCrashTyped
  <2> QED
    BY <1>4, <2>1, <2>2, <2>3, <2>4, <2>5 DEF EnvStep
<1>5. CASE UNCHANGED vars
  BY <1>1, <1>5 DEF vars, jobs, tasks, maps, TypeOK
<1>6. ASSUME NEW l \in Links, Request(l)
      PROVE  TypeOK'
  BY <1>1, <1>6, RequestTyped
<1>7. ASSUME NEW l \in Others, NEW k \in KBs, Matching(l, k)
      PROVE  TypeOK'
  BY <1>2, <1>7 DEF AllLinks
<1> QED
  BY <1>3, <1>4, <1>5, <1>6, <1>7 DEF Next

-----------------------------------------------------------------------------
(* The processes and the maps *)

\* A step of a child that holds nothing, or of a task, leaves the children
\* that write alone, and starts only those of knowledge bases of the link.
Undisturbed ==
  /\ UNCHANGED <<scope, map, hold, saved>>
  /\ \A l \in AllLinks : \A k \in KBs :
       /\ child[l][k] = "write" => child'[l][k] = "write"
       /\ child'[l][k] # "none" => child[l][k] # "none" \/ k \in scope[l]

LEMMA UndisturbedStep ==
  ASSUME TypeOK, LinksInv, [Next]_vars
  PROVE  \/ Undisturbed
         \/ \E l \in AllLinks, k \in KBs, p \in Procs : Match(p, l, k)
         \/ \E p \in Procs : Save(p)
         \/ \E l \in Links, c \in Children : ChildCrash(l, c)
<1> USE PhasesTyped DEF maps
<1>1. ASSUME UNCHANGED <<scope, child, map, hold, saved>>
      PROVE  Undisturbed
  BY <1>1 DEF Undisturbed
<1>2. ASSUME NEW l \in Links, Request(l)
      PROVE  Undisturbed
  BY <1>1, <1>2 DEF Request
<1>3. ASSUME NEW l \in Links,
             \/ RejectSync(l) \/ PlanNothing(l) \/ MatchNothing(l) \/ DeriveFails(l) \/ DeriveDone(l)
             \/ DocRejected(l) \/ DocNothing(l) \/ DocPlan(l) \/ DocEnd(l)
      PROVE  Undisturbed
  BY <1>1, <1>3
  DEF RejectSync, PlanNothing, MatchNothing, DeriveFails, DeriveDone, DocRejected,
     DocNothing, DocPlan, DocEnd
<1>4. ASSUME NEW l \in Links, NEW i \in Phases,
             \/ Chain(l, i) \/ PublishPhase(l, i) \/ Tell(l, i) \/ FinalizerCrash(l, i)
             \/ Cancel(l, i) \/ WatchdogRead(l, i) \/ WatchdogCommit(l, i)
      PROVE  Undisturbed
  BY <1>1, <1>4 DEF Chain, PublishPhase, Tell, FinalizerCrash, Cancel, WatchdogRead,
       WatchdogCommit, tasks
<1>5. ASSUME NEW l \in Links, PlanParts(l) \/ PlanMatch(l)
      PROVE  Undisturbed
  <2>1. PICK D \in SUBSET Children :
          /\ child' = [child EXCEPT ![l] = [c \in Children |->
                         IF c \in D THEN "todo" ELSE child[l][c]]]
          /\ D \cap KBs \subseteq scope[l]
          /\ \A k \in D \cap KBs : task[l][KbMatch] = "queued"
    <3>1. CASE PlanParts(l)
      BY <3>1, DisjointAssumption DEF PlanParts, Children
    <3>2. CASE PlanMatch(l)
      BY <3>2 DEF PlanMatch, TypeOK
    <3> QED
      BY <1>5, <3>1, <3>2
  <2>2. \A k \in D \cap KBs : child[l][k] = "none"
    <3>1. \A e \in Children : child[l][e] # "none" => task[l][PhaseOf(e)] # "queued"
      BY DEF LinksInv, Shape, ChildrenOfRuns, At
    <3>2. \A k \in KBs : PhaseOf(k) = KbMatch
      BY DisjointAssumption DEF PhaseOf
    <3> QED
      BY <2>1, <3>1, <3>2
  <2> QED
    BY <1>5, <2>1, <2>2 DEF Undisturbed, PlanParts, PlanMatch, TypeOK
<1>6. ASSUME NEW l \in Links, NEW c \in Children, NEW x, SetChild(l, c, x),
             child[l][c] \notin {"none", "write"}, UNCHANGED <<scope, map, hold, saved>>
      PROVE  Undisturbed
  BY <1>6 DEF Undisturbed, SetChild, TypeOK
<1>7. ASSUME NEW l \in Links, UNCHANGED <<scope, map, hold, saved>>,
             child' = [child EXCEPT ![l] = [d \in Children |->
                         IF child[l][d] = "todo" THEN "none" ELSE child[l][d]]]
      PROVE  Undisturbed
  BY <1>7 DEF Undisturbed, TypeOK
<1>8. ASSUME NEW l \in Links, NEW i \in Phases, TaskCrash(l, i)
      PROVE  Undisturbed
  BY <1>7, <1>8 DEF TaskCrash
<1>9. ASSUME NEW l \in Links, NEW i \in {GlossarySync, KbMatch}, NEW c \in Children,
             PublishChild(l, i, c)
      PROVE  Undisturbed
  BY <1>6, <1>7, <1>9 DEF PublishChild
<1>10. ASSUME NEW l \in Links, NEW c \in Children, Count(l, c) \/ Claim(l, c)
       PROVE  Undisturbed
  BY <1>6, <1>10 DEF Count, Claim
<1>11. CASE UNCHANGED vars
  BY <1>1, <1>11 DEF vars, tasks
<1>12. ASSUME NEW l \in AllLinks, NEW k \in KBs, Matching(l, k)
       PROVE  \/ \E p \in Procs : Match(p, l, k)
              \/ \E p \in Procs : Save(p)
  BY <1>12 DEF Matching
<1>13. ASSUME NEW l \in Links, SyncStep(l), ~ \E k \in KBs : Matching(l, k)
       PROVE  Undisturbed
  BY <1>3, <1>4, <1>5, <1>9, <1>10, <1>13 DEF SyncStep
<1>14. ASSUME NEW l \in Links, EnvStep(l), ~ \E c \in Children : ChildCrash(l, c)
       PROVE  Undisturbed
  BY <1>3, <1>4, <1>8, <1>14 DEF EnvStep
<1>15. CASE \E l \in Links : \E k \in KBs : Matching(l, k)
  BY <1>12, <1>15
<1>16. CASE \E l \in Others, k \in KBs : Matching(l, k)
  BY <1>12, <1>16 DEF AllLinks
<1> QED
  BY <1>2, <1>11, <1>13, <1>14, <1>15, <1>16 DEF Next

LEMMA HoldsKept ==
  ASSUME SyncInv, [Next]_vars
  PROVE  HoldInv'
<1> TypeOK /\ HoldInv /\ LinksInv
  BY DEF SyncInv
<1>1. CASE Undisturbed
  <2>1. \A p \in Procs : hold[p] # NoHold => hold[p].link \in AllLinks /\ hold[p].kb \in KBs
    BY DEF TypeOK, Holds
  <2> QED
    BY <1>1, <2>1 DEF Undisturbed, HoldInv
<1>2. ASSUME NEW l \in AllLinks, NEW k \in KBs, NEW p \in Procs, Match(p, l, k)
      PROVE  HoldInv'
  <2>1. /\ child[l][k] = "queued" /\ hold[p] = NoHold /\ scope' = scope
        /\ \E x \in {"write", "count"} :
             /\ \A m \in AllLinks : \A e \in KBs :
                  child'[m][e] = IF m = l /\ e = k THEN x ELSE child[m][e]
             /\ x = "count" => hold' = hold
        /\ \/ hold' = hold
           \/ /\ hold' = [hold EXCEPT ![p] = [link |-> l, kb |-> k, snap |-> map,
                                              todo |-> {m \in AllLinks : k \in scope[m]}]]
              /\ child'[l][k] = "write"
    BY <1>2, PhasesTyped DEF Match, Free, SetChild, TypeOK
  <2>2. \A q \in Procs : hold[q] # NoHold =>
          hold[q].link \in AllLinks /\ hold[q].kb \in KBs /\ child[hold[q].link][hold[q].kb] = "write"
    BY DEF TypeOK, Holds, HoldInv
  <2>3. \A q \in Procs : hold[q] # NoHold => child'[hold[q].link][hold[q].kb] = "write"
                                             /\ (hold[q].link # l \/ hold[q].kb # k)
    BY <2>1, <2>2
  <2>4. \A m \in AllLinks : \A e \in KBs : child'[m][e] # "none" => e \in scope'[m]
    BY <2>1 DEF HoldInv
  <2>5. CASE hold' = hold
    BY <2>3, <2>4, <2>5 DEF HoldInv
  <2>6. CASE /\ hold' = [hold EXCEPT ![p] = [link |-> l, kb |-> k, snap |-> map,
                                             todo |-> {m \in AllLinks : k \in scope[m]}]]
             /\ child'[l][k] = "write"
    <3>1. /\ hold'[p].link = l /\ hold'[p].kb = k
          /\ \A q \in Procs \ {p} : hold'[q] = hold[q]
      BY <2>6 DEF TypeOK
    <3>2. \A q \in Procs : hold'[q] # NoHold => child'[hold'[q].link][hold'[q].kb] = "write"
      BY <2>3, <2>6, <3>1
    <3>3. \A q, r \in Procs : q # r /\ hold'[q] # NoHold /\ hold'[r] # NoHold =>
            hold'[q].link # hold'[r].link \/ hold'[q].kb # hold'[r].kb
      BY <2>3, <3>1 DEF HoldInv
    <3> QED
      BY <2>4, <3>2, <3>3 DEF HoldInv
  <2> QED
    BY <2>1, <2>5, <2>6
<1>3. ASSUME NEW p \in Procs, Save(p)
      PROVE  HoldInv'
  <2>a. PICK l \in AllLinks, k \in KBs :
          hold[p] # NoHold /\ hold[p].link = l /\ hold[p].kb = k /\ scope' = scope
    BY <1>3 DEF Save, TypeOK, Holds
  <2>b. PICK n \in hold[p].todo :
          IF hold[p].todo = {n}
            THEN hold' = [hold EXCEPT ![p] = NoHold] /\ SetChild(l, k, "count")
            ELSE hold' = [hold EXCEPT ![p].todo = @ \ {n}] /\ UNCHANGED child
    BY <1>3, <2>a DEF Save
  <2> DEFINE x == hold[p].todo \ {n}
  <2>1. /\ hold[p] # NoHold /\ hold[p].link = l /\ hold[p].kb = k /\ scope' = scope
        /\ \A q \in Procs \ {p} : hold'[q] = hold[q]
        /\ \/ hold'[p] = NoHold /\ SetChild(l, k, "count")
           \/ hold'[p] = [hold[p] EXCEPT !.todo = x] /\ UNCHANGED child
    BY <2>a, <2>b DEF TypeOK
  <2>2. \A q \in Procs : hold[q] # NoHold =>
          hold[q].link \in AllLinks /\ hold[q].kb \in KBs /\ child[hold[q].link][hold[q].kb] = "write"
    BY DEF TypeOK, Holds, HoldInv
  <2>3. CASE hold'[p] = NoHold /\ SetChild(l, k, "count")
    <3>1. \A m \in AllLinks : \A e \in KBs :
            child'[m][e] = IF m = l /\ e = k THEN "count" ELSE child[m][e]
      BY <2>3, PhasesTyped DEF SetChild, TypeOK
    <3>2. child[l][k] = "write"
      BY <2>1, <2>2
    <3>3. \A q \in Procs : hold'[q] # NoHold =>
            hold'[q] = hold[q] /\ q # p /\ (hold[q].link # l \/ hold[q].kb # k)
      BY <2>1, <2>3 DEF HoldInv
    <3>4. \A q \in Procs : hold'[q] # NoHold => child'[hold'[q].link][hold'[q].kb] = "write"
      BY <2>2, <3>1, <3>3
    <3>5. \A m \in AllLinks : \A e \in KBs : child'[m][e] # "none" => e \in scope'[m]
      BY <2>1, <3>1, <3>2 DEF HoldInv
    <3>6. \A q, r \in Procs : q # r /\ hold'[q] # NoHold /\ hold'[r] # NoHold =>
            hold'[q].link # hold'[r].link \/ hold'[q].kb # hold'[r].kb
      BY <3>3 DEF HoldInv
    <3> QED
      BY <3>4, <3>5, <3>6 DEF HoldInv
  <2>4. CASE hold'[p] = [hold[p] EXCEPT !.todo = x] /\ UNCHANGED child
    <3>1. hold[p] \in Holds
      BY <2>1 DEF TypeOK
    <3>2. hold'[p].link = l /\ hold'[p].kb = k
      BY <2>1, <2>4, <3>1 DEF Holds
    <3>3. \A q \in Procs : hold'[q] # NoHold =>
            hold[q] # NoHold /\ hold'[q].link = hold[q].link /\ hold'[q].kb = hold[q].kb
      BY <2>1, <3>2
    <3> QED
      BY <2>1, <2>4, <3>3 DEF HoldInv
  <2> QED
    BY <2>1, <2>3, <2>4
<1>4. ASSUME NEW l \in Links, NEW c \in Children, ChildCrash(l, c)
      PROVE  HoldInv'
  <2>1. /\ scope' = scope /\ l \in AllLinks /\ child[l][c] # "none"
        /\ \A m \in AllLinks : \A e \in KBs :
             m # l \/ e # c => child'[m][e] = child[m][e]
    BY <1>4, PhasesTyped DEF ChildCrash, SetChild, TypeOK
  <2>2. \A q \in Procs : hold'[q] # NoHold =>
          /\ hold'[q] = hold[q] /\ (hold[q].link # l \/ hold[q].kb # c)
          /\ hold[q].link \in AllLinks /\ hold[q].kb \in KBs
    BY <1>4 DEF ChildCrash, TypeOK, Holds
  <2>3. \A q \in Procs : hold'[q] # NoHold => child'[hold'[q].link][hold'[q].kb] = "write"
    BY <2>1, <2>2 DEF HoldInv
  <2>4. \A m \in AllLinks : \A e \in KBs : child'[m][e] # "none" => e \in scope'[m]
    BY <2>1 DEF HoldInv
  <2>5. \A q, r \in Procs : q # r /\ hold'[q] # NoHold /\ hold'[r] # NoHold =>
          hold'[q].link # hold'[r].link \/ hold'[q].kb # hold'[r].kb
    BY <2>2 DEF HoldInv
  <2> QED
    BY <2>3, <2>4, <2>5 DEF HoldInv
<1> QED
  BY <1>1, <1>2, <1>3, <1>4, UndisturbedStep

LEMMA LinksKept ==
  ASSUME SyncInv, [Next]_vars
  PROVE  LinksInv'
<1> SUFFICES ASSUME NEW l \in Links
             PROVE  Shape(At(l)') /\ CurrentBounded(At(l)') /\ Halts(At(l)')
  BY DEF LinksInv
<1>1. At(l) \in LinkStates
  BY LinkTyped DEF SyncInv
<1>2. Shape(At(l)) /\ CurrentBounded(At(l)) /\ Halts(At(l))
  BY DEF SyncInv, LinksInv
<1>3. LinkStep(At(l), At(l)')
  BY SyncStepKinds
<1> QED
  BY <1>1, <1>2, <1>3, ShapeKept, CurrentKept, HaltsKept

LEMMA TotalsKept ==
  ASSUME SyncInv, TotalInv, [Next]_vars, "total" \notin Env
  PROVE  TotalInv'
<1> SUFFICES ASSUME NEW l \in Links
             PROVE  TotalCounts(At(l)') /\ Quiet(At(l)')
  BY DEF TotalInv
<1>1. At(l) \in LinkStates
  BY LinkTyped DEF SyncInv
<1>2. Shape(At(l)) /\ CurrentBounded(At(l)) /\ TotalCounts(At(l)) /\ Quiet(At(l))
  BY DEF SyncInv, LinksInv, TotalInv
<1>3. LinkStep(At(l), At(l)')
  BY SyncStepKinds
<1> QED
  BY <1>1, <1>2, <1>3, TotalKept, QuietKept

LEMMA SyncInit == Init => SyncInv /\ TotalInv /\ MapInv
<1> SUFFICES ASSUME Init
             PROVE  SyncInv /\ TotalInv /\ MapInv
  OBVIOUS
<1> USE PhasesTyped, PhaseTyped
<1>1. TypeOK
  <2>1. row \in [Links -> [Phases -> Rows]]
    BY TotalsTyped DEF Init, Rows, NoRow
  <2>2. child \in [AllLinks -> [Children ->
          {"none", "todo", "queued", "write", "count", "claim", "end", "lost"}]]
    BY DEF Init
  <2>3. faults \in 0..MaxFaults
    BY FaultsAssumption DEF Init
  <2> QED
    BY <2>1, <2>2, <2>3 DEF Init, TypeOK
<1>2. \A l \in Links : \A e \in Children : child[l][e] = "none"
  BY DisjointAssumption DEF Init
<1>3. HoldInv
  BY DEF Init, HoldInv
<1>4. MapInv
  BY DEF Init, MapInv
<1>5. ASSUME NEW l \in Links
      PROVE  /\ Shape(At(l)) /\ CurrentBounded(At(l)) /\ Halts(At(l))
             /\ TotalCounts(At(l)) /\ Quiet(At(l))
  <2>1. /\ \A i \in Phases : /\ task[l][i] = "none" /\ fin[l][i] = "none" /\ row[l][i] = NoRow
                             /\ <<l, i>> \notin cancelled
        /\ begun[l] = 0 /\ told[l] = 0
    BY DEF Init
  <2>2. Shape(At(l))
    BY <1>2, <2>1 DEF At, Shape, Latest, Once, ChildrenOfRuns, Phases, NoRow
  <2>a. \A i \in Phases : At(l).row[i] = NoRow
    BY <2>1 DEF At
  <2>b. NoRow.current = 0 /\ NoRow.status = "none"
    BY DEF NoRow
  <2>3. CurrentBounded(At(l))
    BY <2>a, <2>b, Compared DEF CurrentBounded
  <2>4. TotalCounts(At(l))
    BY <2>a, <2>b DEF TotalCounts
  <2>5. Quiet(At(l))
    BY <2>1 DEF At, Quiet
  <2>6. Halts(At(l))
    BY <2>1 DEF At, Halts, NoRow, Phases
  <2> QED
    BY <2>2, <2>3, <2>4, <2>5, <2>6
<1> QED
  BY <1>1, <1>3, <1>4, <1>5 DEF SyncInv, LinksInv, TotalInv

LEMMA SyncAlways == Spec => []SyncInv
<1>1. Init => SyncInv
  BY SyncInit
<1>2. SyncInv /\ [Next]_vars => SyncInv'
  BY TypesKept, HoldsKept, LinksKept DEF SyncInv
<1> QED
  BY <1>1, <1>2, PTL DEF Spec

\* A phase is begun, and its job started, only after every child of the phases
\* before it was dealt with; a fan-out that a user cancelled is not followed
\* by another phase; and the user is told of the end of a sync at most once -
\* whatever is deleted, cancelled, timed out, lost or fails, provided the
\* number of children is written (_dispatch of glossary_sync and kb_match).
THEOREM PhasesInOrder ==
  ASSUME "total" \notin Env
  PROVE  Spec => []ChainInv
<1>1. Init => TotalInv
  BY SyncInit
<1>2. SyncInv /\ TotalInv /\ [Next]_vars => TotalInv'
  BY TotalsKept
<1>3. SyncInv /\ TotalInv => ChainInv
  <2> SUFFICES ASSUME SyncInv, TotalInv
               PROVE  PhaseAfterAll /\ CancelledDoesNotChain
    BY DEF SyncInv, ChainInv
  <2>1. PhaseAfterAll
    <3> SUFFICES ASSUME NEW l \in Links, NEW i \in Phases, NEW c \in Children,
                        Job(l, i), PhaseOf(c) < i
                 PROVE  child[l][c] \in {"none", "claim", "end"}
      BY DEF PhaseAfterAll
    <3>1. At(l) \in LinkStates /\ Shape(At(l)) /\ Quiet(At(l))
      BY LinkTyped DEF SyncInv, LinksInv, TotalInv
    <3>2. PICK j \in {1, 2} : j = PhaseOf(c)
      BY PhaseTyped
    <3>3. i \in 2..4 /\ i - 1 \in Phases
      BY <3>2 DEF Phases
    <3>4. fin[l][i - 1] # "none"
      BY <3>1, <3>3 DEF Shape, Once, At, Job
    <3>5. i - 1 <= begun[l]
      BY <3>1, <3>3, <3>4, AtWorkIsLatest DEF At
    <3>6. fin[l][j] # "none"
      <4>1. CASE j = i - 1
        BY <3>4, <4>1
      <4>2. CASE j # i - 1
        <5>1. j < begun[l] /\ j \in Phases
          BY <3>2, <3>3, <3>5, <4>2, <3>1 DEF Phases, LinkStates, At
        <5> QED
          BY <3>1, <5>1 DEF Shape, Latest, At
      <4> QED
        BY <4>1, <4>2
    <3> QED
      BY <3>1, <3>2, <3>6 DEF Quiet, Settled, At
  <2>2. CancelledDoesNotChain
    <3> SUFFICES ASSUME NEW l \in Links, NEW i \in {GlossarySync, KbMatch}, <<l, i>> \in cancelled,
                        i = KbMatch => scope[l] # {}
                 PROVE  ~Job(l, i + 1) /\ task[l][i + 1] = "none"
      BY DEF CancelledDoesNotChain
    <3>1. Halts(At(l)) /\ i \in {1, 2}
      BY DEF SyncInv, LinksInv, GlossarySync, KbMatch
    <3>2. FansOut(At(l), i) /\ i \in At(l).cancelled
      BY <3>1 DEF FansOut, At, KbMatch, Phases
    <3>3. NothingFollows(At(l), i)
      BY <3>1, <3>2 DEF Halts
    <3> QED
      BY <3>3 DEF NothingFollows, At, Job
  <2> QED
    BY <2>1, <2>2
<1> QED
  BY <1>1, <1>2, <1>3, SyncAlways, PTL DEF Spec

\* The task of doc_extract does not start again.
LEMMA DocTaskStays ==
  ASSUME NEW v \in LinkStates, Shape(v), NEW w, LinkStep(v, w), v.task[4] \notin {"none", "queued"}
  PROVE  w.task[4] \notin {"none", "queued"}
<1> USE DEF LinkStates, Phases, SameTask
<1>1. CASE w = v
  BY <1>1
<1>2. CASE Requested(v, w)
  BY <1>2 DEF Requested
<1>3. ASSUME NEW i \in Phases, TaskEnds(v, w, i) \/ TaskPlans(v, w, i) \/ TaskGoesOn(v, w, i)
      PROVE  w.task[4] \notin {"none", "queued"}
  <2>1. \E x \in {"run", "end", "lost"} : w.task = [v.task EXCEPT ![i] = x]
    BY <1>3 DEF TaskEnds, TaskPlans, TaskGoesOn
  <2> QED
    BY <2>1
<1>4. ASSUME NEW i \in Phases,
             Chains(v, w, i) \/ StopsShort(v, w, i) \/ Tells(v, w, i) \/ Stopped(v, w, i)
      PROVE  w.task = v.task
  BY <1>4 DEF Chains, StopsShort, Tells, Stopped
<1>5. ASSUME NEW i \in Phases, Publishes(v, w, i)
      PROVE  w.task[4] \notin {"none", "queued"}
  <2>1. v.begun = i /\ i \in 1..3
    BY <1>5, AtWorkIsLatest DEF Publishes
  <2>2. v.task[4] = "none"
    BY <2>1 DEF Shape, Latest
  <2> QED
    BY <2>2
<1>6. ASSUME NEW e \in Children, ChildMoves(v, w, e) \/ ChildCounts(v, w, e) \/ ChildClaims(v, w, e)
      PROVE  w.task = v.task
  BY <1>6 DEF ChildMoves, ChildCounts, ChildClaims
<1> QED
  BY <1>1, <1>2, <1>3, <1>4, <1>5, <1>6 DEF LinkStep

\* Only doc_extract takes from the map.
LEMMA PlanTaken ==
  ASSUME [Next]_vars
  PROVE  UNCHANGED plan \/ \E l \in Links : DocPlan(l)
<1> USE DEF maps
<1>1. ASSUME NEW l \in AllLinks, NEW k \in KBs, Matching(l, k)
      PROVE  UNCHANGED plan
  BY <1>1 DEF Matching, Match, Save
<1>2. ASSUME NEW l \in Links, Request(l)
      PROVE  UNCHANGED plan
  BY <1>2 DEF Request
<1>3. ASSUME NEW l \in Links, SyncStep(l), ~DocPlan(l)
      PROVE  UNCHANGED plan
  <2>1. CASE PlanNothing(l) \/ PlanParts(l) \/ MatchNothing(l) \/ PlanMatch(l)
             \/ DeriveFails(l) \/ DeriveDone(l) \/ DocNothing(l) \/ DocEnd(l)
    BY <2>1 DEF PlanNothing, PlanParts, MatchNothing, PlanMatch, DeriveFails,
         DeriveDone, DocNothing, DocEnd
  <2>2. CASE \/ \E i \in {GlossarySync, KbMatch}, c \in Children : PublishChild(l, i, c)
             \/ \E c \in Children : Count(l, c) \/ Claim(l, c)
    BY <2>2 DEF PublishChild, Count, Claim
  <2>3. CASE \E i \in Phases : Chain(l, i) \/ PublishPhase(l, i) \/ Tell(l, i)
    BY <2>3 DEF Chain, PublishPhase, Tell
  <2> QED
    BY <1>1, <1>3, <2>1, <2>2, <2>3, PhasesTyped DEF SyncStep
<1>4. ASSUME NEW l \in Links, EnvStep(l)
      PROVE  UNCHANGED plan
  BY <1>4
  DEF EnvStep, RejectSync, DocRejected, Cancel, WatchdogRead, WatchdogCommit, TaskCrash,
      FinalizerCrash, ChildCrash
<1>5. CASE UNCHANGED vars
  BY <1>5 DEF vars
<1>6. ASSUME NEW l \in Others, NEW k \in KBs, Matching(l, k)
      PROVE  UNCHANGED plan
  BY <1>1, <1>6 DEF AllLinks
<1> QED
  BY <1>2, <1>3, <1>4, <1>5, <1>6 DEF Next

\* Nothing is saved for a link whose doc_extract has begun.
LEMMA SavedBeforeDoc ==
  ASSUME SyncInv, TotalInv, NEW l \in Links, task[l][4] # "none", NEW k \in KBs
  PROVE  child[l][k] # "write"
<1>1. At(l) \in LinkStates /\ Shape(At(l)) /\ Quiet(At(l))
  BY LinkTyped DEF SyncInv, LinksInv, TotalInv
<1>2. begun[l] = 4
  BY <1>1 DEF Shape, Latest, At, LinkStates, Phases
<1>3. fin[l][2] = "end"
  BY <1>1, <1>2 DEF Shape, Latest, At, Phases
<1>4. PhaseOf(k) = 2 /\ k \in Children
  BY DisjointAssumption DEF PhaseOf, KbMatch, Children
<1> QED
  BY <1>1, <1>3, <1>4 DEF Quiet, Settled, At

LEMMA MapsKept ==
  ASSUME SyncInv, TotalInv, MapInv, [Next]_vars, \A p, q \in Procs : p = q
  PROVE  MapInv'
<1>1. TypeOK /\ HoldInv /\ LinksInv
  BY DEF SyncInv
<1>2. \A l \in Links : task[l][4] \notin {"none", "queued"} => task'[l][4] \notin {"none", "queued"}
  <2> SUFFICES ASSUME NEW l \in Links, task[l][4] \notin {"none", "queued"}
               PROVE  task'[l][4] \notin {"none", "queued"}
    OBVIOUS
  <2>1. At(l) \in LinkStates /\ Shape(At(l)) /\ LinkStep(At(l), At(l)')
    BY <1>1, LinkTyped, SyncStepKinds DEF LinksInv
  <2>2. At(l).task[4] \notin {"none", "queued"}
    BY DEF At
  <2>3. (At(l)').task[4] \notin {"none", "queued"}
    BY <2>1, <2>2, DocTaskStays
  <2> QED
    BY <2>3 DEF At
\* What is still to be written, and what was saved.
<1> DEFINE SnapsOf  == \A p \in Procs : hold'[p] # NoHold =>
                         \A m \in hold'[p].todo : hold'[p].snap[m] = map'[m]
           SavedIn  == \A l \in AllLinks : saved'[l] \subseteq map'[l] \cap scope'[l]
           PlanKept == \A l \in Links : plan'[l] # {} =>
                         saved'[l] \subseteq plan'[l] /\ task'[l][4] \notin {"none", "queued"}
<1>3. CASE UNCHANGED <<scope, map, hold, saved>>
  <2>1. SnapsOf /\ SavedIn
    BY <1>3 DEF MapInv
  <2>2. CASE UNCHANGED plan
    <3>1. PlanKept
      BY <1>2, <1>3, <2>2 DEF MapInv
    <3> QED
      BY <2>1, <3>1 DEF MapInv
  <2>3. ASSUME NEW l \in Links, DocPlan(l)
        PROVE  MapInv'
    <3>a. SetTask(l, 4, "run") /\ 4 \in Phases
      BY <2>3 DEF DocPlan, DocExtract, Phases
    <3>b. task'[l] = [task[l] EXCEPT ![4] = "run"] /\ task[l] \in [Phases -> TaskAt]
      BY <1>1, <3>a, UpdatedTask DEF TypeOK, TaskAt
    <3>1. task'[l][4] = "run" /\ plan' = [plan EXCEPT ![l] = map[l] \cap scope[l]]
      BY <2>3, <3>a, <3>b DEF DocPlan
    <3>2. saved'[l] \subseteq plan'[l]
      BY <1>1, <1>3, <3>1 DEF MapInv, TypeOK, AllLinks
    <3>3. \A m \in Links \ {l} : plan'[m] = plan[m]
      BY <1>1, <3>1 DEF TypeOK
    <3>4. PlanKept
      BY <1>2, <1>3, <3>1, <3>2, <3>3 DEF MapInv
    <3> QED
      BY <2>1, <3>4 DEF MapInv
  <2> QED
    BY <2>2, <2>3, PlanTaken
<1>4. ASSUME NEW l \in AllLinks, NEW k \in KBs, NEW p \in Procs, Match(p, l, k)
      PROVE  MapInv'
  <2>1. UNCHANGED <<scope, map, saved, plan>>
    BY <1>4 DEF Match
  <2>2. PlanKept /\ SavedIn
    BY <1>2, <2>1 DEF MapInv
  <2>3. SnapsOf
    <3>1. \/ hold' = hold
          \/ hold'[p] = [link |-> l, kb |-> k, snap |-> map, todo |-> {m \in AllLinks : k \in scope[m]}]
      BY <1>1, <1>4 DEF Match, TypeOK
    <3>2. CASE hold' = hold
      BY <2>1, <3>2 DEF MapInv
    <3>3. CASE hold'[p] = [link |-> l, kb |-> k, snap |-> map, todo |-> {m \in AllLinks : k \in scope[m]}]
      BY <2>1, <3>3
    <3> QED
      BY <3>1, <3>2, <3>3
  <2> QED
    BY <2>2, <2>3 DEF MapInv
<1>5. ASSUME NEW p \in Procs, Save(p)
      PROVE  MapInv'
  <2>1. /\ hold[p] # NoHold /\ hold[p] \in Holds
        /\ hold[p].link \in AllLinks /\ hold[p].kb \in KBs /\ hold[p].todo \subseteq AllLinks
    BY <1>1, <1>5 DEF Save, TypeOK, Holds
  <2>2. PICK n \in hold[p].todo :
          /\ \/ /\ map' = [map EXCEPT ![n] = Merged(hold[p].snap[n], hold[p].kb)]
                /\ saved' = IF n = hold[p].link THEN [saved EXCEPT ![n] = @ \cup {hold[p].kb}] ELSE saved
             \/ UNCHANGED <<map, saved>>
          /\ \/ hold' = [hold EXCEPT ![p] = NoHold]
             \/ hold' = [hold EXCEPT ![p].todo = @ \ {n}]
    BY <1>5 DEF Save
  <2>3. UNCHANGED <<scope, task, plan>>
    BY <1>5 DEF Save
  <2>4. child[hold[p].link][hold[p].kb] = "write" /\ hold[p].kb \in scope[hold[p].link]
    BY <1>1, <2>1 DEF HoldInv
  <2>5. /\ \A m \in AllLinks \ {n} : map'[m] = map[m]
        /\ map'[n] = map[n] \/ map'[n] = map[n] \cup {hold[p].kb}
        /\ \A m \in AllLinks : \/ saved'[m] = saved[m]
                               \/ /\ m = n /\ n = hold[p].link
                                  /\ saved'[m] = saved[m] \cup {hold[p].kb}
                                  /\ map'[n] = map[n] \cup {hold[p].kb}
    <3>1. hold[p].snap[n] = map[n] /\ n \in AllLinks
      BY <2>1, <2>2 DEF MapInv
    <3>2. CASE UNCHANGED <<map, saved>>
      BY <3>2
    <3>3. CASE /\ map' = [map EXCEPT ![n] = Merged(hold[p].snap[n], hold[p].kb)]
               /\ saved' = IF n = hold[p].link THEN [saved EXCEPT ![n] = @ \cup {hold[p].kb}] ELSE saved
      <4>1. map' = [map EXCEPT ![n] = map[n] \cup {hold[p].kb}]
        BY <3>1, <3>3 DEF Merged
      <4> QED
        BY <1>1, <3>1, <3>3, <4>1 DEF TypeOK
    <3> QED
      BY <2>2, <3>2, <3>3
  <2>6. SnapsOf
    <3> SUFFICES ASSUME hold'[p] # NoHold, NEW m \in hold'[p].todo
                 PROVE  hold'[p].snap[m] = map'[m]
      OBVIOUS
    <3>1. hold'[p] = [hold[p] EXCEPT !.todo = @ \ {n}]
      BY <1>1, <2>2 DEF TypeOK
    <3>2. hold'[p].snap = hold[p].snap /\ m \in hold[p].todo \ {n}
      BY <2>1, <3>1 DEF Holds
    <3> QED
      BY <2>1, <2>5, <3>2 DEF MapInv
  <2>7. SavedIn
    BY <2>3, <2>4, <2>5 DEF MapInv
  <2>8. PlanKept
    <3> SUFFICES ASSUME NEW l \in Links, plan'[l] # {}
                 PROVE  saved'[l] \subseteq plan'[l] /\ task'[l][4] \notin {"none", "queued"}
      OBVIOUS
    <3>1. saved[l] \subseteq plan[l] /\ task[l][4] \notin {"none", "queued"}
      BY <2>3 DEF MapInv
    <3>2. child[l][hold[p].kb] # "write"
      BY <2>1, <3>1, SavedBeforeDoc
    <3>3. saved'[l] = saved[l]
      BY <2>4, <2>5, <3>2 DEF AllLinks
    <3> QED
      BY <1>2, <2>3, <3>1, <3>3
  <2> QED
    BY <2>6, <2>7, <2>8 DEF MapInv
<1>6. ASSUME NEW l \in Links, NEW c \in Children, ChildCrash(l, c)
      PROVE  MapInv'
  <2>1. UNCHANGED <<scope, map, saved, plan>>
    BY <1>6 DEF ChildCrash
  <2>2. \A p \in Procs : hold'[p] # NoHold => hold'[p] = hold[p]
    BY <1>6 DEF ChildCrash
  <2> QED
    BY <1>2, <2>1, <2>2 DEF MapInv
<1>7. CASE Undisturbed
  BY <1>3, <1>7 DEF Undisturbed
<1> QED
  BY <1>1, <1>4, <1>5, <1>6, <1>7, UndisturbedStep

\* Document extraction finds the matches of every knowledge base whose child
\* saved them, also while children of other syncs write the same maps - if one
\* process runs them all, and the number of children is written.
THEOREM MatchesArrive ==
  ASSUME "total" \notin Env, \A p, q \in Procs : p = q
  PROVE  Spec => []MatchesReachExtraction
<1>1. Init => TotalInv /\ MapInv
  BY SyncInit
<1>2. SyncInv /\ TotalInv /\ MapInv /\ [Next]_vars => TotalInv' /\ MapInv'
  BY TotalsKept, MapsKept
<1>3. MapInv => MatchesReachExtraction
  BY DEF MapInv, MatchesReachExtraction
<1> QED
  BY <1>1, <1>2, <1>3, SyncAlways, PTL DEF Spec

-----------------------------------------------------------------------------
(* LinkSync implements PhaseChain *)

\* The latest phase of a link was closed, or none has begun.
Closed(v) == v.begun = 0 \/ v.fin[v.begun] # "none"

\* What a step of one link is to PhaseChain.
BeginsOne(v, w) == /\ Closed(v) /\ v.begun < 4 /\ v.told = 0
                   /\ w.begun = v.begun + 1 /\ w.told = v.told /\ ~Closed(w)
ClosesOne(v, w) == v.begun > 0 /\ w.begun = v.begun /\ w.told = v.told /\ Closed(w)
TellsOne(v, w)  == /\ Closed(v) /\ v.told = 0
                   /\ w.begun = v.begun /\ w.told = 1 /\ Closed(w)
KeepsOne(v, w)  == w.begun = v.begun /\ w.told = v.told /\ (Closed(w) <=> Closed(v))

LEMMA ChainStep ==
  ASSUME NEW v \in LinkStates, Shape(v), NEW w, LinkStep(v, w)
  PROVE  BeginsOne(v, w) \/ ClosesOne(v, w) \/ TellsOne(v, w) \/ KeepsOne(v, w)
<1> USE DEF LinkStates, Phases, SameTask, SameFin, SameTold
<1>1. CASE w = v
  BY <1>1 DEF KeepsOne
<1>2. CASE Requested(v, w)
  <2>1. /\ v.begun = 0 /\ v.fin[1] = "none" /\ v.told = 0
        /\ w.fin = v.fin /\ w.told = v.told /\ w.begun \in {0, 1}
    BY <1>2 DEF Requested, Shape, Latest
  <2> QED
    BY <2>1 DEF BeginsOne, KeepsOne, Closed
<1>3. ASSUME NEW i \in Phases, TaskEnds(v, w, i)
      PROVE  ClosesOne(v, w) \/ KeepsOne(v, w)
  <2>1. v.begun = i /\ v.fin[i] = "none" /\ w.begun = i /\ w.told = v.told
    BY <1>3, AtWorkIsLatest DEF TaskEnds
  <2> QED
    BY <2>1 DEF ClosesOne, KeepsOne, Closed
<1>4. ASSUME NEW i \in Phases,
             TaskPlans(v, w, i) \/ TaskGoesOn(v, w, i) \/ Stopped(v, w, i)
      PROVE  KeepsOne(v, w)
  BY <1>4 DEF TaskPlans, TaskGoesOn, Stopped, KeepsOne, Closed
<1>5. ASSUME NEW i \in Phases, Chains(v, w, i) \/ StopsShort(v, w, i)
      PROVE  KeepsOne(v, w)
  <2>1. /\ v.begun = i /\ v.fin[i] # "none" /\ w.begun = i /\ w.told = v.told
        /\ \E x \in {"publish", "tell", "lost"} : w.fin = [v.fin EXCEPT ![i] = x]
    BY <1>5, AtWorkIsLatest DEF Chains, StopsShort
  <2> QED
    BY <2>1 DEF KeepsOne, Closed
<1>6. ASSUME NEW i \in Phases, Publishes(v, w, i)
      PROVE  BeginsOne(v, w)
  <2>1. /\ i \in 1..3 /\ v.begun = i /\ v.fin[i] = "publish" /\ w.begun = i + 1 /\ w.told = v.told
        /\ w.fin = [v.fin EXCEPT ![i] = "end"]
    BY <1>6, AtWorkIsLatest DEF Publishes
  <2>2. v.told = 0 /\ v.fin[i + 1] = "none"
    BY <2>1 DEF Shape, Latest
  <2> QED
    BY <2>1, <2>2 DEF BeginsOne, Closed
<1>7. ASSUME NEW i \in Phases, Tells(v, w, i)
      PROVE  TellsOne(v, w)
  <2>1. /\ v.begun = i /\ v.fin[i] = "tell" /\ w.begun = i /\ w.told = v.told + 1
        /\ w.fin = [v.fin EXCEPT ![i] = "end"]
    BY <1>7, AtWorkIsLatest DEF Tells
  <2>2. v.told = 0
    BY <2>1 DEF Shape, Latest
  <2> QED
    BY <2>1, <2>2 DEF TellsOne, Closed
<1>8. ASSUME NEW e \in Children, ChildMoves(v, w, e) \/ ChildCounts(v, w, e)
      PROVE  KeepsOne(v, w)
  BY <1>8 DEF ChildMoves, ChildCounts, KeepsOne, Closed
<1>9. ASSUME NEW e \in Children, ChildClaims(v, w, e)
      PROVE  ClosesOne(v, w)
  <2>1. PICK i \in {1, 2} : i = PhaseOf(e)
    BY PhaseTyped
  <2>2. v.begun = i /\ w.begun = i /\ w.told = v.told /\ w.fin = [v.fin EXCEPT ![i] = "chain"]
    BY <1>9, <2>1, ClaimOfLatest DEF ChildClaims
  <2> QED
    BY <2>2 DEF ClosesOne, Closed
<1> QED
  BY <1>1, <1>2, <1>3, <1>4, <1>5, <1>6, <1>7, <1>8, <1>9 DEF LinkStep

\* The links whose latest phase was closed.
ClosedLinks == {l \in Links : begun[l] = 0 \/ fin[l][begun[l]] # "none"}

\* A step of one link is one of PhaseChain, or leaves its variables alone.
LEMMA ChainSteps ==
  ASSUME SyncInv, NEW l \in Links, StepOf(l), TypeOK'
  PROVE  PhasesOf!Next \/ UNCHANGED <<begun, ClosedLinks, told>>
<1>1. TypeOK /\ At(l) \in LinkStates /\ Shape(At(l))
  BY LinkTyped DEF SyncInv, LinksInv
<1>2. \A m \in Links \ {l} : begun'[m] = begun[m] /\ told'[m] = told[m] /\ fin'[m] = fin[m]
  BY DEF StepOf, At
<1>3. /\ begun \in [Links -> 0..4] /\ told \in [Links -> 0..1]
      /\ begun' \in [Links -> 0..4] /\ told' \in [Links -> 0..1]
  BY <1>1 DEF TypeOK
<1>4. (l \in ClosedLinks <=> Closed(At(l))) /\ (l \in ClosedLinks' <=> Closed(At(l)'))
  BY DEF ClosedLinks, Closed, At
<1>5. \A m \in Links \ {l} : m \in ClosedLinks' <=> m \in ClosedLinks
  BY <1>2 DEF ClosedLinks
<1>6. ClosedLinks \subseteq Links /\ ClosedLinks' \subseteq Links
  BY DEF ClosedLinks
<1>7. CASE BeginsOne(At(l), At(l)')
  <2>1. /\ l \in ClosedLinks /\ l \notin ClosedLinks' /\ begun[l] < 4 /\ told[l] = 0
        /\ begun'[l] = begun[l] + 1 /\ told'[l] = told[l]
    BY <1>4, <1>7 DEF BeginsOne, At
  <2>2. begun' = [begun EXCEPT ![l] = @ + 1] /\ told' = told
    BY <1>2, <1>3, <2>1
  <2>3. ClosedLinks' = ClosedLinks \ {l}
    BY <1>5, <1>6, <2>1
  <2>4. PhasesOf!Begin(l)
    BY <2>1, <2>2, <2>3 DEF PhasesOf!Begin, ClosedLinks
  <2> QED
    BY <2>4 DEF PhasesOf!Next
<1>8. CASE ClosesOne(At(l), At(l)')
  <2>1. /\ l \in ClosedLinks' /\ begun[l] > 0 /\ begun'[l] = begun[l] /\ told'[l] = told[l]
    BY <1>4, <1>8 DEF ClosesOne, At
  <2>2. begun' = begun /\ told' = told
    BY <1>2, <1>3, <2>1
  <2>3. ClosedLinks' = ClosedLinks \cup {l}
    BY <1>5, <1>6, <2>1
  <2>4. PhasesOf!Close(l)
    BY <2>1, <2>2, <2>3 DEF PhasesOf!Close, ClosedLinks
  <2> QED
    BY <2>4 DEF PhasesOf!Next
<1>9. CASE TellsOne(At(l), At(l)')
  <2>1. /\ l \in ClosedLinks /\ l \in ClosedLinks' /\ told[l] = 0
        /\ begun'[l] = begun[l] /\ told'[l] = 1
    BY <1>4, <1>9 DEF TellsOne, At
  <2>2. begun' = begun /\ told' = [told EXCEPT ![l] = 1]
    BY <1>2, <1>3, <2>1
  <2>3. ClosedLinks' = ClosedLinks
    BY <1>5, <1>6, <2>1
  <2>4. PhasesOf!Tell(l)
    BY <2>1, <2>2, <2>3 DEF PhasesOf!Tell, ClosedLinks
  <2> QED
    BY <2>4 DEF PhasesOf!Next
<1>10. CASE KeepsOne(At(l), At(l)')
  <2>1. /\ l \in ClosedLinks' <=> l \in ClosedLinks
        /\ begun'[l] = begun[l] /\ told'[l] = told[l]
    BY <1>4, <1>10 DEF KeepsOne, At
  <2>2. begun' = begun /\ told' = told
    BY <1>2, <1>3, <2>1
  <2>3. ClosedLinks' = ClosedLinks
    BY <1>5, <1>6, <2>1
  <2> QED
    BY <2>2, <2>3
<1> QED
  BY <1>1, <1>7, <1>8, <1>9, <1>10, ChainStep DEF StepOf

\* Every sync is a chain of phases, as PhaseChain promises: each phase is
\* begun at most once and after the one before was closed - by its last child,
\* by its task, or for a user who is told -, and nothing follows once the user
\* was told; whatever happens, wrong totals included.
THEOREM SyncIsChain == Spec => ImplementsChain
<1>1. Init => PhasesOf!Init
  BY DEF Init, PhasesOf!Init
<1>2. SyncInv /\ [Next]_vars => [PhasesOf!Next]_(PhasesOf!vars)
  <2> SUFFICES ASSUME SyncInv, [Next]_vars
               PROVE  PhasesOf!Next \/ UNCHANGED <<begun, ClosedLinks, told>>
    BY DEF PhasesOf!vars, ClosedLinks
  <2>1. TypeOK'
    BY TypesKept
  <2>2. ASSUME UNCHANGED <<begun, fin, told>>
        PROVE  UNCHANGED <<begun, ClosedLinks, told>>
    BY <2>2 DEF ClosedLinks
  <2>3. CASE \E l \in Links : StepOf(l)
    BY <2>1, <2>3, ChainSteps
  <2>4. CASE \E l \in AllLinks, k \in KBs, p \in Procs : Match(p, l, k)
    BY <2>2, <2>4 DEF Match
  <2>5. CASE \E p \in Procs : Save(p)
    BY <2>2, <2>5 DEF Save
  <2>6. CASE \E l \in Links, c \in Children : ChildCrash(l, c)
    BY <2>2, <2>6 DEF ChildCrash
  <2>7. CASE UNCHANGED vars
    BY <2>2, <2>7 DEF vars, tasks
  <2> QED
    BY <2>3, <2>4, <2>5, <2>6, <2>7, OneLink
<1> QED
  BY <1>1, <1>2, SyncAlways, PTL DEF Spec, ImplementsChain, PhasesOf!Spec

=============================================================================
