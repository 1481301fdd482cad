------------------------------ MODULE Delivery ------------------------------
(***************************************************************************)
(* The life of one queued task as its handler sees it: published once,     *)
(* handed to one handler at a time, tried again at most Limit[t] times, and *)
(* given up only after the last try.  Both the Redis stream with its        *)
(* consumers (TaskQueue) and the chunk tasks of an extraction job           *)
(* (ExtractJob) implement it; that is what lets the second be read as       *)
(* running on the first.                                                    *)
(***************************************************************************)
EXTENDS Naturals

CONSTANTS Tasks, Limit    \* Limit[t]: max_retries of task t

VARIABLES at,     \* where each task is
          tries   \* the retry_count it is at

vars == <<at, tries>>

Places == {"none", "queued", "busy", "backoff", "givingUp", "gone"}

Init ==
  /\ at = [t \in Tasks |-> "none"]
  /\ tries = [t \in Tasks |-> 0]

Move(t, from, to) ==
  /\ at[t] = from
  /\ at' = [at EXCEPT ![t] = to]

Publish(t) == Move(t, "none", "queued") /\ UNCHANGED tries

\* The handler, or the ack after it, raised.
Fail(t) ==
  /\ IF tries[t] < Limit[t] THEN Move(t, "busy", "backoff")
                            ELSE Move(t, "busy", "givingUp")
  /\ UNCHANGED tries

Requeue(t) ==
  /\ Move(t, "backoff", "queued")
  /\ tries' = [tries EXCEPT ![t] = @ + 1]

\* A consumer that reads takes a batch of tasks.
TakeAll(T) ==
  /\ \A t \in T : at[t] = "queued"
  /\ at' = [t \in Tasks |-> IF t \in T THEN "busy" ELSE at[t]]
  /\ UNCHANGED tries

\* Waiting tasks are dropped by an operator or with the queue.
DiscardAll(T) ==
  /\ \A t \in T : at[t] = "queued"
  /\ at' = [t \in Tasks |-> IF t \in T THEN "gone" ELSE at[t]]
  /\ UNCHANGED tries

\* Acked, finished, given up - or lost with its consumer.
EndAll(T) ==
  /\ \A t \in T : at[t] \in {"busy", "backoff", "givingUp"}
  /\ at' = [t \in Tasks |-> IF t \in T THEN "gone" ELSE at[t]]
  /\ UNCHANGED tries

Next ==
  \/ \E t \in Tasks : Publish(t) \/ Fail(t) \/ Requeue(t)
  \/ \E T \in (SUBSET Tasks) \ {{}} : TakeAll(T) \/ DiscardAll(T) \/ EndAll(T)

Spec == Init /\ [][Next]_vars

=============================================================================
