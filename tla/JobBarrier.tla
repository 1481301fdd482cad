----------------------------- MODULE JobBarrier -----------------------------
(***************************************************************************)
(* What a fanned-out background job promises to whoever polls its row: the *)
(* set of children is fixed once, children settle in any order and stay    *)
(* settled, the job closes only when all of them have, and a job that was  *)
(* closed or aborted never changes again - unless it has no children: an   *)
(* empty job is closed even after it was aborted.                          *)
(***************************************************************************)
CONSTANT Members

VARIABLES phase,   \* "open", "closed" or "aborted"
          joined,  \* the children of the job
          settled  \* the children that succeeded or were given up

vars == <<phase, joined, settled>>

Init == phase = "open" /\ joined = {} /\ settled = {}

\* The producer fixes the children.
Join ==
  /\ joined = {}
  /\ joined' \in (SUBSET Members) \ {{}}
  /\ UNCHANGED <<phase, settled>>

\* Children settle, also those of a job that was aborted meanwhile.
Settle ==
  /\ settled' \in SUBSET joined
  /\ settled \subseteq settled'
  /\ UNCHANGED <<phase, joined>>

Close ==
  /\ phase = "open"
  /\ settled = joined
  /\ phase' = "closed"
  /\ UNCHANGED <<joined, settled>>

CloseEmpty ==
  /\ joined = {}
  /\ phase' = "closed"
  /\ UNCHANGED <<joined, settled>>

Abort ==
  /\ phase = "open"
  /\ phase' = "aborted"
  /\ UNCHANGED <<joined, settled>>

Next == Join \/ Settle \/ Close \/ CloseEmpty \/ Abort

Spec == Init /\ [][Next]_vars

=============================================================================
