----------------------------- MODULE PhaseChain -----------------------------
(***************************************************************************)
(* What background operations of several phases promise: the phases of one  *)
(* chain run one after the other, each at most once, a phase begins only    *)
(* when the one before it has been closed, and the user is told of the end   *)
(* at most once, when no phase is under way, and none follows.               *)
(***************************************************************************)
EXTENDS Naturals

CONSTANTS Chains, Phases   \* the operations, and how many phases each has

VARIABLES begun,     \* begun[c]: how many phases of the chain have begun
          closed,    \* the chains whose latest phase has been closed
          told       \* told[c]: how often the user was told of the end

vars == <<begun, closed, told>>

Init ==
  /\ begun = [c \in Chains |-> 0]
  /\ closed = Chains
  /\ told = [c \in Chains |-> 0]

Begin(c) ==
  /\ c \in closed
  /\ begun[c] < Phases
  /\ told[c] = 0
  /\ begun' = [begun EXCEPT ![c] = @ + 1]
  /\ closed' = closed \ {c}
  /\ UNCHANGED told

Close(c) ==
  /\ begun[c] > 0
  /\ closed' = closed \cup {c}
  /\ UNCHANGED <<begun, told>>

Tell(c) ==
  /\ c \in closed
  /\ told[c] = 0
  /\ told' = [told EXCEPT ![c] = 1]
  /\ UNCHANGED <<begun, closed>>

Next == \E c \in Chains : Begin(c) \/ Close(c) \/ Tell(c)

Spec == Init /\ [][Next]_vars

=============================================================================
