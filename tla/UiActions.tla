----------------------------- MODULE UiActions -----------------------------
(***************************************************************************)
(* Commands an agent sends to the user's page and the answers it waits for   *)
(* (agent/ui_action_tools.py).  The future of a command lives in the process *)
(* of the agent; an answer comes in at whichever process the client's socket *)
(* is connected to, and finds the future over a Redis channel to which every *)
(* process subscribes when it first needs it.                                *)
(***************************************************************************)
EXTENDS Integers, FiniteSets

CONSTANTS
  Requests,  \* commands sent by agents
  Tabs,      \* pages of the user that answer a command
  Procs,     \* server processes
  Env,       \* what may happen: a subset of EnvEvents
  MaxFaults  \* bound on the faults of one behaviour

EnvEvents == {"cancel",   \* the user stops the chat
              "init",     \* the Redis client cannot be made
              "slow",     \* the subscription takes more than five seconds
              "sub",      \* the connection of a subscription breaks
              "publish",  \* publishing an answer raises
              "emit",     \* sending the command raises
              "crash"}    \* a server process dies and is started again

ASSUME EnvAssumption    == Env \subseteq EnvEvents
ASSUME FaultsAssumption == MaxFaults \in Nat

VARIABLES
  owner,    \* the process in which the agent of a request runs
  pc,       \* where a request is
  outcome,  \* what it returned; "failed" if nothing was sent
  futures,  \* _pending_futures of each process
  sub,      \* its subscription: none, being made, or ready
  answer,   \* where each page's answer to each request is
  via,      \* the process it came in at
  mail,     \* the answers each subscription has to deliver
  shaky,    \* requests that a fault may cost an answer (ghost)
  faults    \* faults so far (bound: MaxFaults)

vars == <<owner, pc, outcome, futures, sub, answer, via, mail, shaky, faults>>

Answers == Requests \X Tabs

TypeOK ==
  /\ owner \in [Requests -> Procs]
  /\ pc \in [Requests -> {"new", "ensure", "wait", "done"}]
  /\ outcome \in [Requests -> {"none", "answered", "timeout", "cancelled", "failed", "lost"}]
  /\ futures \in [Procs -> SUBSET Requests]
  /\ sub \in [Procs -> {"off", "opening", "ready"}]
  /\ answer \in [Answers -> {"none", "ensure", "out"}]
  /\ via \in [Answers -> Procs]
  /\ mail \in [Procs -> SUBSET Answers]
  /\ shaky \subseteq Requests
  /\ faults \in 0..MaxFaults
  /\ \A p \in Procs : sub[p] # "ready" => mail[p] = {}

Init ==
  /\ owner \in [Requests -> Procs]
  /\ pc = [r \in Requests |-> "new"]
  /\ outcome = [r \in Requests |-> "none"]
  /\ futures = [p \in Procs |-> {}]
  /\ sub = [p \in Procs |-> "off"]
  /\ answer = [a \in Answers |-> "none"]
  /\ via \in [Answers -> Procs]
  /\ mail = [p \in Procs |-> {}]
  /\ shaky = {}
  /\ faults = 0

Fault(event) ==
  /\ event \in Env
  /\ faults < MaxFaults
  /\ faults' = faults + 1

NoFault == faults' = faults

-----------------------------------------------------------------------------
(* _ensure_pubsub and _subscriber_loop *)

\* Mutant: only a process that sends commands subscribes.
Ensured_IfOwner(p) ==
  IF futures[p] = {} THEN sub ELSE [sub EXCEPT ![p] = IF @ = "off" THEN "opening" ELSE @]

\* The first caller starts the loop; every caller then waits until it is ready.
Ensured(p) == [sub EXCEPT ![p] = IF @ = "off" THEN "opening" ELSE @]

\* When the client cannot be made, the process goes on without subscription.
Ensure(p, r) ==
  \/ NoFault /\ sub' = Ensured(p) /\ UNCHANGED shaky
  \/ Fault("init") /\ sub[p] = "off" /\ UNCHANGED sub /\ shaky' = shaky \cup {r}

\* Ready once the broker has confirmed the subscription.
Subscribed(p) ==
  /\ sub[p] = "opening"
  /\ sub' = [sub EXCEPT ![p] = "ready"]
  /\ UNCHANGED <<owner, pc, outcome, futures, answer, via, mail, shaky, faults>>

\* The loop sleeps and subscribes again; what is published meanwhile is lost.
SubscriptionBreaks(p) ==
  /\ sub[p] = "ready"
  /\ Fault("sub")
  /\ sub' = [sub EXCEPT ![p] = "opening"]
  /\ mail' = [mail EXCEPT ![p] = {}]
  /\ shaky' = shaky \cup {r \in Requests : owner[r] = p}
  /\ UNCHANGED <<owner, pc, outcome, futures, answer, via>>

-----------------------------------------------------------------------------
(* _send_ui_command *)

End(r, how) ==
  /\ pc' = [pc EXCEPT ![r] = "done"]
  /\ outcome' = [outcome EXCEPT ![r] = how]

Begin(r) ==
  /\ pc[r] = "new"
  /\ pc' = [pc EXCEPT ![r] = "ensure"]
  /\ Ensure(owner[r], r)
  /\ UNCHANGED <<owner, outcome, futures, answer, via, mail>>

\* The wait for the subscription is over, one way or the other: the future is
\* registered before the command goes out to every page of the user.
Send(r) ==
  /\ pc[r] = "ensure"
  /\ \/ /\ \/ sub[owner[r]] # "opening" /\ NoFault /\ UNCHANGED shaky
           \/ Fault("slow") /\ sub[owner[r]] = "opening" /\ shaky' = shaky \cup {r}
        /\ pc' = [pc EXCEPT ![r] = "wait"]
        /\ futures' = [futures EXCEPT ![owner[r]] = @ \cup {r}]
        /\ UNCHANGED outcome
     \/ /\ sub[owner[r]] # "opening"
        /\ Fault("emit")
        /\ End(r, "failed")
        /\ UNCHANGED <<futures, shaky>>
  /\ UNCHANGED <<owner, sub, answer, via, mail>>

\* Mutant: the entry of a request that timed out stays.
Expired_Kept(r) == futures

Expired(r) == [futures EXCEPT ![owner[r]] = @ \ {r}]

Timeout(r) ==
  /\ pc[r] = "wait"
  /\ End(r, "timeout")
  /\ futures' = Expired(r)
  /\ UNCHANGED <<owner, sub, answer, via, mail, shaky, faults>>

\* CancelledError is not caught: the entry stays until an answer comes.
Cancel(r) ==
  /\ pc[r] \in {"ensure", "wait"}
  /\ Fault("cancel")
  /\ End(r, IF pc[r] = "wait" THEN "cancelled" ELSE "failed")
  /\ UNCHANGED <<owner, futures, sub, answer, via, mail, shaky>>

-----------------------------------------------------------------------------
(* register_ui_response *)

\* _local_resolve: the entry goes, and a future nobody waits for is left alone.
Resolve(p, r) ==
  /\ futures' = [futures EXCEPT ![p] = @ \ {r}]
  /\ IF r \in futures[p] /\ pc[r] = "wait"
       THEN End(r, "answered")
       ELSE UNCHANGED <<pc, outcome>>

\* An answer comes in, perhaps long after the request has ended.
Reply(a) ==
  LET r == a[1]  p == via[a] IN
  /\ answer[a] = "none"
  /\ pc[r] = "wait" \/ outcome[r] \in {"answered", "timeout", "cancelled"}
  /\ IF r \in futures[p]
       THEN /\ Resolve(p, r)
            /\ answer' = [answer EXCEPT ![a] = "out"]
            /\ UNCHANGED <<sub, shaky, faults>>
       ELSE /\ answer' = [answer EXCEPT ![a] = "ensure"]
            /\ Ensure(p, r)
            /\ UNCHANGED <<pc, outcome, futures>>
  /\ UNCHANGED <<owner, via, mail>>

Listening == {p \in Procs : sub[p] = "ready"}

\* Everybody who is subscribed at this moment gets the answer; a process
\* without a client drops it.
Forward(a) ==
  /\ answer[a] = "ensure"
  /\ answer' = [answer EXCEPT ![a] = "out"]
  /\ \/ /\ \/ sub[via[a]] = "ready" /\ NoFault
           \/ Fault("slow") /\ sub[via[a]] = "opening"
        /\ mail' = [p \in Procs |-> IF p \in Listening THEN mail[p] \cup {a} ELSE mail[p]]
        /\ UNCHANGED shaky
     \/ sub[via[a]] = "off" /\ NoFault /\ UNCHANGED <<mail, shaky>>
     \/ /\ Fault("publish")
        /\ sub[via[a]] # "off"
        /\ shaky' = shaky \cup {a[1]}
        /\ UNCHANGED mail
  /\ UNCHANGED <<owner, pc, outcome, futures, sub, via>>

\* The subscriber loop of a process takes a message.
Take(p, a) ==
  /\ a \in mail[p]
  /\ mail' = [mail EXCEPT ![p] = @ \ {a}]
  /\ Resolve(p, a[1])
  /\ UNCHANGED <<owner, sub, answer, via, shaky, faults>>

\* Everything in the process is gone; its clients connect to others.
Crash(p) ==
  LET gone == {r \in Requests : owner[r] = p /\ pc[r] \in {"ensure", "wait"}} IN
  /\ Fault("crash")
  /\ sub[p] # "off" \/ gone # {}
  /\ pc' = [r \in Requests |-> IF r \in gone THEN "done" ELSE pc[r]]
  /\ outcome' = [r \in Requests |-> IF r \in gone THEN "lost" ELSE outcome[r]]
  /\ futures' = [futures EXCEPT ![p] = {}]
  /\ sub' = [sub EXCEPT ![p] = "off"]
  /\ mail' = [mail EXCEPT ![p] = {}]
  /\ LET lost == {a \in Answers : via[a] = p /\ answer[a] = "ensure"} IN
     /\ answer' = [a \in Answers |-> IF a \in lost THEN "out" ELSE answer[a]]
     /\ shaky' = shaky \cup {a[1] : a \in lost}
  /\ UNCHANGED <<owner, via>>

-----------------------------------------------------------------------------
Next ==
  \/ \E r \in Requests : Begin(r) \/ Send(r) \/ Timeout(r) \/ Cancel(r)
  \/ \E a \in Answers : Reply(a) \/ Forward(a)
  \/ \E p \in Procs : \/ Subscribed(p) \/ SubscriptionBreaks(p) \/ Crash(p)
                      \/ \E a \in Answers : Take(p, a)

Spec == Init /\ [][Next]_vars

\* The event loops run and Redis answers.  That the 60 seconds pass is not
\* assumed: an answer has to get through by itself.
FairSpec ==
  /\ Spec
  /\ \A r \in Requests : WF_vars(Send(r))
  /\ \A a \in Answers : WF_vars(Forward(a))
  /\ \A p \in Procs : WF_vars(Subscribed(p)) /\ \A a \in Answers : WF_vars(Take(p, a))

-----------------------------------------------------------------------------
(* Properties *)

\* The table of futures does not grow: an entry is one that somebody waits for,
\* in its own process, or whose request was cancelled.
PendingIsAwaited ==
  \A p \in Procs : \A r \in futures[p] :
    owner[r] = p /\ (pc[r] = "wait" \/ outcome[r] = "cancelled")

\* An answer to a request that still waits is under way: it is about to be
\* published, or in the mail of the one process that knows the future - which
\* has been subscribed since before the command went out.
AnswerUnderWay ==
  \A a \in Answers :
    pc[a[1]] = "wait" /\ a[1] \notin shaky /\ answer[a] # "none" =>
      answer[a] = "ensure" \/ a \in mail[owner[a[1]]]

\* The two with the types they rest on: what a step may never break.
FuturesInv == TypeOK /\ PendingIsAwaited /\ AnswerUnderWay

\* A page that answers in time is heard, whichever process its answer comes in
\* at and whether or not that process has ever subscribed, unless a connection
\* to Redis fails.
AnswerGetsThrough ==
  \A r \in Requests :
    (pc[r] = "wait" /\ \E t \in Tabs : answer[<<r, t>>] # "none")
      ~> (pc[r] = "done" \/ r \in shaky)

=============================================================================
