SPECIFICATION FairSpec
CONSTANTS
  Requests = {r1, r2, r3}
  Procs = {p1, p2}
  MaxAttempts = 2
  Env = {"transient", "timeout", "audit", "crash"}
  MaxFaults = 3
INVARIANTS
  LockInv
  OncePerProcess
  AnswersAreTrue
PROPERTIES
  EveryRequestEnds
CHECK_DEADLOCK FALSE
