SPECIFICATION FairSpec
CONSTANTS
  Requests = {r1, r2}
  Tabs = {t1}
  Procs = {p1, p2}
  Env = {"cancel", "init", "slow", "sub", "publish", "emit", "crash"}
  MaxFaults = 2
INVARIANTS
  FuturesInv
PROPERTIES
  AnswerGetsThrough
CHECK_DEADLOCK FALSE
