SPECIFICATION FairSpec
CONSTANTS
  Links = {l1}
  Others = {o1}
  Parts = {d1}
  KBs = {k1, k2}
  Procs = {p1}
  Env = {"cancel", "watchdog", "gone", "publish", "db", "crash"}
  MaxFaults = 1
INVARIANTS
  ChainInv
  MatchesReachExtraction
PROPERTIES
  ImplementsChain
  SyncEnds
CHECK_DEADLOCK FALSE
