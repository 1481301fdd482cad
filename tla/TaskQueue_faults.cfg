SPECIFICATION FairSpec
CONSTANTS
  Tasks = {t1, t2}
  Retried = {t1}
  RetryLimit = 1
  Workers = {w1, w2}
  Concurrency = 2
  Env = {"crash", "ack", "destroy"}
  MaxFaults = 2
INVARIANTS
  NoSilentLoss
PROPERTIES
  EveryTaskEnds
CHECK_DEADLOCK FALSE
