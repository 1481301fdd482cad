SPECIFICATION Spec
CONSTANTS
  Tasks = {t1, t2}
  Retried = {t1}
  RetryLimit = 1
  Workers = {w1, w2}
  Concurrency = 2
  Env = {"crash", "republish", "flush", "trim", "sweep", "slow"}
  MaxFaults = 2
SYMMETRY WorkerSymmetry
INVARIANTS
  HandlersInv
  OneOutcome
PROPERTIES
  ImplementsDelivery
CHECK_DEADLOCK FALSE
