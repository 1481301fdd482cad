SPECIFICATION Spec
CONSTANTS
  Procs = {p1}
  Crons = {{2, 4, 5}, {3, 5}}
  Horizon = 4
  StaleAfter = 1
  MaxRetries = 1
  Env = {"user", "userGone", "db", "crash", "slow", "stall"}
  MaxFaults = 2
INVARIANTS
  StartsInv
